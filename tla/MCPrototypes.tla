---------------------------- MODULE MCPrototypes ----------------------------
(***************************************************************************)
(* The prototypes that run as programs, on small instances: the hash       *)
(* library, the first tree and the sparse tree.  They share no state: a    *)
(* behaviour exercises the one that part names, and the others rest.       *)
(*                                                                         *)
(* The hash library has its real chunk of 64 bytes.  A message is a prefix *)
(* of one stream, in which a byte tells its place in the chunk and the     *)
(* first byte of a chunk which chunk it is.  Its pieces reach every        *)
(* residue, and the boundaries 55, 56, 63, 64 in one update or in several. *)
(***************************************************************************)
EXTENDS HashStream

CONSTANTS
  PieceSizes,
  BlockValue, MaxBlocks,   \* of the first tree
  LeafValue, depth,        \* of the sparse one
  Padding, sha256(_)       \* "0" and the hash, in both

VARIABLES part, levels, value, latest, nodes, root, leaves

Ones == {[i \in 1..64 |-> 255]}
Bytes == 0..255
stream(i) == IF i % 64 = 0 THEN 200 + i \div 64 ELSE i % 64
MCPieces(n) == {[i \in 1..s |-> stream(n + i)] : s \in {p \in PieceSizes : n + p <= MaxMessage}}

(* Of the hashes the trees may have, the one that shows every slip of      *)
(* their builders: no two strings hash alike.  That of the first tree is   *)
(* none of this kind; what is stated of both trees is stated of any hash.  *)
FreeHash(string) == <<string>>
Built == INSTANCE MerkleProto WITH Value <- BlockValue
Sparse == INSTANCE SparseTree WITH Value <- LeafValue, Empty <- Padding, value <- leaves

ASSUME TreeAssumptions == Built!BlocksAssumption /\ Sparse!DepthAssumption

builtVars == <<levels, value, latest>>
sparseVars == <<nodes, root, leaves>>

MCInit ==
  /\ part \in {"stream", "built", "sparse"}
  /\ Init
  /\ Built!Init /\ (part # "built" => value \in [{1} -> {CHOOSE v \in BlockValue : TRUE}])
  /\ Sparse!Init

StreamStep == part = "stream" /\ Next /\ UNCHANGED <<part, builtVars, sparseVars>>
BuiltStep == part = "built" /\ Built!Next /\ UNCHANGED <<part, vars, sparseVars>>
SparseStep == part = "sparse" /\ Sparse!Next /\ UNCHANGED <<part, vars, builtVars>>
MCNext == StreamStep \/ BuiltStep \/ SparseStep
MCSpec == MCInit /\ [][MCNext]_<<part, vars, builtVars, sparseVars>>

(* OwnVerified of MerkleProto: the data a block holds is verified unless   *)
(* an ancestor was last updated from its right.                            *)
OwnVerified == Built!OwnVerified

(* RootOfValues and NodesOfValues of SparseTree: the root, and every node  *)
(* stored or absent, is that of the whole tree over the values set.        *)
SparseIsWhole == Sparse!RootOfValues /\ Sparse!NodesOfValues
=============================================================================
