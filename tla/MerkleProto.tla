---------------------------- MODULE MerkleProto ----------------------------
(***************************************************************************)
(* The first prototype of the tree (trees/mkt-sha256.cpp, compiled for the *)
(* core as software/tests/mkt/mkt.cpp): build, update of a leaf, and       *)
(* verification of an element against the root.  A tree is its levels, a   *)
(* level the hashes of its nodes from left to right; parent, sibling and   *)
(* is_left are then arithmetic on positions.                               *)
(***************************************************************************)
EXTENDS Integers, Sequences

CONSTANTS
  Value,           \* contents of blocks
  Padding,         \* the block "0" whose hash fills an odd level
  MaxBlocks,       \* bound: blocks of a tree
  sha256(_)        \* what sha256() returns for a string: a text or two hashes

(* Nothing is asked of sha256 but that it returns the same for the same    *)
(* string: what the program returns has little to do with the string.      *)
BlocksAssumption == MaxBlocks \in Nat \ {0}

VARIABLES
  levels,          \* levels[k + 1][i]: hash of node i of level k, leaves at 0
  value,           \* what each block was last given
  latest           \* history: the block last updated under each node, or 0

vars == <<levels, value, latest>>

text(v) == <<v>>
concat(a, b) == <<a, b>>

filled(level) ==
  IF Len(level) % 2 = 1 THEN Append(level, sha256(text(Padding))) ELSE level
parents(level) ==
  [i \in 1..Len(level) \div 2 |-> sha256(concat(level[2 * i - 1], level[2 * i]))]

(* buildMerkleTree: levels until one node is left, which is not filled up. *)
buildMerkleTree(data_block) ==
  LET hashed == filled([i \in DOMAIN data_block |-> sha256(text(data_block[i]))])
      grow[n \in 1..MaxBlocks + 1] ==
        IF n = 1 THEN <<hashed>>
        ELSE LET below == grow[n - 1]
                 top == below[Len(below)]
                 next == parents(top)
             IN IF Len(top) = 1 THEN below
                ELSE Append(below, IF Len(next) = 1 THEN next ELSE filled(next))
  IN grow[MaxBlocks + 1]

Init ==
  /\ \E n \in 1..MaxBlocks : value \in [1..n -> Value]
  /\ levels = buildMerkleTree(value)
  /\ latest = [l \in DOMAIN levels |-> [node \in DOMAIN levels[l] |-> 0]]

(* The ancestors of a leaf, level by level, and their siblings.            *)
height == Len(levels) - 1
parent(node) == (node + 1) \div 2
ancestor(leaf, level) ==
  LET up[k \in 0..level] == IF k = 0 THEN leaf ELSE parent(up[k - 1]) IN up[level]
is_left(node) == node % 2 = 1
sibling(node) == IF is_left(node) THEN node + 1 ELSE node - 1
sibling_hash(leaf, level) == levels[level + 1][sibling(ancestor(leaf, level))]

(* An update puts the node first, whichever side it is on.                 *)
current_first(current, other) == concat(current, other)
(* A verification goes by is_left.                                         *)
by_side_mutant(node, current, other) == concat(current, other)
by_side(node, current, other) ==
  IF is_left(node) THEN concat(current, other) ELSE concat(other, current)

(* Every hash on the path of a leaf, its own given, as the verification or *)
(* the update computes it.                                                 *)
path(leaf, hash, verifying) ==
  LET climb[level \in 0..height] ==
        IF level = 0 THEN hash
        ELSE LET node == ancestor(leaf, level - 1)
                 other == sibling_hash(leaf, level - 1)
             IN sha256(IF verifying THEN by_side(node, climb[level - 1], other)
                       ELSE current_first(climb[level - 1], other))
  IN climb

updateMerkleTree(leaf, new_val) ==
  LET hashes == path(leaf, sha256(text(new_val)), FALSE)
  IN levels' = [l \in DOMAIN levels |->
                  [levels[l] EXCEPT ![ancestor(leaf, l - 1)] = hashes[l - 1]]]

verifyElement(index, data) ==
  path(index, sha256(text(data)), TRUE)[height] = levels[height + 1][1]

Update == \E leaf \in DOMAIN value, new_val \in Value :
  /\ updateMerkleTree(leaf, new_val)
  /\ value' = [value EXCEPT ![leaf] = new_val]
  /\ latest' = [l \in DOMAIN latest |-> [latest[l] EXCEPT ![ancestor(leaf, l - 1)] = leaf]]

Next == Update
Spec == Init /\ [][Next]_vars

-----------------------------------------------------------------------------
(* A node was last made from its left child, or is as it was built.        *)
from_left(level, node) ==
  LET leaf == latest[level + 1][node]
  IN leaf # 0 => is_left(ancestor(leaf, level - 1))

(* What verifyElement is for, as far as it goes: whatever was updated and  *)
(* in whatever order, the data a block holds is verified unless the last   *)
(* update under one of its ancestors came from the right of it, where      *)
(* updateMerkleTree joins the two hashes the wrong way round.  The number  *)
(* of blocks, the levels filled up and sha256 play no part.                *)
OwnVerified == \A i \in DOMAIN value :
  (\A level \in 1..height : from_left(level, ancestor(i, level))) => verifyElement(i, value[i])

(* The data a block holds is verified.                                     *)
CurrentVerified == \A i \in DOMAIN value : verifyElement(i, value[i])

(* Whatever was updated, in whatever order, data other than what a block   *)
(* was last given is refused: only of a sha256 that tells strings apart.   *)
OthersRefused == \A i \in DOMAIN value : \A v \in Value :
  verifyElement(i, v) => v = value[i]
=============================================================================
