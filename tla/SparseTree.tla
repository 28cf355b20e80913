----------------------------- MODULE SparseTree -----------------------------
(***************************************************************************)
(* The sparse prototype (trees/smkt-sha256.cpp): only nodes on the path of *)
(* a leaf that was set are stored, under the prefix of its key; an absent  *)
(* node stands for a whole empty subtree.                                  *)
(***************************************************************************)
EXTENDS Integers, Sequences

CONSTANTS
  Value,
  Empty,         \* the text "0" an empty leaf is hashed as
  depth,
  sha256(_)      \* hash of a string: a text or two hashes

DepthAssumption == depth \in Nat

VARIABLES
  nodes,         \* prefix of a key -> hash
  root,
  value          \* what each key was last given

vars == <<nodes, root, value>>

KeyBits == [1..depth -> {0, 1}]
Prefix == UNION {[1..n -> {0, 1}] : n \in 0..depth}

text(v) == <<v>>
concat(a, b) == <<a, b>>

defaultHashes ==
  LET defaults[i \in 0..depth] ==
        IF i = 0 THEN sha256(text(Empty))
        ELSE sha256(concat(defaults[i - 1], defaults[i - 1]))
  IN defaults

Init ==
  /\ nodes = <<>>
  /\ root = defaultHashes[depth]
  /\ value = [key \in KeyBits |-> Empty]

flipped(key) == [key EXCEPT ![Len(key)] = 1 - @]

(* An absent sibling of a node of a level, counted from the leaves.        *)
sibling_hash_mutant(key, level) ==
  LET sibling == flipped(key)
  IN IF sibling \in DOMAIN nodes THEN nodes[sibling] ELSE defaultHashes[0]
sibling_hash(key, level) ==
  LET sibling == flipped(key)
  IN IF sibling \in DOMAIN nodes THEN nodes[sibling] ELSE defaultHashes[level]

(* The path of a key from its leaf (level 0) to the root.                  *)
prefix(keyBits, level) == SubSeq(keyBits, 1, depth - level)
path(keyBits, new_value) ==
  LET current[level \in 0..depth] ==
        IF level = 0 THEN sha256(text(new_value))
        ELSE LET below == prefix(keyBits, level - 1)
                 other == sibling_hash(below, level - 1)
             IN IF below[Len(below)] = 0
                THEN sha256(concat(current[level - 1], other))
                ELSE sha256(concat(other, current[level - 1]))
  IN current

update(keyBits, new_value) ==
  LET current == path(keyBits, new_value)
      on_path == {prefix(keyBits, level) : level \in 0..depth}
  IN /\ Len(keyBits) = depth
     /\ nodes' = [p \in DOMAIN nodes \cup on_path |->
                    IF p \in on_path THEN current[depth - Len(p)] ELSE nodes[p]]
     /\ root' = current[depth]
     /\ value' = [value EXCEPT ![keyBits] = new_value]

(* A key of another length is reported and changes nothing.                *)
update_refused(keyBits) == Len(keyBits) # depth /\ UNCHANGED vars

Next == \E keyBits \in Prefix :
  update_refused(keyBits) \/ \E new_value \in Value : update(keyBits, new_value)
Spec == Init /\ [][Next]_vars

-----------------------------------------------------------------------------
(* The whole tree over the values, every leaf of it hashed.                *)
whole_tree ==
  LET hash[p \in Prefix] ==
        IF Len(p) = depth THEN sha256(text(value[p]))
        ELSE sha256(concat(hash[Append(p, 0)], hash[Append(p, 1)]))
  IN hash

(* The root is a function of what the keys hold, whatever was set, set     *)
(* again or never set, and in whatever order: the defaults and the nodes   *)
(* stored add up to the tree with every leaf in it.                        *)
RootOfValues == root = whole_tree[<<>>]

(* A node that is stored is the hash of its subtree of that tree, so no    *)
(* later update folds a stale sibling; a node that is not covers only      *)
(* empty leaves.                                                           *)
NodesOfValues == \A p \in Prefix :
  whole_tree[p] = IF p \in DOMAIN nodes THEN nodes[p] ELSE defaultHashes[depth - Len(p)]
=============================================================================
