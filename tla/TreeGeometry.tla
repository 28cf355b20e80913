---------------------------- MODULE TreeGeometry ----------------------------
(***************************************************************************)
(* The shape of the integrity tree, the words it is over and the address   *)
(* arithmetic on it, as hcache.bsv and mvu.bsv compute them.  Addresses    *)
(* count 8-byte words (the leaf size), so `>> 3' on a byte address is the  *)
(* identity here and `>> 3' on a tree index is a division by Arity.        *)
(*                                                                         *)
(* In the hardware: Arity = 8, Height = 7, MinHwLevel = 4,                 *)
(* NodeCount = 524288 leaves, then 65536, 8192, 1024, 128, 16, 2, 1 nodes. *)
(***************************************************************************)
EXTENDS Integers

CONSTANTS
  Arity,         \* children of a node, and words of a cache line
  Height,        \* the level of the root; leaves are level 0
  MinHwLevel,    \* the lowest level kept in the HCache
  NodeCount,     \* NodeCount[l]: nodes of level l, leaves for l = 0
  ProtectedBase, \* the first protected word
  Word,          \* contents of an 8-byte word: data, or a node's hash
  Zero           \* the word 0

Levels == 1..Height

(* The last group of a level may be short only where the HCache holds it   *)
(* (level 6 has 2 nodes of a group of 8): a level in memory is full.       *)
ASSUME GeometryAssumption ==
  /\ Arity \in 2..16
  /\ Height \in Nat /\ MinHwLevel \in 2..Height
  /\ ProtectedBase \in Nat /\ ProtectedBase % Arity = 0
  /\ NodeCount \in [0..Height -> Nat \ {0}]
  /\ NodeCount[Height] = 1
  /\ \A l \in 0..Height-1 : NodeCount[l] <= Arity * NodeCount[l+1]
  /\ \A l \in 0..MinHwLevel-1 : NodeCount[l] = Arity * NodeCount[l+1]

Pos == 0..Arity-1

ProtectedLimit == ProtectedBase + NodeCount[0]
Addr == 0..ProtectedLimit-1

is_protected(addr) == addr >= ProtectedBase /\ addr < ProtectedLimit
addr_to_leaf_index(addr) == addr - ProtectedBase

child_position(index) == index % Arity
parent_index(index) == index \div Arity
sibling_group_base(index) == parent_index(index) * Arity
child_index(parent, k) == parent * Arity + k

(* ancestor(leaf)[l] is the node of level l above a leaf.                  *)
ancestor(leaf) ==
  LET up[l \in 0..Height] == IF l = 0 THEN leaf ELSE parent_index(up[l-1]) IN up

is_hw_level(level) == level >= MinHwLevel /\ level <= Height

(* Slots: the indices a sibling group may name, including the slots of a   *)
(* short last group, which have storage but no node.                       *)
Slots(level) ==
  IF level = Height THEN {0} ELSE 0..(Arity * NodeCount[level+1] - 1)
NodesOf(level) == 0..(NodeCount[level] - 1)

HwNode == UNION {{l} \X Slots(l) : l \in MinHwLevel..Height}
MemNode == UNION {{l} \X Slots(l) : l \in 1..MinHwLevel-1}

(* Cache lines are named by their number in the address space.             *)
line_of(addr) == addr \div Arity
line_base(line) == line * Arity
Line == 0..(ProtectedLimit \div Arity - 1)
ProtectedLine == {l \in Line : is_protected(line_base(l))}
=============================================================================
