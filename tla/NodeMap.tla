------------------------------ MODULE NodeMap ------------------------------
(***************************************************************************)
(* What the verification unit assumes of the HCache (get_hash and set_hash *)
(* of MVU): a map from the nodes of the hardware levels to the hash last   *)
(* set, Invalid before the first; other levels have none.                  *)
(***************************************************************************)
EXTENDS TreeGeometry

CONSTANT Invalid

VARIABLES nodes, found

vars == <<nodes, found>>

Init == nodes = [n \in HwNode |-> Invalid] /\ found = Invalid

Get(level, index) ==
  /\ found' = IF is_hw_level(level) THEN nodes[<<level, index>>] ELSE Invalid
  /\ UNCHANGED nodes

Set(level, index, hash) ==
  /\ nodes' = IF is_hw_level(level) THEN [nodes EXCEPT ![<<level, index>>] = hash] ELSE nodes
  /\ UNCHANGED found

Next == \E level \in Levels : \E index \in Slots(level) :
  Get(level, index) \/ \E hash \in Word : Set(level, index, hash)
Spec == Init /\ [][Next]_vars
=============================================================================
