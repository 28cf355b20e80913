---------------------------- MODULE MCNodeStores ----------------------------
(***************************************************************************)
(* The two stores of tree nodes, on small instances: the tree memory with  *)
(* a binary tree of four levels, three of them in memory as in the         *)
(* hardware, behind a line of data per leaf, and the register file of the  *)
(* two levels above.  They share no state: a behaviour exercises the one   *)
(* that part names, and the other rests.                                   *)
(***************************************************************************)
EXTENDS TreeMemoryInv, HCacheStore, TLC

VARIABLE part

BinaryTree == 0 :> 32 @@ 1 :> 16 @@ 2 :> 8 @@ 3 :> 4 @@ 4 :> 2 @@ 5 :> 1
Bit == {0, 1}

ASSUME TreeMemoryAssumptions ==
  LayoutAssumption /\ StoreAssumption /\ NothingAssumption

InChip == part = "chip"
InTree == part = "tree"

AtRest == [a \in HAddr |-> [valid |-> FALSE, hash |-> Zero]]
MCInit ==
  /\ part \in {"chip", "tree"}
  /\ ChipInit /\ (InTree => rf_nodes = AtRest)
  /\ Init /\ (InChip => dram = [a \in DramAddr |-> Zero])

ChipStep == InChip /\ ChipNext /\ UNCHANGED <<part, vars>>
TreeStep == InTree /\ Next /\ UNCHANGED <<part, chipVars>>
MCNext == ChipStep \/ TreeStep

(* The fairness of TreeMemory, in the behaviours that exercise it.         *)
MCSpec ==
  /\ MCInit /\ [][MCNext]_<<part, vars, chipVars>>
  /\ WF_vars(InTree /\ Adapter)
  /\ WF_vars(InTree /\ Bridge)
  /\ WF_vars(InTree /\ Memory)
  /\ WF_vars(InTree /\ UnitTakes)
=============================================================================
