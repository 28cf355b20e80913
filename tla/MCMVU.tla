------------------------------- MODULE MCMVU -------------------------------
(***************************************************************************)
(* A small instance of MVUSystem: words of WordBits bits, the sum of       *)
(* mvu.bsv as the hash, and two tree shapes.                               *)
(***************************************************************************)
EXTENDS MVUTrustInv, SequencesExt

CONSTANTS WordCount

MCWord == 0..WordCount-1

(* compute_hash: the sum of the children, modulo the word size.            *)
SumHash(g) == FoldFunction(LAMBDA x, y : (x + y) % WordCount, 0, g)

(* Two lines under a level-1 group in memory; levels 2 and 3 in the HCache *)
(* and level 2 a short group, as level 6 of the hardware is.               *)
ShortTree == 0 :> 4 @@ 1 :> 2 @@ 2 :> 1 @@ 3 :> 1
(* Four lines, full groups.                                                *)
FullTree == 0 :> 8 @@ 1 :> 4 @@ 2 :> 2 @@ 3 :> 1

(* Contents whose hashes collide and whose words differ.                   *)
SomeData == {[k \in Pos |-> 0], [k \in Pos |-> IF k = 0 THEN 0 ELSE 1], [k \in Pos |-> 1]}
TwoData == {[k \in Pos |-> 0], [k \in Pos |-> IF k = 0 THEN 0 ELSE 1]}
AllData == [Pos -> Word]

(* A fault hits memory at rest: nothing is under way in the unit, and the  *)
(* HCache already watches every protected word.                            *)
FaultsAtRest ==
  faults' # faults =>
    /\ rg_state = "IDLE" /\ inflight = <<>> /\ ff_evict_req = <<>>
    /\ \A a \in Addr : is_protected(a) => watched(a)
RestSpec == Init /\ [][Next /\ FaultsAtRest]_vars
=============================================================================
