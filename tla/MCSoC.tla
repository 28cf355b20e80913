------------------------------- MODULE MCSoC -------------------------------
(***************************************************************************)
(* A small instance of MemVerSoC: lines of two words, a tree of two        *)
(* levels, the lower in memory and the root in the HCache.                 *)
(***************************************************************************)
EXTENDS MemVerSoC, SequencesExt

CONSTANTS WordCount

MCWord == 0..WordCount-1
SumHash(g) == FoldFunction(LAMBDA x, y : (x + y) % WordCount, 0, g)

(* Two protected lines.                                                    *)
TwoLines == 0 :> 4 @@ 1 :> 2 @@ 2 :> 1
(* One pattern of dirty words: evictions differ by how often they add it.   *)
OneData == {[k \in Pos |-> IF k = 0 THEN 0 ELSE 1]}
AllData == [Pos -> Word]
=============================================================================
