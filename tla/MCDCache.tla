------------------------------ MODULE MCDCache ------------------------------
(***************************************************************************)
(* Small instances of DCache: direct-mapped sets of which two tags compete *)
(* for one, and programs made of a few kinds of access.                    *)
(***************************************************************************)
EXTENDS DCache, TLC

CONSTANTS Tags, Sets, Words

MCTag == 0..Tags - 1
MCSet == 0..Sets - 1
MCWord == 0..Words - 1

Access(kind, a, mask) == [access |-> kind, addr |-> a, mask |-> mask]
a00 == <<0, 0, 0>>
a10 == <<1, 0, 0>>
fence == Access("fence", a00, {})
Kinds(kinds, addresses) == {Access(k, a, Lane) : k \in kinds, a \in addresses}

dev == <<2, 0, 0>>
FirstLane == {CHOOSE l \in Lane : TRUE}

(* Words of one line of the first set, two lines that share the second, a  *)
(* device register; a store that covers part of a word and an atomic that  *)
(* covers it; the fence.                                                   *)
Mixed ==
  Kinds({"load"}, {a00, <<0, 1, 0>>, dev}) \cup {Access("store", a00, FirstLane)}
  \cup Kinds({"store"}, {<<0, 0, 1>>, <<1, 1, 0>>, dev})
  \cup Kinds({"atomic"}, {a00}) \cup {fence}
ThirdTag == {2}

(* Two lines for one place, a third that the TLB answers with a trap.      *)
Trapping == Kinds({"load", "store"}, {a00, a10}) \cup Kinds({"load"}, {dev}) \cup {fence}
Trapped == Kinds({"load"}, {dev})

(* What the README names to reproduce a refuted statement: two lines for   *)
(* one place; two words of a line, one that traps, and another set; a      *)
(* device behind stores to more lines than the set has places.             *)
Conflict == Kinds({"load", "store"}, {a00, a10}) \cup {fence}
LinesOfSets == Kinds({"load"}, {a00, <<0, 0, 1>>}) \cup Kinds({"store"}, {<<0, 1, 0>>})
LastWord == Kinds({"load"}, {<<0, 0, 1>>})
DeviceBehindStores == Kinds({"store"}, {a00, a10, dev}) \cup Kinds({"load"}, {<<3, 0, 0>>})
SecondTag == {1}
FourthTag == {3}
Nothing == {}

(* The write-back stage starts a store as soon as it may: what is shown    *)
(* then is not owed to a pipeline that dawdles.                            *)
store_can_start ==
  /\ responses # <<>> /\ stores(op) /\ ~answer.trap /\ ~rg_store_initiated
  /\ mv_commit_store_ready /\ ~sb_empty
PromptSpec == Init /\ [][Next /\ (store_can_start => ma_perform_store)]_vars /\ Fairness
=============================================================================
