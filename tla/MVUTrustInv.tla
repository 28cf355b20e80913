--------------------------- MODULE MVUTrustInv ---------------------------
(***************************************************************************)
(* What the unit's verdict rests on, as an inductive invariant on top of   *)
(* IInv: the order of the beats on their way to the cache (Delivery), what *)
(* the beats hold (Beats), and the tree with a walk under way (Tree).      *)
(*                                                                         *)
(* The tree is compared with `written', what the cache last wrote, and not *)
(* with memory: after a corruption of data the two differ, and the tree    *)
(* has to tell.                                                            *)
(***************************************************************************)
EXTENDS MVUSystemInv

(* The fault model under which the unit promises correct data: at most one *)
(* corruption, and never beside an error of the bus.                       *)
OneFault == MaxFaults <= 1 /\ ~Together
(* Words that memory no longer holds as the cache wrote them.              *)
Tampered == {a \in Addr : data[a] # written[a]}
(* The tree has not been touched by a corruption or a failed access.       *)
Sound == Honest \/ (OneFault /\ errors = 0 /\ Tampered # {})
(* The level up to which the tree speaks for `written': first-seen nodes   *)
(* above the lowest HCache level may be stored from a corrupted line.      *)
Top == IF faults = 0 THEN Height ELSE MinHwLevel

-----------------------------------------------------------------------------
(* Delivery.  The beats of the read the unit works on that have gone to    *)
(* the cache: Drawn counts those taken from memory.                        *)
Drawn ==
  IF burst # Invalid THEN burst.beat - Len(ff_resp_from_mem)
  ELSE IF ff_resp_from_mem # <<>> THEN rg_pending_req.len + 1 - Len(ff_resp_from_mem)
  ELSE 0
Sent ==
  IF rg_state = "FORWARD_TO_CACHE" THEN rg_forward_beat
  ELSE IF rg_pending_req # Invalid /\ ~rg_from_protected THEN Drawn
  ELSE 0

(* The read and the beat that the first and the second response answer,    *)
(* and those the next one will.                                            *)
After(place, resp) ==
  IF resp.last THEN [read |-> place.read + 1, beat |-> 0]
  ELSE [read |-> place.read, beat |-> place.beat + 1]
FirstPlace == [read |-> 1, beat |-> got]
SecondPlace == After(FirstPlace, ff_resp_to_cache[1])
NextPlace ==
  IF ff_resp_to_cache = <<>> THEN FirstPlace
  ELSE IF Len(ff_resp_to_cache) = 1 THEN SecondPlace
  ELSE After(SecondPlace, ff_resp_to_cache[2])
PlaceOf(k) == IF k = 1 THEN FirstPlace ELSE SecondPlace
LastWhere(k) ==
  ff_resp_to_cache[k].last <=> PlaceOf(k).beat = inflight[PlaceOf(k).read].len

(* Beats leave in the order and number the cache expects.                  *)
InOrder ==
  /\ NextPlace = [read |-> Answered + 1, beat |-> Sent]
  /\ \A k \in DOMAIN ff_resp_to_cache :
       PlaceOf(k).read \in DOMAIN inflight /\ LastWhere(k)
  /\ got > 0 => inflight # <<>> /\ got <= inflight[1].len
  /\ rg_state = "FORWARD_TO_CACHE" => inflight[Answered + 1].len = Arity - 1

(* While no access failed, only the verdict sets err, and the beats of one *)
(* line agree on it.                                                       *)
Verdict == rg_state = "FORWARD_TO_CACHE" /\ rg_mvu_error
ErrsAgree ==
  errors = 0 =>
    /\ \A k \in DOMAIN ff_resp_from_mem : ~ff_resp_from_mem[k].err
    /\ \A k \in Pos : ~rg_buffered_responses[k].err
    /\ \A k \in DOMAIN ff_resp_to_cache : ~ff_resp_to_cache[k].last =>
         ff_resp_to_cache[k].err =
           IF k = Len(ff_resp_to_cache) THEN Verdict ELSE ff_resp_to_cache[k + 1].err
Delivery == InOrder /\ ErrsAgree

-----------------------------------------------------------------------------
(* Lines.  A line is in the cache, being read, or on its way into the      *)
(* tree, and only one of these (OrderLine).                                *)
ReadLines == {line_of(r.addr) : r \in Entries(inflight)}
EvictLine(k) == line_of(ff_evict_req[k].addr)
ProtectedEvict == {k \in DOMAIN ff_evict_req : is_protected(ff_evict_req[k].addr)}
OnePlace ==
  /\ held \cap ReadLines = {} /\ Unfolded \cap (held \cup ReadLines) = {}
  /\ \A j, k \in DOMAIN inflight : line_of(inflight[j].addr) = line_of(inflight[k].addr) => j = k
  /\ \A j, k \in ProtectedEvict : EvictLine(j) = EvictLine(k) => j = k
  /\ rg_is_update => \A k \in ProtectedEvict : EvictLine(k) # leaf_line

(* An eviction on its way, and the one being folded in, hold what was      *)
(* written.                                                                *)
EvictsWritten ==
  /\ \A k \in ProtectedEvict :
       /\ ff_evict_req[k].addr = line_base(EvictLine(k))
       /\ ff_evict_req[k].data = line_data(written, EvictLine(k))
  /\ rg_is_update =>
       /\ rg_base_leaf_index = addr_to_leaf_index(line_base(leaf_line))
       /\ leaf_line \in ProtectedLine
       /\ rg_leaves = line_data(written, leaf_line)

(* Corruption only hits protected words that the HCache watches.           *)
FaultsWatched ==
  /\ faults = 0 => Tampered = {}
  /\ \A a \in Tampered : is_protected(a) /\ watched(a)
  /\ OneFault => \A a, b \in Tampered : a = b
  /\ OneFault => (errors = 0 \/ faults = 0)
Lines == OnePlace /\ EvictsWritten /\ FaultsWatched

-----------------------------------------------------------------------------
(* Beats.  A beat of a read is what was written, or says err, or comes     *)
(* from a corrupted word.                                                  *)
Faithful(resp, req, k) == resp.err \/ resp.data = written[wrap(req, k)]
Plausible(resp, req, k) == Faithful(resp, req, k) \/ wrap(req, k) \in Tampered
Promised == Honest \/ OneFault
BeatsArriving ==
  \A j \in DOMAIN ff_resp_from_mem :
    Plausible(ff_resp_from_mem[j], rg_pending_req, Drawn + j - 1)
BeatsCollected ==
  rg_from_protected =>
    \A k \in Pos : (rg_state = "ACCUMULATING" => k < rg_beat_count) =>
      /\ Plausible(rg_buffered_responses[k], rg_pending_req, k)
      /\ rg_leaves[k] = rg_buffered_responses[k].data
BeatsCleared ==
  (rg_state = "FORWARD_TO_CACHE" /\ ~rg_mvu_error) =>
    \A k \in Pos : Faithful(rg_buffered_responses[k], inflight[Answered + 1], k)
BeatsQueued ==
  \A k \in DOMAIN ff_resp_to_cache :
    Faithful(ff_resp_to_cache[k], inflight[PlaceOf(k).read], PlaceOf(k).beat)
Beats == Promised => BeatsArriving /\ BeatsCollected /\ BeatsCleared /\ BeatsQueued

-----------------------------------------------------------------------------
(* Tree.  The group a walk gathers: the node's own hash, and beside it the *)
(* siblings as they are stored.                                            *)
here == child_position(rg_current_index)
sibling(k) == node(rg_current_level, sibling_group_base(rg_current_index) + k)
GroupHere == [k \in Pos |-> IF k = here THEN rg_my_node_hash ELSE sibling(k)]

Gathering == {"FETCH_SIBLINGS", "WAIT_SIBLINGS", "FETCH_HCACHE_SIBLINGS", "COMPUTE_PARENT"}
Computed == {"CHECK_PARENT", "UPDATE_NODE", "WAIT_UPDATE_ACK", "PROPAGATE_UP"}
Gathered ==
  /\ rg_state \in Gathering => rg_node_group[here] = rg_my_node_hash
  /\ (rg_state = "WAIT_SIBLINGS" /\ ff_tree_resp # <<>>) =>
       \A k \in Pos \ {here} : Head(ff_tree_resp)[k] = sibling(k)
  /\ rg_state = "FETCH_HCACHE_SIBLINGS" =>
       \A k \in Pos \ {here} : k < rg_sibling_ptr => rg_node_group[k] = sibling(k)
  /\ rg_state = "COMPUTE_PARENT" => rg_node_group = GroupHere
  /\ (rg_state \in Computed /\ rg_current_level < Height) =>
       rg_computed_parent = Hash(GroupHere)

(* The walk climbs from the leaf it started at.                            *)
OnPath ==
  rg_state \in Walking =>
    rg_current_index = ancestor(rg_base_leaf_index)[rg_current_level]

(* An update stores the node it is at between UPDATE_NODE and the next     *)
(* level; before that the node is behind its children, after it the parent *)
(* is.                                                                     *)
NodeStored ==
  \/ rg_state \in {"PROPAGATE_UP", "COMPLETE"}
  \/ rg_state = "WAIT_UPDATE_ACK" /\ ff_tree_write = <<>>
Behind ==
  IF ~rg_is_update \/ rg_state \notin Walking THEN <<0, 0>>
  ELSE IF NodeStored THEN <<rg_current_level + 1, parent_index(rg_current_index)>>
  ELSE <<rg_current_level, rg_current_index>>
ChildrenHash(level, index) == Hash([k \in Pos |-> node(level - 1, child_index(index, k))])
LeafFolded(line) == node(1, leaf_node(line)) = Hash(line_data(written, line))
LeafStored ==
  rg_is_update /\ rg_state \in Walking /\ (rg_current_level > 1 \/ NodeStored)
Folded(line) == line \notin Unfolded \/ (line = leaf_line /\ LeafStored)
TreeFolded ==
  /\ \A line \in ProtectedLine : Folded(line) => LeafFolded(line)
  /\ \A level \in 2..Top : \A index \in NodesOf(level) :
       <<level, index>> # Behind => NodeConsistent(level, index)

(* What an update carries up is the hash the node must get.                *)
UpdateRight ==
  (rg_is_update /\ rg_state \in Walking) =>
    /\ rg_my_node_hash =
         IF rg_current_level = 1 THEN Hash(line_data(written, leaf_line))
         ELSE ChildrenHash(rg_current_level, rg_current_index)
    /\ NodeStored => node(rg_current_level, rg_current_index) = rg_my_node_hash

(* What a verification carries up is the stored hash if the line it read   *)
(* is what was written; if it is not, it differs all the way to the first  *)
(* node of the HCache, and from there on the error is set.                 *)
Clean == \A k \in Pos : rg_leaves[k] = written[wrap(rg_pending_req, k)]
Compared ==
  rg_current_level > MinHwLevel \/ (rg_current_level = MinHwLevel /\ rg_state # "CHECK_PARENT"
                                    /\ rg_state \notin Gathering)
VerifyRight ==
  (rg_from_protected /\ rg_state \in Walking) =>
    IF Clean
    THEN rg_current_level <= Top =>
           rg_my_node_hash = node(rg_current_level, rg_current_index)
    ELSE IF Compared THEN rg_mvu_error
    ELSE rg_my_node_hash # node(rg_current_level, rg_current_index)

Tree ==
  /\ OnPath
  /\ rg_trusted_root = Zero
  /\ NoFalseAlarm
  /\ Sound => Gathered /\ TreeFolded /\ UpdateRight /\ VerifyRight

Trust == Delivery /\ (OrderLine => Lines /\ Beats /\ Tree)
=============================================================================
