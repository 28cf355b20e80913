--------------------------- MODULE MVUSystemInv ---------------------------
(***************************************************************************)
(* The inductive invariant of MVUSystem, in named parts.  It holds when    *)
(* the cache side orders uncached reads and evictions (OrderIO); TLC       *)
(* checks it as an invariant, MVUSystemProofs proves it.                   *)
(***************************************************************************)
EXTENDS MVUSystem

(* States of a session in which the unit knows a tree node.                *)
Walking ==
  {"FETCH_SIBLINGS", "WAIT_SIBLINGS", "FETCH_HCACHE_SIBLINGS", "COMPUTE_PARENT",
   "CHECK_PARENT", "UPDATE_NODE", "WAIT_UPDATE_ACK", "PROPAGATE_UP",
   "VERIFY_ROOT", "COMPLETE"}
ReadOnly == {"ACCUMULATING", "CHECK_PARENT", "VERIFY_ROOT"}
UpdateOnly == {"UPDATE_NODE", "WAIT_UPDATE_ACK"}
Resting == {"IDLE", "FORWARD_TO_CACHE"}
BelowRoot == {"WAIT_SIBLINGS", "FETCH_HCACHE_SIBLINGS", "COMPUTE_PARENT", "PROPAGATE_UP",
              "WAIT_UPDATE_ACK"}

(* A session is an update or the verification of the pending read; an      *)
(* unprotected read is pending only in IDLE.  Nothing in the processor     *)
(* calls ma_enable, so the unit stays enabled.                             *)
Session ==
  /\ rg_mvu_enabled
  /\ rg_state \in Resting => ~rg_is_update /\ ~rg_from_protected
  /\ rg_state \notin Resting => (rg_from_protected <=> ~rg_is_update)
  /\ rg_state \in ReadOnly => rg_from_protected
  /\ rg_state \in UpdateOnly => rg_is_update
  /\ rg_from_protected =>
       /\ rg_pending_req \in ReadReq /\ is_protected(rg_pending_req.addr)
       /\ rg_base_leaf_index = addr_to_leaf_index(rg_pending_req.addr)
  /\ rg_is_update => rg_pending_req = Invalid
  /\ rg_state = "FORWARD_TO_CACHE" => rg_pending_req = Invalid
  /\ (rg_pending_req # Invalid /\ ~rg_from_protected) => ~is_protected(rg_pending_req.addr)

(* The cursor names a node of the tree, at a level the state allows.       *)
Cursor ==
  /\ rg_state \in Walking =>
       rg_current_level \in Levels /\ rg_current_index \in NodesOf(rg_current_level)
  /\ rg_state \in BelowRoot => rg_current_level < Height
  /\ rg_state \in {"WAIT_SIBLINGS", "WAIT_UPDATE_ACK"} => rg_current_level < MinHwLevel
  /\ rg_state = "FETCH_HCACHE_SIBLINGS" => rg_current_level >= MinHwLevel
  /\ rg_state \in {"VERIFY_ROOT", "COMPLETE"} => rg_current_level = Height

(* One request or one response is under way in tree memory, and only in    *)
(* the state that waits for it.                                            *)
GroupReq ==
  [level |-> rg_current_level, base_index |-> sibling_group_base(rg_current_index)]
NodeWrite ==
  [level |-> rg_current_level, index |-> rg_current_index, hash |-> rg_my_node_hash]
TreePipe ==
  /\ IF rg_state = "WAIT_SIBLINGS"
     THEN \/ ff_tree_req = <<GroupReq>> /\ ff_tree_resp = <<>>
          \/ ff_tree_req = <<>> /\ Len(ff_tree_resp) = 1
     ELSE ff_tree_req = <<>> /\ ff_tree_resp = <<>>
  /\ IF rg_state = "WAIT_UPDATE_ACK"
     THEN \/ ff_tree_write = <<NodeWrite>> /\ ff_tree_write_resp = <<>>
          \/ ff_tree_write = <<>> /\ Len(ff_tree_write_resp) = 1
     ELSE ff_tree_write = <<>> /\ ff_tree_write_resp = <<>>

(* The memory side of the pending read: its request, its burst, and beats  *)
(* of which only the final one is marked last.                             *)
Awaiting ==
  /\ rg_pending_req # Invalid
  /\ rg_from_protected => rg_state = "ACCUMULATING"
NoneLast(q) == \A k \in DOMAIN q : ~q[k].last
PipeIdle ==
  /\ ~Awaiting
  /\ ff_req_to_mem = <<>> /\ burst = Invalid /\ ff_resp_from_mem = <<>>
PipeAsked ==
  /\ Awaiting
  /\ ff_req_to_mem = <<rg_pending_req>> /\ burst = Invalid /\ ff_resp_from_mem = <<>>
  /\ rg_from_protected => rg_beat_count = 0
PipeBurst ==
  /\ Awaiting
  /\ ff_req_to_mem = <<>> /\ burst # Invalid /\ NoneLast(ff_resp_from_mem)
  /\ burst.req = rg_pending_req /\ burst.beat <= burst.req.len
  /\ rg_from_protected => burst.beat = rg_beat_count + Len(ff_resp_from_mem)
PipeDrain ==
  /\ Awaiting
  /\ ff_req_to_mem = <<>> /\ burst = Invalid
  /\ Len(ff_resp_from_mem) \in 1..FifoDepth
  /\ \A k \in DOMAIN ff_resp_from_mem :
       ff_resp_from_mem[k].last <=> k = Len(ff_resp_from_mem)
  /\ rg_from_protected => rg_beat_count + Len(ff_resp_from_mem) = Arity
MemPipe == PipeIdle \/ PipeAsked \/ PipeBurst \/ PipeDrain

(* The buffered line: beats so far, then a full line with one last beat.   *)
Buffered ==
  /\ rg_state = "ACCUMULATING" =>
       /\ rg_beat_count \in Pos
       /\ \A k \in Pos : k < rg_beat_count => ~rg_buffered_responses[k].last
  /\ (rg_state \notin {"IDLE", "ACCUMULATING"} /\ ~rg_is_update) =>
       \A k \in Pos : rg_buffered_responses[k].last <=> k = Arity - 1
  /\ rg_forward_beat \in Pos
  /\ rg_state # "FORWARD_TO_CACHE" => rg_forward_beat = 0

(* The reads in flight are, in order: those whose last beat waits for the  *)
(* cache, the one the unit works on, and those it has not taken.           *)
IsLast(q, k) == Len(q) >= k /\ q[k].last
LastBeats(q) == (IF IsLast(q, 1) THEN 1 ELSE 0) + (IF IsLast(q, 2) THEN 1 ELSE 0)
Answered == LastBeats(ff_resp_to_cache)
Active == rg_pending_req # Invalid \/ rg_state = "FORWARD_TO_CACHE"
Taken == IF Active THEN Answered + 1 ELSE Answered
Tracks(reads, waiting, taken) ==
  /\ Len(reads) = taken + Len(waiting)
  /\ \A j \in 1..Len(waiting) : reads[taken + j] = waiting[j]
InFlight ==
  /\ Len(ff_resp_to_cache) <= FifoDepth
  /\ Tracks(inflight, ff_req_from_cache, Taken)
  /\ rg_pending_req # Invalid => inflight[Answered + 1] = rg_pending_req
  /\ \A r \in Entries(inflight) : is_protected(r.addr) => r.len = Arity - 1

(* What OrderIO buys: an uncached read and an eviction that is not yet in  *)
(* the tree are never there together.                                      *)
Ordered == UnprotectedInFlight => Unfolded = {}

(* The inductive invariant: the unit, its four pipelines and the cache     *)
(* always agree on which read or update is under way, how far it is, and   *)
(* who owns every request and every beat, whatever fires next.             *)
Control == Session /\ Cursor /\ TreePipe
Transfer == MemPipe /\ Buffered /\ InFlight /\ Ordered
IInv == TypeOK /\ Control /\ Transfer
=============================================================================
