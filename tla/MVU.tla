-------------------------------- MODULE MVU --------------------------------
(***************************************************************************)
(* The memory verification unit mkmvu (mvu.bsv) with the node store of     *)
(* mkHCache it instantiates.  A rule of the source is an action of the     *)
(* same name: Bluespec executes rules as if one at a time, so interleaving *)
(* them is the source's own semantics.  The interface methods of Ifc_mvu   *)
(* are operators that the composing module uses in its actions.            *)
(***************************************************************************)
EXTENDS TreeGeometry, Sequences

CONSTANTS
  Hash(_),   \* compute_hash, of a vector of Arity words
  Invalid    \* `tagged Invalid'

(* compute_hash of mvu.bsv is a sum modulo 2^64.  These are the three      *)
(* facts about a sum that the unit relies on: an all-zero group hashes to  *)
(* zero (the tree is booted by writing zeros), the order in which a wrap   *)
(* burst returns the words of a line does not matter, and one changed      *)
(* word changes the hash.                                                  *)
ASSUME WordAssumption ==
  /\ Zero \in Word
  /\ \A g \in [Pos -> Word] : Hash(g) \in Word

ASSUME HashZero == Hash([k \in Pos |-> Zero]) = Zero

Rotate(g, o) == [k \in Pos |-> g[(o + k) % Arity]]
ASSUME HashRotate == \A g \in [Pos -> Word], o \in Pos : Hash(Rotate(g, o)) = Hash(g)

ASSUME HashOneWord ==
  \A g \in [Pos -> Word], k \in Pos, w \in Word :
    w # g[k] => Hash([g EXCEPT ![k] = w]) # Hash(g)

ReadReq == [addr : Addr, len : {0, Arity - 1}]
ASSUME InvalidAssumption == Invalid \notin Word /\ Invalid \notin ReadReq
EvictReq == [addr : Addr, data : [Pos -> Word]]
ReadResp == [data : Word, last : BOOLEAN, err : BOOLEAN]
TreeNodeReq == [level : Levels, base_index : Nat]
TreeNodeWrite == [level : Levels, index : Nat, hash : Word]

VerifyState ==
  {"IDLE", "ACCUMULATING", "COMPUTE_L0_PARENT", "FETCH_SIBLINGS",
   "WAIT_SIBLINGS", "COMPUTE_PARENT", "CHECK_PARENT", "UPDATE_NODE",
   "WAIT_UPDATE_ACK", "FETCH_HCACHE_SIBLINGS", "PROPAGATE_UP",
   "VERIFY_ROOT", "COMPLETE", "FORWARD_TO_CACHE"}

ZeroGroup == [k \in Pos |-> Zero]
NoResp == [data |-> Zero, last |-> FALSE, err |-> FALSE]

(* mkFIFOF holds two elements: enq blocks when full, deq and first when    *)
(* empty.                                                                  *)
FifoDepth == 2
NotFull(q) == Len(q) < FifoDepth
NotEmpty(q) == q # <<>>

VARIABLES
  ff_req_from_cache, ff_evict_req, ff_resp_to_cache,
  ff_req_to_mem, ff_resp_from_mem,
  ff_tree_req, ff_tree_resp, ff_tree_write, ff_tree_write_resp,
  rg_mvu_enabled, rg_trusted_root,
  rg_pending_req, rg_from_protected, rg_is_update, rg_base_leaf_index,
  rg_state, rg_current_level, rg_current_index,
  rg_node_group,      \* rg_node_valid is folded in: an invalid slot is Zero
  rg_computed_parent, rg_my_node_hash, rg_mvu_error,
  rg_leaves, rg_buffered_responses, rg_beat_count, rg_forward_beat,
  rg_sibling_ptr,
  rf_nodes            \* hcache.rf_nodes, keyed by <<level, index>>

cacheFifos == <<ff_req_from_cache, ff_evict_req, ff_resp_to_cache>>
memFifos == <<ff_req_to_mem, ff_resp_from_mem>>
treeFifos == <<ff_tree_req, ff_tree_resp, ff_tree_write, ff_tree_write_resp>>
config == <<rg_mvu_enabled, rg_trusted_root>>
session == <<rg_pending_req, rg_from_protected, rg_is_update, rg_base_leaf_index>>
cursor == <<rg_current_level, rg_current_index>>
group == <<rg_node_group, rg_sibling_ptr>>
hashes == <<rg_computed_parent, rg_my_node_hash>>
buffers == <<rg_leaves, rg_buffered_responses, rg_beat_count, rg_forward_beat>>
mvuRegs == <<config, session, rg_state, cursor, group, hashes, rg_mvu_error,
             buffers, rf_nodes>>
mvuVars == <<cacheFifos, memFifos, treeFifos, mvuRegs>>

MVUInit ==
  /\ ff_req_from_cache = <<>> /\ ff_evict_req = <<>> /\ ff_resp_to_cache = <<>>
  /\ ff_req_to_mem = <<>> /\ ff_resp_from_mem = <<>>
  /\ ff_tree_req = <<>> /\ ff_tree_resp = <<>>
  /\ ff_tree_write = <<>> /\ ff_tree_write_resp = <<>>
  /\ rg_mvu_enabled = TRUE /\ rg_trusted_root = Zero
  /\ rg_pending_req = Invalid /\ rg_from_protected = FALSE
  /\ rg_is_update = FALSE /\ rg_base_leaf_index = 0
  /\ rg_state = "IDLE" /\ rg_current_level = 0 /\ rg_current_index = 0
  /\ rg_node_group = ZeroGroup /\ rg_sibling_ptr = 0
  /\ rg_computed_parent = Zero /\ rg_my_node_hash = Zero
  /\ rg_mvu_error = FALSE
  /\ rg_leaves = ZeroGroup /\ rg_buffered_responses = [k \in Pos |-> NoResp]
  /\ rg_beat_count = 0 /\ rg_forward_beat = 0
  /\ rf_nodes = [n \in HwNode |-> Invalid]

-----------------------------------------------------------------------------
(* mkHCache: what get_hash answers, with the unit's fromMaybe(0, _).       *)
get_hash(level, index) == rf_nodes[<<level, index>>]
get_hash_or_zero(level, index) ==
  IF get_hash(level, index) = Invalid THEN Zero ELSE get_hash(level, index)
set_hash(level, index, hash) ==
  rf_nodes' = [rf_nodes EXCEPT ![<<level, index>>] = hash]

(* A node group that holds one hash, at its own position.                  *)
group_of_mutant(index, hash) == [ZeroGroup EXCEPT ![0] = hash]
group_of(index, hash) == [ZeroGroup EXCEPT ![child_position(index)] = hash]

at_root == rg_current_level >= Height

(* rg_pending_req is dropped by the last beat of the burst.                *)
pending_after(beat) == IF beat.last THEN Invalid ELSE rg_pending_req

(* The scan of a group in the HCache ends at its last slot.                *)
last_sibling_mutant2(ptr) == ptr = Arity
last_sibling(ptr) == ptr = Arity - 1

(* A response from tree memory fills every slot it has except our own.     *)
merged_mutant(resp) ==
  [k \in Pos |-> IF k \in DOMAIN resp THEN resp[k] ELSE rg_node_group[k]]
merged(resp) ==
  [k \in Pos |-> IF k \in DOMAIN resp /\ k # child_position(rg_current_index)
                 THEN resp[k] ELSE rg_node_group[k]]

(* The stored hash of a node is compared with the hash of the same node.   *)
mismatch(stored) == stored # rg_my_node_hash

(* After a mismatch every beat of the line carries err.                    *)
poisoned_mutant(resp) == [resp EXCEPT !.err = resp.err \/ (rg_mvu_error /\ resp.last)]
poisoned_mutant2(resp) == [resp EXCEPT !.err = rg_mvu_error]
poisoned(resp) == [resp EXCEPT !.err = resp.err \/ rg_mvu_error]

(* Which beats pass the unit as they come.                                 *)
unverified_mutant == rg_pending_req # Invalid
unverified == rg_pending_req # Invalid /\ ~rg_from_protected
-----------------------------------------------------------------------------
(* An eviction is folded into the tree, or dropped if it is unprotected.   *)
(* The guard does not look at rg_pending_req.                              *)
rl_start_update ==
  /\ NotEmpty(ff_evict_req) /\ rg_state = "IDLE"
  /\ LET req == Head(ff_evict_req) IN
     IF is_protected(req.addr) /\ rg_mvu_enabled
     THEN /\ rg_is_update' = TRUE
          /\ rg_base_leaf_index' = addr_to_leaf_index(req.addr)
          /\ rg_beat_count' = 0
          /\ rg_leaves' = req.data
          /\ rg_state' = "COMPUTE_L0_PARENT"
     ELSE UNCHANGED <<rg_is_update, rg_base_leaf_index, rg_beat_count,
                      rg_leaves, rg_state>>
  /\ ff_evict_req' = Tail(ff_evict_req)
  /\ UNCHANGED <<ff_req_from_cache, ff_resp_to_cache, memFifos, treeFifos, config,
                 rg_pending_req, rg_from_protected, cursor, group, hashes,
                 rg_mvu_error, rg_buffered_responses, rg_forward_beat, rf_nodes>>

rl_forward_request ==
  /\ NotEmpty(ff_req_from_cache) /\ rg_pending_req = Invalid /\ rg_state = "IDLE"
  /\ NotFull(ff_req_to_mem)
  /\ LET req == Head(ff_req_from_cache) IN
     /\ IF is_protected(req.addr) /\ rg_mvu_enabled
        THEN /\ rg_from_protected' = TRUE
             /\ rg_is_update' = FALSE
             /\ rg_base_leaf_index' = addr_to_leaf_index(req.addr)
             /\ rg_beat_count' = 0
             /\ rg_mvu_error' = FALSE
             /\ rg_leaves' = ZeroGroup
             /\ rg_buffered_responses' = [k \in Pos |-> NoResp]
             /\ rg_state' = "ACCUMULATING"
        ELSE /\ rg_from_protected' = FALSE
             /\ UNCHANGED <<rg_is_update, rg_base_leaf_index, rg_beat_count,
                            rg_mvu_error, rg_leaves, rg_buffered_responses, rg_state>>
     /\ rg_pending_req' = req
     /\ ff_req_to_mem' = Append(ff_req_to_mem, req)
  /\ ff_req_from_cache' = Tail(ff_req_from_cache)
  /\ UNCHANGED <<ff_evict_req, ff_resp_to_cache, ff_resp_from_mem, treeFifos, config,
                 cursor, group, hashes, rg_forward_beat, rf_nodes>>

(* Collect the leaves.  bsc is run without -aggressive-conditions, so the  *)
(* enq of the second branch guards the whole rule.  That branch is dead    *)
(* (the state is only entered with rg_from_protected set) but kept.        *)
rl_accumulate ==
  /\ NotEmpty(ff_resp_from_mem) /\ rg_pending_req # Invalid
  /\ rg_state = "ACCUMULATING"
  /\ NotFull(ff_resp_to_cache)
  /\ LET resp == Head(ff_resp_from_mem) IN
     IF rg_from_protected
     THEN /\ rg_leaves' = [rg_leaves EXCEPT ![rg_beat_count] = resp.data]
          /\ rg_buffered_responses' = [rg_buffered_responses EXCEPT ![rg_beat_count] = resp]
          /\ rg_beat_count' = IF resp.last THEN 0 ELSE (rg_beat_count + 1) % 16
          /\ rg_state' = IF resp.last THEN "COMPUTE_L0_PARENT" ELSE rg_state
          /\ UNCHANGED <<ff_resp_to_cache, rg_pending_req>>
     ELSE /\ ff_resp_to_cache' = Append(ff_resp_to_cache, resp)
          /\ rg_pending_req' = pending_after(resp)
          /\ rg_state' = IF resp.last THEN "IDLE" ELSE rg_state
          /\ UNCHANGED <<rg_leaves, rg_buffered_responses, rg_beat_count>>
  /\ ff_resp_from_mem' = Tail(ff_resp_from_mem)
  /\ UNCHANGED <<ff_req_from_cache, ff_evict_req, ff_req_to_mem, treeFifos, config,
                 rg_from_protected, rg_is_update, rg_base_leaf_index, cursor, group,
                 hashes, rg_mvu_error, rg_forward_beat, rf_nodes>>

rl_compute_l0_parent ==
  /\ rg_state = "COMPUTE_L0_PARENT"
  /\ LET parent_hash == Hash(rg_leaves)
         parent_idx == parent_index(rg_base_leaf_index) IN
     /\ rg_my_node_hash' = parent_hash
     /\ rg_current_level' = 1
     /\ rg_current_index' = parent_idx
     /\ rg_node_group' = group_of(parent_idx, parent_hash)
  /\ rg_state' = "FETCH_SIBLINGS"
  /\ UNCHANGED <<cacheFifos, memFifos, treeFifos, config, session, rg_sibling_ptr,
                 rg_computed_parent, rg_mvu_error, buffers, rf_nodes>>

(* The root has no siblings; a level of the HCache is read slot by slot;   *)
(* below it a group is requested from tree memory.  The request's          *)
(* sibling_mask is read by nobody and is left out.                         *)
rl_fetch_siblings ==
  /\ rg_state = "FETCH_SIBLINGS" /\ NotFull(ff_tree_req)
  /\ \/ /\ at_root
        /\ rg_state' = IF rg_is_update THEN "UPDATE_NODE" ELSE "CHECK_PARENT"
        /\ UNCHANGED <<rg_sibling_ptr, ff_tree_req>>
     \/ /\ ~at_root /\ is_hw_level(rg_current_level)
        /\ rg_sibling_ptr' = 0
        /\ rg_state' = "FETCH_HCACHE_SIBLINGS"
        /\ UNCHANGED ff_tree_req
     \/ /\ ~at_root /\ ~is_hw_level(rg_current_level)
        /\ ff_tree_req' = Append(ff_tree_req,
             [level |-> rg_current_level,
              base_index |-> sibling_group_base(rg_current_index)])
        /\ rg_state' = "WAIT_SIBLINGS"
        /\ UNCHANGED rg_sibling_ptr
  /\ UNCHANGED <<cacheFifos, memFifos, ff_tree_resp, ff_tree_write, ff_tree_write_resp,
                 config, session, cursor, rg_node_group, hashes, rg_mvu_error,
                 buffers, rf_nodes>>

rl_collect_hcache_siblings ==
  /\ rg_state = "FETCH_HCACHE_SIBLINGS"
  /\ rg_node_group' =
       IF rg_sibling_ptr = child_position(rg_current_index) THEN rg_node_group
       ELSE [rg_node_group EXCEPT ![rg_sibling_ptr] =
               get_hash_or_zero(rg_current_level,
                                sibling_group_base(rg_current_index) + rg_sibling_ptr)]
  /\ rg_sibling_ptr' = (rg_sibling_ptr + 1) % Arity
  /\ rg_state' = IF last_sibling(rg_sibling_ptr) THEN "COMPUTE_PARENT" ELSE rg_state
  /\ UNCHANGED <<cacheFifos, memFifos, treeFifos, config, session, cursor, hashes,
                 rg_mvu_error, buffers, rf_nodes>>

(* A response is a function on the positions whose beat arrived.           *)
rl_wait_siblings ==
  /\ rg_state = "WAIT_SIBLINGS" /\ NotEmpty(ff_tree_resp)
  /\ rg_node_group' = merged(Head(ff_tree_resp))
  /\ ff_tree_resp' = Tail(ff_tree_resp)
  /\ rg_state' = "COMPUTE_PARENT"
  /\ UNCHANGED <<cacheFifos, memFifos, ff_tree_req, ff_tree_write, ff_tree_write_resp,
                 config, session, cursor, rg_sibling_ptr, hashes, rg_mvu_error,
                 buffers, rf_nodes>>

rl_compute_parent ==
  /\ rg_state = "COMPUTE_PARENT"
  /\ rg_computed_parent' = Hash(rg_node_group)
  /\ rg_state' = IF rg_is_update THEN "UPDATE_NODE" ELSE "CHECK_PARENT"
  /\ UNCHANGED <<cacheFifos, memFifos, treeFifos, config, session, cursor, group,
                 rg_my_node_hash, rg_mvu_error, buffers, rf_nodes>>

(* A node the HCache has never held is accepted and stored; one it holds   *)
(* is compared.                                                            *)
rl_check_parent ==
  /\ rg_state = "CHECK_PARENT"
  /\ IF is_hw_level(rg_current_level)
     THEN LET stored == get_hash(rg_current_level, rg_current_index) IN
          IF stored = Invalid
          THEN /\ set_hash(rg_current_level, rg_current_index, rg_my_node_hash)
               /\ UNCHANGED rg_mvu_error
          ELSE /\ rg_mvu_error' = (rg_mvu_error \/ mismatch(stored))
               /\ UNCHANGED rf_nodes
     ELSE UNCHANGED <<rf_nodes, rg_mvu_error>>
  /\ rg_state' = IF at_root THEN "VERIFY_ROOT" ELSE "PROPAGATE_UP"
  /\ UNCHANGED <<cacheFifos, memFifos, treeFifos, config, session, cursor, group,
                 hashes, buffers>>

rl_update_node ==
  /\ rg_state = "UPDATE_NODE" /\ NotFull(ff_tree_write)
  /\ \/ /\ is_hw_level(rg_current_level)
        /\ set_hash(rg_current_level, rg_current_index, rg_my_node_hash)
        /\ rg_state' = IF at_root THEN "COMPLETE" ELSE "PROPAGATE_UP"
        /\ UNCHANGED ff_tree_write
     \/ /\ ~is_hw_level(rg_current_level)
        /\ ff_tree_write' = Append(ff_tree_write,
             [level |-> rg_current_level, index |-> rg_current_index,
              hash |-> rg_my_node_hash])
        /\ rg_state' = "WAIT_UPDATE_ACK"
        /\ UNCHANGED rf_nodes
  /\ UNCHANGED <<cacheFifos, memFifos, ff_tree_req, ff_tree_resp, ff_tree_write_resp,
                 config, session, cursor, group, hashes, rg_mvu_error, buffers>>

(* The acknowledgement is consumed; whether it reports success is not      *)
(* looked at.                                                              *)
rl_wait_update_ack ==
  /\ rg_state = "WAIT_UPDATE_ACK" /\ NotEmpty(ff_tree_write_resp)
  /\ ff_tree_write_resp' = Tail(ff_tree_write_resp)
  /\ rg_state' = IF at_root THEN "COMPLETE" ELSE "PROPAGATE_UP"
  /\ UNCHANGED <<cacheFifos, memFifos, ff_tree_req, ff_tree_resp, ff_tree_write,
                 config, session, cursor, group, hashes, rg_mvu_error, buffers, rf_nodes>>

rl_propagate_up ==
  /\ rg_state = "PROPAGATE_UP"
  /\ rg_current_level' = rg_current_level + 1
  /\ rg_current_index' = parent_index(rg_current_index)
  /\ rg_node_group' = group_of(parent_index(rg_current_index), rg_computed_parent)
  /\ rg_my_node_hash' = rg_computed_parent
  /\ rg_state' = "FETCH_SIBLINGS"
  /\ UNCHANGED <<cacheFifos, memFifos, treeFifos, config, session, rg_sibling_ptr,
                 rg_computed_parent, rg_mvu_error, buffers, rf_nodes>>

rl_verify_root ==
  /\ rg_state = "VERIFY_ROOT"
  /\ rg_mvu_error' = (rg_mvu_error \/ (rg_trusted_root # Zero
                                       /\ rg_my_node_hash # rg_trusted_root))
  /\ rg_state' = "COMPLETE"
  /\ UNCHANGED <<cacheFifos, memFifos, treeFifos, config, session, cursor, group,
                 hashes, buffers, rf_nodes>>

(* An update ends the session; a read still has its line to forward.       *)
update_done_mutant ==
  /\ rg_state' = "IDLE" /\ rg_mvu_error' = FALSE
  /\ UNCHANGED rg_is_update
update_done ==
  /\ rg_state' = "IDLE" /\ rg_mvu_error' = FALSE
  /\ rg_is_update' = FALSE
read_done ==
  /\ rg_state' = "FORWARD_TO_CACHE"
  /\ UNCHANGED <<rg_mvu_error, rg_is_update>>

(* Both paths drop the pending request.                                    *)
rl_complete ==
  /\ rg_state = "COMPLETE"
  /\ IF rg_is_update THEN update_done ELSE read_done
  /\ rg_pending_req' = Invalid
  /\ rg_from_protected' = FALSE
  /\ UNCHANGED <<cacheFifos, memFifos, treeFifos, config, rg_base_leaf_index, cursor,
                 group, hashes, buffers, rf_nodes>>

(* Unprotected beats pass in any state of the verification.                *)
rl_forward_unprotected ==
  /\ NotEmpty(ff_resp_from_mem) /\ unverified
  /\ NotFull(ff_resp_to_cache)
  /\ ff_resp_to_cache' = Append(ff_resp_to_cache, Head(ff_resp_from_mem))
  /\ ff_resp_from_mem' = Tail(ff_resp_from_mem)
  /\ rg_pending_req' = pending_after(Head(ff_resp_from_mem))
  /\ UNCHANGED <<ff_req_from_cache, ff_evict_req, ff_req_to_mem, treeFifos, config,
                 rg_from_protected, rg_is_update, rg_base_leaf_index, rg_state,
                 cursor, group, hashes, rg_mvu_error, buffers, rf_nodes>>

(* The buffered line goes to the cache beat by beat.                       *)
rl_forward_verified ==
  /\ rg_state = "FORWARD_TO_CACHE" /\ NotFull(ff_resp_to_cache)
  /\ LET resp == rg_buffered_responses[rg_forward_beat] IN
     /\ ff_resp_to_cache' = Append(ff_resp_to_cache, poisoned(resp))
     /\ rg_forward_beat' = IF resp.last THEN 0 ELSE (rg_forward_beat + 1) % 16
     /\ \/ /\ resp.last
           /\ rg_mvu_error' = FALSE
           /\ rg_state' = "IDLE"
           /\ rg_pending_req' = Invalid
           /\ rg_from_protected' = FALSE
        \/ /\ ~resp.last
           /\ UNCHANGED <<rg_mvu_error, rg_state, rg_pending_req, rg_from_protected>>
  /\ UNCHANGED <<ff_req_from_cache, ff_evict_req, memFifos, treeFifos, config,
                 rg_is_update, rg_base_leaf_index, cursor, group, hashes, rg_leaves,
                 rg_buffered_responses, rg_beat_count, rf_nodes>>

MVUTypeOK ==
  /\ ff_req_from_cache \in Seq(ReadReq) /\ ff_evict_req \in Seq(EvictReq)
  /\ ff_resp_to_cache \in Seq(ReadResp)
  /\ ff_req_to_mem \in Seq(ReadReq) /\ ff_resp_from_mem \in Seq(ReadResp)
  /\ ff_tree_req \in Seq(TreeNodeReq) /\ ff_tree_resp \in Seq([Pos -> Word])
  /\ ff_tree_write \in Seq(TreeNodeWrite) /\ ff_tree_write_resp \in Seq(BOOLEAN)
  /\ rg_mvu_enabled \in BOOLEAN /\ rg_trusted_root \in Word
  /\ rg_pending_req \in ReadReq \cup {Invalid}
  /\ rg_from_protected \in BOOLEAN /\ rg_is_update \in BOOLEAN
  /\ rg_base_leaf_index \in 0..NodeCount[0]-1
  /\ rg_state \in VerifyState
  /\ rg_current_level \in 0..Height /\ rg_current_index \in Nat
  /\ rg_node_group \in [Pos -> Word] /\ rg_sibling_ptr \in Pos
  /\ rg_computed_parent \in Word /\ rg_my_node_hash \in Word
  /\ rg_mvu_error \in BOOLEAN
  /\ rg_leaves \in [Pos -> Word] /\ rg_buffered_responses \in [Pos -> ReadResp]
  /\ rg_beat_count \in 0..15 /\ rg_forward_beat \in 0..15
  /\ rf_nodes \in [HwNode -> Word \cup {Invalid}]

(* The rules of the unit, in source order.                                 *)
MVUReadRule ==
  \/ rl_forward_request \/ rl_accumulate \/ rl_forward_unprotected
  \/ rl_forward_verified
MVUWalkRule ==
  \/ rl_compute_l0_parent \/ rl_fetch_siblings \/ rl_collect_hcache_siblings
  \/ rl_wait_siblings \/ rl_compute_parent \/ rl_check_parent \/ rl_update_node
  \/ rl_wait_update_ack \/ rl_propagate_up \/ rl_verify_root \/ rl_complete
MVURule == rl_start_update \/ MVUReadRule \/ MVUWalkRule
=============================================================================
