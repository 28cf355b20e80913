-------------------------- MODULE MVUSystemProofs --------------------------
(***************************************************************************)
(* IInv of MVUSystemInv is an invariant of MVUSystem, for every tree shape *)
(* (GeometryAssumption), word set and hash (WordAssumption), number of     *)
(* reads in flight, protected region and set of uncached lines, whether or *)
(* not memory is faulted and lines are ordered, given OrderIO.             *)
(*                                                                         *)
(* One lemma per part of IInv shows that every step keeps it; StepIInv     *)
(* puts them together.                                                     *)
(***************************************************************************)
EXTENDS MVUSystemInv, GeometryProofs, SequenceTheorems

USE DEF cacheFifos, memFifos, treeFifos, config, session, cursor, group, hashes,
        buffers, mvuRegs, mvuVars, memVars, cacheVars, vars

(* A cursor off the root names a slot of every sibling.                    *)
LEMMA CursorSlots ==
  ASSUME TypeOK, Cursor, rg_state \in Walking
  PROVE /\ rg_current_index \in Slots(rg_current_level)
        /\ child_position(rg_current_index) \in Pos
        /\ is_hw_level(rg_current_level) => <<rg_current_level, rg_current_index>> \in HwNode
        /\ ~is_hw_level(rg_current_level) =>
             rg_current_level \in 1..MinHwLevel-1 /\ <<rg_current_level, rg_current_index>> \in MemNode
        /\ rg_current_level < Height =>
             /\ parent_index(rg_current_index) \in NodesOf(rg_current_level + 1)
             /\ \A k \in Pos : sibling_group_base(rg_current_index) + k \in Slots(rg_current_level)
<1>1. rg_current_level \in 1..Height /\ rg_current_index \in NodesOf(rg_current_level)
  BY DEF Cursor, Levels
<1>2. rg_current_index \in Slots(rg_current_level)
  BY <1>1, NodeInSlots
<1>3. rg_current_index \in Nat
  BY <1>1, <1>2, SlotsInNat
<1>4. child_position(rg_current_index) \in Pos
  BY <1>3, PositionInPos
<1>5. is_hw_level(rg_current_level) => <<rg_current_level, rg_current_index>> \in HwNode
  BY <1>1, <1>2, Shape, HwNodeHas DEF is_hw_level
<1>6. ~is_hw_level(rg_current_level) =>
        rg_current_level \in 1..MinHwLevel-1 /\ <<rg_current_level, rg_current_index>> \in MemNode
  BY <1>1, <1>2, Shape, MemNodeHas DEF is_hw_level
<1>7. ASSUME rg_current_level < Height
      PROVE /\ parent_index(rg_current_index) \in NodesOf(rg_current_level + 1)
            /\ \A k \in Pos : sibling_group_base(rg_current_index) + k \in Slots(rg_current_level)
  <2>1. rg_current_level \in 1..Height-1 /\ rg_current_level \in 0..Height-1
    BY <1>1, <1>7, Shape
  <2> QED BY <1>1, <2>1, ParentIsNode, GroupInSlots
<1> QED
  BY <1>2, <1>4, <1>5, <1>6, <1>7

(* Queues of one element.                                                  *)
LEMMA TailOfOne ==
  ASSUME NEW S, NEW q \in Seq(S), Len(q) = 1 PROVE Tail(q) = <<>>
<1>1. Tail(q) \in Seq(S) /\ Len(Tail(q)) = 0
  OBVIOUS
<1> QED
  BY <1>1, EmptySeq

(* Enqueueing into an empty queue leaves one element.                      *)
LEMMA AppendToNone ==
  ASSUME NEW S, NEW x \in S, NEW q, q = <<>>
  PROVE Append(q, x) = <<x>> /\ Len(Append(q, x)) = 1
  OBVIOUS

(* Invalid is none of the values it stands in for.                         *)
LEMMA InvalidApart == Invalid \notin ReadReq /\ Invalid \notin [req : ReadReq, beat : Pos]
  BY InvalidAssumption, SystemAssumption

(* compute_hash returns a word, and a group of one hash is a group.        *)
LEMMA HashIsWord == ASSUME NEW g \in [Pos -> Word] PROVE Hash(g) \in Word
  BY WordAssumption

LEMMA GroupOfType ==
  ASSUME NEW i, child_position(i) \in Pos, NEW h \in Word
  PROVE group_of(i, h) \in [Pos -> Word]
  BY WordAssumption DEF group_of, ZeroGroup

(* Every beat of a wrap burst of a read of this system has an address.     *)
LEMMA WrapIsAddr ==
  ASSUME NEW req \in ReadReq, NEW k \in Nat PROVE wrap(req, k) \in Addr
<1>1. line_of(req.addr) \in Line
  BY LineOfAddr DEF ReadReq
<1>2. req.addr \in Int
  BY Shape DEF ReadReq, Addr
<1>3. (((req.addr % Arity) + k) % Arity) \in Pos
  <2>1. req.addr % Arity \in Int
    BY <1>2, Shape, Division
  <2> QED BY <2>1, Shape, Division DEF Pos
<1> QED
  BY <1>1, <1>3, WordOfLine DEF wrap

(* The rules that walk the tree keep the type invariant.                   *)
LEMMA TypeOKWalk ==
  ASSUME IInv, UnitStep(MVUWalkRule) PROVE TypeOK'
<1> USE DEF TypeOK, MVUTypeOK, UnitStep, VerifyState
<1>1. TypeOK /\ Cursor /\ TreePipe
  BY DEF IInv, Control
<1>2. rg_state \in Walking =>
        rg_current_level \in 1..Height /\ rg_current_level \in Levels
  BY <1>1 DEF Cursor, Levels
<1>3. CASE rl_compute_l0_parent
  <2>1. parent_index(rg_base_leaf_index) \in NodesOf(1) /\ 1 \in 0..Height
    <3>1. 0 \in 0..Height-1 /\ 1 \in 0..Height BY Shape
    <3> QED BY <1>1, <3>1, ParentIsNode DEF NodesOf
  <2>2. parent_index(rg_base_leaf_index) \in Nat
    BY <2>1, Shape DEF NodesOf
  <2>3. Hash(rg_leaves) \in Word
    BY <1>1, HashIsWord
  <2>4. group_of(parent_index(rg_base_leaf_index), Hash(rg_leaves)) \in [Pos -> Word]
    BY <2>2, <2>3, GroupOfType, PositionInPos
  <2> QED BY <1>1, <1>3, <2>1, <2>2, <2>3, <2>4 DEF rl_compute_l0_parent
<1>4. CASE rl_fetch_siblings
  <2>1. rg_state \in Walking
    BY <1>4 DEF rl_fetch_siblings, Walking
  <2>2. ASSUME ~at_root, ~is_hw_level(rg_current_level)
        PROVE GroupReq \in TreeNodeReq
    <3>1. rg_current_level < Height
      BY <1>2, <2>1, <2>2, Shape DEF at_root
    <3>2. 0 \in Pos
      BY Shape DEF Pos
    <3>3. sibling_group_base(rg_current_index) + 0 \in Nat
      BY <1>1, <1>2, <2>1, <3>1, <3>2, CursorSlots, SlotsInNat
    <3>4. rg_current_index \in Nat
      BY <1>1
    <3>5. sibling_group_base(rg_current_index) \in Int
      BY <3>4, Division, Shape DEF sibling_group_base, parent_index
    <3> QED BY <1>2, <2>1, <3>3, <3>5 DEF GroupReq, TreeNodeReq
  <2>3. 0 \in Pos
    BY Shape DEF Pos
  <2>4. CASE ~at_root /\ ~is_hw_level(rg_current_level)
    <3>1. ff_tree_req' = Append(ff_tree_req, GroupReq)
      BY <1>4, <2>4 DEF rl_fetch_siblings, GroupReq
    <3>2. rg_state' \in VerifyState /\ rg_sibling_ptr' = rg_sibling_ptr
      BY <1>4, <2>4 DEF rl_fetch_siblings
    <3> QED BY <1>1, <1>4, <2>2, <2>4, <3>1, <3>2, SMTT(40) DEF rl_fetch_siblings
  <2>5. CASE at_root \/ is_hw_level(rg_current_level)
    BY <1>1, <1>4, <2>3, <2>5 DEF rl_fetch_siblings
  <2> QED BY <2>4, <2>5
<1>5. CASE rl_collect_hcache_siblings
  <2>1. rg_state \in Walking /\ rg_current_level < Height /\ is_hw_level(rg_current_level)
    BY <1>1, <1>2, <1>5 DEF rl_collect_hcache_siblings, Walking, Cursor, BelowRoot, is_hw_level
  <2>2. <<rg_current_level, sibling_group_base(rg_current_index) + rg_sibling_ptr>> \in HwNode
    <3>1. sibling_group_base(rg_current_index) + rg_sibling_ptr \in Slots(rg_current_level)
      BY <1>1, <2>1, CursorSlots
    <3> QED BY <1>2, <2>1, <3>1, HwNodeHas, Shape DEF is_hw_level
  <2>3. get_hash_or_zero(rg_current_level, sibling_group_base(rg_current_index) + rg_sibling_ptr) \in Word
    BY <1>1, <2>2, WordAssumption DEF get_hash_or_zero, get_hash
  <2>4. (rg_sibling_ptr + 1) % Arity \in Pos
    <3>1. rg_sibling_ptr \in Pos BY <1>1
    <3> QED BY ONLY <3>1, NextPosition
  <2> QED BY <1>1, <1>5, <2>3, <2>4 DEF rl_collect_hcache_siblings
<1>6. CASE rl_wait_siblings
  <2>1. Head(ff_tree_resp) \in [Pos -> Word]
    BY <1>1, <1>6 DEF rl_wait_siblings, NotEmpty
  <2>2. merged(Head(ff_tree_resp)) \in [Pos -> Word]
    BY <1>1, <2>1 DEF merged
  <2> QED BY <1>1, <1>6, <2>2, SMTT(40) DEF rl_wait_siblings, NotEmpty
<1>7. CASE rl_compute_parent
  <2>1. Hash(rg_node_group) \in Word
    BY <1>1, HashIsWord
  <2> QED BY <1>1, <1>7, <2>1 DEF rl_compute_parent
<1>8. CASE rl_check_parent
  <2>1. is_hw_level(rg_current_level) => <<rg_current_level, rg_current_index>> \in HwNode
    BY <1>1, <1>8, CursorSlots DEF rl_check_parent, Walking
  <2> QED BY <1>1, <1>8, <2>1 DEF rl_check_parent, set_hash
<1>9. CASE rl_update_node
  <2>1. rg_state \in Walking
    BY <1>9 DEF rl_update_node, Walking
  <2>2. is_hw_level(rg_current_level) => <<rg_current_level, rg_current_index>> \in HwNode
    BY <1>1, <2>1, CursorSlots
  <2>3. NodeWrite \in TreeNodeWrite
    BY <1>1, <1>2, <2>1 DEF NodeWrite, TreeNodeWrite
  <2>4. CASE is_hw_level(rg_current_level)
    BY <1>1, <1>9, <2>2, <2>4 DEF rl_update_node, set_hash
  <2>5. CASE ~is_hw_level(rg_current_level)
    <3>1. ff_tree_write' = Append(ff_tree_write, NodeWrite)
      BY <1>9, <2>5 DEF rl_update_node, NodeWrite
    <3> QED BY <1>1, <1>9, <2>3, <2>5, <3>1, SMTT(40) DEF rl_update_node
  <2> QED BY <2>4, <2>5
<1>10. CASE rl_wait_update_ack
  BY <1>1, <1>10, SMTT(40) DEF rl_wait_update_ack, NotEmpty
<1>11. CASE rl_propagate_up
  <2>1. rg_state \in Walking /\ rg_current_level < Height
    BY <1>1, <1>11 DEF rl_propagate_up, Walking, Cursor, BelowRoot
  <2>2. parent_index(rg_current_index) \in NodesOf(rg_current_level + 1)
    BY <1>1, <2>1, CursorSlots
  <2>3. rg_current_level + 1 \in 0..Height /\ parent_index(rg_current_index) \in Nat
    BY <1>2, <2>1, <2>2, Shape DEF NodesOf
  <2>4. group_of(parent_index(rg_current_index), rg_computed_parent) \in [Pos -> Word]
    BY <1>1, <2>3, GroupOfType, PositionInPos
  <2> QED BY <1>1, <1>11, <2>3, <2>4 DEF rl_propagate_up
<1>12. CASE rl_verify_root
  BY <1>1, <1>12 DEF rl_verify_root
<1>13. CASE rl_complete
  BY <1>1, <1>13 DEF rl_complete, update_done, read_done
<1> QED
  BY <1>3, <1>4, <1>5, <1>6, <1>7, <1>8, <1>9, <1>10, <1>11, <1>12, <1>13
  DEF MVUWalkRule

(* So do the rules that move beats and start sessions.                     *)
LEMMA TypeOKRead ==
  ASSUME IInv
  PROVE UnitStep(rl_start_update) \/ UnitStep(MVUReadRule) => TypeOK'
<1>1. TypeOK /\ Buffered
  BY DEF IInv, Transfer
<1>2. ZeroGroup \in [Pos -> Word] /\ NoResp \in ReadResp
  BY WordAssumption DEF ZeroGroup, NoResp, ReadResp
<1>3. ASSUME UnitStep(rl_start_update) PROVE TypeOK'
  <2> rl_start_update BY <1>3 DEF UnitStep
  <2>1. Head(ff_evict_req) \in EvictReq /\ ff_evict_req' \in Seq(EvictReq)
    <3>1. ff_evict_req \in Seq(EvictReq) BY <1>1 DEF TypeOK, MVUTypeOK
    <3>2. ff_evict_req # <<>> /\ ff_evict_req' = Tail(ff_evict_req)
      BY DEF rl_start_update, NotEmpty
    <3> QED BY ONLY <3>1, <3>2
  <2>2. Head(ff_evict_req).addr \in Addr /\ Head(ff_evict_req).data \in [Pos -> Word]
    BY <2>1 DEF EvictReq
  <2>3. is_protected(Head(ff_evict_req).addr) =>
          addr_to_leaf_index(Head(ff_evict_req).addr) \in 0..NodeCount[0]-1
    BY <2>2, LeafIndexIsNode DEF NodesOf
  <2>4. rg_base_leaf_index' \in 0..NodeCount[0]-1 /\ rg_leaves' \in [Pos -> Word]
    BY <1>1, <2>2, <2>3 DEF rl_start_update, TypeOK, MVUTypeOK
  <2>5. rg_is_update' \in BOOLEAN /\ rg_beat_count' \in 0..15 /\ rg_state' \in VerifyState
    <3>1. rg_is_update \in BOOLEAN /\ rg_beat_count \in 0..15 /\ rg_state \in VerifyState
      BY <1>1 DEF TypeOK, MVUTypeOK
    <3>2. rg_is_update' \in BOOLEAN BY <3>1 DEF rl_start_update
    <3>3. rg_beat_count' \in 0..15 BY <3>1 DEF rl_start_update
    <3>4. rg_state' \in VerifyState BY <3>1 DEF rl_start_update, VerifyState
    <3> QED BY <3>2, <3>3, <3>4
  <2>6. UNCHANGED <<ff_req_from_cache, ff_resp_to_cache, memFifos, treeFifos, config,
                    rg_pending_req, rg_from_protected, cursor, group, hashes,
                    rg_mvu_error, rg_buffered_responses, rg_forward_beat, rf_nodes,
                    memVars, cacheVars, faults, errors>>
    BY <1>3 DEF rl_start_update, UnitStep
  <2> QED BY <1>1, <2>1, <2>4, <2>5, <2>6 DEF TypeOK, MVUTypeOK
<1>4. ASSUME UnitStep(rl_forward_request) PROVE TypeOK'
  <2> rl_forward_request BY <1>4 DEF UnitStep
  <2>1. Head(ff_req_from_cache) \in ReadReq /\ ff_req_from_cache' \in Seq(ReadReq)
    <3>1. ff_req_from_cache \in Seq(ReadReq) BY <1>1 DEF TypeOK, MVUTypeOK
    <3>2. ff_req_from_cache # <<>> /\ ff_req_from_cache' = Tail(ff_req_from_cache)
      BY DEF rl_forward_request, NotEmpty
    <3> QED BY ONLY <3>1, <3>2
  <2>2. is_protected(Head(ff_req_from_cache).addr) =>
          addr_to_leaf_index(Head(ff_req_from_cache).addr) \in 0..NodeCount[0]-1
    BY <2>1, LeafIndexIsNode DEF NodesOf, ReadReq
  <2>3. rg_base_leaf_index' \in 0..NodeCount[0]-1 /\ rg_leaves' \in [Pos -> Word]
    BY <1>1, <1>2, <2>2 DEF rl_forward_request, TypeOK, MVUTypeOK
  <2>4. rg_buffered_responses' \in [Pos -> ReadResp]
    BY <1>1, <1>2 DEF rl_forward_request, TypeOK, MVUTypeOK
  <2>5. rg_is_update' \in BOOLEAN /\ rg_beat_count' \in 0..15 /\ rg_state' \in VerifyState
    <3>1. rg_is_update \in BOOLEAN /\ rg_beat_count \in 0..15 /\ rg_state \in VerifyState
      BY <1>1 DEF TypeOK, MVUTypeOK
    <3>2. rg_is_update' \in BOOLEAN BY <3>1 DEF rl_forward_request
    <3>3. rg_beat_count' \in 0..15 BY <3>1 DEF rl_forward_request
    <3>4. rg_state' \in VerifyState BY <3>1 DEF rl_forward_request, VerifyState
    <3> QED BY <3>2, <3>3, <3>4
  <2>6. rg_mvu_error' \in BOOLEAN /\ rg_from_protected' \in BOOLEAN
    BY <1>1 DEF rl_forward_request, TypeOK, MVUTypeOK
  <2>7. rg_pending_req' \in ReadReq /\ ff_req_to_mem' \in Seq(ReadReq)
    BY <1>1, <2>1 DEF rl_forward_request, TypeOK, MVUTypeOK
  <2>8. UNCHANGED <<ff_evict_req, ff_resp_to_cache, ff_resp_from_mem, treeFifos, config,
                    cursor, group, hashes, rg_forward_beat, rf_nodes,
                    memVars, cacheVars, faults, errors>>
    BY <1>4 DEF rl_forward_request, UnitStep
  <2> QED BY <1>1, <2>1, <2>3, <2>4, <2>5, <2>6, <2>7, <2>8 DEF TypeOK, MVUTypeOK
<1>5. ASSUME UnitStep(rl_accumulate) PROVE TypeOK'
  <2> rl_accumulate BY <1>5 DEF UnitStep
  <2>1. Head(ff_resp_from_mem) \in ReadResp /\ ff_resp_from_mem' \in Seq(ReadResp)
    <3>1. ff_resp_from_mem \in Seq(ReadResp) BY <1>1 DEF TypeOK, MVUTypeOK
    <3>2. ff_resp_from_mem # <<>> /\ ff_resp_from_mem' = Tail(ff_resp_from_mem)
      BY DEF rl_accumulate, NotEmpty
    <3> QED BY ONLY <3>1, <3>2
  <2>2. rg_leaves' \in [Pos -> Word]
    <3>1. Head(ff_resp_from_mem).data \in Word
      BY <2>1 DEF ReadResp
    <3> QED BY <1>1, <3>1 DEF rl_accumulate, TypeOK, MVUTypeOK
  <2>3. rg_buffered_responses' \in [Pos -> ReadResp]
    <3>1. rg_buffered_responses \in [Pos -> ReadResp]
      BY <1>1 DEF TypeOK, MVUTypeOK
    <3>2. \/ rg_buffered_responses' = rg_buffered_responses
          \/ rg_buffered_responses' =
               [rg_buffered_responses EXCEPT ![rg_beat_count] = Head(ff_resp_from_mem)]
      BY Zenon DEF rl_accumulate
    <3> QED BY ONLY <2>1, <3>1, <3>2
  <2>4. rg_beat_count' \in 0..15
    <3>1. rg_beat_count \in 0..15 BY <1>1 DEF TypeOK, MVUTypeOK
    <3>2. rg_beat_count' \in {0, (rg_beat_count + 1) % 16, rg_beat_count}
      BY DEF rl_accumulate
    <3> QED BY ONLY <3>1, <3>2
  <2>5. ff_resp_to_cache' \in Seq(ReadResp)
    <3>1. ff_resp_to_cache \in Seq(ReadResp) BY <1>1 DEF TypeOK, MVUTypeOK
    <3>2. \/ ff_resp_to_cache' = ff_resp_to_cache
          \/ ff_resp_to_cache' = Append(ff_resp_to_cache, Head(ff_resp_from_mem))
      BY DEF rl_accumulate
    <3> QED BY <2>1, <3>1, <3>2
  <2>6. rg_pending_req' \in ReadReq \cup {Invalid} /\ rg_state' \in VerifyState
    BY <1>1 DEF rl_accumulate, pending_after, TypeOK, MVUTypeOK, VerifyState
  <2>7. UNCHANGED <<ff_req_from_cache, ff_evict_req, ff_req_to_mem, treeFifos, config,
                    rg_from_protected, rg_is_update, rg_base_leaf_index, cursor, group,
                    hashes, rg_mvu_error, rg_forward_beat, rf_nodes,
                    memVars, cacheVars, faults, errors>>
    BY <1>5 DEF rl_accumulate, UnitStep
  <2> QED BY <1>1, <2>1, <2>2, <2>3, <2>4, <2>5, <2>6, <2>7 DEF TypeOK, MVUTypeOK
<1>6. ASSUME UnitStep(rl_forward_unprotected) PROVE TypeOK'
  BY <1>1, <1>6, SMTT(40) DEF rl_forward_unprotected, pending_after, NotEmpty, UnitStep, TypeOK, MVUTypeOK
<1>7. ASSUME UnitStep(rl_forward_verified) PROVE TypeOK'
  <2> rl_forward_verified BY <1>7 DEF UnitStep
  <2>1. rg_buffered_responses[rg_forward_beat] \in ReadResp
    BY <1>1 DEF Buffered, TypeOK, MVUTypeOK
  <2>2. poisoned(rg_buffered_responses[rg_forward_beat]) \in ReadResp
    BY <1>1, <2>1 DEF poisoned, ReadResp, TypeOK, MVUTypeOK
  <2>3. ff_resp_to_cache' \in Seq(ReadResp)
    BY <1>1, <2>2 DEF rl_forward_verified, TypeOK, MVUTypeOK
  <2>4. rg_forward_beat' \in 0..15
    <3>1. rg_forward_beat \in 0..15 BY <1>1 DEF TypeOK, MVUTypeOK
    <3> QED BY <3>1 DEF rl_forward_verified
  <2>5. /\ rg_mvu_error' \in BOOLEAN /\ rg_from_protected' \in BOOLEAN
        /\ rg_state' \in VerifyState /\ rg_pending_req' \in ReadReq \cup {Invalid}
    BY <1>1 DEF rl_forward_verified, TypeOK, MVUTypeOK, VerifyState
  <2>6. UNCHANGED <<ff_req_from_cache, ff_evict_req, memFifos, treeFifos, config,
                    rg_is_update, rg_base_leaf_index, cursor, group, hashes, rg_leaves,
                    rg_buffered_responses, rg_beat_count, rf_nodes,
                    memVars, cacheVars, faults, errors>>
    BY <1>7 DEF rl_forward_verified, UnitStep
  <2> QED BY <1>1, <2>3, <2>4, <2>5, <2>6 DEF TypeOK, MVUTypeOK
<1>8. UnitStep(MVUReadRule) =>
        \/ UnitStep(rl_forward_request) \/ UnitStep(rl_accumulate)
        \/ UnitStep(rl_forward_unprotected) \/ UnitStep(rl_forward_verified)
  BY DEF UnitStep, MVUReadRule
<1> QED
  BY <1>3, <1>4, <1>5, <1>6, <1>7, <1>8

(* So do the cache, the memories and the faults.                           *)
LEMMA TypeOKEnvironment ==
  ASSUME IInv PROVE Environment => TypeOK'
<1> USE DEF TypeOK, MVUTypeOK
<1>1. TypeOK /\ Cursor /\ TreePipe /\ MemPipe
  BY DEF IInv, Control, Transfer
<1>2. ASSUME NEW a \in Addr PROVE a % Arity \in Pos /\ line_of(a) \in Line
  BY Shape, Division, LineOfAddr DEF Pos, Addr
<1>3. 0 \in Pos
  BY Shape DEF Pos
<1>4. ASSUME NEW req \in ReadReq, CacheRead(req) PROVE TypeOK'
  BY <1>1, <1>4, SMTT(40) DEF CacheRead
<1>5. ASSUME NEW line \in Line, NEW d \in EvictData, CacheEvict(line, d) PROVE TypeOK'
  <2>1. line_base(line) \in Addr
    <3>1. line_base(line) + 0 \in Addr BY <1>3, WordOfLine
    <3>2. line_base(line) \in Int
      <4>1. line \in Int BY LineCount
      <4> QED BY <4>1, Shape DEF line_base
    <3> QED BY <3>1, <3>2
  <2>2. d \in [Pos -> Word]
    BY SystemAssumption
  <2>3. [addr |-> line_base(line), data |-> d] \in EvictReq
    BY <2>1, <2>2 DEF EvictReq
  <2>4. data' \in [Addr -> Word] /\ written' \in [Addr -> Word]
    BY <1>1, <1>2, <1>5, <2>2 DEF CacheEvict
  <2> QED BY <1>1, <1>5, <2>3, <2>4 DEF CacheEvict
<1>6. ASSUME NEW line \in Line, CacheDrop(line) PROVE TypeOK'
  BY <1>1, <1>6 DEF CacheDrop
<1>7. ASSUME NEW a \in Addr, NEW w \in Word, IoStore(a, w) PROVE TypeOK'
  BY <1>1, <1>7 DEF IoStore, EvictReq
<1>8. CASE CacheTake
  <2>1. (got + 1) % Arity \in Pos
    <3>1. got + 1 \in Int BY <1>1 DEF Pos
    <3> QED BY <3>1, Shape, Division DEF Pos
  <2>2. Head(inflight) \in ReadReq /\ Head(ff_resp_to_cache) \in ReadResp
    <3>1. inflight \in Seq(ReadReq) /\ ff_resp_to_cache \in Seq(ReadResp) BY <1>1
    <3>2. inflight # <<>> /\ ff_resp_to_cache # <<>>
      BY <1>8 DEF CacheTake, NotEmpty
    <3> QED BY ONLY <3>1, <3>2
  <2>3. line_of(Head(inflight).addr) \in Line
    BY <1>2, <2>2 DEF ReadReq
  <2>4. inflight' \in Seq(ReadReq) /\ got' \in Pos
    <3>1. inflight \in Seq(ReadReq) /\ got \in Pos BY <1>1
    <3> HIDE DEF TypeOK, MVUTypeOK
    <3> QED BY <1>3, <1>8, <2>1, <3>1 DEF CacheTake
  <2>5. held' \subseteq Line
    BY <1>1, <1>8, <2>3 DEF CacheTake
  <2>6. ff_resp_to_cache' \in Seq(ReadResp)
    BY <1>1, <1>8 DEF CacheTake, NotEmpty
  <2>7. UNCHANGED <<ff_req_from_cache, ff_evict_req, memFifos, treeFifos, mvuRegs,
                    memVars, written, faults, errors>>
    BY <1>8 DEF CacheTake
  <2> QED BY <1>1, <2>4, <2>5, <2>6, <2>7
<1>9. CASE MemAccept
  BY <1>1, <1>3, <1>9, SMTT(40) DEF MemAccept, NotEmpty
<1>10. CASE MemBeat
  <2>1. burst.req \in ReadReq /\ burst.beat \in Pos /\ burst.beat <= burst.req.len
    BY <1>1, <1>10 DEF MemBeat, MemPipe, PipeIdle, PipeAsked, PipeBurst, PipeDrain
  <2>2. data[wrap(burst.req, burst.beat)] \in Word
    <3>1. wrap(burst.req, burst.beat) \in Addr
      BY <2>1, WrapIsAddr DEF Pos
    <3>2. data \in [Addr -> Word] BY <1>1
    <3> QED BY ONLY <3>1, <3>2
  <2>3. burst.beat # burst.req.len => burst.beat + 1 \in Pos
    BY <2>1, Shape DEF Pos, ReadReq
  <2>4. [data |-> data[wrap(burst.req, burst.beat)],
         last |-> burst.beat = burst.req.len, err |-> FALSE] \in ReadResp
    BY <2>2 DEF ReadResp
  <2>5. burst' \in [req : ReadReq, beat : Pos] \cup {Invalid}
    BY <1>1, <1>10, <2>3 DEF MemBeat
  <2>6. ff_resp_from_mem' \in Seq(ReadResp)
    <3>1. ff_resp_from_mem \in Seq(ReadResp) BY <1>1
    <3>2. ff_resp_from_mem' = Append(ff_resp_from_mem,
            [data |-> data[wrap(burst.req, burst.beat)],
             last |-> burst.beat = burst.req.len, err |-> FALSE])
      BY <1>10 DEF MemBeat
    <3> QED BY ONLY <2>4, <3>1, <3>2
  <2>7. UNCHANGED <<cacheFifos, ff_req_to_mem, treeFifos, mvuRegs, data, tree,
                    cacheVars, faults, errors>>
    BY <1>10 DEF MemBeat
  <2> QED BY <1>1, <2>5, <2>6, <2>7
<1>11. CASE TreeRead
  <2>1. rg_state = "WAIT_SIBLINGS" /\ Head(ff_tree_req) = GroupReq
    <3> HIDE DEF TypeOK, MVUTypeOK
    <3>1. TreePipe BY <1>1
    <3>2. ff_tree_req # <<>> BY <1>11 DEF TreeRead, NotEmpty
    <3> QED BY ONLY <3>1, <3>2 DEF TreePipe
  <2>2. rg_state \in Walking /\ rg_current_level \in 1..MinHwLevel-1 /\ rg_current_level < Height
    <3> HIDE DEF TypeOK, MVUTypeOK
    <3>1. Cursor BY <1>1
    <3> QED BY <2>1, <3>1, Shape DEF Cursor, Walking, BelowRoot, Levels
  <2>3. \A k \in Pos : tree[<<rg_current_level, sibling_group_base(rg_current_index) + k>>] \in Word
    BY <1>1, <2>2, CursorSlots, MemNodeHas
  <2>4. [k \in Pos |-> tree[<<Head(ff_tree_req).level, Head(ff_tree_req).base_index + k>>]]
          \in [Pos -> Word]
    BY <2>1, <2>3 DEF GroupReq
  <2>5. ff_tree_req' \in Seq(TreeNodeReq) /\ ff_tree_resp' \in Seq([Pos -> Word])
    <3>1. ff_tree_req \in Seq(TreeNodeReq) /\ ff_tree_resp \in Seq([Pos -> Word])
      BY <1>1
    <3>2. /\ ff_tree_req # <<>> /\ ff_tree_req' = Tail(ff_tree_req)
          /\ ff_tree_resp' = Append(ff_tree_resp,
               [k \in Pos |-> tree[<<Head(ff_tree_req).level, Head(ff_tree_req).base_index + k>>]])
      BY <1>11 DEF TreeRead, NotEmpty
    <3> HIDE DEF TypeOK, MVUTypeOK
    <3> QED BY <2>4, <3>1, <3>2
  <2>6. UNCHANGED <<cacheFifos, memFifos, ff_tree_write, ff_tree_write_resp, mvuRegs,
                    memVars, cacheVars, faults, errors>>
    BY <1>11 DEF TreeRead
  <2> QED BY <1>1, <2>5, <2>6
<1>12. CASE TreeWrite
  <2>1. Head(ff_tree_write) \in TreeNodeWrite
    <3>1. ff_tree_write \in Seq(TreeNodeWrite) BY <1>1
    <3>2. ff_tree_write # <<>> BY <1>12 DEF TreeWrite, NotEmpty
    <3> QED BY ONLY <3>1, <3>2
  <2>2. tree' \in [MemNode -> Word]
    BY <1>1, <1>12, <2>1 DEF TreeWrite, TreeNodeWrite
  <2>3. ff_tree_write' \in Seq(TreeNodeWrite) /\ ff_tree_write_resp' \in Seq(BOOLEAN)
    <3>1. ff_tree_write \in Seq(TreeNodeWrite) /\ ff_tree_write_resp \in Seq(BOOLEAN)
      BY <1>1
    <3>2. /\ ff_tree_write # <<>> /\ ff_tree_write' = Tail(ff_tree_write)
          /\ ff_tree_write_resp' = Append(ff_tree_write_resp, TRUE)
      BY <1>12 DEF TreeWrite, NotEmpty
    <3> QED BY ONLY <3>1, <3>2
  <2>4. UNCHANGED <<cacheFifos, memFifos, ff_tree_req, ff_tree_resp, mvuRegs, data, burst,
                    cacheVars, faults, errors>>
    BY <1>12 DEF TreeWrite
  <2> QED BY <1>1, <2>2, <2>3, <2>4
<1>13. ASSUME NEW a \in Addr, NEW w \in Word, FaultData(a, w) PROVE TypeOK'
  <2>1. data' \in [Addr -> Word] /\ faults' \in 0..MaxFaults
    <3>1. data \in [Addr -> Word] /\ faults \in 0..MaxFaults BY <1>1
    <3> HIDE DEF TypeOK, MVUTypeOK
    <3> QED BY <1>13, <3>1, SystemAssumption DEF FaultData
  <2>2. UNCHANGED <<mvuVars, tree, burst, cacheVars, errors>>
    BY <1>13 DEF FaultData
  <2> QED BY <1>1, <2>1, <2>2
<1>14. ASSUME NEW n \in MemNode, NEW w \in Word, FaultNode(n, w) PROVE TypeOK'
  <2>1. tree' \in [MemNode -> Word] /\ faults' \in 0..MaxFaults
    <3>1. tree \in [MemNode -> Word] /\ faults \in 0..MaxFaults BY <1>1
    <3> HIDE DEF TypeOK, MVUTypeOK
    <3> QED BY <1>14, <3>1, SystemAssumption DEF FaultNode
  <2>2. UNCHANGED <<mvuVars, data, burst, cacheVars, errors>>
    BY <1>14 DEF FaultNode
  <2> QED BY <1>1, <2>1, <2>2
<1>15. BusError => faults' = faults /\ errors' \in 0..MaxErrors
  <2>1. errors \in 0..MaxErrors BY <1>1
  <2> HIDE DEF TypeOK, MVUTypeOK
  <2> QED BY <2>1, SystemAssumption DEF BusError
<1>16. ASSUME NEW junk \in Word, BeatFails(junk) PROVE TypeOK'
  <2>1. burst.req \in ReadReq /\ burst.beat \in Pos /\ burst.beat <= burst.req.len
    BY <1>1, <1>16 DEF BeatFails, MemPipe, PipeIdle, PipeAsked, PipeBurst, PipeDrain
  <2>2. burst.beat # burst.req.len => burst.beat + 1 \in Pos
    BY <2>1, Shape DEF Pos, ReadReq
  <2>3. burst' \in [req : ReadReq, beat : Pos] \cup {Invalid}
    BY <1>1, <1>16, <2>2 DEF BeatFails
  <2>4. [data |-> junk, last |-> burst.beat = burst.req.len, err |-> TRUE] \in ReadResp
    BY DEF ReadResp
  <2>5. ff_resp_from_mem' \in Seq(ReadResp)
    <3>1. ff_resp_from_mem \in Seq(ReadResp) BY <1>1
    <3>2. ff_resp_from_mem' = Append(ff_resp_from_mem,
            [data |-> junk, last |-> burst.beat = burst.req.len, err |-> TRUE])
      BY <1>16 DEF BeatFails
    <3> QED BY ONLY <2>4, <3>1, <3>2
  <2>6. /\ UNCHANGED <<cacheFifos, ff_req_to_mem, treeFifos, mvuRegs, data, tree, cacheVars>>
        /\ BusError
    BY <1>16 DEF BeatFails
  <2> QED BY <1>1, <1>15, <2>3, <2>5, <2>6
<1>17. ASSUME NEW junk \in [Pos -> Word], GroupReadFails(junk) PROVE TypeOK'
  <2>1. ff_tree_req' \in Seq(TreeNodeReq) /\ ff_tree_resp' \in Seq([Pos -> Word])
    <3>1. ff_tree_req \in Seq(TreeNodeReq) /\ ff_tree_resp \in Seq([Pos -> Word])
      BY <1>1
    <3>2. /\ ff_tree_req # <<>> /\ ff_tree_req' = Tail(ff_tree_req)
          /\ ff_tree_resp' = Append(ff_tree_resp, junk)
      BY <1>17 DEF GroupReadFails, NotEmpty
    <3> QED BY ONLY <1>17, <3>1, <3>2
  <2>2. /\ UNCHANGED <<cacheFifos, memFifos, ff_tree_write, ff_tree_write_resp, mvuRegs,
                       memVars, cacheVars>>
        /\ BusError
    BY <1>17 DEF GroupReadFails
  <2> QED BY <1>1, <1>15, <2>1, <2>2
<1>18. CASE NodeWriteFails
  <2>1. ff_tree_write' \in Seq(TreeNodeWrite) /\ ff_tree_write_resp' \in Seq(BOOLEAN)
    <3>1. ff_tree_write \in Seq(TreeNodeWrite) /\ ff_tree_write_resp \in Seq(BOOLEAN)
      BY <1>1
    <3>2. /\ ff_tree_write # <<>> /\ ff_tree_write' = Tail(ff_tree_write)
          /\ ff_tree_write_resp' = Append(ff_tree_write_resp, FALSE)
      BY <1>18 DEF NodeWriteFails, NotEmpty
    <3> QED BY ONLY <3>1, <3>2
  <2>2. /\ UNCHANGED <<cacheFifos, memFifos, ff_tree_req, ff_tree_resp, mvuRegs, memVars,
                       cacheVars>>
        /\ BusError
    BY <1>18 DEF NodeWriteFails
  <2> QED BY <1>1, <1>15, <2>1, <2>2
<1> QED
  BY <1>4, <1>5, <1>6, <1>7, <1>8, <1>9, <1>10, <1>11, <1>12, <1>13, <1>14,
     <1>16, <1>17, <1>18
  DEF Environment
-----------------------------------------------------------------------------
(* What the environment never touches.                                     *)
LEMMA EnvironmentFrame == Environment => UNCHANGED mvuRegs
<1> USE DEF mvuRegs
<1>1. \A req \in ReadReq : CacheRead(req) => UNCHANGED mvuRegs
  BY DEF CacheRead
<1>2. \A line \in Line, d \in EvictData : CacheEvict(line, d) => UNCHANGED mvuRegs
  BY DEF CacheEvict
<1>3. \A line \in Line : CacheDrop(line) => UNCHANGED mvuRegs
  BY DEF CacheDrop
<1>4. \A a \in Addr, w \in Word : IoStore(a, w) => UNCHANGED mvuRegs
  BY DEF IoStore
<1>5. CacheTake \/ MemAccept \/ MemBeat \/ TreeRead \/ TreeWrite => UNCHANGED mvuRegs
  BY DEF CacheTake, MemAccept, MemBeat, TreeRead, TreeWrite
<1>6. \A a \in Addr, w \in Word : FaultData(a, w) => UNCHANGED mvuRegs
  BY DEF FaultData
<1>7. \A n \in MemNode, w \in Word : FaultNode(n, w) => UNCHANGED mvuRegs
  BY DEF FaultNode
<1>8. /\ \A junk \in Word : BeatFails(junk) => UNCHANGED mvuRegs
      /\ \A junk \in [Pos -> Word] : GroupReadFails(junk) => UNCHANGED mvuRegs
      /\ NodeWriteFails => UNCHANGED mvuRegs
  BY DEF BeatFails, GroupReadFails, NodeWriteFails
<1> QED
  BY <1>1, <1>2, <1>3, <1>4, <1>5, <1>6, <1>7, <1>8 DEF Environment

(* The steps of the unit, one at a time.                                   *)
LEMMA UnitSteps ==
  Unit <=>
    \/ UnitStep(rl_start_update) \/ UnitStep(rl_forward_request)
    \/ UnitStep(rl_accumulate) \/ UnitStep(rl_forward_unprotected)
    \/ UnitStep(rl_forward_verified)
    \/ UnitStep(rl_compute_l0_parent) \/ UnitStep(rl_fetch_siblings)
    \/ UnitStep(rl_collect_hcache_siblings) \/ UnitStep(rl_wait_siblings)
    \/ UnitStep(rl_compute_parent) \/ UnitStep(rl_check_parent)
    \/ UnitStep(rl_update_node) \/ UnitStep(rl_wait_update_ack)
    \/ UnitStep(rl_propagate_up) \/ UnitStep(rl_verify_root)
    \/ UnitStep(rl_complete)
  BY DEF Unit, UnitStep, MVURule, MVUReadRule, MVUWalkRule

(* With the uncached accesses ordered, an update never starts while a read *)
(* is pending: the request register it would drop is empty.                *)
LEMMA UpdateStartsAlone ==
  ASSUME IInv, rl_start_update, is_protected(Head(ff_evict_req).addr)
  PROVE rg_pending_req = Invalid
<1>1. TypeOK /\ Session /\ InFlight /\ Ordered
  BY DEF IInv, Control, Transfer
<1>2. ff_evict_req \in Seq(EvictReq) /\ ff_evict_req # <<>>
  BY <1>1 DEF TypeOK, MVUTypeOK, rl_start_update, NotEmpty
<1>3. Head(ff_evict_req) \in Entries(ff_evict_req)
  BY <1>2 DEF Entries
<1>4. Unfolded # {}
  BY <1>3 DEF Unfolded
<1>5. ~UnprotectedInFlight
  BY <1>1, <1>4 DEF Ordered
<1>6. SUFFICES ASSUME rg_pending_req # Invalid PROVE FALSE
  OBVIOUS
<1>7. ~rg_from_protected
  BY <1>1 DEF Session, rl_start_update, Resting
<1>8. ~is_protected(rg_pending_req.addr)
  BY <1>1, <1>6, <1>7 DEF Session
<1>9. inflight[Answered + 1] = rg_pending_req /\ Len(inflight) >= Answered + 1
  <2>1. Active /\ Taken = Answered + 1
    BY <1>6 DEF Active, Taken
  <2>2. Len(ff_req_from_cache) \in Nat /\ Answered \in Nat
    BY <1>1 DEF TypeOK, MVUTypeOK, Answered, LastBeats
  <2> QED BY <1>1, <1>6, <2>1, <2>2 DEF InFlight, Tracks
<1>10. Answered + 1 \in DOMAIN inflight
  BY <1>1, <1>9 DEF TypeOK, Answered, LastBeats
<1>11. rg_pending_req \in Entries(inflight)
  BY <1>9, <1>10 DEF Entries
<1> QED
  BY <1>5, <1>8, <1>11 DEF UnprotectedInFlight

(* Every step keeps Session.                                               *)
LEMMA SessionStep ==
  ASSUME IInv PROVE Next => Session'
<1>1. TypeOK /\ Session
  BY DEF IInv, Control
<1>2. rg_from_protected \in BOOLEAN /\ rg_is_update \in BOOLEAN /\ rg_mvu_enabled \in BOOLEAN
  BY <1>1 DEF TypeOK, MVUTypeOK
<1>3. ASSUME UnitStep(rl_start_update) PROVE Session'
  <2> rl_start_update BY <1>3 DEF UnitStep
  <2>1. CASE is_protected(Head(ff_evict_req).addr)
    <3>1. rg_pending_req = Invalid
      BY <2>1, UpdateStartsAlone
    <3>2. /\ rg_is_update' = TRUE /\ rg_state' = "COMPUTE_L0_PARENT"
          /\ UNCHANGED <<rg_pending_req, rg_from_protected, rg_mvu_enabled>>
      BY <1>1, <2>1 DEF rl_start_update, Session
    <3>3. rg_from_protected = FALSE
      BY <1>1, <1>2 DEF rl_start_update, Session, Resting
    <3> QED BY <1>1, <3>1, <3>2, <3>3 DEF Session, Resting, ReadOnly, UpdateOnly
  <2>2. CASE ~is_protected(Head(ff_evict_req).addr)
    <3>1. UNCHANGED <<session, rg_state, rg_mvu_enabled>>
      BY <2>2 DEF rl_start_update
    <3> QED BY <1>1, <3>1 DEF Session
  <2> QED BY <2>1, <2>2
<1>4. ASSUME UnitStep(rl_forward_request) PROVE Session'
  <2> rl_forward_request BY <1>4 DEF UnitStep
  <2>1. /\ rg_pending_req' = Head(ff_req_from_cache)
        /\ rg_pending_req' \in ReadReq /\ rg_pending_req' # Invalid
        /\ rg_state = "IDLE" /\ rg_mvu_enabled' /\ rg_mvu_enabled
    <3>1. Head(ff_req_from_cache) \in ReadReq
      <4>1. ff_req_from_cache \in Seq(ReadReq) BY <1>1 DEF TypeOK, MVUTypeOK
      <4>2. ff_req_from_cache # <<>> BY DEF rl_forward_request, NotEmpty
      <4> QED BY ONLY <4>1, <4>2
    <3>2. Invalid \notin ReadReq
      BY InvalidApart
    <3> QED BY <1>1, <3>1, <3>2 DEF rl_forward_request, Session
  <2>2. CASE is_protected(Head(ff_req_from_cache).addr)
    <3>1. /\ rg_from_protected' = TRUE /\ rg_is_update' = FALSE
          /\ rg_state' = "ACCUMULATING"
          /\ rg_base_leaf_index' = addr_to_leaf_index(Head(ff_req_from_cache).addr)
      BY <2>1, <2>2 DEF rl_forward_request
    <3> QED BY <2>1, <2>2, <3>1 DEF Session, Resting, ReadOnly, UpdateOnly
  <2>3. CASE ~is_protected(Head(ff_req_from_cache).addr)
    <3>1. rg_from_protected' = FALSE /\ UNCHANGED <<rg_is_update, rg_state>>
      BY <2>3 DEF rl_forward_request
    <3>2. rg_is_update = FALSE
      BY <1>1, <1>2, <2>1 DEF Session, Resting
    <3> QED BY <2>1, <2>3, <3>1, <3>2 DEF Session, Resting, ReadOnly, UpdateOnly
  <2> QED BY <2>2, <2>3
<1>5. ASSUME UnitStep(rl_accumulate) PROVE Session'
  <2> rl_accumulate BY <1>5 DEF UnitStep
  <2>1. rg_state = "ACCUMULATING" /\ rg_from_protected
    BY <1>1 DEF rl_accumulate, Session, ReadOnly
  <2>2. /\ rg_state' \in {"ACCUMULATING", "COMPUTE_L0_PARENT"}
        /\ UNCHANGED <<session, rg_mvu_enabled>>
    BY <2>1 DEF rl_accumulate
  <2> QED BY <1>1, <2>1, <2>2 DEF Session, Resting, ReadOnly, UpdateOnly
<1>6. ASSUME UnitStep(rl_forward_unprotected) PROVE Session'
  <2>1. /\ rg_from_protected = FALSE
        /\ rg_pending_req' \in {Invalid, rg_pending_req}
        /\ UNCHANGED <<rg_from_protected, rg_is_update, rg_state, rg_mvu_enabled>>
    BY <1>2, <1>6 DEF rl_forward_unprotected, unverified, pending_after, UnitStep
  <2> QED BY <1>1, <2>1 DEF Session
<1>7. ASSUME UnitStep(rl_forward_verified) PROVE Session'
  <2>1. rg_state = "FORWARD_TO_CACHE" /\ UNCHANGED <<rg_is_update, rg_mvu_enabled>>
    BY <1>7 DEF rl_forward_verified, UnitStep
  <2>2. \/ rg_state' = "IDLE" /\ rg_pending_req' = Invalid /\ rg_from_protected' = FALSE
        \/ UNCHANGED <<rg_state, rg_pending_req, rg_from_protected, rg_base_leaf_index>>
    BY <1>7 DEF rl_forward_verified, UnitStep
  <2>3. rg_is_update = FALSE
    BY <1>1, <1>2, <2>1 DEF Session, Resting
  <2> QED BY <1>1, <2>1, <2>2, <2>3 DEF Session, Resting, ReadOnly, UpdateOnly
<1>8. ASSUME UnitStep(rl_complete) PROVE Session'
  <2>1. /\ rg_pending_req' = Invalid /\ rg_from_protected' = FALSE
        /\ UNCHANGED rg_mvu_enabled
        /\ IF rg_is_update THEN update_done ELSE read_done
    BY <1>8 DEF rl_complete, UnitStep
  <2>2. rg_state' \in Resting /\ rg_is_update' = FALSE
    BY <1>2, <2>1 DEF update_done, read_done, Resting
  <2> QED BY <1>1, <2>1, <2>2 DEF Session, Resting, ReadOnly, UpdateOnly
<1>9. ASSUME UnitStep(rl_compute_l0_parent) PROVE Session'
  BY <1>1, <1>2, <1>9 DEF rl_compute_l0_parent, UnitStep, Session, Resting, ReadOnly, UpdateOnly
<1>10. ASSUME UnitStep(rl_fetch_siblings) PROVE Session'
  BY <1>1, <1>2, <1>10 DEF rl_fetch_siblings, UnitStep, Session, Resting, ReadOnly, UpdateOnly
<1>11. ASSUME UnitStep(rl_collect_hcache_siblings) PROVE Session'
  BY <1>1, <1>2, <1>11 DEF rl_collect_hcache_siblings, UnitStep, Session, Resting, ReadOnly, UpdateOnly
<1>12. ASSUME UnitStep(rl_wait_siblings) PROVE Session'
  BY <1>1, <1>2, <1>12 DEF rl_wait_siblings, UnitStep, Session, Resting, ReadOnly, UpdateOnly
<1>13. ASSUME UnitStep(rl_compute_parent) PROVE Session'
  BY <1>1, <1>2, <1>13 DEF rl_compute_parent, UnitStep, Session, Resting, ReadOnly, UpdateOnly
<1>14. ASSUME UnitStep(rl_check_parent) PROVE Session'
  BY <1>1, <1>2, <1>14 DEF rl_check_parent, UnitStep, Session, Resting, ReadOnly, UpdateOnly
<1>15. ASSUME UnitStep(rl_update_node) PROVE Session'
  BY <1>1, <1>2, <1>15 DEF rl_update_node, UnitStep, Session, Resting, ReadOnly, UpdateOnly
<1>16. ASSUME UnitStep(rl_wait_update_ack) PROVE Session'
  BY <1>1, <1>2, <1>16 DEF rl_wait_update_ack, UnitStep, Session, Resting, ReadOnly, UpdateOnly
<1>17. ASSUME UnitStep(rl_propagate_up) PROVE Session'
  BY <1>1, <1>2, <1>17 DEF rl_propagate_up, UnitStep, Session, Resting, ReadOnly, UpdateOnly
<1>18. ASSUME UnitStep(rl_verify_root) PROVE Session'
  BY <1>1, <1>2, <1>18 DEF rl_verify_root, UnitStep, Session, Resting, ReadOnly, UpdateOnly
<1>19. ASSUME Environment PROVE Session'
  <2>1. UNCHANGED mvuRegs BY <1>19, EnvironmentFrame
  <2> QED BY <1>1, <2>1 DEF Session
<1> QED
  BY UnitSteps, <1>3, <1>4, <1>5, <1>6, <1>7, <1>8, <1>9, <1>10, <1>11, <1>12, <1>13, <1>14, <1>15, <1>16, <1>17, <1>18, <1>19
  DEF Next

(* The rules of a read and the start of an update leave the walk alone.    *)
LEMMA ReadRuleFrame ==
  ASSUME IInv,
         \/ UnitStep(rl_start_update) \/ UnitStep(rl_forward_request)
         \/ UnitStep(rl_accumulate) \/ UnitStep(rl_forward_unprotected)
         \/ UnitStep(rl_forward_verified)
  PROVE /\ UNCHANGED <<treeFifos, cursor, rg_my_node_hash>>
        /\ \/ rg_state' = rg_state
           \/ rg_state \notin Walking /\ rg_state' \notin Walking
<1>1. CASE UnitStep(rl_start_update)
  BY <1>1 DEF rl_start_update, UnitStep, Walking
<1>2. CASE UnitStep(rl_forward_request)
  BY <1>2 DEF rl_forward_request, UnitStep, Walking
<1>3. CASE UnitStep(rl_accumulate)
  BY <1>3 DEF rl_accumulate, UnitStep, Walking
<1>4. CASE UnitStep(rl_forward_unprotected)
  BY <1>4 DEF rl_forward_unprotected, UnitStep
<1>5. CASE UnitStep(rl_forward_verified)
  BY <1>5 DEF rl_forward_verified, UnitStep, Walking
<1> QED
  BY <1>1, <1>2, <1>3, <1>4, <1>5

(* Every step keeps Cursor: rl_propagate_up only names nodes that exist,   *)
(* and stops at the root.                                                  *)
LEMMA CursorStep ==
  ASSUME IInv PROVE Next => Cursor'
<1>1. TypeOK /\ Cursor
  BY DEF IInv, Control
<1>2. rg_state \in Walking =>
        /\ rg_current_level \in 1..Height /\ rg_current_level \in Levels
        /\ rg_current_index \in NodesOf(rg_current_level)
  BY <1>1 DEF Cursor, Levels
<1>3. Height \in Nat /\ MinHwLevel \in 2..Height
  BY Shape
<1>4. ASSUME \/ UnitStep(rl_start_update) \/ UnitStep(rl_forward_request)
             \/ UnitStep(rl_accumulate) \/ UnitStep(rl_forward_unprotected)
             \/ UnitStep(rl_forward_verified)
      PROVE Cursor'
  <2>1. UNCHANGED cursor /\ (rg_state' = rg_state \/ rg_state' \notin Walking)
    BY <1>4, ReadRuleFrame
  <2> QED BY <1>1, <2>1 DEF Cursor, Walking, BelowRoot, NodesOf
<1>5. ASSUME UnitStep(rl_compute_l0_parent) PROVE Cursor'
  <2>1. parent_index(rg_base_leaf_index) \in NodesOf(1)
    <3>1. 0 \in 0..Height-1 BY Shape
    <3>2. rg_base_leaf_index \in NodesOf(0) BY <1>1 DEF TypeOK, MVUTypeOK, NodesOf
    <3>3. parent_index(rg_base_leaf_index) \in NodesOf(0 + 1) BY <3>1, <3>2, ParentIsNode
    <3> QED BY <3>3
  <2>2. /\ rg_current_level' = 1 /\ rg_current_index' = parent_index(rg_base_leaf_index)
        /\ rg_state' = "FETCH_SIBLINGS"
    BY <1>5 DEF rl_compute_l0_parent, UnitStep
  <2>3. 1 \in Levels
    BY <1>3 DEF Levels
  <2> QED BY <2>1, <2>2, <2>3 DEF Cursor, BelowRoot
<1>6. ASSUME UnitStep(rl_fetch_siblings) PROVE Cursor'
  <2>1. rg_state \in Walking /\ UNCHANGED cursor
    BY <1>6 DEF rl_fetch_siblings, UnitStep, Walking
  <2> QED BY <1>1, <1>2, <1>3, <1>6, <2>1 DEF rl_fetch_siblings, UnitStep, Cursor, BelowRoot, Walking, NodesOf, at_root, is_hw_level
<1>7. ASSUME UnitStep(rl_collect_hcache_siblings) PROVE Cursor'
  <2>1. rg_state \in Walking /\ UNCHANGED cursor
    BY <1>7 DEF rl_collect_hcache_siblings, UnitStep, Walking
  <2> QED BY <1>1, <1>2, <1>3, <1>7, <2>1 DEF rl_collect_hcache_siblings, UnitStep, Cursor, BelowRoot, Walking, NodesOf
<1>8. ASSUME UnitStep(rl_wait_siblings) PROVE Cursor'
  <2>1. rg_state \in Walking /\ UNCHANGED cursor
    BY <1>8 DEF rl_wait_siblings, UnitStep, Walking
  <2> QED BY <1>1, <1>2, <1>3, <1>8, <2>1 DEF rl_wait_siblings, UnitStep, Cursor, BelowRoot, Walking, NodesOf
<1>9. ASSUME UnitStep(rl_compute_parent) PROVE Cursor'
  <2>1. rg_state \in Walking /\ UNCHANGED cursor
    BY <1>9 DEF rl_compute_parent, UnitStep, Walking
  <2> QED BY <1>1, <1>2, <1>3, <1>9, <2>1 DEF rl_compute_parent, UnitStep, Cursor, BelowRoot, Walking, NodesOf
<1>10. ASSUME UnitStep(rl_check_parent) PROVE Cursor'
  <2>1. rg_state \in Walking /\ UNCHANGED cursor
    BY <1>10 DEF rl_check_parent, UnitStep, Walking
  <2> QED BY <1>1, <1>2, <1>3, <1>10, <2>1 DEF rl_check_parent, UnitStep, Cursor, BelowRoot, Walking, NodesOf, at_root
<1>11. ASSUME UnitStep(rl_update_node) PROVE Cursor'
  <2>1. rg_state \in Walking /\ UNCHANGED cursor
    BY <1>11 DEF rl_update_node, UnitStep, Walking
  <2> QED BY <1>1, <1>2, <1>3, <1>11, <2>1 DEF rl_update_node, UnitStep, Cursor, BelowRoot, Walking, NodesOf, at_root, is_hw_level
<1>12. ASSUME UnitStep(rl_wait_update_ack) PROVE Cursor'
  <2>1. rg_state \in Walking /\ UNCHANGED cursor
    BY <1>12 DEF rl_wait_update_ack, UnitStep, Walking
  <2> QED BY <1>1, <1>2, <1>3, <1>12, <2>1 DEF rl_wait_update_ack, UnitStep, Cursor, BelowRoot, Walking, NodesOf, at_root
<1>13. ASSUME UnitStep(rl_verify_root) PROVE Cursor'
  <2>1. rg_state \in Walking /\ UNCHANGED cursor
    BY <1>13 DEF rl_verify_root, UnitStep, Walking
  <2> QED BY <1>1, <1>2, <1>3, <1>13, <2>1 DEF rl_verify_root, UnitStep, Cursor, BelowRoot, Walking, NodesOf
<1>14. ASSUME UnitStep(rl_complete) PROVE Cursor'
  <2>1. rg_state \in Walking /\ UNCHANGED cursor
    BY <1>14 DEF rl_complete, UnitStep, Walking
  <2> QED BY <1>1, <1>2, <1>3, <1>14, <2>1 DEF rl_complete, UnitStep, Cursor, BelowRoot, Walking, NodesOf, update_done, read_done
<1>15. ASSUME UnitStep(rl_propagate_up) PROVE Cursor'
  <2>1. rg_state \in Walking /\ rg_current_level < Height
    BY <1>1, <1>15 DEF rl_propagate_up, UnitStep, Cursor, Walking, BelowRoot
  <2>2. rg_current_level + 1 \in Levels
    BY <1>2, <1>3, <2>1 DEF Levels
  <2>3. parent_index(rg_current_index) \in NodesOf(rg_current_level + 1)
    BY <1>1, <2>1, CursorSlots
  <2>4. /\ rg_current_level' = rg_current_level + 1
        /\ rg_current_index' = parent_index(rg_current_index)
        /\ rg_state' = "FETCH_SIBLINGS"
    BY <1>15 DEF rl_propagate_up, UnitStep
  <2> QED BY <2>2, <2>3, <2>4 DEF Cursor, BelowRoot
<1>16. ASSUME Environment PROVE Cursor'
  <2>1. UNCHANGED mvuRegs BY <1>16, EnvironmentFrame
  <2> QED BY <1>1, <2>1 DEF Cursor, NodesOf
<1> QED
  BY UnitSteps, <1>4, <1>5, <1>6, <1>7, <1>8, <1>9, <1>10, <1>11, <1>12, <1>13, <1>14, <1>15, <1>16
  DEF Next

(* Every step keeps TreePipe: one tree request or response at a time.      *)
LEMMA TreePipeStep ==
  ASSUME IInv PROVE Next => TreePipe'
<1>1. TypeOK /\ TreePipe
  BY DEF IInv, Control
<1>2. ASSUME \/ UnitStep(rl_start_update) \/ UnitStep(rl_forward_request)
             \/ UnitStep(rl_accumulate) \/ UnitStep(rl_forward_unprotected)
             \/ UnitStep(rl_forward_verified)
      PROVE TreePipe'
  <2>1. /\ UNCHANGED <<treeFifos, cursor, rg_my_node_hash>>
        /\ \/ rg_state' = rg_state
           \/ rg_state \notin Walking /\ rg_state' \notin Walking
    BY <1>2, ReadRuleFrame
  <2> QED BY <1>1, <2>1 DEF TreePipe, GroupReq, NodeWrite, Walking
<1>3. ASSUME UnitStep(rl_fetch_siblings) PROVE TreePipe'
  <2> rl_fetch_siblings BY <1>3 DEF UnitStep
  <2>1. /\ rg_state = "FETCH_SIBLINGS"
        /\ UNCHANGED <<ff_tree_resp, ff_tree_write, ff_tree_write_resp, cursor, rg_my_node_hash>>
    BY DEF rl_fetch_siblings
  <2>2. \/ rg_state' \in {"UPDATE_NODE", "CHECK_PARENT", "FETCH_HCACHE_SIBLINGS"}
           /\ UNCHANGED ff_tree_req
        \/ rg_state' = "WAIT_SIBLINGS" /\ ff_tree_req' = Append(ff_tree_req, GroupReq)
    BY DEF rl_fetch_siblings, GroupReq
  <2> QED BY <1>1, <2>1, <2>2 DEF TreePipe, GroupReq, NodeWrite
<1>4. ASSUME UnitStep(rl_wait_siblings) PROVE TreePipe'
  <2>1. /\ rg_state = "WAIT_SIBLINGS" /\ rg_state' = "COMPUTE_PARENT"
        /\ ff_tree_resp # <<>> /\ ff_tree_resp' = Tail(ff_tree_resp)
        /\ UNCHANGED <<ff_tree_req, ff_tree_write, ff_tree_write_resp>>
    BY <1>4 DEF rl_wait_siblings, UnitStep, NotEmpty
  <2>2. ff_tree_req = <<>> /\ Len(ff_tree_resp) = 1
    BY <1>1, <2>1 DEF TreePipe
  <2>3. ff_tree_resp' = <<>>
    BY <1>1, <2>1, <2>2, TailOfOne DEF TypeOK, MVUTypeOK
  <2> QED BY <1>1, <2>1, <2>2, <2>3 DEF TreePipe
<1>5. ASSUME UnitStep(rl_update_node) PROVE TreePipe'
  <2> rl_update_node BY <1>5 DEF UnitStep
  <2>1. /\ rg_state = "UPDATE_NODE"
        /\ UNCHANGED <<ff_tree_req, ff_tree_resp, ff_tree_write_resp, cursor, rg_my_node_hash>>
    BY DEF rl_update_node
  <2>2. \/ rg_state' \in {"COMPLETE", "PROPAGATE_UP"} /\ UNCHANGED ff_tree_write
        \/ rg_state' = "WAIT_UPDATE_ACK" /\ ff_tree_write' = Append(ff_tree_write, NodeWrite)
    BY DEF rl_update_node, NodeWrite
  <2> QED BY <1>1, <2>1, <2>2 DEF TreePipe, GroupReq, NodeWrite
<1>6. ASSUME UnitStep(rl_wait_update_ack) PROVE TreePipe'
  <2>1. /\ rg_state = "WAIT_UPDATE_ACK" /\ rg_state' \in {"COMPLETE", "PROPAGATE_UP"}
        /\ ff_tree_write_resp # <<>> /\ ff_tree_write_resp' = Tail(ff_tree_write_resp)
        /\ UNCHANGED <<ff_tree_req, ff_tree_resp, ff_tree_write>>
    BY <1>6 DEF rl_wait_update_ack, UnitStep, NotEmpty
  <2>2. ff_tree_write = <<>> /\ Len(ff_tree_write_resp) = 1
    BY <1>1, <2>1 DEF TreePipe
  <2>3. ff_tree_write_resp' = <<>>
    BY <1>1, <2>1, <2>2, TailOfOne DEF TypeOK, MVUTypeOK
  <2> QED BY <1>1, <2>1, <2>2, <2>3 DEF TreePipe
<1>7. ASSUME UnitStep(rl_compute_l0_parent) PROVE TreePipe'
  <2>1. /\ rg_state \notin {"WAIT_SIBLINGS", "WAIT_UPDATE_ACK"}
        /\ rg_state' \notin {"WAIT_SIBLINGS", "WAIT_UPDATE_ACK"} /\ UNCHANGED treeFifos
    BY <1>7 DEF rl_compute_l0_parent, UnitStep
  <2> QED BY <1>1, <2>1 DEF TreePipe
<1>8. ASSUME UnitStep(rl_collect_hcache_siblings) PROVE TreePipe'
  <2>1. /\ rg_state \notin {"WAIT_SIBLINGS", "WAIT_UPDATE_ACK"}
        /\ rg_state' \notin {"WAIT_SIBLINGS", "WAIT_UPDATE_ACK"} /\ UNCHANGED treeFifos
    BY <1>8 DEF rl_collect_hcache_siblings, UnitStep
  <2> QED BY <1>1, <2>1 DEF TreePipe
<1>9. ASSUME UnitStep(rl_compute_parent) PROVE TreePipe'
  <2>1. /\ rg_state \notin {"WAIT_SIBLINGS", "WAIT_UPDATE_ACK"}
        /\ rg_state' \notin {"WAIT_SIBLINGS", "WAIT_UPDATE_ACK"} /\ UNCHANGED treeFifos
    BY <1>9 DEF rl_compute_parent, UnitStep
  <2> QED BY <1>1, <2>1 DEF TreePipe
<1>10. ASSUME UnitStep(rl_check_parent) PROVE TreePipe'
  <2>1. /\ rg_state \notin {"WAIT_SIBLINGS", "WAIT_UPDATE_ACK"}
        /\ rg_state' \notin {"WAIT_SIBLINGS", "WAIT_UPDATE_ACK"} /\ UNCHANGED treeFifos
    BY <1>10 DEF rl_check_parent, UnitStep
  <2> QED BY <1>1, <2>1 DEF TreePipe
<1>11. ASSUME UnitStep(rl_propagate_up) PROVE TreePipe'
  <2>1. /\ rg_state \notin {"WAIT_SIBLINGS", "WAIT_UPDATE_ACK"}
        /\ rg_state' \notin {"WAIT_SIBLINGS", "WAIT_UPDATE_ACK"} /\ UNCHANGED treeFifos
    BY <1>11 DEF rl_propagate_up, UnitStep
  <2> QED BY <1>1, <2>1 DEF TreePipe
<1>12. ASSUME UnitStep(rl_verify_root) PROVE TreePipe'
  <2>1. /\ rg_state \notin {"WAIT_SIBLINGS", "WAIT_UPDATE_ACK"}
        /\ rg_state' \notin {"WAIT_SIBLINGS", "WAIT_UPDATE_ACK"} /\ UNCHANGED treeFifos
    BY <1>12 DEF rl_verify_root, UnitStep
  <2> QED BY <1>1, <2>1 DEF TreePipe
<1>13. ASSUME UnitStep(rl_complete) PROVE TreePipe'
  <2>1. /\ rg_state \notin {"WAIT_SIBLINGS", "WAIT_UPDATE_ACK"}
        /\ rg_state' \notin {"WAIT_SIBLINGS", "WAIT_UPDATE_ACK"} /\ UNCHANGED treeFifos
    BY <1>13 DEF rl_complete, UnitStep, update_done, read_done
  <2> QED BY <1>1, <2>1 DEF TreePipe
<1>14. ASSUME TreeRead \/ \E junk \in [Pos -> Word] : GroupReadFails(junk) PROVE TreePipe'
  <2>1. /\ ff_tree_req # <<>> /\ ff_tree_req' = Tail(ff_tree_req)
        /\ \E resp : ff_tree_resp' = Append(ff_tree_resp, resp)
        /\ UNCHANGED <<ff_tree_write, ff_tree_write_resp, mvuRegs>>
    BY <1>14 DEF TreeRead, GroupReadFails, NotEmpty
  <2>2. rg_state = "WAIT_SIBLINGS" /\ ff_tree_req = <<GroupReq>> /\ ff_tree_resp = <<>>
    BY <1>1, <2>1 DEF TreePipe
  <2>3. ff_tree_req' = <<>> /\ Len(ff_tree_resp') = 1
    BY <2>1, <2>2
  <2> QED BY <1>1, <2>1, <2>2, <2>3 DEF TreePipe, GroupReq, NodeWrite
<1>15. ASSUME TreeWrite \/ NodeWriteFails PROVE TreePipe'
  <2>1. /\ ff_tree_write # <<>> /\ ff_tree_write' = Tail(ff_tree_write)
        /\ \E ack : ff_tree_write_resp' = Append(ff_tree_write_resp, ack)
        /\ UNCHANGED <<ff_tree_req, ff_tree_resp, mvuRegs>>
    BY <1>15 DEF TreeWrite, NodeWriteFails, NotEmpty
  <2>2. rg_state = "WAIT_UPDATE_ACK" /\ ff_tree_write = <<NodeWrite>> /\ ff_tree_write_resp = <<>>
    BY <1>1, <2>1 DEF TreePipe
  <2>3. ff_tree_write' = <<>> /\ Len(ff_tree_write_resp') = 1
    BY <2>1, <2>2
  <2> QED BY <1>1, <2>1, <2>2, <2>3 DEF TreePipe, GroupReq, NodeWrite
<1>16. ASSUME Environment, UNCHANGED treeFifos PROVE TreePipe'
  <2>1. UNCHANGED mvuRegs BY <1>16, EnvironmentFrame
  <2> QED BY <1>1, <1>16, <2>1 DEF TreePipe, GroupReq, NodeWrite
<1>17. Environment =>
         \/ TreeRead \/ \E junk \in [Pos -> Word] : GroupReadFails(junk)
         \/ TreeWrite \/ NodeWriteFails
         \/ UNCHANGED treeFifos
  <2>1. \A req \in ReadReq : CacheRead(req) => UNCHANGED treeFifos BY DEF CacheRead
  <2>2. \A line \in Line, d \in EvictData : CacheEvict(line, d) => UNCHANGED treeFifos
    BY DEF CacheEvict
  <2>3. \A line \in Line : CacheDrop(line) => UNCHANGED treeFifos BY DEF CacheDrop
  <2>4. \A a \in Addr, w \in Word : IoStore(a, w) => UNCHANGED treeFifos BY DEF IoStore
  <2>5. CacheTake \/ MemAccept \/ MemBeat => UNCHANGED treeFifos
    BY DEF CacheTake, MemAccept, MemBeat
  <2>6. \A a \in Addr, w \in Word : FaultData(a, w) => UNCHANGED treeFifos BY DEF FaultData
  <2>7. \A m \in MemNode, w \in Word : FaultNode(m, w) => UNCHANGED treeFifos BY DEF FaultNode
  <2>8. \A junk \in Word : BeatFails(junk) => UNCHANGED treeFifos BY DEF BeatFails
  <2> QED BY <2>1, <2>2, <2>3, <2>4, <2>5, <2>6, <2>7, <2>8 DEF Environment
<1> QED
  BY UnitSteps, <1>2, <1>3, <1>4, <1>5, <1>6, <1>7, <1>8, <1>9, <1>10, <1>11, <1>12, <1>13, <1>14, <1>15, <1>16, <1>17
  DEF Next
-----------------------------------------------------------------------------
(* A queue loses its head.                                                 *)
LEMMA TailShift ==
  ASSUME NEW S, NEW q \in Seq(S), q # <<>>
  PROVE /\ Tail(q) \in Seq(S) /\ Len(q) \in Nat /\ Len(q) >= 1
        /\ Len(Tail(q)) = Len(q) - 1 /\ Head(q) = q[1]
        /\ \A k \in 1..Len(Tail(q)) : Tail(q)[k] = q[k + 1]
<1>1. Len(q) \in Nat \ {0}
  BY EmptySeq
<1> QED
  BY <1>1

(* Appending to a queue keeps the elements it had.                         *)
LEMMA AppendShift ==
  ASSUME NEW S, NEW q \in Seq(S), NEW x \in S
  PROVE /\ Append(q, x) \in Seq(S) /\ Len(q) \in Nat /\ Len(Append(q, x)) = Len(q) + 1
        /\ \A k \in 1..Len(q) : Append(q, x)[k] = q[k]
        /\ Append(q, x)[Len(q) + 1] = x
  OBVIOUS

(* The pending read is one of the reads in flight.                         *)
LEMMA PendingInFlight ==
  ASSUME IInv, rg_pending_req # Invalid
  PROVE rg_pending_req \in Entries(inflight)
<1>1. TypeOK /\ InFlight
  BY DEF IInv, Transfer
<1>2. Active /\ Taken = Answered + 1
  BY DEF Active, Taken
<1>3. Len(ff_req_from_cache) \in Nat /\ Answered \in Nat
  BY <1>1 DEF TypeOK, MVUTypeOK, Answered, LastBeats
<1>4. inflight[Answered + 1] = rg_pending_req /\ Len(inflight) >= Answered + 1
  <2>1. inflight[Answered + 1] = rg_pending_req
    BY <1>1 DEF InFlight
  <2>2. Len(inflight) = Taken + Len(ff_req_from_cache)
    BY <1>1 DEF InFlight, Tracks
  <2> HIDE DEF Taken
  <2> QED BY <1>2, <1>3, <2>1, <2>2
<1>5. Answered + 1 \in DOMAIN inflight
  BY <1>1, <1>3, <1>4 DEF TypeOK
<1> QED
  BY <1>4, <1>5 DEF Entries

(* The rules of the walk move no beat; between its end points they keep    *)
(* the session.                                                            *)
LEMMA WalkRuleFrame ==
  ASSUME \/ UnitStep(rl_compute_l0_parent) \/ UnitStep(rl_fetch_siblings)
         \/ UnitStep(rl_collect_hcache_siblings) \/ UnitStep(rl_wait_siblings)
         \/ UnitStep(rl_compute_parent) \/ UnitStep(rl_check_parent)
         \/ UnitStep(rl_update_node) \/ UnitStep(rl_wait_update_ack)
         \/ UnitStep(rl_propagate_up) \/ UnitStep(rl_verify_root)
  PROVE /\ UNCHANGED <<cacheFifos, memFifos, buffers, session, data, burst, cacheVars>>
        /\ rg_state \notin {"IDLE", "ACCUMULATING", "FORWARD_TO_CACHE"}
        /\ rg_state' \notin {"IDLE", "ACCUMULATING", "FORWARD_TO_CACHE"}
<1>1. CASE UnitStep(rl_compute_l0_parent)
  BY <1>1 DEF rl_compute_l0_parent, UnitStep
<1>2. CASE UnitStep(rl_fetch_siblings)
  BY <1>2 DEF rl_fetch_siblings, UnitStep
<1>3. CASE UnitStep(rl_collect_hcache_siblings)
  BY <1>3 DEF rl_collect_hcache_siblings, UnitStep
<1>4. CASE UnitStep(rl_wait_siblings)
  BY <1>4 DEF rl_wait_siblings, UnitStep
<1>5. CASE UnitStep(rl_compute_parent)
  BY <1>5 DEF rl_compute_parent, UnitStep
<1>6. CASE UnitStep(rl_check_parent)
  BY <1>6 DEF rl_check_parent, UnitStep
<1>7. CASE UnitStep(rl_update_node)
  BY <1>7 DEF rl_update_node, UnitStep
<1>8. CASE UnitStep(rl_wait_update_ack)
  BY <1>8 DEF rl_wait_update_ack, UnitStep
<1>9. CASE UnitStep(rl_propagate_up)
  BY <1>9 DEF rl_propagate_up, UnitStep
<1>10. CASE UnitStep(rl_verify_root)
  BY <1>10 DEF rl_verify_root, UnitStep
<1> QED
  BY <1>1, <1>2, <1>3, <1>4, <1>5, <1>6, <1>7, <1>8, <1>9, <1>10

(* What rl_complete does to the session, and what it leaves alone.         *)
LEMMA CompleteFrame ==
  ASSUME IInv, UnitStep(rl_complete)
  PROVE /\ UNCHANGED <<cacheFifos, memFifos, buffers, rg_base_leaf_index, data, burst, cacheVars>>
        /\ rg_state = "COMPLETE" /\ rg_pending_req' = Invalid
        /\ rg_from_protected' = FALSE /\ rg_is_update' = FALSE
        /\ rg_state' = IF rg_is_update THEN "IDLE" ELSE "FORWARD_TO_CACHE"
<1>1. rg_is_update \in BOOLEAN
  BY DEF IInv, TypeOK, MVUTypeOK
<1>2. /\ IF rg_is_update THEN update_done ELSE read_done
      /\ rg_state = "COMPLETE" /\ rg_pending_req' = Invalid /\ rg_from_protected' = FALSE
      /\ UNCHANGED <<cacheFifos, memFifos, buffers, rg_base_leaf_index, data, burst, cacheVars>>
  BY DEF rl_complete, UnitStep
<1> QED
  BY <1>1, <1>2 DEF update_done, read_done

(* A beat of a protected read is collected.                                *)
LEMMA AccumulateEffect ==
  ASSUME IInv, UnitStep(rl_accumulate)
  PROVE LET resp == Head(ff_resp_from_mem) IN
        /\ rg_state = "ACCUMULATING" /\ rg_from_protected /\ rg_pending_req # Invalid
        /\ ff_resp_from_mem # <<>> /\ ff_resp_from_mem' = Tail(ff_resp_from_mem)
        /\ rg_buffered_responses' = [rg_buffered_responses EXCEPT ![rg_beat_count] = resp]
        /\ rg_beat_count' = IF resp.last THEN 0 ELSE (rg_beat_count + 1) % 16
        /\ rg_state' = IF resp.last THEN "COMPUTE_L0_PARENT" ELSE rg_state
        /\ UNCHANGED <<ff_req_from_cache, ff_evict_req, ff_resp_to_cache, ff_req_to_mem,
                       session, rg_forward_beat, data, burst, cacheVars>>
<1>1. rl_accumulate /\ UNCHANGED <<data, burst, cacheVars>>
  BY DEF UnitStep
<1>2. rg_from_protected
  BY <1>1 DEF IInv, Control, Session, ReadOnly, rl_accumulate
<1> QED
  BY <1>1, <1>2 DEF rl_accumulate, NotEmpty

(* rl_forward_request puts the read it takes in ff_req_to_mem.             *)
LEMMA MemPipeRead ==
  ASSUME IInv, UnitStep(rl_forward_request) PROVE MemPipe'
<1>1. TypeOK /\ MemPipe
  BY DEF IInv, Transfer
<1> rl_forward_request /\ UNCHANGED burst
  BY DEF UnitStep
<1>2. /\ rg_pending_req = Invalid /\ NotEmpty(ff_req_from_cache)
      /\ rg_pending_req' = Head(ff_req_from_cache)
      /\ ff_req_to_mem' = Append(ff_req_to_mem, Head(ff_req_from_cache))
      /\ UNCHANGED <<burst, ff_resp_from_mem>>
  BY DEF rl_forward_request
<1>3. PipeIdle
  BY <1>1, <1>2 DEF MemPipe, PipeAsked, PipeBurst, PipeDrain, Awaiting
<1>4. Head(ff_req_from_cache) \in ReadReq
  <2>1. ff_req_from_cache \in Seq(ReadReq) BY <1>1 DEF TypeOK, MVUTypeOK
  <2>2. ff_req_from_cache # <<>> BY <1>2 DEF NotEmpty
  <2> QED BY ONLY <2>1, <2>2
<1>5. rg_from_protected' => rg_state' = "ACCUMULATING" /\ rg_beat_count' = 0
  BY DEF rl_forward_request
<1>6. ff_req_to_mem' = <<rg_pending_req'>> /\ rg_pending_req' # Invalid
  BY <1>2, <1>3, <1>4, AppendToNone, InvalidApart DEF PipeIdle
<1>7. PipeAsked'
  BY <1>2, <1>3, <1>5, <1>6 DEF PipeAsked, PipeIdle, Awaiting
<1> QED
  BY <1>7 DEF MemPipe

(* The second beat of two, and the count of beats at it.                   *)
LEMMA LastOfTwo ==
  ASSUME NEW S, NEW q \in Seq(S), Len(q) = 2
  PROVE (\A k \in DOMAIN q : q[k].last <=> k = Len(q))
          => \A k \in DOMAIN Tail(q) : Tail(q)[k].last <=> k = Len(Tail(q))
<1>1. q # <<>>
  OBVIOUS
<1>2. Tail(q) \in Seq(S) /\ Len(Tail(q)) = Len(q) - 1
  BY <1>1, TailShift
<1>3. Len(Tail(q)) = 1
  BY <1>2
<1>4. Tail(q)[1] = q[2]
  <2>1. \A k \in 1..Len(Tail(q)) : Tail(q)[k] = q[k + 1]
    BY <1>1, TailShift
  <2>2. Tail(q)[1] = q[1 + 1]
    <3>1. 1 \in 1..1 OBVIOUS
    <3>2. 1 \in 1..Len(Tail(q)) BY ONLY <1>3, <3>1, Zenon
    <3> QED BY <2>1, <3>2, Zenon
  <2>3. 1 + 1 = 2 OBVIOUS
  <2> QED BY <2>2, <2>3, Zenon
<1>5. ASSUME NEW k \in DOMAIN Tail(q) PROVE k = 1
  <2>1. DOMAIN Tail(q) = 1..Len(Tail(q)) BY <1>2, LenProperties
  <2>2. k \in 1..1 BY <1>3, <2>1
  <2>3. \A x \in 1..1 : x = 1 OBVIOUS
  <2> QED BY <2>2, <2>3, Zenon
<1>6. HAVE \A k \in DOMAIN q : q[k].last <=> k = Len(q)
<1>7. q[2].last
  <2>1. DOMAIN q = 1..Len(q) BY LenProperties
  <2>2. 2 \in DOMAIN q BY <2>1
  <2> QED BY <1>6, <2>2
<1> QED
  BY <1>3, <1>4, <1>5, <1>7

(* The four-bit beat counter does not wrap before the end of a line.       *)
LEMMA BeatBeforeLast ==
  ASSUME NEW b \in 0..15, b + 2 = Arity PROVE ((b + 1) % 16) + 1 = Arity
<1>1. b + 1 \in 0..15 /\ b + 1 + 1 = Arity
  BY Shape
<1>2. (b + 1) % 16 = b + 1
  BY <1>1
<1> QED
  BY <1>1, <1>2

(* Taking the head of what memory has answered.                            *)
LEMMA MemPipeTake ==
  ASSUME IInv, PipeBurst \/ PipeDrain, ff_resp_from_mem # <<>>,
         ff_resp_from_mem' = Tail(ff_resp_from_mem), UNCHANGED <<ff_req_to_mem, burst>>,
         UNCHANGED <<rg_from_protected>>,
         Head(ff_resp_from_mem).last => ~Awaiting',
         ~Head(ff_resp_from_mem).last => Awaiting' /\ UNCHANGED rg_pending_req,
         rg_from_protected /\ ~Head(ff_resp_from_mem).last =>
           rg_beat_count' = (rg_beat_count + 1) % 16
  PROVE MemPipe'
<1> DEFINE q == ff_resp_from_mem
<1>1. q \in Seq(ReadResp) /\ q' \in Seq(ReadResp) /\ rg_beat_count \in 0..15
  BY TailShift DEF IInv, TypeOK, MVUTypeOK
<1>2. /\ Len(q) \in Nat /\ Len(q) >= 1 /\ Len(q') = Len(q) - 1 /\ Head(q) = q[1]
      /\ \A k \in 1..Len(q') : q'[k] = q[k + 1]
  BY <1>1, TailShift
<1>3. DOMAIN q = 1..Len(q) /\ DOMAIN q' = 1..Len(q')
  BY <1>1
<1>4. CASE PipeBurst
  <2>1. ~Head(q).last
    BY <1>2, <1>3, <1>4 DEF PipeBurst, NoneLast
  <2>2. NoneLast(q')
    BY <1>2, <1>3, <1>4 DEF PipeBurst, NoneLast
  <2>3. rg_from_protected' => burst'.beat = rg_beat_count' + Len(q')
    <3>1. burst.beat \in Pos
      BY <1>4, InvalidApart DEF IInv, TypeOK, PipeBurst
    <3>2. rg_from_protected => burst.beat = rg_beat_count + Len(q)
      BY <1>4 DEF PipeBurst
    <3>3. rg_from_protected => rg_beat_count + 1 \in 0..15
      BY <1>1, <1>2, <3>1, <3>2, Shape DEF Pos
    <3> QED BY <1>1, <1>2, <2>1, <3>2, <3>3
  <2>4. PipeBurst'
    BY <1>4, <2>1, <2>2, <2>3 DEF PipeBurst
  <2> QED BY <2>4 DEF MemPipe
<1>5. CASE PipeDrain /\ Len(q) = 1
  <2>1. Head(q).last
    BY <1>2, <1>3, <1>5 DEF PipeDrain
  <2>2. q' = <<>>
    BY <1>1, <1>5, TailOfOne
  <2> QED BY <1>5, <2>1, <2>2 DEF MemPipe, PipeIdle, PipeDrain
<1>6. CASE PipeDrain /\ Len(q) # 1
  <2>1. Len(q) = 2
    BY <1>6 DEF PipeDrain, FifoDepth
  <2>2. ~Head(q).last
    BY <1>2, <1>3, <1>6, <2>1 DEF PipeDrain
  <2>3. \A k \in DOMAIN q' : q'[k].last <=> k = Len(q')
    BY <1>1, <1>6, <2>1, LastOfTwo DEF PipeDrain
  <2>4. rg_from_protected' => rg_beat_count' + Len(q') = Arity
    <3>1. rg_from_protected => rg_beat_count + 2 = Arity
      BY <1>6, <2>1 DEF PipeDrain
    <3>2. rg_from_protected => ((rg_beat_count + 1) % 16) + 1 = Arity
      BY <1>1, <3>1, BeatBeforeLast
    <3>3. rg_from_protected => rg_beat_count' = (rg_beat_count + 1) % 16
      BY <2>2
    <3>4. Len(q') = 1
      BY <1>2, <2>1
    <3> HIDE DEF q
    <3> QED BY <3>2, <3>3, <3>4
  <2>5. PipeDrain'
    BY <1>2, <1>6, <2>1, <2>2, <2>3, <2>4 DEF PipeDrain, FifoDepth
  <2> QED BY <2>5 DEF MemPipe
<1> QED
  BY <1>4, <1>5, <1>6

(* Every step keeps MemPipe.                                               *)
LEMMA MemPipeStep ==
  ASSUME IInv PROVE Next => MemPipe'
<1>1. TypeOK /\ MemPipe /\ Session /\ InFlight
  BY DEF IInv, Control, Transfer
<1>2. rg_from_protected \in BOOLEAN /\ rg_is_update \in BOOLEAN
  BY <1>1 DEF TypeOK, MVUTypeOK
<1>3. ff_req_to_mem # <<>> => PipeAsked
  BY <1>1 DEF MemPipe, PipeIdle, PipeBurst, PipeDrain
<1>4. burst # Invalid => PipeBurst
  BY <1>1 DEF MemPipe, PipeIdle, PipeAsked, PipeDrain
<1>5. ff_resp_from_mem # <<>> => PipeBurst \/ PipeDrain
  BY <1>1 DEF MemPipe, PipeIdle, PipeAsked
<1>6. ASSUME UnitStep(rl_start_update) PROVE MemPipe'
  <2> rl_start_update /\ UNCHANGED burst BY <1>6 DEF UnitStep
  <2>1. CASE is_protected(Head(ff_evict_req).addr)
    <3>1. rg_pending_req = Invalid
      BY <2>1, UpdateStartsAlone
    <3>2. UNCHANGED <<rg_pending_req, memFifos>>
      BY DEF rl_start_update
    <3> QED BY <1>1, <3>1, <3>2 DEF MemPipe, PipeIdle, PipeAsked, PipeBurst, PipeDrain, Awaiting
  <2>2. CASE ~is_protected(Head(ff_evict_req).addr)
    <3>1. UNCHANGED <<rg_pending_req, rg_from_protected, rg_state, rg_beat_count, memFifos>>
      BY <2>2 DEF rl_start_update
    <3> QED BY <1>1, <3>1
         DEF MemPipe, PipeIdle, PipeAsked, PipeBurst, PipeDrain, Awaiting, NoneLast
  <2> QED BY <2>1, <2>2
<1>7. ASSUME UnitStep(rl_forward_request) PROVE MemPipe'
  BY <1>7, MemPipeRead
<1>8. ASSUME UnitStep(rl_accumulate) PROVE MemPipe'
  <2>1. PipeBurst \/ PipeDrain
    BY <1>5, <1>8, AccumulateEffect
  <2>2. Head(ff_resp_from_mem).last => ~Awaiting'
    BY <1>8, AccumulateEffect DEF Awaiting
  <2>3. ~Head(ff_resp_from_mem).last => Awaiting' /\ UNCHANGED rg_pending_req
    BY <1>8, AccumulateEffect DEF Awaiting
  <2> QED BY <1>8, <2>1, <2>2, <2>3, AccumulateEffect, MemPipeTake
<1>9. ASSUME UnitStep(rl_forward_unprotected) PROVE MemPipe'
  <2>1. /\ ff_resp_from_mem # <<>> /\ rg_pending_req # Invalid /\ ~rg_from_protected
        /\ ff_resp_from_mem' = Tail(ff_resp_from_mem)
        /\ rg_pending_req' = pending_after(Head(ff_resp_from_mem))
        /\ UNCHANGED <<ff_req_to_mem, burst, rg_from_protected>>
    BY <1>9 DEF rl_forward_unprotected, unverified, NotEmpty, UnitStep
  <2>2. Head(ff_resp_from_mem).last => ~Awaiting'
    BY <2>1 DEF Awaiting, pending_after
  <2>3. ~Head(ff_resp_from_mem).last => Awaiting' /\ UNCHANGED rg_pending_req
    BY <2>1 DEF Awaiting, pending_after
  <2> QED BY <1>5, <2>1, <2>2, <2>3, MemPipeTake
<1>10. ASSUME UnitStep(rl_forward_verified) PROVE MemPipe'
  <2>1. rg_pending_req = Invalid
    BY <1>1, <1>10 DEF rl_forward_verified, UnitStep, Session
  <2>2. rg_pending_req' = Invalid /\ UNCHANGED <<memFifos, burst>>
    BY <1>10, <2>1 DEF rl_forward_verified, UnitStep
  <2> QED BY <1>1, <2>1, <2>2 DEF MemPipe, PipeIdle, PipeAsked, PipeBurst, PipeDrain, Awaiting
<1>11. ASSUME \/ UnitStep(rl_compute_l0_parent) \/ UnitStep(rl_fetch_siblings)
              \/ UnitStep(rl_collect_hcache_siblings) \/ UnitStep(rl_wait_siblings)
              \/ UnitStep(rl_compute_parent) \/ UnitStep(rl_check_parent)
              \/ UnitStep(rl_update_node) \/ UnitStep(rl_wait_update_ack)
              \/ UnitStep(rl_propagate_up) \/ UnitStep(rl_verify_root)
       PROVE MemPipe'
  <2>1. /\ UNCHANGED <<memFifos, session, burst>>
        /\ rg_state \notin {"IDLE", "ACCUMULATING", "FORWARD_TO_CACHE"}
        /\ rg_state' \notin {"IDLE", "ACCUMULATING", "FORWARD_TO_CACHE"}
    BY <1>11, WalkRuleFrame
  <2>2. ~Awaiting /\ ~Awaiting'
    BY <1>1, <1>2, <2>1 DEF Session, Resting, Awaiting
  <2> QED BY <1>1, <2>1, <2>2 DEF MemPipe, PipeIdle, PipeAsked, PipeBurst, PipeDrain
<1>12. ASSUME UnitStep(rl_complete) PROVE MemPipe'
  <2>1. /\ UNCHANGED <<memFifos, burst>> /\ rg_state = "COMPLETE" /\ rg_pending_req' = Invalid
    BY <1>12, CompleteFrame
  <2>2. ~Awaiting /\ ~Awaiting'
    BY <1>1, <1>2, <2>1 DEF Session, Resting, Awaiting
  <2> QED BY <1>1, <2>1, <2>2 DEF MemPipe, PipeIdle, PipeAsked, PipeBurst, PipeDrain
<1>13. ASSUME MemAccept PROVE MemPipe'
  <2>1. /\ ff_req_to_mem # <<>> /\ ff_req_to_mem' = Tail(ff_req_to_mem)
        /\ burst' = [req |-> Head(ff_req_to_mem), beat |-> 0]
        /\ UNCHANGED <<ff_resp_from_mem, mvuRegs>>
    BY <1>13 DEF MemAccept, NotEmpty
  <2>2. PipeAsked
    BY <1>3, <2>1
  <2>3. /\ ff_req_to_mem' = <<>> /\ Head(ff_req_to_mem) = rg_pending_req
        /\ Head(ff_req_to_mem) \in ReadReq
    BY <1>1, <2>1, <2>2 DEF PipeAsked, Awaiting, TypeOK, MVUTypeOK
  <2>4. burst' # Invalid
    <3>1. 0 \in Pos BY Shape DEF Pos
    <3> QED BY <2>1, <2>3, <3>1, InvalidApart
  <2>5. 0 <= Head(ff_req_to_mem).len
    BY <2>3, Shape DEF ReadReq
  <2>6. PipeBurst'
    BY <2>1, <2>2, <2>3, <2>4, <2>5 DEF PipeAsked, PipeBurst, Awaiting, NoneLast
  <2> QED BY <2>6 DEF MemPipe
<1>14. ASSUME NEW word, NEW err,
              /\ burst # Invalid /\ Len(ff_resp_from_mem) < 2
              /\ ff_resp_from_mem' = Append(ff_resp_from_mem,
                   [data |-> word, last |-> burst.beat = burst.req.len, err |-> err])
              /\ burst' = IF burst.beat = burst.req.len THEN Invalid
                          ELSE [burst EXCEPT !.beat = @ + 1]
              /\ UNCHANGED <<ff_req_to_mem, mvuRegs>>
       PROVE MemPipe'
  <2> DEFINE q == ff_resp_from_mem
             resp == [data |-> word, last |-> burst.beat = burst.req.len, err |-> err]
  <2>1. /\ burst # Invalid /\ Len(q) < 2 /\ q' = Append(q, resp)
        /\ burst' = IF burst.beat = burst.req.len THEN Invalid ELSE [burst EXCEPT !.beat = @ + 1]
        /\ UNCHANGED <<ff_req_to_mem, mvuRegs>>
    BY <1>14
  <2>2. PipeBurst
    BY <1>4, <2>1
  <2>3. burst \in [req : ReadReq, beat : Pos] /\ q \in Seq(ReadResp)
    BY <1>1, <2>1 DEF TypeOK, MVUTypeOK
  <2> HIDE DEF resp
  <2>4. /\ Len(q) \in Nat /\ Len(q') = Len(q) + 1 /\ q'[Len(q) + 1] = resp
        /\ \A k \in 1..Len(q) : q'[k] = q[k]
        /\ DOMAIN q = 1..Len(q) /\ DOMAIN q' = 1..(Len(q) + 1)
    BY <2>1, <2>3, AppendShift
  <2>5. resp.last <=> burst.beat = burst.req.len
    BY DEF resp
  <2>6. Awaiting' /\ rg_pending_req \in ReadReq
    BY <1>1, <2>1, <2>2 DEF PipeBurst, Awaiting, TypeOK, MVUTypeOK
  <2>7. CASE burst.beat = burst.req.len
    <3>1. rg_from_protected => burst.beat = Arity - 1
      BY <1>1, <2>2, <2>7, PendingInFlight DEF PipeBurst, Awaiting, Session, InFlight
    <3>2. rg_from_protected => rg_beat_count + Len(q') = Arity
      <4>1. rg_from_protected => burst.beat = rg_beat_count + Len(q)
        BY <2>2 DEF PipeBurst
      <4>2. rg_beat_count \in Nat /\ Arity \in Nat
        BY <1>1, Shape DEF TypeOK, MVUTypeOK
      <4> QED BY ONLY <2>4, <3>1, <4>1, <4>2
    <3>3. \A k \in DOMAIN q' : q'[k].last <=> k = Len(q')
      BY <2>2, <2>4, <2>5, <2>7 DEF PipeBurst, NoneLast
    <3>4. PipeDrain'
      BY <2>1, <2>2, <2>4, <2>6, <2>7, <3>2, <3>3 DEF PipeBurst, PipeDrain, FifoDepth
    <3> QED BY <3>4 DEF MemPipe
  <2>8. CASE burst.beat # burst.req.len
    <3>1. burst' = [burst EXCEPT !.beat = @ + 1]
      BY <2>1, <2>8
    <3>2. burst'.req = burst.req /\ burst'.beat = burst.beat + 1
      BY <2>3, <3>1
    <3>3. burst.beat \in Int /\ burst.req.len \in Int /\ burst.req.len <= Arity - 1
      BY <2>3, Shape DEF Pos, ReadReq
    <3>4. burst'.beat \in Pos /\ burst'.beat <= burst'.req.len
      BY <2>2, <2>3, <2>8, <3>2, <3>3, Shape DEF PipeBurst, Pos
    <3>5. burst' # Invalid
      BY <2>3, <3>1, <3>2, <3>4, InvalidApart
    <3>6. NoneLast(q')
      BY <2>2, <2>4, <2>5, <2>8 DEF PipeBurst, NoneLast
    <3>7. rg_from_protected => burst'.beat = rg_beat_count + Len(q')
      <4>1. rg_from_protected => burst.beat = rg_beat_count + Len(q)
        BY <2>2 DEF PipeBurst
      <4>2. rg_beat_count \in Nat
        BY <1>1 DEF TypeOK, MVUTypeOK
      <4>3. burst'.beat = burst.beat + 1
        BY <3>2
      <4> QED BY ONLY <2>4, <4>1, <4>2, <4>3
    <3>8. PipeBurst'
      BY <2>1, <2>2, <2>6, <3>2, <3>4, <3>5, <3>6, <3>7 DEF PipeBurst
    <3> QED BY <3>8 DEF MemPipe
  <2> QED BY <2>7, <2>8
<1>15. ASSUME UNCHANGED <<memFifos, mvuRegs, burst>> PROVE MemPipe'
  BY <1>1, <1>15 DEF MemPipe, PipeIdle, PipeAsked, PipeBurst, PipeDrain, Awaiting, NoneLast
<1>16. Environment => MemAccept \/ MemBeat \/ (\E junk \in Word : BeatFails(junk))
                      \/ UNCHANGED <<memFifos, mvuRegs, burst>>
  <2> USE DEF memFifos, memVars
  <2>1. \A req \in ReadReq : CacheRead(req) => UNCHANGED <<memFifos, mvuRegs, burst>>
    BY DEF CacheRead
  <2>2. \A line \in Line, d \in EvictData : CacheEvict(line, d) => UNCHANGED <<memFifos, mvuRegs, burst>>
    BY DEF CacheEvict
  <2>3. \A line \in Line : CacheDrop(line) => UNCHANGED <<memFifos, mvuRegs, burst>>
    BY DEF CacheDrop
  <2>4. \A a \in Addr, w \in Word : IoStore(a, w) => UNCHANGED <<memFifos, mvuRegs, burst>>
    BY DEF IoStore
  <2>5. CacheTake \/ TreeRead \/ TreeWrite => UNCHANGED <<memFifos, mvuRegs, burst>>
    BY DEF CacheTake, TreeRead, TreeWrite
  <2>6. \A a \in Addr, w \in Word : FaultData(a, w) => UNCHANGED <<memFifos, mvuRegs, burst>>
    BY DEF FaultData
  <2>7. \A m \in MemNode, w \in Word : FaultNode(m, w) => UNCHANGED <<memFifos, mvuRegs, burst>>
    BY DEF FaultNode
  <2>8. \A junk \in [Pos -> Word] :
          GroupReadFails(junk) => UNCHANGED <<memFifos, mvuRegs, burst>>
    BY DEF GroupReadFails
  <2>9. NodeWriteFails => UNCHANGED <<memFifos, mvuRegs, burst>>
    BY DEF NodeWriteFails
  <2> QED BY <2>1, <2>2, <2>3, <2>4, <2>5, <2>6, <2>7, <2>8, <2>9 DEF Environment
<1>17. MemBeat => MemPipe'
  <2>1. SUFFICES ASSUME MemBeat PROVE MemPipe'
    OBVIOUS
  <2> QED BY <1>14, <2>1 DEF MemBeat, NotFull, FifoDepth
<1>18. \A junk \in Word : BeatFails(junk) => MemPipe'
  <2>1. SUFFICES ASSUME NEW junk \in Word, BeatFails(junk) PROVE MemPipe'
    OBVIOUS
  <2> QED BY <1>14, <2>1 DEF BeatFails, NotFull, FifoDepth
<1> QED
  BY UnitSteps, <1>6, <1>7, <1>8, <1>9, <1>10, <1>11, <1>12, <1>13, <1>15, <1>16, <1>17,
     <1>18
  DEF Next
-----------------------------------------------------------------------------
(* A collected beat is where its number says, and the last one is last.    *)
LEMMA CollectedBeat ==
  ASSUME IInv, UnitStep(rl_accumulate)
  PROVE LET resp == Head(ff_resp_from_mem) IN
        /\ rg_beat_count \in Pos
        /\ resp.last <=> rg_beat_count = Arity - 1
<1> DEFINE q == ff_resp_from_mem
<1>1. TypeOK /\ MemPipe /\ Session /\ Buffered
  BY DEF IInv, Control, Transfer
<1>2. rg_from_protected /\ rg_state = "ACCUMULATING" /\ q # <<>>
  BY AccumulateEffect
<1>3. rg_beat_count \in Pos /\ rg_beat_count \in Int
  BY <1>1, <1>2 DEF Buffered, TypeOK, MVUTypeOK
<1>4. q \in Seq(ReadResp)
  BY <1>1 DEF TypeOK, MVUTypeOK
<1>5. Len(q) \in Nat /\ Len(q) >= 1 /\ Head(q) = q[1] /\ 1 \in DOMAIN q
  <2>1. Len(q) \in Nat /\ Len(q) >= 1 /\ Head(q) = q[1]
    BY <1>2, <1>4, TailShift
  <2>2. DOMAIN q = 1..Len(q)
    BY <1>4, LenProperties
  <2> QED BY <2>1, <2>2
<1>6. PipeBurst \/ PipeDrain
  BY <1>1, <1>2 DEF MemPipe, PipeIdle, PipeAsked
<1>7. CASE PipeBurst
  <2>1. ~Head(q).last
    BY <1>5, <1>7 DEF PipeBurst, NoneLast
  <2>2. burst.beat \in Pos /\ burst.beat = rg_beat_count + Len(q)
    BY <1>1, <1>2, <1>7 DEF PipeBurst, TypeOK
  <2>3. rg_beat_count # Arity - 1
    BY <1>3, <1>5, <2>2, Shape DEF Pos
  <2> QED BY <1>3, <2>1, <2>3
<1>8. CASE PipeDrain
  <2>1. Head(q).last <=> 1 = Len(q)
    BY <1>5, <1>8 DEF PipeDrain
  <2>2. rg_beat_count + Len(q) = Arity
    BY <1>2, <1>8 DEF PipeDrain
  <2>3. \A n \in Nat, b \in Int, m \in Nat : b + n = m => (1 = n <=> b = m - 1)
    OBVIOUS
  <2>4. 1 = Len(q) <=> rg_beat_count = Arity - 1
    <3>1. Arity \in Nat /\ rg_beat_count \in Int /\ Len(q) \in Nat
      BY <1>3, <1>5, Shape
    <3> QED BY <2>2, <2>3, <3>1, Zenon
  <2> QED BY <1>3, <2>1, <2>4
<1> QED
  BY <1>6, <1>7, <1>8

(* Every step keeps Buffered: the collected line has one last beat, its    *)
(* final one, and rl_forward_verified sends it from the first.             *)
LEMMA BufferedStep ==
  ASSUME IInv PROVE Next => Buffered'
<1>1. TypeOK /\ Buffered /\ Session
  BY DEF IInv, Control, Transfer
<1>2. /\ rg_from_protected \in BOOLEAN /\ rg_is_update \in BOOLEAN
      /\ rg_beat_count \in 0..15
      /\ rg_buffered_responses \in [Pos -> ReadResp]
  BY <1>1 DEF TypeOK, MVUTypeOK
<1>3. ASSUME UnitStep(rl_start_update) PROVE Buffered'
  <2> rl_start_update BY <1>3 DEF UnitStep
  <2>1. rg_state = "IDLE" /\ UNCHANGED <<rg_buffered_responses, rg_forward_beat>>
    BY DEF rl_start_update
  <2>2. \/ rg_is_update' = TRUE /\ rg_state' = "COMPUTE_L0_PARENT"
        \/ rg_state' = "IDLE"
    BY <2>1 DEF rl_start_update
  <2> QED BY <1>1, <2>1, <2>2 DEF Buffered
<1>4. ASSUME UnitStep(rl_forward_request) PROVE Buffered'
  <2> rl_forward_request BY <1>4 DEF UnitStep
  <2>1. rg_state = "IDLE" /\ UNCHANGED rg_forward_beat
    BY DEF rl_forward_request
  <2>2. \/ rg_state' = "ACCUMULATING" /\ rg_beat_count' = 0
        \/ rg_state' = "IDLE"
    BY <2>1 DEF rl_forward_request
  <2>3. 0 \in Pos /\ \A k \in Pos : ~(k < 0)
    BY Shape DEF Pos
  <2> QED BY <1>1, <2>1, <2>2, <2>3 DEF Buffered
<1>5. ASSUME UnitStep(rl_accumulate) PROVE Buffered'
  <2> DEFINE resp == Head(ff_resp_from_mem)
             b == rg_beat_count
  <2>1. /\ rg_state = "ACCUMULATING" /\ UNCHANGED <<rg_forward_beat, rg_is_update>>
        /\ rg_buffered_responses' = [rg_buffered_responses EXCEPT ![b] = resp]
        /\ b' = IF resp.last THEN 0 ELSE (b + 1) % 16
        /\ rg_state' = IF resp.last THEN "COMPUTE_L0_PARENT" ELSE rg_state
    BY <1>5, AccumulateEffect
  <2>2. b \in Pos /\ (resp.last <=> b = Arity - 1)
    BY <1>5, CollectedBeat
  <2>3. \A k \in Pos : k < b => ~rg_buffered_responses[k].last
    BY <1>1, <2>1 DEF Buffered
  <2>4. rg_buffered_responses'[b] = resp
        /\ \A k \in Pos : k # b => rg_buffered_responses'[k] = rg_buffered_responses[k]
    BY <1>2, <2>1, <2>2
  <2>5. rg_forward_beat' \in Pos /\ rg_forward_beat' = 0
    BY <1>1, <2>1 DEF Buffered
  <2> HIDE DEF resp, b
  <2>6. b \in Int /\ Arity \in Nat /\ \A k \in Pos : k \in Int /\ 0 <= k /\ k <= Arity - 1
    BY <2>2, Shape DEF Pos
  <2>7. CASE resp.last
    <3>1. rg_state' = "COMPUTE_L0_PARENT" /\ b = Arity - 1
      BY <2>1, <2>2, <2>7
    <3>2. \A k \in Pos : rg_buffered_responses'[k].last <=> k = Arity - 1
      <4>1. ASSUME NEW k \in Pos, k # b PROVE ~rg_buffered_responses'[k].last
        BY <2>3, <2>4, <2>6, <3>1, <4>1
      <4> QED BY <2>4, <2>7, <3>1, <4>1
    <3> QED BY <2>5, <3>1, <3>2 DEF Buffered
  <2>8. CASE ~resp.last
    <3>1. b # Arity - 1 /\ rg_state' = "ACCUMULATING" /\ b' = (b + 1) % 16
      BY <2>1, <2>2, <2>8
    <3>2. b' = b + 1 /\ b' \in Pos
      <4>1. b + 1 \in Pos /\ b + 1 \in 0..15
        BY <2>2, <2>6, <3>1, Shape DEF Pos
      <4>2. (b + 1) % 16 = b + 1
        BY <4>1
      <4> QED BY <3>1, <4>1, <4>2
    <3>3. ASSUME NEW k \in Pos, k < b' PROVE ~rg_buffered_responses'[k].last
      <4>1. k = b \/ k < b
        BY <2>6, <3>2, <3>3
      <4> QED BY <2>3, <2>4, <2>8, <2>6, <4>1
    <3>4. b' = rg_beat_count'
      BY DEF b
    <3> QED BY <2>5, <3>1, <3>2, <3>3, <3>4 DEF Buffered
  <2> QED BY <2>7, <2>8
<1>6. ASSUME UnitStep(rl_forward_unprotected) PROVE Buffered'
  <2>1. UNCHANGED <<rg_state, rg_is_update, buffers>>
    BY <1>6 DEF rl_forward_unprotected, UnitStep
  <2> QED BY <1>1, <2>1 DEF Buffered, Pos
<1>7. ASSUME UnitStep(rl_forward_verified) PROVE Buffered'
  <2> DEFINE f == rg_forward_beat
             resp == rg_buffered_responses[f]
  <2>1. rl_forward_verified /\ rg_state = "FORWARD_TO_CACHE"
    BY <1>7 DEF UnitStep, rl_forward_verified
  <2>2. ~rg_is_update /\ f \in Pos
    BY <1>1, <2>1 DEF Session, Resting, Buffered
  <2>3. \A k \in Pos : rg_buffered_responses[k].last <=> k = Arity - 1
    BY <1>1, <2>1, <2>2 DEF Buffered
  <2>4. UNCHANGED <<rg_buffered_responses, rg_is_update, rg_beat_count>>
    BY <2>1 DEF rl_forward_verified
  <2>5. f' = IF resp.last THEN 0 ELSE (f + 1) % 16
    BY <2>1 DEF rl_forward_verified
  <2>6. resp.last => rg_state' = "IDLE"
    BY <2>1 DEF rl_forward_verified
  <2>7. ~resp.last => rg_state' = rg_state
    BY <2>1 DEF rl_forward_verified
  <2>8. resp.last <=> f = Arity - 1
    BY <2>2, <2>3
  <2>9. f' \in Pos
    <3>1. f # Arity - 1 => (f + 1) % 16 \in Pos
      <4>1. f # Arity - 1 => f + 1 \in Pos /\ f + 1 \in 0..15
        BY <2>2, Shape DEF Pos
      <4>2. \A x \in 0..15 : x % 16 = x
        OBVIOUS
      <4> QED BY <4>1, <4>2
    <3>2. 0 \in Pos
      BY Shape DEF Pos
    <3> QED BY <2>5, <2>8, <3>1, <3>2
  <2>10. CASE resp.last
    BY <2>4, <2>5, <2>6, <2>9, <2>10 DEF Buffered
  <2>11. CASE ~resp.last
    BY <2>1, <2>3, <2>4, <2>7, <2>9, <2>11 DEF Buffered
  <2> QED BY <2>10, <2>11
<1>8. ASSUME \/ UnitStep(rl_compute_l0_parent) \/ UnitStep(rl_fetch_siblings)
             \/ UnitStep(rl_collect_hcache_siblings) \/ UnitStep(rl_wait_siblings)
             \/ UnitStep(rl_compute_parent) \/ UnitStep(rl_check_parent)
             \/ UnitStep(rl_update_node) \/ UnitStep(rl_wait_update_ack)
             \/ UnitStep(rl_propagate_up) \/ UnitStep(rl_verify_root)
      PROVE Buffered'
  <2>1. /\ UNCHANGED <<buffers, session>>
        /\ rg_state \notin {"IDLE", "ACCUMULATING", "FORWARD_TO_CACHE"}
        /\ rg_state' \notin {"IDLE", "ACCUMULATING", "FORWARD_TO_CACHE"}
    BY <1>8, WalkRuleFrame
  <2> QED BY <1>1, <2>1 DEF Buffered
<1>9. ASSUME UnitStep(rl_complete) PROVE Buffered'
  <2>1. /\ UNCHANGED buffers /\ rg_state = "COMPLETE"
        /\ rg_state' = IF rg_is_update THEN "IDLE" ELSE "FORWARD_TO_CACHE"
    BY <1>9, CompleteFrame
  <2> QED BY <1>1, <1>2, <2>1 DEF Buffered
<1>10. ASSUME Environment PROVE Buffered'
  <2>1. UNCHANGED mvuRegs BY <1>10, EnvironmentFrame
  <2> QED BY <1>1, <2>1 DEF Buffered, Pos
<1> QED
  BY UnitSteps, <1>3, <1>4, <1>5, <1>6, <1>7, <1>8, <1>9, <1>10 DEF Next
-----------------------------------------------------------------------------
(* The beats marked last among those that wait for the cache.              *)
LEMMA LastBeatsNat == ASSUME NEW q PROVE LastBeats(q) \in Nat
  BY DEF LastBeats

(* How a beat that enters or leaves the queue changes the number of last   *)
(* beats in it.                                                            *)
LEMMA LastBeatsAppend ==
  ASSUME NEW q \in Seq(ReadResp), Len(q) < 2, NEW x \in ReadResp
  PROVE LastBeats(Append(q, x)) = LastBeats(q) + (IF x.last THEN 1 ELSE 0)
<1>1. Len(q) \in Nat /\ Len(Append(q, x)) = Len(q) + 1
  BY AppendShift
<1>2. Append(q, x)[Len(q) + 1] = x /\ \A k \in 1..Len(q) : Append(q, x)[k] = q[k]
  BY AppendShift
<1>3. CASE Len(q) = 0
  <2>1. Append(q, x)[1] = x BY <1>2, <1>3
  <2> QED BY <1>1, <1>3, <2>1 DEF LastBeats, IsLast
<1>4. CASE Len(q) = 1
  <2>1. Append(q, x)[1] = q[1] BY <1>2, <1>4
  <2>2. Append(q, x)[2] = x BY <1>2, <1>4
  <2> QED BY <1>1, <1>4, <2>1, <2>2 DEF LastBeats, IsLast
<1> QED
  BY <1>1, <1>3, <1>4

LEMMA LastBeatsTake ==
  ASSUME NEW q \in Seq(ReadResp), q # <<>>, Len(q) <= 2
  PROVE LastBeats(q) = LastBeats(Tail(q)) + (IF Head(q).last THEN 1 ELSE 0)
<1> DEFINE t == Tail(q)
           h == Head(q)
           n == Len(q)
           m == Len(t)
<1>1. n \in Nat /\ n >= 1 /\ m = n - 1 /\ h = q[1]
  BY TailShift
<1>2. \A k \in 1..m : t[k] = q[k + 1]
  BY TailShift
<1>3. n <= 2
  OBVIOUS
<1>4. LastBeats(q) = (IF n >= 1 /\ q[1].last THEN 1 ELSE 0) + (IF n >= 2 /\ q[2].last THEN 1 ELSE 0)
  BY DEF LastBeats, IsLast
<1>5. LastBeats(t) = (IF m >= 1 /\ t[1].last THEN 1 ELSE 0) + (IF m >= 2 /\ t[2].last THEN 1 ELSE 0)
  BY DEF LastBeats, IsLast
<1> HIDE DEF t, h, n, m
<1>6. m >= 1 => t[1] = q[2]
  <2>1. ASSUME m >= 1 PROVE t[1] = q[1 + 1]
    <3>1. 1 \in 1..m BY <1>1, <2>1
    <3> QED BY <1>2, <3>1
  <2>2. 1 + 1 = 2 OBVIOUS
  <2> QED BY <2>1, <2>2, Zenon
<1>7. (m >= 1 <=> n >= 2) /\ ~(m >= 2)
  BY <1>1, <1>3
<1>8. LastBeats(q) = LastBeats(t) + (IF h.last THEN 1 ELSE 0)
  BY <1>1, <1>4, <1>5, <1>6, <1>7
<1> QED
  BY <1>8 DEF t, h

(* What an enqueue and a dequeue do to the elements of a queue.            *)
LEMMA EntriesAppend ==
  ASSUME NEW S, NEW q \in Seq(S), NEW x \in S
  PROVE Entries(Append(q, x)) = Entries(q) \cup {x}
<1>1. DOMAIN q = 1..Len(q) /\ DOMAIN Append(q, x) = 1..Len(Append(q, x)) /\ Len(q) \in Nat
  BY AppendShift, LenProperties
<1>2. /\ Len(Append(q, x)) = Len(q) + 1 /\ Append(q, x)[Len(q) + 1] = x
      /\ \A k \in 1..Len(q) : Append(q, x)[k] = q[k]
  BY AppendShift
<1> QED
  BY <1>1, <1>2 DEF Entries

LEMMA EntriesTail ==
  ASSUME NEW S, NEW q \in Seq(S), q # <<>>
  PROVE Entries(Tail(q)) \subseteq Entries(q) /\ Head(q) \in Entries(q)
<1>1. /\ Tail(q) \in Seq(S) /\ Len(q) \in Nat /\ Len(q) >= 1
      /\ Len(Tail(q)) = Len(q) - 1 /\ Head(q) = q[1]
      /\ \A k \in 1..Len(Tail(q)) : Tail(q)[k] = q[k + 1]
  BY TailShift
<1>2. DOMAIN q = 1..Len(q) /\ DOMAIN Tail(q) = 1..Len(Tail(q))
  BY <1>1, LenProperties
<1> QED
  BY <1>1, <1>2 DEF Entries

(* How the order of the reads survives a read issued, taken by the unit,   *)
(* or answered.                                                            *)
LEMMA TracksIssue ==
  ASSUME NEW R \in Seq(ReadReq), NEW W \in Seq(ReadReq), NEW t \in Nat, NEW x \in ReadReq,
         Tracks(R, W, t)
  PROVE /\ Tracks(Append(R, x), Append(W, x), t)
        /\ \A k \in 1..t : Append(R, x)[k] = R[k]
<1> DEFINE RR == Append(R, x)
           WW == Append(W, x)
           n == Len(R)
           m == Len(W)
<1>1. /\ Len(RR) = n + 1 /\ RR[n + 1] = x /\ \A k \in 1..n : RR[k] = R[k]
      /\ Len(WW) = m + 1 /\ WW[m + 1] = x /\ \A k \in 1..m : WW[k] = W[k]
      /\ n \in Nat /\ m \in Nat
  BY AppendShift
<1>2. n = t + m /\ \A j \in 1..m : R[t + j] = W[j]
  BY DEF Tracks
<1>3. SUFFICES Len(RR) = t + Len(WW) /\ (\A j \in 1..Len(WW) : RR[t + j] = WW[j])
               /\ \A k \in 1..t : RR[k] = R[k]
  BY DEF Tracks
<1> HIDE DEF RR, WW, n, m
<1>4. ASSUME NEW j \in 1..(m + 1) PROVE RR[t + j] = WW[j]
  <2>1. CASE j = m + 1
    <3>1. t + j = n + 1 BY <1>1, <1>2, <2>1
    <3> QED BY <1>1, <2>1, <3>1
  <2>2. CASE j # m + 1
    <3>1. j \in 1..m /\ t + j \in 1..n BY <1>1, <1>2, <2>2
    <3> QED BY <1>1, <1>2, <3>1
  <2> QED BY <2>1, <2>2
<1>5. ASSUME NEW k \in 1..t PROVE RR[k] = R[k]
  <2>1. k \in 1..n BY <1>1, <1>2
  <2> QED BY <1>1, <2>1
<1> QED
  BY <1>1, <1>2, <1>4, <1>5

(* rl_forward_request moves a read from waiting to taken.                  *)
LEMMA TracksStart ==
  ASSUME NEW R \in Seq(ReadReq), NEW W \in Seq(ReadReq), NEW t \in Nat, W # <<>>,
         Tracks(R, W, t)
  PROVE Tracks(R, Tail(W), t + 1) /\ R[t + 1] = Head(W)
<1> DEFINE T == Tail(W)
           h == Head(W)
           n == Len(R)
           m == Len(W)
           p == Len(T)
<1>1. m \in Nat /\ m >= 1 /\ p = m - 1 /\ h = W[1] /\ \A k \in 1..p : T[k] = W[k + 1]
  BY TailShift
<1>2. n = t + m /\ \A j \in 1..m : R[t + j] = W[j]
  BY DEF Tracks
<1>3. SUFFICES n = t + 1 + p /\ (\A j \in 1..p : R[t + 1 + j] = T[j]) /\ R[t + 1] = h
  BY DEF Tracks
<1> HIDE DEF T, h, n, m, p
<1>4. ASSUME NEW j \in 1..p PROVE R[t + 1 + j] = T[j]
  <2>1. j + 1 \in 1..m /\ t + 1 + j = t + (j + 1) BY <1>1
  <2> QED BY <1>1, <1>2, <2>1
<1>5. 1 \in 1..m
  BY <1>1
<1> QED
  BY <1>1, <1>2, <1>4, <1>5

(* CacheTake of a last beat retires the oldest read.                       *)
LEMMA TracksAnswer ==
  ASSUME NEW R \in Seq(ReadReq), NEW W \in Seq(ReadReq), NEW t \in Nat, R # <<>>,
         Tracks(R, W, t + 1)
  PROVE Tracks(Tail(R), W, t) /\ \A k \in 1..t : Tail(R)[k] = R[k + 1]
<1> DEFINE T == Tail(R)
           n == Len(R)
           m == Len(W)
           p == Len(T)
<1>1. n \in Nat /\ n >= 1 /\ p = n - 1 /\ \A k \in 1..p : T[k] = R[k + 1]
  BY TailShift
<1>2. n = t + 1 + m /\ \A j \in 1..m : R[t + 1 + j] = W[j]
  BY DEF Tracks
<1>3. m \in Nat
  BY LenProperties
<1>4. SUFFICES p = t + m /\ (\A j \in 1..m : T[t + j] = W[j]) /\ \A k \in 1..t : T[k] = R[k + 1]
  BY DEF Tracks
<1> HIDE DEF T, n, m, p
<1>5. ASSUME NEW j \in 1..m PROVE T[t + j] = W[j]
  <2>1. t + j \in 1..p /\ (t + j) + 1 = t + 1 + j BY <1>1, <1>2, <1>3
  <2>2. T[t + j] = R[(t + j) + 1] BY <1>1, <2>1
  <2> QED BY <1>2, <2>1, <2>2
<1>6. ASSUME NEW k \in 1..t PROVE T[k] = R[k + 1]
  <2>1. k \in 1..p BY <1>1, <1>2, <1>3
  <2> QED BY <1>1, <2>1
<1> QED
  BY <1>1, <1>2, <1>3, <1>5, <1>6

(* A step that moves no read and neither starts nor ends one.              *)
LEMMA InFlightFrame ==
  ASSUME InFlight, UNCHANGED <<ff_resp_to_cache, inflight, ff_req_from_cache, rg_pending_req>>,
         Active' <=> Active
  PROVE InFlight'
<1>1. Answered' = Answered
  BY DEF Answered, LastBeats, IsLast
<1>2. Taken' = Taken
  BY <1>1 DEF Taken
<1> QED
  BY <1>1, <1>2 DEF InFlight, Tracks, Entries

(* A beat goes to the cache; the last one ends the read for the unit.      *)
LEMMA InFlightBeat ==
  ASSUME IInv, NEW x \in ReadResp, NotFull(ff_resp_to_cache), Active,
         ff_resp_to_cache' = Append(ff_resp_to_cache, x),
         UNCHANGED <<inflight, ff_req_from_cache>>,
         x.last => ~Active' /\ rg_pending_req' = Invalid,
         ~x.last => Active' /\ UNCHANGED rg_pending_req
  PROVE InFlight'
<1>1. InFlight /\ ff_resp_to_cache \in Seq(ReadResp)
  BY DEF IInv, Transfer, TypeOK, MVUTypeOK
<1>2. Answered' = Answered + (IF x.last THEN 1 ELSE 0) /\ Answered \in Nat
  BY <1>1, LastBeatsAppend, LastBeatsNat DEF Answered, NotFull, FifoDepth
<1>3. Taken' = Taken
  BY <1>2 DEF Taken
<1>4. Len(ff_resp_to_cache') <= FifoDepth
  BY <1>1, AppendShift DEF NotFull, FifoDepth
<1>5. Tracks(inflight, ff_req_from_cache, Taken)
  BY <1>1 DEF InFlight
<1>6. Tracks(inflight, ff_req_from_cache, Taken)'
  BY <1>3, <1>5 DEF Tracks
<1>7. (rg_pending_req # Invalid => inflight[Answered + 1] = rg_pending_req)'
  BY <1>1, <1>2 DEF InFlight
<1>8. (\A r \in Entries(inflight) : is_protected(r.addr) => r.len = Arity - 1)'
  BY <1>1 DEF InFlight, Entries
<1> QED
  BY <1>4, <1>6, <1>7, <1>8 DEF InFlight

(* Every rule of the unit keeps InFlight.                                  *)
LEMMA InFlightUnit ==
  ASSUME IInv PROVE Unit => InFlight'
<1>1. TypeOK /\ InFlight /\ Session
  BY DEF IInv, Control, Transfer
<1>2. rg_from_protected \in BOOLEAN /\ rg_is_update \in BOOLEAN /\ Answered \in Nat
  BY <1>1, LastBeatsNat DEF TypeOK, MVUTypeOK, Answered
<1>3. ASSUME UnitStep(rl_start_update) PROVE InFlight'
  <2>1. /\ UNCHANGED <<ff_resp_to_cache, inflight, ff_req_from_cache, rg_pending_req>>
        /\ rg_state # "FORWARD_TO_CACHE" /\ rg_state' # "FORWARD_TO_CACHE"
    BY <1>3 DEF rl_start_update, UnitStep
  <2> QED BY <1>1, <2>1, InFlightFrame DEF Active
<1>4. ASSUME UnitStep(rl_forward_request) PROVE InFlight'
  <2> DEFINE W == ff_req_from_cache
  <2> rl_forward_request BY <1>4 DEF UnitStep
  <2>1. /\ UNCHANGED <<ff_resp_to_cache, inflight>> /\ W # <<>>
        /\ W' = Tail(W) /\ rg_pending_req' = Head(W)
        /\ rg_pending_req = Invalid /\ rg_state = "IDLE"
    BY <1>4 DEF rl_forward_request, UnitStep, NotEmpty
  <2>2. W \in Seq(ReadReq) /\ inflight \in Seq(ReadReq) /\ Head(W) \in ReadReq
    BY <1>1, <2>1 DEF TypeOK, MVUTypeOK
  <2>3. ~Active /\ Active'
    BY <2>1, <2>2, InvalidApart DEF Active
  <2>4. Answered' = Answered /\ Taken = Answered /\ Taken' = Answered + 1
    BY <2>1, <2>3 DEF Answered, Taken
  <2>5. Tracks(inflight, Tail(W), Answered + 1) /\ inflight[Answered + 1] = Head(W)
    BY <1>1, <1>2, <2>1, <2>2, <2>4, TracksStart DEF InFlight
  <2>6. Tracks(inflight, W, Taken)'
    BY <2>1, <2>4, <2>5 DEF Tracks
  <2> QED BY <1>1, <2>1, <2>4, <2>5, <2>6 DEF InFlight, Entries
<1>5. ASSUME UnitStep(rl_accumulate) PROVE InFlight'
  <2>1. /\ UNCHANGED <<ff_resp_to_cache, inflight, ff_req_from_cache, rg_pending_req>>
        /\ rg_state = "ACCUMULATING"
        /\ rg_state' = IF Head(ff_resp_from_mem).last THEN "COMPUTE_L0_PARENT" ELSE rg_state
    BY <1>5, AccumulateEffect
  <2> QED BY <1>1, <2>1, InFlightFrame DEF Active
<1>6. ASSUME UnitStep(rl_forward_unprotected) PROVE InFlight'
  <2> DEFINE x == Head(ff_resp_from_mem)
  <2>1. /\ ff_resp_from_mem # <<>> /\ rg_pending_req # Invalid
        /\ NotFull(ff_resp_to_cache) /\ ff_resp_to_cache' = Append(ff_resp_to_cache, x)
        /\ rg_pending_req' = pending_after(x)
        /\ UNCHANGED <<inflight, ff_req_from_cache, rg_state>>
    BY <1>6 DEF rl_forward_unprotected, unverified, NotEmpty, UnitStep
  <2>2. x \in ReadResp
    BY <1>1, <2>1 DEF TypeOK, MVUTypeOK
  <2>3. rg_state # "FORWARD_TO_CACHE"
    BY <1>1, <2>1 DEF Session
  <2>4. x.last => ~Active' /\ rg_pending_req' = Invalid
    BY <2>1, <2>3 DEF Active, pending_after
  <2>5. ~x.last => Active' /\ UNCHANGED rg_pending_req
    BY <2>1 DEF Active, pending_after
  <2>6. Active
    BY <2>1 DEF Active
  <2> QED BY <2>1, <2>2, <2>4, <2>5, <2>6, InFlightBeat
<1>7. ASSUME UnitStep(rl_forward_verified) PROVE InFlight'
  <2> DEFINE resp == rg_buffered_responses[rg_forward_beat]
             x == poisoned(resp)
  <2>1. /\ rg_state = "FORWARD_TO_CACHE" /\ NotFull(ff_resp_to_cache)
        /\ ff_resp_to_cache' = Append(ff_resp_to_cache, x)
        /\ UNCHANGED <<inflight, ff_req_from_cache>>
    BY <1>7 DEF rl_forward_verified, UnitStep
  <2>2. resp \in ReadResp
    BY DEF IInv, Transfer, Buffered, TypeOK, MVUTypeOK
  <2>3. x \in ReadResp /\ x.last = resp.last
    BY <1>1, <2>2 DEF poisoned, ReadResp, TypeOK, MVUTypeOK
  <2>4. resp.last => rg_state' = "IDLE" /\ rg_pending_req' = Invalid
    BY <1>7 DEF rl_forward_verified, UnitStep
  <2>5. ~resp.last => UNCHANGED <<rg_state, rg_pending_req>>
    BY <1>7 DEF rl_forward_verified, UnitStep
  <2>6. Active
    BY <2>1 DEF Active
  <2> HIDE DEF x, resp
  <2>7. x.last => ~Active' /\ rg_pending_req' = Invalid
    BY <2>3, <2>4 DEF Active
  <2>8. ~x.last => Active' /\ UNCHANGED rg_pending_req
    BY <2>1, <2>3, <2>5 DEF Active
  <2> QED BY <2>1, <2>3, <2>6, <2>7, <2>8, InFlightBeat
<1>8. ASSUME \/ UnitStep(rl_compute_l0_parent) \/ UnitStep(rl_fetch_siblings)
              \/ UnitStep(rl_collect_hcache_siblings) \/ UnitStep(rl_wait_siblings)
              \/ UnitStep(rl_compute_parent) \/ UnitStep(rl_check_parent)
              \/ UnitStep(rl_update_node) \/ UnitStep(rl_wait_update_ack)
              \/ UnitStep(rl_propagate_up) \/ UnitStep(rl_verify_root)
      PROVE InFlight'
  <2>1. /\ UNCHANGED <<ff_resp_to_cache, inflight, ff_req_from_cache, rg_pending_req>>
        /\ rg_state \notin {"IDLE", "ACCUMULATING", "FORWARD_TO_CACHE"}
        /\ rg_state' \notin {"IDLE", "ACCUMULATING", "FORWARD_TO_CACHE"}
    BY <1>8, WalkRuleFrame
  <2> QED BY <1>1, <2>1, InFlightFrame DEF Active
<1>9. ASSUME UnitStep(rl_complete) PROVE InFlight'
  <2>1. /\ UNCHANGED <<ff_resp_to_cache, inflight, ff_req_from_cache>>
        /\ rg_state = "COMPLETE" /\ rg_pending_req' = Invalid
        /\ rg_state' = IF rg_is_update THEN "IDLE" ELSE "FORWARD_TO_CACHE"
    BY <1>9, CompleteFrame
  <2>2. CASE rg_is_update
    <3>1. rg_pending_req = Invalid
      BY <1>1, <2>2 DEF Session
    <3> QED BY <1>1, <2>1, <2>2, <3>1, InFlightFrame DEF Active
  <2>3. CASE ~rg_is_update
    <3>1. rg_pending_req \in ReadReq
      BY <1>1, <1>2, <2>1, <2>3 DEF Session, Resting
    <3>2. Active /\ Active'
      BY <2>1, <2>3, <3>1, InvalidApart DEF Active
    <3>3. Answered' = Answered /\ Taken' = Taken
      BY <2>1, <3>2 DEF Answered, Taken
    <3> QED BY <1>1, <2>1, <3>3 DEF InFlight, Tracks, Entries
  <2> QED BY <2>2, <2>3
<1> QED
  BY UnitSteps, <1>3, <1>4, <1>5, <1>6, <1>7, <1>8, <1>9

(* So does every step around the unit.                                     *)
LEMMA InFlightEnvironment ==
  ASSUME IInv PROVE Environment => InFlight'
<1>1. TypeOK /\ InFlight
  BY DEF IInv, Transfer
<1>2. /\ ff_req_from_cache \in Seq(ReadReq) /\ inflight \in Seq(ReadReq)
      /\ ff_resp_to_cache \in Seq(ReadResp) /\ Answered \in Nat /\ Taken \in Nat
      /\ Tracks(inflight, ff_req_from_cache, Taken)
  <2>1. Answered \in Nat BY LastBeatsNat DEF Answered
  <2> QED BY <1>1, <2>1, SMTT(40) DEF TypeOK, MVUTypeOK, Taken, InFlight
<1>3. ASSUME NEW req \in ReadReq, CacheRead(req) PROVE InFlight'
  <2>1. /\ ff_req_from_cache' = Append(ff_req_from_cache, req)
        /\ inflight' = Append(inflight, req)
        /\ UNCHANGED <<ff_resp_to_cache, rg_pending_req, rg_state>>
        /\ req.len = IF line_of(req.addr) \in IoLine THEN 0 ELSE Arity - 1
    BY <1>3 DEF CacheRead
  <2>2. Answered' = Answered /\ Taken' = Taken
    BY <2>1 DEF Answered, Taken, Active
  <2>3. /\ Tracks(Append(inflight, req), Append(ff_req_from_cache, req), Taken)
        /\ \A k \in 1..Taken : Append(inflight, req)[k] = inflight[k]
    BY <1>2, TracksIssue
  <2>4. Tracks(inflight, ff_req_from_cache, Taken)'
    BY <2>1, <2>2, <2>3 DEF Tracks
  <2>5. rg_pending_req' # Invalid => inflight'[Answered' + 1] = rg_pending_req'
    <3>1. SUFFICES ASSUME rg_pending_req # Invalid PROVE inflight'[Answered + 1] = rg_pending_req
      BY <2>1, <2>2
    <3>2. Answered + 1 \in 1..Taken
      BY <1>2, <3>1 DEF Taken, Active
    <3>3. inflight'[Answered + 1] = inflight[Answered + 1]
      BY <2>1, <2>3, <3>2
    <3> QED BY <1>1, <3>1, <3>3 DEF InFlight
  <2>6. is_protected(req.addr) => req.len = Arity - 1
    <3>1. req.addr \in Addr BY DEF ReadReq
    <3> QED BY <2>1, <3>1, ProtectedWord, SystemAssumption
  <2>7. \A r \in Entries(inflight') : is_protected(r.addr) => r.len = Arity - 1
    BY <1>1, <1>2, <2>1, <2>6, EntriesAppend DEF InFlight
  <2>8. Entries(inflight)' = Entries(inflight')
    BY DEF Entries
  <2> QED BY <1>1, <2>1, <2>4, <2>5, <2>7, <2>8 DEF InFlight
<1>4. ASSUME CacheTake PROVE InFlight'
  <2> DEFINE q == ff_resp_to_cache
             x == Head(q)
  <2>1. /\ q # <<>> /\ inflight # <<>> /\ q' = Tail(q)
        /\ IF x.last THEN inflight' = Tail(inflight) ELSE inflight' = inflight
        /\ UNCHANGED <<ff_req_from_cache, rg_pending_req, rg_state>>
    BY <1>4 DEF CacheTake, NotEmpty
  <2>2. Len(q) <= 2 /\ q \in Seq(ReadResp)
    BY <1>1, <1>2 DEF InFlight, FifoDepth
  <2>3. Answered = Answered' + (IF x.last THEN 1 ELSE 0) /\ Answered' \in Nat
    BY <2>1, <2>2, LastBeatsTake, LastBeatsNat DEF Answered
  <2>4. Len(q') <= 2
    BY <2>1, <2>2, TailShift
  <2>5. Active' <=> Active
    BY <2>1 DEF Active
  <2> HIDE DEF x
  <2>6. CASE x.last
    <3>1. inflight' = Tail(inflight) /\ Answered = Answered' + 1
      BY <2>1, <2>3, <2>6
    <3>2. Taken = Taken' + 1 /\ Taken' \in Nat
      <4>1. CASE Active
        <5>1. Taken = Answered + 1 /\ Taken' = Answered' + 1
          BY <2>5, <4>1 DEF Taken
        <5>2. \A m \in Nat : m + 1 \in Nat
          OBVIOUS
        <5> QED BY <2>3, <3>1, <5>1, <5>2, Zenon
      <4>2. CASE ~Active
        BY <2>3, <2>5, <3>1, <4>2 DEF Taken
      <4> QED BY <4>1, <4>2
    <3>3. /\ Tracks(Tail(inflight), ff_req_from_cache, Taken')
          /\ \A k \in 1..Taken' : Tail(inflight)[k] = inflight[k + 1]
      BY <1>2, <2>1, <3>2, TracksAnswer
    <3>4. Tracks(inflight, ff_req_from_cache, Taken)'
      BY <2>1, <3>1, <3>3 DEF Tracks
    <3>5. rg_pending_req' # Invalid => inflight'[Answered' + 1] = rg_pending_req'
      <4>1. SUFFICES ASSUME rg_pending_req # Invalid
                     PROVE inflight'[Answered' + 1] = rg_pending_req
        BY <2>1
      <4>2. Taken' = Answered' + 1
        BY <2>1, <4>1 DEF Taken, Active
      <4>3. Answered' + 1 \in 1..Taken' /\ (Answered' + 1) + 1 = Answered + 1
        <5>1. \A n \in Nat : n + 1 \in 1..(n + 1)
          OBVIOUS
        <5> QED BY <2>3, <3>1, <4>2, <5>1, Zenon
      <4>4. inflight'[Answered' + 1] = inflight[(Answered' + 1) + 1]
        BY <3>1, <3>3, <4>3
      <4> QED BY <1>1, <4>1, <4>3, <4>4 DEF InFlight
    <3>6. \A r \in Entries(inflight') : is_protected(r.addr) => r.len = Arity - 1
      BY <1>1, <1>2, <2>1, <3>1, EntriesTail DEF InFlight
    <3>7. Entries(inflight)' = Entries(inflight')
      BY DEF Entries
    <3> QED BY <2>4, <3>4, <3>5, <3>6, <3>7 DEF InFlight, FifoDepth
  <2>7. CASE ~x.last
    <3>1. inflight' = inflight /\ Answered = Answered'
      <4>1. \A n \in Nat : n + 0 = n
        OBVIOUS
      <4> QED BY <2>1, <2>3, <2>7, <4>1, Zenon
    <3>2. Taken = Taken'
      BY <2>5, <3>1 DEF Taken
    <3> QED BY <1>1, <2>1, <2>4, <3>1, <3>2 DEF InFlight, Tracks, Entries, FifoDepth
  <2> QED BY <2>6, <2>7
<1>5. ASSUME UNCHANGED <<ff_resp_to_cache, inflight, ff_req_from_cache, mvuRegs>> PROVE InFlight'
  BY <1>1, <1>5, InFlightFrame DEF Active
<1>6. \A line \in Line, d \in EvictData :
        CacheEvict(line, d) => UNCHANGED <<ff_resp_to_cache, inflight, ff_req_from_cache, mvuRegs>>
  BY DEF CacheEvict
<1>7. \A line \in Line :
        CacheDrop(line) => UNCHANGED <<ff_resp_to_cache, inflight, ff_req_from_cache, mvuRegs>>
  BY DEF CacheDrop
<1>8. \A a \in Addr, w \in Word :
        IoStore(a, w) \/ FaultData(a, w)
          => UNCHANGED <<ff_resp_to_cache, inflight, ff_req_from_cache, mvuRegs>>
  BY DEF IoStore, FaultData
<1>9. MemAccept \/ MemBeat \/ TreeRead \/ TreeWrite
        => UNCHANGED <<ff_resp_to_cache, inflight, ff_req_from_cache, mvuRegs>>
  BY DEF MemAccept, MemBeat, TreeRead, TreeWrite
<1>10. \A m \in MemNode, w \in Word :
        FaultNode(m, w) => UNCHANGED <<ff_resp_to_cache, inflight, ff_req_from_cache, mvuRegs>>
  BY DEF FaultNode
<1>11. (\E junk \in Word : BeatFails(junk))
         \/ (\E junk \in [Pos -> Word] : GroupReadFails(junk)) \/ NodeWriteFails
           => UNCHANGED <<ff_resp_to_cache, inflight, ff_req_from_cache, mvuRegs>>
  BY DEF BeatFails, GroupReadFails, NodeWriteFails
<1> QED
  BY <1>3, <1>4, <1>5, <1>6, <1>7, <1>8, <1>9, <1>10, <1>11 DEF Environment

-----------------------------------------------------------------------------
(* A step that issues no read and evicts nothing.                          *)
LEMMA OrderedFrame ==
  ASSUME Ordered, Unfolded' \subseteq Unfolded, UNCHANGED inflight
  PROVE Ordered'
  BY DEF Ordered, UnprotectedInFlight, Entries

(* What Unfolded depends on.                                               *)
LEMMA UnfoldedFrame ==
  ASSUME UNCHANGED <<ff_evict_req, rg_is_update, rg_base_leaf_index>>
  PROVE Unfolded' = Unfolded
  BY DEF Unfolded, Entries, leaf_line

(* No rule of the unit makes an eviction or an unprotected read appear.    *)
LEMMA OrderedUnit ==
  ASSUME IInv PROVE Unit => Ordered'
<1>1. TypeOK /\ Ordered /\ Session
  BY DEF IInv, Control, Transfer
<1>2. rg_is_update \in BOOLEAN /\ ff_evict_req \in Seq(EvictReq)
  BY <1>1 DEF TypeOK, MVUTypeOK
<1>3. ASSUME UnitStep(rl_start_update) PROVE Ordered'
  <2> DEFINE q == ff_evict_req
             h == Head(q)
  <2> rl_start_update /\ UNCHANGED inflight BY <1>3 DEF UnitStep
  <2>1. q # <<>> /\ q' = Tail(q) /\ rg_state = "IDLE"
    BY DEF rl_start_update, NotEmpty
  <2>2. Entries(Tail(q)) \subseteq Entries(q) /\ h \in Entries(q) /\ h \in EvictReq
    BY <1>2, <2>1, EntriesTail
  <2>3. Entries(ff_evict_req)' = Entries(Tail(q))
    BY <2>1 DEF Entries
  <2>4. CASE is_protected(h.addr)
    <3>1. rg_is_update' = TRUE /\ rg_base_leaf_index' = addr_to_leaf_index(h.addr)
      BY <1>1, <2>4 DEF rl_start_update, Session
    <3>2. leaf_line' = line_of(h.addr)
      <4>1. ProtectedBase \in Int /\ h.addr \in Int
        BY <2>2, GeometryAssumption DEF EvictReq, Addr
      <4>2. ProtectedBase + (h.addr - ProtectedBase) = h.addr
        BY <4>1
      <4> QED BY <3>1, <4>2 DEF leaf_line, addr_to_leaf_index
    <3>3. Unfolded' \subseteq Unfolded
      BY <2>2, <2>3, <2>4, <3>1, <3>2 DEF Unfolded
    <3> QED BY <1>1, <3>3, OrderedFrame
  <2>5. CASE ~is_protected(h.addr)
    <3>1. UNCHANGED <<rg_is_update, rg_base_leaf_index>>
      BY <2>5 DEF rl_start_update
    <3>2. Unfolded' \subseteq Unfolded
      BY <2>2, <2>3, <3>1 DEF Unfolded, leaf_line
    <3> QED BY <1>1, <3>2, OrderedFrame
  <2> QED BY <2>4, <2>5
<1>4. ASSUME UnitStep(rl_forward_request) PROVE Ordered'
  <2>1. UNCHANGED <<ff_evict_req, inflight>> /\ rg_state = "IDLE"
    BY <1>4 DEF rl_forward_request, UnitStep
  <2>2. rg_is_update' = FALSE
    BY <1>1, <1>2, <1>4, <2>1 DEF rl_forward_request, UnitStep, Session, Resting
  <2>3. Unfolded' \subseteq Unfolded
    BY <2>1, <2>2 DEF Unfolded, Entries
  <2> QED BY <1>1, <2>1, <2>3, OrderedFrame
<1>5. ASSUME UnitStep(rl_accumulate) PROVE Ordered'
  <2>1. UNCHANGED <<ff_evict_req, rg_is_update, rg_base_leaf_index, inflight>>
    BY <1>5, AccumulateEffect
  <2> QED BY <1>1, <2>1, OrderedFrame, UnfoldedFrame
<1>6. ASSUME UnitStep(rl_forward_unprotected) \/ UnitStep(rl_forward_verified) PROVE Ordered'
  <2>1. UNCHANGED <<ff_evict_req, rg_is_update, rg_base_leaf_index, inflight>>
    BY <1>6 DEF rl_forward_unprotected, rl_forward_verified, UnitStep
  <2> QED BY <1>1, <2>1, OrderedFrame, UnfoldedFrame
<1>7. ASSUME \/ UnitStep(rl_compute_l0_parent) \/ UnitStep(rl_fetch_siblings)
              \/ UnitStep(rl_collect_hcache_siblings) \/ UnitStep(rl_wait_siblings)
              \/ UnitStep(rl_compute_parent) \/ UnitStep(rl_check_parent)
              \/ UnitStep(rl_update_node) \/ UnitStep(rl_wait_update_ack)
              \/ UnitStep(rl_propagate_up) \/ UnitStep(rl_verify_root)
      PROVE Ordered'
  <2>1. UNCHANGED <<ff_evict_req, rg_is_update, rg_base_leaf_index, inflight>>
    BY <1>7, WalkRuleFrame
  <2> QED BY <1>1, <2>1, OrderedFrame, UnfoldedFrame
<1>8. ASSUME UnitStep(rl_complete) PROVE Ordered'
  <2>1. UNCHANGED <<ff_evict_req, inflight>> /\ rg_is_update' = FALSE
    BY <1>8, CompleteFrame
  <2>2. Unfolded' \subseteq Unfolded
    BY <2>1 DEF Unfolded, Entries
  <2> QED BY <1>1, <2>1, <2>2, OrderedFrame
<1> QED
  BY UnitSteps, <1>3, <1>4, <1>5, <1>6, <1>7, <1>8

(* The two guards of OrderIO keep uncached reads and evictions apart.      *)
LEMMA OrderedEnvironment ==
  ASSUME IInv, OrderIO PROVE Environment => Ordered'
<1>1. TypeOK /\ Ordered
  BY DEF IInv, Transfer
<1>2. inflight \in Seq(ReadReq) /\ ff_evict_req \in Seq(EvictReq)
  BY <1>1 DEF TypeOK, MVUTypeOK
<1>3. ASSUME NEW req \in ReadReq, CacheRead(req) PROVE Ordered'
  <2>1. /\ UNCHANGED <<ff_evict_req, rg_is_update, rg_base_leaf_index>>
        /\ inflight' = Append(inflight, req)
        /\ ~is_protected(req.addr) => Unfolded = {}
    BY <1>3 DEF CacheRead
  <2>2. Unfolded' = Unfolded
    BY <2>1, UnfoldedFrame
  <2>3. Entries(inflight') = Entries(inflight) \cup {req}
    BY <1>2, <2>1, EntriesAppend
  <2>4. Entries(inflight)' = Entries(inflight')
    BY DEF Entries
  <2> QED BY <1>1, <2>1, <2>2, <2>3, <2>4 DEF Ordered, UnprotectedInFlight
<1>4. ASSUME NEW line \in Line, NEW d \in EvictData, CacheEvict(line, d) PROVE Ordered'
  <2> DEFINE e == [addr |-> line_base(line), data |-> d]
  <2>1. /\ ff_evict_req' = Append(ff_evict_req, e)
        /\ line \in ProtectedLine => ~UnprotectedInFlight
        /\ UNCHANGED <<rg_is_update, rg_base_leaf_index, inflight>>
    BY <1>4 DEF CacheEvict
  <2>2. CASE line \in ProtectedLine
    BY <2>1, <2>2 DEF Ordered, UnprotectedInFlight, Entries
  <2>3. CASE line \notin ProtectedLine
    <3>1. ~is_protected(e.addr)
      BY <2>3 DEF ProtectedLine
    <3>2. e \in EvictReq
      <4>1. 0 \in Pos BY Shape DEF Pos
      <4>2. line_base(line) + 0 \in Addr BY <4>1, WordOfLine
      <4>3. line \in Int BY LineCount
      <4>4. line_base(line) \in Int BY <4>3, Shape DEF line_base
      <4>5. line_base(line) \in Addr BY <4>2, <4>4
      <4> QED BY <4>5, SystemAssumption DEF EvictReq
    <3> HIDE DEF e
    <3>3. Entries(Append(ff_evict_req, e)) = Entries(ff_evict_req) \cup {e}
      BY <1>2, <3>2, EntriesAppend
    <3>4. Entries(ff_evict_req)' = Entries(ff_evict_req) \cup {e}
      BY <2>1, <3>3 DEF Entries
    <3>5. Unfolded' \subseteq Unfolded
      BY <2>1, <3>1, <3>4 DEF Unfolded, leaf_line
    <3> QED BY <1>1, <2>1, <3>5, OrderedFrame
  <2> QED BY <2>2, <2>3
<1>5. ASSUME NEW a \in Addr, NEW w \in Word, IoStore(a, w) PROVE Ordered'
  <2> DEFINE e == [addr |-> a, data |-> [k \in Pos |-> w]]
  <2>1. /\ ff_evict_req' = Append(ff_evict_req, e) /\ line_of(a) \in IoLine
        /\ UNCHANGED <<rg_is_update, rg_base_leaf_index, inflight>>
    BY <1>5 DEF IoStore
  <2>2. ~is_protected(e.addr)
    BY <2>1, ProtectedWord, SystemAssumption
  <2>3. e \in EvictReq
    BY DEF EvictReq
  <2> HIDE DEF e
  <2>4. Entries(Append(ff_evict_req, e)) = Entries(ff_evict_req) \cup {e}
    BY <1>2, <2>3, EntriesAppend
  <2>5. Entries(ff_evict_req)' = Entries(ff_evict_req) \cup {e}
    BY <2>1, <2>4 DEF Entries
  <2>6. Unfolded' \subseteq Unfolded
    BY <2>1, <2>2, <2>5 DEF Unfolded, leaf_line
  <2> QED BY <1>1, <2>1, <2>6, OrderedFrame
<1>6. ASSUME CacheTake PROVE Ordered'
  <2>1. UNCHANGED <<ff_evict_req, rg_is_update, rg_base_leaf_index>> /\ inflight # <<>>
    BY <1>6 DEF CacheTake
  <2>2. inflight' = Tail(inflight) \/ inflight' = inflight
    BY <1>6 DEF CacheTake
  <2>3. Entries(inflight)' \subseteq Entries(inflight)
    <3>1. Entries(Tail(inflight)) \subseteq Entries(inflight)
      BY <1>2, <2>1, EntriesTail
    <3>2. Entries(inflight)' = Entries(inflight')
      BY DEF Entries
    <3> QED BY <2>2, <3>1, <3>2
  <2>4. Unfolded' = Unfolded
    BY <2>1, UnfoldedFrame
  <2> QED BY <1>1, <2>3, <2>4 DEF Ordered, UnprotectedInFlight
<1>7. ASSUME UNCHANGED <<ff_evict_req, rg_is_update, rg_base_leaf_index, inflight>> PROVE Ordered'
  BY <1>1, <1>7, UnfoldedFrame, OrderedFrame
<1>8. \A line \in Line :
        CacheDrop(line) => UNCHANGED <<ff_evict_req, rg_is_update, rg_base_leaf_index, inflight>>
  BY DEF CacheDrop
<1>9. \A a \in Addr, w \in Word :
        FaultData(a, w) => UNCHANGED <<ff_evict_req, rg_is_update, rg_base_leaf_index, inflight>>
  BY DEF FaultData
<1>10. \A m \in MemNode, w \in Word :
        FaultNode(m, w) => UNCHANGED <<ff_evict_req, rg_is_update, rg_base_leaf_index, inflight>>
  BY DEF FaultNode
<1>11. MemAccept \/ MemBeat \/ TreeRead \/ TreeWrite
         => UNCHANGED <<ff_evict_req, rg_is_update, rg_base_leaf_index, inflight>>
  BY DEF MemAccept, MemBeat, TreeRead, TreeWrite
<1>12. (\E junk \in Word : BeatFails(junk))
         \/ (\E junk \in [Pos -> Word] : GroupReadFails(junk)) \/ NodeWriteFails
           => UNCHANGED <<ff_evict_req, rg_is_update, rg_base_leaf_index, inflight>>
  BY DEF BeatFails, GroupReadFails, NodeWriteFails
<1> QED
  BY <1>3, <1>4, <1>5, <1>6, <1>7, <1>8, <1>9, <1>10, <1>11, <1>12 DEF Environment
-----------------------------------------------------------------------------
(* The unit and the cache before their first step, whatever memory holds.  *)
Starting ==
  /\ MVUInit
  /\ burst = Invalid
  /\ held = {} /\ inflight = <<>> /\ got = 0 /\ faults = 0 /\ errors = 0

LEMMA StartIInv ==
  ASSUME Starting, data \in [Addr -> Word], tree \in [MemNode -> Word],
         written \in [Addr -> Word]
  PROVE  IInv
<1>1. ZeroGroup \in [Pos -> Word] /\ NoResp \in ReadResp /\ Zero \in Word
  BY WordAssumption DEF ZeroGroup, NoResp, ReadResp
<1>2. 0 \in Pos /\ 0 \in 0..NodeCount[0]-1 /\ 0 \in 0..Height
  <2>1. 0 \in 0..Height BY Shape
  <2> QED BY <2>1, Shape DEF Pos
<1>3. TypeOK
  <2>1. MVUTypeOK
    BY <1>1, <1>2 DEF Starting, MVUInit, MVUTypeOK, VerifyState
  <2>2. faults \in 0..MaxFaults /\ errors \in 0..MaxErrors
    BY SystemAssumption DEF Starting
  <2> QED BY <1>1, <1>2, <2>1, <2>2 DEF Starting, TypeOK
<1>4. Session
  BY DEF Starting, MVUInit, Session, Resting, ReadOnly, UpdateOnly
<1>5. Cursor
  BY DEF Starting, MVUInit, Cursor, Walking, BelowRoot
<1>6. TreePipe
  BY DEF Starting, MVUInit, TreePipe
<1>7. MemPipe
  BY DEF Starting, MVUInit, MemPipe, PipeIdle, Awaiting
<1>8. Buffered
  BY <1>2 DEF Starting, MVUInit, Buffered
<1>9. InFlight
  <2>1. LastBeats(<<>>) = 0
    BY DEF LastBeats, IsLast
  <2>2. ff_resp_to_cache = <<>> /\ inflight = <<>> /\ ff_req_from_cache = <<>>
        /\ ~Active /\ rg_pending_req = Invalid
    BY DEF Starting, MVUInit, Active
  <2>3. Taken = 0
    BY <2>1, <2>2 DEF Taken, Answered
  <2> QED BY <2>2, <2>3 DEF InFlight, Tracks, Entries, FifoDepth
<1>10. Ordered
  BY DEF Starting, Ordered, UnprotectedInFlight, Entries
<1> QED
  BY <1>3, <1>4, <1>5, <1>6, <1>7, <1>8, <1>9, <1>10 DEF IInv, Control, Transfer

(* The parts together: the invariant holds at first, every step keeps it,  *)
(* and with the uncached accesses ordered it always holds.                 *)
LEMMA InitIInv == Init => IInv
<1> SUFFICES ASSUME Init PROVE IInv
  OBVIOUS
<1>1. Starting
  BY DEF Init, Starting
<1>2. data \in [Addr -> Word] /\ tree \in [MemNode -> Word] /\ written \in [Addr -> Word]
  BY WordAssumption DEF Init
<1> QED BY <1>1, <1>2, StartIInv

(* IInv is inductive.                                                      *)
LEMMA StepIInv == OrderIO /\ IInv /\ [Next]_vars => IInv'
<1> SUFFICES ASSUME OrderIO, IInv, [Next]_vars PROVE IInv'
  OBVIOUS
<1>1. CASE Next
  <2>1. TypeOK'
    <3>1. CASE Unit
      BY <3>1, TypeOKRead, TypeOKWalk DEF Unit, UnitStep, MVURule
    <3>2. CASE Environment
      BY <3>2, TypeOKEnvironment
    <3> QED BY <1>1, <3>1, <3>2 DEF Next
  <2>2. Session' /\ Cursor' /\ TreePipe' /\ MemPipe' /\ Buffered'
    BY <1>1, SessionStep, CursorStep, TreePipeStep, MemPipeStep, BufferedStep
  <2>3. InFlight' /\ Ordered'
    BY <1>1, InFlightUnit, InFlightEnvironment, OrderedUnit, OrderedEnvironment DEF Next
  <2> QED BY <2>1, <2>2, <2>3 DEF IInv, Control, Transfer
<1>2. CASE UNCHANGED vars
  <2>1. TypeOK'
    BY <1>2 DEF IInv, TypeOK, MVUTypeOK
  <2>2. Session' /\ Cursor' /\ TreePipe'
    BY <1>2 DEF IInv, Control, Session, Cursor, TreePipe, GroupReq, NodeWrite
  <2>3. MemPipe' /\ Buffered'
    BY <1>2 DEF IInv, Transfer, MemPipe, PipeIdle, PipeAsked, PipeBurst, PipeDrain, Awaiting,
                NoneLast, Buffered
  <2>4. InFlight'
    BY <1>2, InFlightFrame DEF IInv, Transfer, Active
  <2>5. Ordered'
    BY <1>2, OrderedFrame, UnfoldedFrame DEF IInv, Transfer
  <2> QED BY <2>1, <2>2, <2>3, <2>4, <2>5 DEF IInv, Control, Transfer
<1> QED
  BY <1>1, <1>2

(* The unit and its surroundings keep the whole invariant: the registers   *)
(* of a session, the cursor in the tree, one tree request at a time, the   *)
(* burst, the collected line and the reads in flight always fit together.  *)
THEOREM Invariant == OrderIO => (Spec => []IInv)
<1> SUFFICES ASSUME OrderIO PROVE Spec => []IInv
  OBVIOUS
<1>1. Init => IInv
  BY InitIInv
<1>2. IInv /\ [Next]_vars => IInv'
  BY StepIInv
<1> QED
  BY <1>1, <1>2, PTL DEF Spec

(* Every register, queue and memory keeps its type, for every tree shape,  *)
(* word size and number of reads in flight.                                *)
THEOREM TypeCorrect == OrderIO => (Spec => []TypeOK)
<1>1. IInv => TypeOK
  BY DEF IInv
<1> QED
  BY <1>1, Invariant, PTL
=============================================================================
