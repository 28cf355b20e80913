----------------------------- MODULE MemVerSoC -----------------------------
(***************************************************************************)
(* The verification unit between the data cache's memory port, the bridge  *)
(* of the core (ccore.bsv 165-291), the fabric's path to DRAM and DRAM.    *)
(* MVUSystem lets an eviction reach memory and the unit at one moment;     *)
(* here it waits in the cache, goes out beat by beat, and is announced to  *)
(* the unit with its last beat, while reads and tree accesses pass.        *)
(*                                                                         *)
(* Tree memory appears as the store TreeMemory implements; its accesses    *)
(* share the fabric's one write slot and one read slot of DRAM.            *)
(***************************************************************************)
EXTENDS MVU, FiniteSets

CONSTANTS
  EvictData, MaxOutstanding, IoLine,  \* as in MVUSystem
  OrderWrite, \* a line is not read before its write-back is in memory,
  OrderTree,  \* nor while the unit is told of it and the tree not up to date
  OrderIO     \* no protected write-back is under way during an unprotected read

Burst == [req : ReadReq, beat : Pos]
WriteSlot == [addr : Addr, beat : 1..Arity, done : BOOLEAN]

ASSUME SoCAssumption ==
  /\ EvictData \subseteq [Pos -> Word]
  /\ MaxOutstanding \in Nat \ {0}
  /\ OrderWrite \in BOOLEAN /\ OrderTree \in BOOLEAN /\ OrderIO \in BOOLEAN
  /\ IoLine \subseteq Line \ ProtectedLine
  /\ Invalid \notin Addr /\ Invalid \notin Burst /\ Invalid \notin WriteSlot

VARIABLES
  held, inflight, got,   \* of the cache, as in MVUSystem
  ff_write_mem_request,  \* of the cache: one entry (mkFIFOF1)
  rg_read_line_req, wr_write_req, rg_burst_count,  \* of the bridge
  rd_addr, wr_addr, wr_data, wr_resp,              \* memory_xactor's FIFOs
  write_slot,            \* the write burst DRAM is at for the cache
  burst,                 \* the read burst DRAM is at for the cache
  dram, tree,            \* words of memory, nodes of the tree in memory
  written                \* what the unit was last told of a word (auxiliary)

cacheVars == <<held, inflight, got, ff_write_mem_request>>
bridge == <<rg_read_line_req, wr_write_req, rg_burst_count>>
busWrite == <<wr_addr, wr_data, wr_resp, write_slot>>
busRead == <<rd_addr, burst>>
store == <<dram, tree>>
port == <<cacheVars, bridge, busWrite, busRead, store, written>>
vars == <<mvuVars, port>>

Init ==
  /\ MVUInit
  /\ held = {} /\ inflight = <<>> /\ got = 0 /\ ff_write_mem_request = <<>>
  /\ rg_read_line_req = Invalid /\ wr_write_req = Invalid /\ rg_burst_count = 0
  /\ rd_addr = <<>> /\ wr_addr = <<>> /\ wr_data = <<>> /\ wr_resp = <<>>
  /\ write_slot = Invalid /\ burst = Invalid
  /\ dram = [a \in Addr |-> Zero] /\ tree = [n \in MemNode |-> Zero]
  /\ written = [a \in Addr |-> Zero]

-----------------------------------------------------------------------------
Entries(q) == {q[k] : k \in DOMAIN q}
leaf_line == line_of(ProtectedBase + rg_base_leaf_index)

(* Lines with a write that is not in memory yet.                           *)
Unwritten ==
  {line_of(w.addr) : w \in Entries(ff_write_mem_request) \cup Entries(wr_addr)}
    \cup (IF write_slot = Invalid THEN {} ELSE {line_of(write_slot.addr)})
(* Lines whose eviction the unit has been told of and has not folded in.   *)
Announced ==
  {line_of(e.addr) : e \in {x \in Entries(ff_evict_req) : is_protected(x.addr)}}
    \cup (IF rg_is_update THEN {leaf_line} ELSE {})
Unfolded == Announced \cup (Unwritten \cap ProtectedLine)

UnprotectedInFlight == \E r \in Entries(inflight) : ~is_protected(r.addr)

wrap(req, k) == line_base(line_of(req.addr)) + (((req.addr % Arity) + k) % Arity)

-----------------------------------------------------------------------------
(* The cache's memory port.                                                *)
CacheRead(req) ==
  /\ NotFull(ff_req_from_cache) /\ Len(inflight) < MaxOutstanding
  /\ line_of(req.addr) \notin held
  /\ req.len = IF line_of(req.addr) \in IoLine THEN 0 ELSE Arity - 1
  /\ \A r \in Entries(inflight) : line_of(r.addr) # line_of(req.addr)
  /\ OrderWrite => line_of(req.addr) \notin Unwritten
  /\ OrderTree => line_of(req.addr) \notin Announced
  /\ (OrderIO /\ ~is_protected(req.addr)) => Unfolded = {}
  /\ ff_req_from_cache' = Append(ff_req_from_cache, req)
  /\ inflight' = Append(inflight, req)
  /\ UNCHANGED <<ff_evict_req, ff_resp_to_cache, memFifos, treeFifos, mvuRegs, held,
                 got, ff_write_mem_request, bridge, busWrite, busRead, store, written>>

(* A dirty line leaves the cache, replaced by a fill or flushed by a fence.*)
CacheEvict(line, d) ==
  /\ line \in held /\ ff_write_mem_request = <<>>
  /\ (OrderIO /\ line \in ProtectedLine) => ~UnprotectedInFlight
  /\ held' = held \ {line}
  /\ ff_write_mem_request' =
       <<[addr |-> line_base(line), len |-> Arity - 1, data |-> d]>>
  /\ UNCHANGED <<mvuVars, inflight, got, bridge, busWrite, busRead, store, written>>

CacheDrop(line) ==
  /\ line \in held
  /\ held' = held \ {line}
  /\ UNCHANGED <<mvuVars, inflight, got, ff_write_mem_request, bridge, busWrite,
                 busRead, store, written>>

(* A store to an uncached address: one beat, its word repeated.            *)
IoStore(a, w) ==
  /\ line_of(a) \in IoLine /\ ff_write_mem_request = <<>>
  /\ \A r \in Entries(inflight) : line_of(r.addr) # line_of(a)
  /\ ff_write_mem_request' = <<[addr |-> a, len |-> 0, data |-> [k \in Pos |-> w]]>>
  /\ UNCHANGED <<mvuVars, held, inflight, got, bridge, busWrite, busRead, store, written>>

CacheTake ==
  /\ NotEmpty(ff_resp_to_cache) /\ inflight # <<>>
  /\ LET resp == Head(ff_resp_to_cache)
         req == Head(inflight) IN
     IF resp.last
     THEN /\ inflight' = Tail(inflight) /\ got' = 0
          /\ held' = IF line_of(req.addr) \in IoLine \/ resp.err THEN held
                     ELSE held \cup {line_of(req.addr)}
     ELSE /\ got' = (got + 1) % Arity
          /\ UNCHANGED <<inflight, held>>
  /\ ff_resp_to_cache' = Tail(ff_resp_to_cache)
  /\ UNCHANGED <<ff_req_from_cache, ff_evict_req, memFifos, treeFifos, mvuRegs,
                 ff_write_mem_request, bridge, busWrite, busRead, store, written>>

-----------------------------------------------------------------------------
(* The bridge.  A read of the line being written waits; a read of any      *)
(* other line passes.                                                      *)
being_written(addr) == wr_write_req # Invalid /\ line_of(wr_write_req) = line_of(addr)

rl_handle_dmem_line_read_request ==
  /\ rg_read_line_req = Invalid /\ NotEmpty(ff_req_to_mem) /\ NotFull(rd_addr)
  /\ LET req == Head(ff_req_to_mem) IN
     \/ /\ being_written(req.addr)
        /\ rg_read_line_req' = req
        /\ UNCHANGED rd_addr
     \/ /\ ~being_written(req.addr)
        /\ rd_addr' = Append(rd_addr, req)
        /\ UNCHANGED rg_read_line_req
  /\ ff_req_to_mem' = Tail(ff_req_to_mem)
  /\ UNCHANGED <<cacheFifos, ff_resp_from_mem, treeFifos, mvuRegs, cacheVars,
                 wr_write_req, rg_burst_count, busWrite, burst, store, written>>

rl_handle_delayed_read ==
  /\ rg_read_line_req # Invalid /\ wr_write_req = Invalid /\ NotFull(rd_addr)
  /\ rd_addr' = Append(rd_addr, rg_read_line_req)
  /\ rg_read_line_req' = Invalid
  /\ UNCHANGED <<mvuVars, cacheVars, wr_write_req, rg_burst_count, busWrite, burst,
                 store, written>>

(* ma_write_mem_req_deq hands the request to the unit when it leaves the   *)
(* cache.  The enq into ff_evict_req is in a branch, but without           *)
(* -aggressive-conditions it guards every beat, not only the last.         *)
unit_ready_mutant(last) == last => NotFull(ff_evict_req)
unit_ready(last) == NotFull(ff_evict_req)

(* The unit learns of a write, and `written' with it.                      *)
ma_write_mem_req_deq(req) ==
  /\ ff_write_mem_request' = <<>>
  /\ ff_evict_req' = Append(ff_evict_req, [addr |-> req.addr, data |-> req.data])
  /\ written' =
       [a \in Addr |->
          IF req.len = 0 THEN IF a = req.addr THEN req.data[0] ELSE written[a]
          ELSE IF line_of(a) = line_of(req.addr) THEN req.data[a % Arity] ELSE written[a]]

(* The beat of the burst that goes out: data shifted by rg_shift_amount.   *)
shifted_mutant(req) == req.data[0]
shifted(req) == req.data[rg_burst_count]

rl_handle_dmem_write_request ==
  /\ rg_burst_count = 0 /\ NotEmpty(ff_write_mem_request)
  /\ NotFull(wr_addr) /\ NotFull(wr_data)
  /\ LET req == Head(ff_write_mem_request) IN
     /\ unit_ready(req.len = 0)
     /\ wr_addr' = Append(wr_addr, [addr |-> req.addr, len |-> req.len])
     /\ wr_data' = Append(wr_data, [data |-> shifted(req), last |-> req.len = 0])
     /\ \/ /\ req.len > 0
           /\ rg_burst_count' = 1 /\ wr_write_req' = req.addr
           /\ UNCHANGED <<ff_write_mem_request, ff_evict_req, written>>
        \/ /\ req.len = 0
           /\ ma_write_mem_req_deq(req)
           /\ UNCHANGED <<rg_burst_count, wr_write_req>>
  /\ UNCHANGED <<ff_req_from_cache, ff_resp_to_cache, memFifos, treeFifos, mvuRegs, held,
                 inflight, got, rg_read_line_req, wr_resp, write_slot, busRead, store>>

burst_done_mutant == rg_burst_count' = 0 /\ UNCHANGED wr_write_req
burst_done_mutant2 == UNCHANGED rg_burst_count /\ wr_write_req' = Invalid
burst_done == rg_burst_count' = 0 /\ wr_write_req' = Invalid

rl_dmem_burst_write_data ==
  /\ rg_burst_count # 0 /\ NotEmpty(ff_write_mem_request) /\ NotFull(wr_data)
  /\ LET req == Head(ff_write_mem_request)
         last == rg_burst_count = Arity - 1 IN
     /\ unit_ready(last)
     /\ wr_data' = Append(wr_data, [data |-> shifted(req), last |-> last])
     /\ \/ /\ last /\ burst_done /\ ma_write_mem_req_deq(req)
        \/ /\ ~last /\ rg_burst_count' = rg_burst_count + 1
           /\ UNCHANGED <<wr_write_req, ff_write_mem_request, ff_evict_req, written>>
  /\ UNCHANGED <<ff_req_from_cache, ff_resp_to_cache, memFifos, treeFifos, mvuRegs, held,
                 inflight, got, rg_read_line_req, wr_addr, wr_resp, write_slot, busRead,
                 store>>

(* The response goes to the cache or the core, which only discard it.      *)
handle_dmem_line_write_resp ==
  /\ NotEmpty(wr_resp)
  /\ wr_resp' = Tail(wr_resp)
  /\ UNCHANGED <<mvuVars, cacheVars, bridge, wr_addr, wr_data, write_slot, busRead,
                 store, written>>

-----------------------------------------------------------------------------
(* The fabric and DRAM.  v_f_wr_mis and v_f_rd_mis hold one entry per      *)
(* slave: one write and one read of DRAM at a time, of any master.  A      *)
(* write holds its slot from address and first beat to the response.       *)
WriteWord(a, w) == dram' = [dram EXCEPT ![a] = w]

rl_wr_xaction_master_to_slave ==
  /\ write_slot = Invalid /\ NotEmpty(wr_addr) /\ NotEmpty(wr_data)
  /\ LET aw == Head(wr_addr)
         w == Head(wr_data) IN
     /\ WriteWord(aw.addr, w.data)
     /\ write_slot' = [addr |-> aw.addr, beat |-> 1, done |-> w.last]
  /\ wr_addr' = Tail(wr_addr) /\ wr_data' = Tail(wr_data)
  /\ UNCHANGED <<mvuVars, cacheVars, bridge, wr_resp, busRead, tree, written>>

rl_wr_xaction_master_to_slave_data ==
  /\ write_slot # Invalid /\ ~write_slot.done /\ NotEmpty(wr_data)
  /\ LET w == Head(wr_data) IN
     /\ WriteWord(write_slot.addr + write_slot.beat, w.data)
     /\ write_slot' = [write_slot EXCEPT !.beat = @ + 1, !.done = w.last]
  /\ wr_data' = Tail(wr_data)
  /\ UNCHANGED <<mvuVars, cacheVars, bridge, wr_addr, wr_resp, busRead, tree, written>>

rl_wr_resp_slave_to_master ==
  /\ write_slot # Invalid /\ write_slot.done /\ NotFull(wr_resp)
  /\ write_slot' = Invalid
  /\ wr_resp' = Append(wr_resp, TRUE)
  /\ UNCHANGED <<mvuVars, cacheVars, bridge, wr_addr, wr_data, busRead, store, written>>

rl_rd_xaction_master_to_slave ==
  /\ burst = Invalid /\ NotEmpty(rd_addr)
  /\ burst' = [req |-> Head(rd_addr), beat |-> 0]
  /\ rd_addr' = Tail(rd_addr)
  /\ UNCHANGED <<mvuVars, cacheVars, bridge, busWrite, store, written>>

rl_rd_resp_slave_to_master ==
  /\ burst # Invalid /\ NotFull(ff_resp_from_mem)
  /\ LET last == burst.beat = burst.req.len IN
     /\ ff_resp_from_mem' = Append(ff_resp_from_mem,
          [data |-> dram[wrap(burst.req, burst.beat)], last |-> last, err |-> FALSE])
     /\ burst' = IF last THEN Invalid ELSE [burst EXCEPT !.beat = @ + 1]
  /\ UNCHANGED <<cacheFifos, ff_req_to_mem, treeFifos, mvuRegs, cacheVars, bridge,
                 busWrite, rd_addr, store, written>>

(* Tree memory, when the slot it needs is free.                            *)
TreeRead ==
  /\ burst = Invalid /\ NotEmpty(ff_tree_req) /\ NotFull(ff_tree_resp)
  /\ LET req == Head(ff_tree_req) IN
     ff_tree_resp' = Append(ff_tree_resp,
       [k \in Pos |-> tree[<<req.level, req.base_index + k>>]])
  /\ ff_tree_req' = Tail(ff_tree_req)
  /\ UNCHANGED <<cacheFifos, memFifos, ff_tree_write, ff_tree_write_resp, mvuRegs, port>>

TreeWrite ==
  /\ write_slot = Invalid /\ NotEmpty(ff_tree_write) /\ NotFull(ff_tree_write_resp)
  /\ LET req == Head(ff_tree_write) IN
     tree' = [tree EXCEPT ![<<req.level, req.index>>] = req.hash]
  /\ ff_tree_write' = Tail(ff_tree_write)
  /\ ff_tree_write_resp' = Append(ff_tree_write_resp, TRUE)
  /\ UNCHANGED <<cacheFifos, memFifos, ff_tree_req, ff_tree_resp, mvuRegs, cacheVars,
                 bridge, busWrite, busRead, dram, written>>

-----------------------------------------------------------------------------
Cache ==
  \/ \E req \in ReadReq : CacheRead(req)
  \/ \E line \in Line, d \in EvictData : CacheEvict(line, d)
  \/ \E line \in Line : CacheDrop(line)
  \/ \E a \in Addr, w \in Word : IoStore(a, w)
  \/ CacheTake
ReadBridge == rl_handle_dmem_line_read_request \/ rl_handle_delayed_read
WriteBridge ==
  \/ rl_handle_dmem_write_request \/ rl_dmem_burst_write_data
  \/ handle_dmem_line_write_resp
FabricWrite ==
  \/ rl_wr_xaction_master_to_slave \/ rl_wr_xaction_master_to_slave_data
  \/ rl_wr_resp_slave_to_master
FabricRead == rl_rd_xaction_master_to_slave \/ rl_rd_resp_slave_to_master
UnitStep(rule) == rule /\ UNCHANGED port

Next ==
  \/ UnitStep(MVURule) \/ Cache \/ ReadBridge \/ WriteBridge
  \/ FabricWrite \/ FabricRead \/ TreeRead \/ TreeWrite
Spec == Init /\ [][Next]_vars

(* The scheduler runs every enabled rule, so each part goes on while any   *)
(* of its rules is enabled; rl_start_update has its turn as in MVUSystem.  *)
(* Nothing more is asked of the fabric: the cache cannot keep tree memory  *)
(* from its slots, because a walk under way leaves ff_evict_req to fill up.*)
Fairness ==
  /\ SF_vars(UnitStep(rl_start_update))
  /\ WF_vars(UnitStep(MVUReadRule \/ MVUWalkRule))
  /\ WF_vars(CacheTake) /\ WF_vars(ReadBridge) /\ WF_vars(WriteBridge)
  /\ WF_vars(FabricWrite \/ TreeWrite) /\ WF_vars(FabricRead \/ TreeRead)
FairSpec == Spec /\ Fairness

-----------------------------------------------------------------------------
Write == [addr : Addr, len : {0, Arity - 1}]
Beat == [data : Word, last : BOOLEAN]
WriteReq == [addr : Addr, len : {0, Arity - 1}, data : [Pos -> Word]]
TypeOK ==
  /\ MVUTypeOK
  /\ held \subseteq Line /\ inflight \in Seq(ReadReq) /\ got \in Pos
  /\ ff_write_mem_request \in Seq(WriteReq)
  /\ rg_read_line_req \in ReadReq \cup {Invalid} /\ wr_write_req \in Addr \cup {Invalid}
  /\ rg_burst_count \in Pos
  /\ rd_addr \in Seq(ReadReq) /\ wr_addr \in Seq(Write)
  /\ wr_data \in Seq(Beat) /\ wr_resp \in Seq({TRUE})
  /\ write_slot \in WriteSlot \cup {Invalid}
  /\ burst \in Burst \cup {Invalid}
  /\ dram \in [Addr -> Word] /\ tree \in [MemNode -> Word] /\ written \in [Addr -> Word]

(* MVUSystem's view of this system: a line leaves the cache, and memory    *)
(* changes, when the unit is told; a read is under way from the bridge on. *)
read_under_way ==
  IF burst # Invalid THEN burst
  ELSE IF rd_addr # <<>> THEN [req |-> Head(rd_addr), beat |-> 0]
  ELSE IF rg_read_line_req # Invalid THEN [req |-> rg_read_line_req, beat |-> 0]
  ELSE Invalid
held_or_leaving ==
  held \cup {line_of(w.addr) : w \in {x \in Entries(ff_write_mem_request) : x.len > 0}}
Contract == INSTANCE MVUSystem WITH
  OrderLine <- OrderTree, MaxFaults <- 0, MaxErrors <- 0, Together <- FALSE,
  faults <- 0, errors <- 0, data <- written, burst <- read_under_way,
  held <- held_or_leaving

(* Write-backs in beats, their late announcement to the unit, delayed      *)
(* reads and the shared slots of DRAM are invisible to the unit: what it   *)
(* sees is the environment of MVUSystem, if lines are not read while their *)
(* write-back is under way (OrderWrite, OrderTree).                        *)
ContractKept == Contract!Spec

(* A write burst that holds the slot of DRAM never waits for the unit: the *)
(* unit may be walking, and its walk may need that slot.  Queues of the    *)
(* bridge, the unit and DRAM would otherwise wait in a circle.             *)
BurstNeverWaits ==
  (write_slot # Invalid /\ ~write_slot.done) =>
    NotEmpty(wr_data) \/ NotFull(ff_evict_req)

(* Every read is answered, and every write-back leaves the cache although  *)
(* it must pass a queue that only the unit empties, by walking the tree.   *)
ReadsAnswered == \A line \in Line :
  (\E r \in Entries(inflight) : line_of(r.addr) = line) ~>
    ~(\E r \in Entries(inflight) : line_of(r.addr) = line)
WriteBacksLeave == NotEmpty(ff_write_mem_request) ~> ff_write_mem_request = <<>>

(* "reads should never fault" (mvu_test5_repeat.c:4): nothing corrupts     *)
(* memory here, so a line is never found to disagree with the tree.        *)
ReadsNeverFault == \A resp \in Entries(ff_resp_to_cache) : ~resp.err

(* "if a write - request has been initiated no read - requests should be   *)
(* latched unless the write - response has arrived" (ccore.bsv:173-174):   *)
(* the bridge sends no read of a line while its write is not in memory.    *)
LatchedAfterResponse ==
  [][\A req \in Entries(rd_addr') \ Entries(rd_addr) :
       /\ line_of(req.addr) \notin {line_of(w.addr) : w \in Entries(wr_addr)}
       /\ write_slot # Invalid => line_of(req.addr) # line_of(write_slot.addr)]_rd_addr
=============================================================================
