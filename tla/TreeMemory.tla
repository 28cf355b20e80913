----------------------------- MODULE TreeMemory -----------------------------
(***************************************************************************)
(* The adapter mkTreeMemory (tree_memory.bsv), the tree side of the bridge *)
(* in ccore.bsv, and DRAM behind it: how a group read or a node write of   *)
(* the verification unit becomes AXI bursts, and how boot zeroes memory.   *)
(*                                                                         *)
(* Addresses count words of 8 bytes, so `<< 3' is the identity and the     *)
(* 64-byte alignment of a burst an alignment to Arity.  A burst has        *)
(* Arity beats (burst_len 7).  Rules are actions of the same name.         *)
(***************************************************************************)
EXTENDS TreeGeometry, Sequences

CONSTANTS
  Nothing,         \* no request under way
  level2_offset,   \* 0x80000 and 0x90000 bytes in the source
  level3_offset,
  InitLast,        \* 0x0923FF in the source: the last word boot zeroes
  MaxOps           \* bound on the requests the unit makes

MemLevels == 1..MinHwLevel-1
tree_base == ProtectedLimit
TreeWords == level3_offset + NodeCount[3]
DramAddr == ProtectedBase..(tree_base + TreeWords - 1)

(* The literals of the source, in terms of the tree they are for.          *)
LayoutAssumption ==
  /\ MinHwLevel = 4
  /\ level2_offset = NodeCount[1]
  /\ level3_offset = NodeCount[1] + NodeCount[2]
  /\ InitLast = NodeCount[0] + TreeWords - 1

StoreAssumption == Zero \in Word /\ MaxOps \in Nat

FifoDepth == 2
NotFull(q) == Len(q) < FifoDepth
NotEmpty(q) == q # <<>>

VARIABLES
  ff_tree_req, ff_tree_resp, ff_tree_write, ff_tree_write_resp,
  ff_mem_read_req, ff_mem_read_resp, ff_mem_write_req, ff_mem_write_resp,
  rg_mem_initialized, rg_init_count, rg_init_pending,
  rg_beat_count,
  rg_acc_hashes,       \* rg_acc_valid is its domain
  rg_processing_read,  \* rg_current_req is read by nobody and is left out
  rg_tree_burst_count, \* of the bridge
  rd_addr, rd_data, wr_addr, wr_data, wr_resp,  \* tree_xactor's FIFOs
  dram, rd_beat, wr_beat,  \* DRAM, and the beats of the burst it is at
  waiting,             \* the request the unit waits for, or Nothing
  ops

unitFifos == <<ff_tree_req, ff_tree_resp, ff_tree_write, ff_tree_write_resp>>
readFifos == <<ff_mem_read_req, ff_mem_read_resp>>
writeFifos == <<ff_mem_write_req, ff_mem_write_resp>>
boot == <<rg_mem_initialized, rg_init_count, rg_init_pending>>
acc == <<rg_beat_count, rg_acc_hashes, rg_processing_read>>
busRead == <<rd_addr, rd_data>>
busWrite == <<wr_addr, wr_data, wr_resp>>
mem == <<dram, rd_beat, wr_beat>>
unit == <<waiting, ops>>
vars == <<unitFifos, readFifos, writeFifos, boot, acc, rg_tree_burst_count,
          busRead, busWrite, mem, unit>>

Init ==
  /\ ff_tree_req = <<>> /\ ff_tree_resp = <<>>
  /\ ff_tree_write = <<>> /\ ff_tree_write_resp = <<>>
  /\ ff_mem_read_req = <<>> /\ ff_mem_read_resp = <<>>
  /\ ff_mem_write_req = <<>> /\ ff_mem_write_resp = <<>>
  /\ rg_mem_initialized = FALSE /\ rg_init_count = 0 /\ rg_init_pending = FALSE
  /\ rg_beat_count = 0 /\ rg_acc_hashes = <<>> /\ rg_processing_read = FALSE
  /\ rg_tree_burst_count = 0
  /\ rd_addr = <<>> /\ rd_data = <<>>
  /\ wr_addr = <<>> /\ wr_data = <<>> /\ wr_resp = <<>>
  /\ \E junk \in Word : dram = [a \in DramAddr |-> junk]
  /\ rd_beat = 0 /\ wr_beat = 0
  /\ waiting = Nothing /\ ops = 0

-----------------------------------------------------------------------------
get_node_addr(level, index) ==
  tree_base + (CASE level = 1 -> 0 [] level = 2 -> level2_offset [] OTHER -> level3_offset)
            + index

boot_done_mutant == rg_init_count + 1 = InitLast
boot_done == rg_init_count = InitLast

aligned(addr) == addr - (addr % Arity)

(* One beat of a write burst: only the word asked for has its strobe set.  *)
write_beat(req, beat) ==
  [data |-> IF beat = req.address % Arity THEN req.data ELSE Zero,
   strb |-> beat = req.address % Arity, last |-> beat = Arity - 1]

next_beat(count) == IF count = Arity - 1 THEN 0 ELSE count + 1

(* rg_acc_hashes with the beat that arrives.                               *)
collected(data) ==
  [k \in DOMAIN rg_acc_hashes \cup {rg_beat_count} |->
     IF k = rg_beat_count THEN data ELSE rg_acc_hashes[k]]

read_done_mutant == UNCHANGED rg_processing_read
read_done == rg_processing_read' = FALSE

-----------------------------------------------------------------------------
(* Boot writes zero to one word after the other, each as a burst.          *)
rl_init_send ==
  /\ ~rg_mem_initialized /\ ~rg_init_pending /\ NotFull(ff_mem_write_req)
  /\ ff_mem_write_req' = Append(ff_mem_write_req,
       [address |-> ProtectedBase + rg_init_count, data |-> Zero])
  /\ rg_init_pending' = TRUE
  /\ UNCHANGED <<unitFifos, readFifos, ff_mem_write_resp, rg_mem_initialized,
                 rg_init_count, acc, rg_tree_burst_count, busRead, busWrite, mem, unit>>

rl_init_ack ==
  /\ ~rg_mem_initialized /\ rg_init_pending /\ NotEmpty(ff_mem_write_resp)
  /\ ff_mem_write_resp' = Tail(ff_mem_write_resp)
  /\ rg_init_pending' = FALSE
  /\ IF boot_done
     THEN rg_mem_initialized' = TRUE /\ UNCHANGED rg_init_count
     ELSE rg_init_count' = rg_init_count + 1 /\ UNCHANGED rg_mem_initialized
  /\ UNCHANGED <<unitFifos, readFifos, ff_mem_write_req, acc, rg_tree_burst_count,
                 busRead, busWrite, mem, unit>>

rl_process_read_req_mutant ==
  /\ rg_mem_initialized /\ NotEmpty(ff_tree_req) /\ ~rg_processing_read
  /\ NotFull(ff_mem_read_req)
  /\ LET req == Head(ff_tree_req) IN
     ff_mem_read_req' = Append(ff_mem_read_req, get_node_addr(req.level, req.base_index))
  /\ ff_tree_req' = Tail(ff_tree_req)
  /\ rg_processing_read' = TRUE /\ rg_acc_hashes' = <<>>
  /\ UNCHANGED <<ff_tree_resp, ff_tree_write, ff_tree_write_resp, ff_mem_read_resp,
                 writeFifos, boot, rg_beat_count, rg_tree_burst_count, busRead, busWrite, mem, unit>>
rl_process_read_req ==
  /\ rg_mem_initialized /\ NotEmpty(ff_tree_req) /\ ~rg_processing_read
  /\ NotFull(ff_mem_read_req)
  /\ LET req == Head(ff_tree_req) IN
     ff_mem_read_req' = Append(ff_mem_read_req, get_node_addr(req.level, req.base_index))
  /\ ff_tree_req' = Tail(ff_tree_req)
  /\ rg_processing_read' = TRUE /\ rg_beat_count' = 0 /\ rg_acc_hashes' = <<>>
  /\ UNCHANGED <<ff_tree_resp, ff_tree_write, ff_tree_write_resp, ff_mem_read_resp,
                 writeFifos, boot, rg_tree_burst_count, busRead, busWrite, mem, unit>>

(* The enq of the last beat guards the whole rule.                         *)
rl_process_read_resp ==
  /\ rg_mem_initialized /\ rg_processing_read /\ NotEmpty(ff_mem_read_resp)
  /\ NotFull(ff_tree_resp)
  /\ LET resp == Head(ff_mem_read_resp) IN
     /\ rg_acc_hashes' = collected(resp.data)
     /\ IF resp.last
        THEN /\ ff_tree_resp' = Append(ff_tree_resp, collected(resp.data))
             /\ read_done
             /\ UNCHANGED rg_beat_count
        ELSE /\ rg_beat_count' = (rg_beat_count + 1) % 16
             /\ UNCHANGED <<ff_tree_resp, rg_processing_read>>
  /\ ff_mem_read_resp' = Tail(ff_mem_read_resp)
  /\ UNCHANGED <<ff_tree_req, ff_tree_write, ff_tree_write_resp, ff_mem_read_req,
                 writeFifos, boot, rg_tree_burst_count, busRead, busWrite, mem, unit>>

rl_process_write_req ==
  /\ rg_mem_initialized /\ NotEmpty(ff_tree_write) /\ NotFull(ff_mem_write_req)
  /\ LET req == Head(ff_tree_write) IN
     ff_mem_write_req' = Append(ff_mem_write_req,
       [address |-> get_node_addr(req.level, req.index), data |-> req.hash])
  /\ ff_tree_write' = Tail(ff_tree_write)
  /\ UNCHANGED <<ff_tree_req, ff_tree_resp, ff_tree_write_resp, readFifos,
                 ff_mem_write_resp, boot, acc, rg_tree_burst_count, busRead, busWrite,
                 mem, unit>>

rl_process_write_resp ==
  /\ rg_mem_initialized /\ NotEmpty(ff_mem_write_resp) /\ NotFull(ff_tree_write_resp)
  /\ ff_tree_write_resp' = Append(ff_tree_write_resp, Head(ff_mem_write_resp))
  /\ ff_mem_write_resp' = Tail(ff_mem_write_resp)
  /\ UNCHANGED <<ff_tree_req, ff_tree_resp, ff_tree_write, readFifos, ff_mem_write_req,
                 boot, acc, rg_tree_burst_count, busRead, busWrite, mem, unit>>

-----------------------------------------------------------------------------
(* The bridge.                                                             *)
rl_handle_tree_read_request ==
  /\ NotEmpty(ff_mem_read_req) /\ NotFull(rd_addr)
  /\ rd_addr' = Append(rd_addr, Head(ff_mem_read_req))
  /\ ff_mem_read_req' = Tail(ff_mem_read_req)
  /\ UNCHANGED <<unitFifos, ff_mem_read_resp, writeFifos, boot, acc,
                 rg_tree_burst_count, rd_data, busWrite, mem, unit>>

rl_handle_tree_read_resp ==
  /\ NotEmpty(rd_data) /\ NotFull(ff_mem_read_resp)
  /\ ff_mem_read_resp' = Append(ff_mem_read_resp, Head(rd_data))
  /\ rd_data' = Tail(rd_data)
  /\ UNCHANGED <<unitFifos, ff_mem_read_req, writeFifos, boot, acc,
                 rg_tree_burst_count, rd_addr, busWrite, mem, unit>>

rl_handle_tree_write_request ==
  /\ rg_tree_burst_count = 0
  /\ NotEmpty(ff_mem_write_req) /\ NotFull(wr_addr) /\ NotFull(wr_data)
  /\ LET req == Head(ff_mem_write_req) IN
     /\ wr_addr' = Append(wr_addr, aligned(req.address))
     /\ wr_data' = Append(wr_data, write_beat(req, 0))
  /\ rg_tree_burst_count' = next_beat(rg_tree_burst_count)
  /\ UNCHANGED <<unitFifos, readFifos, writeFifos, boot, acc, busRead, wr_resp, mem, unit>>

(* The request leaves ff_mem_write_req with its last beat.                 *)
rl_tree_burst_write_data ==
  /\ rg_tree_burst_count # 0
  /\ NotEmpty(ff_mem_write_req) /\ NotFull(wr_data)
  /\ LET beat == write_beat(Head(ff_mem_write_req), rg_tree_burst_count) IN
     /\ wr_data' = Append(wr_data, beat)
     /\ ff_mem_write_req' = IF beat.last THEN Tail(ff_mem_write_req) ELSE ff_mem_write_req
  /\ rg_tree_burst_count' = next_beat(rg_tree_burst_count)
  /\ UNCHANGED <<unitFifos, readFifos, ff_mem_write_resp, boot, acc, busRead, wr_addr,
                 wr_resp, mem, unit>>

rl_handle_tree_write_resp ==
  /\ NotEmpty(wr_resp) /\ NotFull(ff_mem_write_resp)
  /\ ff_mem_write_resp' = Append(ff_mem_write_resp, Head(wr_resp))
  /\ wr_resp' = Tail(wr_resp)
  /\ UNCHANGED <<unitFifos, readFifos, ff_mem_write_req, boot, acc,
                 rg_tree_burst_count, busRead, wr_addr, wr_data, mem, unit>>

-----------------------------------------------------------------------------
(* DRAM behind the fabric serves one INCR burst per direction at a time    *)
(* and never reports an error.                                             *)
MemReadBeat ==
  /\ NotEmpty(rd_addr) /\ NotFull(rd_data)
  /\ LET last == rd_beat = Arity - 1 IN
     /\ rd_data' = Append(rd_data,
          [data |-> dram[Head(rd_addr) + rd_beat], last |-> last])
     /\ rd_beat' = IF last THEN 0 ELSE rd_beat + 1
     /\ rd_addr' = IF last THEN Tail(rd_addr) ELSE rd_addr
  /\ UNCHANGED <<unitFifos, readFifos, writeFifos, boot, acc, rg_tree_burst_count,
                 busWrite, dram, wr_beat, unit>>

MemWriteBeat ==
  /\ NotEmpty(wr_addr) /\ NotEmpty(wr_data) /\ NotFull(wr_resp)
  /\ LET beat == Head(wr_data)
         at == Head(wr_addr) + wr_beat IN
     /\ dram' = IF beat.strb THEN [dram EXCEPT ![at] = beat.data] ELSE dram
     /\ wr_beat' = IF beat.last THEN 0 ELSE wr_beat + 1
     /\ wr_addr' = IF beat.last THEN Tail(wr_addr) ELSE wr_addr
     /\ wr_resp' = IF beat.last THEN Append(wr_resp, TRUE) ELSE wr_resp
  /\ wr_data' = Tail(wr_data)
  /\ UNCHANGED <<unitFifos, readFifos, writeFifos, boot, acc, rg_tree_burst_count,
                 busRead, rd_beat, unit>>

-----------------------------------------------------------------------------
(* The unit asks for one thing at a time (TreePipe of MVUSystemInv, proved *)
(* there), at any moment, before boot has finished too.                    *)
ReadOp == UNION {[level : {l}, base_index : {i \in NodesOf(l) : i % Arity = 0}] : l \in MemLevels}
WriteOp == UNION {[level : {l}, index : NodesOf(l), hash : Word] : l \in MemLevels}

put_req(op) ==
  /\ waiting = Nothing /\ ops < MaxOps /\ NotFull(ff_tree_req)
  /\ ff_tree_req' = Append(ff_tree_req, op)
  /\ waiting' = op /\ ops' = ops + 1
  /\ UNCHANGED <<ff_tree_resp, ff_tree_write, ff_tree_write_resp, readFifos, writeFifos,
                 boot, acc, rg_tree_burst_count, busRead, busWrite, mem>>

put_write_req(op) ==
  /\ waiting = Nothing /\ ops < MaxOps /\ NotFull(ff_tree_write)
  /\ ff_tree_write' = Append(ff_tree_write, op)
  /\ waiting' = op /\ ops' = ops + 1
  /\ UNCHANGED <<ff_tree_req, ff_tree_resp, ff_tree_write_resp, readFifos, writeFifos,
                 boot, acc, rg_tree_burst_count, busRead, busWrite, mem>>

get_resp ==
  /\ NotEmpty(ff_tree_resp)
  /\ ff_tree_resp' = Tail(ff_tree_resp)
  /\ waiting' = Nothing
  /\ UNCHANGED <<ff_tree_req, ff_tree_write, ff_tree_write_resp, readFifos, writeFifos,
                 boot, acc, rg_tree_burst_count, busRead, busWrite, mem, ops>>

get_write_resp ==
  /\ NotEmpty(ff_tree_write_resp)
  /\ ff_tree_write_resp' = Tail(ff_tree_write_resp)
  /\ waiting' = Nothing
  /\ UNCHANGED <<ff_tree_req, ff_tree_resp, ff_tree_write, readFifos, writeFifos,
                 boot, acc, rg_tree_burst_count, busRead, busWrite, mem, ops>>

Adapter ==
  \/ rl_init_send \/ rl_init_ack
  \/ rl_process_read_req \/ rl_process_read_resp
  \/ rl_process_write_req \/ rl_process_write_resp
Bridge ==
  \/ rl_handle_tree_read_request \/ rl_handle_tree_read_resp
  \/ rl_handle_tree_write_request \/ rl_tree_burst_write_data
  \/ rl_handle_tree_write_resp
Memory == MemReadBeat \/ MemWriteBeat
UnitTakes == get_resp \/ get_write_resp
UnitAsks == (\E op \in ReadOp : put_req(op)) \/ (\E op \in WriteOp : put_write_req(op))

Next == Adapter \/ Bridge \/ Memory \/ UnitTakes \/ UnitAsks
Spec == Init /\ [][Next]_vars

(* Every enabled rule fires, and DRAM and the unit go on.                  *)
Fairness == WF_vars(Adapter) /\ WF_vars(Bridge) /\ WF_vars(Memory) /\ WF_vars(UnitTakes)
FairSpec == Spec /\ Fairness

-----------------------------------------------------------------------------
TypeOK ==
  /\ rg_mem_initialized \in BOOLEAN /\ rg_init_pending \in BOOLEAN
  /\ rg_init_count \in 0..InitLast
  /\ rg_beat_count \in Pos /\ rg_processing_read \in BOOLEAN
  /\ DOMAIN rg_acc_hashes \subseteq Pos
  /\ rg_tree_burst_count \in Pos /\ rd_beat \in Pos /\ wr_beat \in Pos
  /\ dram \in [DramAddr -> Word]
  /\ waiting \in ReadOp \cup WriteOp \cup {Nothing} /\ ops \in 0..MaxOps

(* Has the write the unit waits for reached DRAM?  Not while it is queued, *)
(* or the beat that carries it is still to be sent or on its way.          *)
WriteUnderWay ==
  \/ NotEmpty(ff_tree_write)
  \/ /\ NotEmpty(ff_mem_write_req)
     /\ rg_tree_burst_count <= Head(ff_mem_write_req).address % Arity
  \/ \E k \in DOMAIN wr_data : wr_data[k].strb

Store == INSTANCE NodeStore WITH
  tree <- [n \in MemNode |->
             IF rg_mem_initialized THEN dram[get_node_addr(n[1], n[2])] ELSE Zero],
  asked <- IF waiting = Nothing THEN Nothing
           ELSE IF waiting \in WriteOp
           THEN IF WriteUnderWay THEN waiting ELSE Nothing
           ELSE IF NotEmpty(ff_tree_resp) THEN Nothing ELSE waiting,
  answer <- IF waiting = Nothing THEN Nothing
            ELSE IF waiting \in WriteOp
            THEN IF WriteUnderWay THEN Nothing ELSE TRUE
            ELSE IF NotEmpty(ff_tree_resp) THEN Head(ff_tree_resp) ELSE Nothing

(* Bursts, strobes, alignment and the zeroing at boot are invisible to the *)
(* unit: it sees a store of zeroed nodes that serves each group read and   *)
(* each node write at one moment (the contract MVUSystem relies on in      *)
(* TreeRead and TreeWrite).                                                *)
StoreImplemented == Store!Spec

(* Boot ends and every request is answered.                                *)
RequestsAnswered == (waiting # Nothing) ~> (waiting = Nothing)
=============================================================================
