--------------------------- MODULE TreeMemoryInv ---------------------------
(***************************************************************************)
(* The inductive invariant of TreeMemory: of the two pipelines between the *)
(* unit and DRAM one rests, and the other carries one request whose beats  *)
(* are in order, wherever they are.                                        *)
(***************************************************************************)
EXTENDS TreeMemory

(* What a request that rests or is answered is not.                        *)
NothingAssumption ==
  Nothing \notin ReadOp \cup WriteOp \cup {TRUE} \cup [Pos -> Word]

-----------------------------------------------------------------------------
(* A write burst: the bridge has sent some of its beats, DRAM has taken    *)
(* the first wr_beat of those.                                             *)
WriteIdle ==
  /\ ff_mem_write_req = <<>> /\ rg_tree_burst_count = 0
  /\ wr_addr = <<>> /\ wr_data = <<>> /\ wr_beat = 0
  /\ wr_resp = <<>> /\ ff_mem_write_resp = <<>>
write_burst(req) == [k \in 1..Arity |-> write_beat(req, k - 1)]
sent == IF ff_mem_write_req = <<>> THEN Arity ELSE rg_tree_burst_count
WriteBurst(req) ==
  /\ ff_mem_write_req = <<req>> \/ (ff_mem_write_req = <<>> /\ rg_tree_burst_count = 0)
  /\ wr_beat <= sent /\ wr_data = SubSeq(write_burst(req), wr_beat + 1, sent)
  /\ wr_addr = IF sent = 0 THEN <<>> ELSE <<aligned(req.address)>>
  /\ wr_resp = <<>> /\ ff_mem_write_resp = <<>>
  /\ wr_beat > req.address % Arity => dram[req.address] = req.data
WriteDone(req) ==
  /\ ff_mem_write_req = <<>> /\ rg_tree_burst_count = 0
  /\ wr_addr = <<>> /\ wr_data = <<>> /\ wr_beat = 0
  /\ \/ wr_resp = <<TRUE>> /\ ff_mem_write_resp = <<>>
     \/ wr_resp = <<>> /\ ff_mem_write_resp = <<TRUE>>
  /\ dram[req.address] = req.data
Writing(req) == WriteBurst(req) \/ WriteDone(req)

-----------------------------------------------------------------------------
(* A read burst: of the beats DRAM has put out the first rg_beat_count are *)
(* collected, the next wait for the adapter, the others for the bridge.    *)
ReadIdle ==
  /\ ff_mem_read_req = <<>> /\ ff_mem_read_resp = <<>>
  /\ rd_addr = <<>> /\ rd_data = <<>> /\ rd_beat = 0
  /\ ~rg_processing_read
words(addr) == [k \in Pos |-> dram[addr + k]]
read_burst(addr) ==
  [k \in 1..Arity |-> [data |-> dram[addr + (k - 1)], last |-> k - 1 = Arity - 1]]
drawn == IF rd_addr = <<>> THEN Arity ELSE rd_beat
ReadAsked(addr) ==
  /\ ff_mem_read_req = <<addr>> /\ ff_mem_read_resp = <<>>
  /\ rd_addr = <<>> /\ rd_data = <<>> /\ rd_beat = 0
  /\ rg_beat_count = 0 /\ rg_acc_hashes = <<>>
ReadBurst(addr) ==
  /\ ff_mem_read_req = <<>>
  /\ rd_addr = <<addr>> \/ (rd_addr = <<>> /\ rd_beat = 0)
  /\ \E given \in rg_beat_count..drawn :
       /\ ff_mem_read_resp = SubSeq(read_burst(addr), rg_beat_count + 1, given)
       /\ rd_data = SubSeq(read_burst(addr), given + 1, drawn)
  /\ rg_acc_hashes = [k \in 0..rg_beat_count - 1 |-> dram[addr + k]]
Reading(addr) == rg_processing_read /\ (ReadAsked(addr) \/ ReadBurst(addr))

-----------------------------------------------------------------------------
(* What the unit waits for, and where it is.                               *)
base_addr == get_node_addr(waiting.level, waiting.base_index)
node_addr == get_node_addr(waiting.level, waiting.index)
node_write == [address |-> node_addr, data |-> waiting.hash]

Resting ==
  /\ waiting = Nothing
  /\ ff_tree_req = <<>> /\ ff_tree_resp = <<>>
  /\ ff_tree_write = <<>> /\ ff_tree_write_resp = <<>>
Asked ==
  /\ ff_tree_resp = <<>> /\ ff_tree_write_resp = <<>>
  /\ \/ waiting \in ReadOp /\ ff_tree_req = <<waiting>> /\ ff_tree_write = <<>>
     \/ waiting \in WriteOp /\ ff_tree_req = <<>> /\ ff_tree_write = <<waiting>>
ReadServed ==
  /\ waiting \in ReadOp
  /\ ff_tree_req = <<>> /\ ff_tree_write = <<>> /\ ff_tree_write_resp = <<>>
  /\ WriteIdle
  /\ \/ ff_tree_resp = <<>> /\ Reading(base_addr)
     \/ ff_tree_resp = <<words(base_addr)>> /\ ReadIdle
WriteServed ==
  /\ waiting \in WriteOp
  /\ ff_tree_req = <<>> /\ ff_tree_resp = <<>> /\ ff_tree_write = <<>>
  /\ ReadIdle
  /\ \/ ff_tree_write_resp = <<>> /\ Writing(node_write)
     \/ ff_tree_write_resp = <<TRUE>> /\ WriteIdle /\ dram[node_addr] = waiting.hash

(* Boot: the words before rg_init_count are zero.                          *)
zero_write == [address |-> ProtectedBase + rg_init_count, data |-> Zero]
Booting ==
  /\ ~rg_mem_initialized
  /\ Resting \/ Asked
  /\ ReadIdle
  /\ IF rg_init_pending THEN Writing(zero_write) ELSE WriteIdle
  /\ \A a \in DramAddr : a < ProtectedBase + rg_init_count => dram[a] = Zero
Running ==
  /\ rg_mem_initialized /\ ~rg_init_pending
  /\ \/ (Resting \/ Asked) /\ ReadIdle /\ WriteIdle
     \/ ReadServed
     \/ WriteServed

IInv == TypeOK /\ (Booting \/ Running)
=============================================================================
