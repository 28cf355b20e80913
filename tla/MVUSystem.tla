----------------------------- MODULE MVUSystem -----------------------------
(***************************************************************************)
(* The verification unit of MVU.tla with what surrounds it reduced to the  *)
(* contract its rules rely on: a write-back cache that reads and evicts    *)
(* lines, a memory that answers a burst beat by beat, a node store that    *)
(* serves one sibling group or one node write, a bus that reports errors,  *)
(* and a fault in the protected memory.                                    *)
(*                                                                         *)
(* OrderLine and OrderIO say which orderings the cache side is held to;    *)
(* the rules of the unit do not enforce them.                              *)
(***************************************************************************)
EXTENDS MVU, FiniteSets

CONSTANTS
  EvictData,       \* line contents the cache may write back
  MaxOutstanding,  \* reads the cache keeps in flight (its fill buffers)
  MaxFaults,       \* bound on corruptions of protected memory
  MaxErrors,       \* bound on errors the bus reports
  Together,        \* bound: whether one behaviour may have both
  OrderLine,       \* a line is not read while its eviction is not yet in the tree
  OrderIO,         \* no protected line is evicted during an unprotected read, and
                   \* no such read starts before the tree holds all evictions
  IoLine           \* lines that are never cached: isIO of io_func.bsv

ASSUME SystemAssumption ==
  /\ EvictData \subseteq [Pos -> Word]
  /\ MaxOutstanding \in Nat \ {0} /\ MaxFaults \in Nat /\ MaxErrors \in Nat
  /\ Together \in BOOLEAN
  /\ OrderLine \in BOOLEAN /\ OrderIO \in BOOLEAN
  /\ IoLine \subseteq Line \ ProtectedLine
  /\ Invalid \notin [req : ReadReq, beat : Pos]

VARIABLES
  data,      \* data[a]: the word memory holds at address a
  tree,      \* tree[<<l, i>>]: the node memory holds
  burst,     \* the read burst the memory is answering, or Invalid
  held,      \* lines present in the cache
  inflight,  \* reads the cache has issued, oldest first
  got,       \* beats of the oldest read the cache has received
  written,   \* written[a]: what the cache last wrote to a (auxiliary)
  faults,    \* corruptions so far
  errors     \* errors the bus has reported

memVars == <<data, tree, burst>>
cacheVars == <<held, inflight, got, written>>
vars == <<mvuVars, memVars, cacheVars, faults, errors>>

Init ==
  /\ MVUInit
  /\ data = [a \in Addr |-> Zero] /\ tree = [n \in MemNode |-> Zero]
  /\ burst = Invalid
  /\ held = {} /\ inflight = <<>> /\ got = 0
  /\ written = [a \in Addr |-> Zero]
  /\ faults = 0 /\ errors = 0

-----------------------------------------------------------------------------
Entries(q) == {q[k] : k \in DOMAIN q}
line_data(mem, line) == [k \in Pos |-> mem[line_base(line) + k]]
leaf_line == line_of(ProtectedBase + rg_base_leaf_index)

(* Lines written back whose new contents the tree does not reflect yet.    *)
Unfolded ==
  {line_of(e.addr) : e \in {x \in Entries(ff_evict_req) : is_protected(x.addr)}}
    \cup (IF rg_is_update THEN {leaf_line} ELSE {})

UnprotectedInFlight == \E r \in Entries(inflight) : ~is_protected(r.addr)

(* A wrap burst starts at the word asked for and stays in its line.        *)
wrap(req, k) == line_base(line_of(req.addr)) + (((req.addr % Arity) + k) % Arity)
-----------------------------------------------------------------------------
(* The cache misses on a word: a line fill of Arity beats, or one beat of  *)
(* an uncached access outside the protected region.                        *)
CacheRead(req) ==
  /\ NotFull(ff_req_from_cache) /\ Len(inflight) < MaxOutstanding
  /\ line_of(req.addr) \notin held
  /\ req.len = IF line_of(req.addr) \in IoLine THEN 0 ELSE Arity - 1
  /\ \A r \in Entries(inflight) : line_of(r.addr) # line_of(req.addr)
  /\ OrderLine => line_of(req.addr) \notin Unfolded
  /\ (OrderIO /\ ~is_protected(req.addr)) => Unfolded = {}
  /\ ff_req_from_cache' = Append(ff_req_from_cache, req)
  /\ inflight' = Append(inflight, req)
  /\ UNCHANGED <<ff_evict_req, ff_resp_to_cache, memFifos, treeFifos, mvuRegs,
                 memVars, held, got, written, faults, errors>>

(* A dirty line leaves the cache: memory takes it and the unit is told.    *)
CacheEvict(line, d) ==
  /\ line \in held /\ NotFull(ff_evict_req)
  /\ (OrderIO /\ line \in ProtectedLine) => ~UnprotectedInFlight
  /\ held' = held \ {line}
  /\ data' = [a \in Addr |-> IF line_of(a) = line THEN d[a % Arity] ELSE data[a]]
  /\ written' = [a \in Addr |-> IF line_of(a) = line THEN d[a % Arity] ELSE written[a]]
  /\ ff_evict_req' = Append(ff_evict_req, [addr |-> line_base(line), data |-> d])
  /\ UNCHANGED <<ff_req_from_cache, ff_resp_to_cache, memFifos, treeFifos, mvuRegs,
                 tree, burst, inflight, got, faults, errors>>

(* A store to an uncached address passes the unit like an eviction.        *)
IoStore(a, w) ==
  /\ line_of(a) \in IoLine /\ NotFull(ff_evict_req)
  /\ \A r \in Entries(inflight) : line_of(r.addr) # line_of(a)
  /\ data' = [data EXCEPT ![a] = w]
  /\ written' = [written EXCEPT ![a] = w]
  /\ ff_evict_req' = Append(ff_evict_req, [addr |-> a, data |-> [k \in Pos |-> w]])
  /\ UNCHANGED <<ff_req_from_cache, ff_resp_to_cache, memFifos, treeFifos, mvuRegs,
                 tree, burst, held, inflight, got, faults, errors>>

(* A clean line leaves the cache without a write-back.                     *)
CacheDrop(line) ==
  /\ line \in held
  /\ held' = held \ {line}
  /\ UNCHANGED <<mvuVars, memVars, inflight, got, written, faults, errors>>

(* The cache takes a beat; the last beat ends the read and, without err,   *)
(* leaves the line in the cache.                                           *)
CacheTake ==
  /\ NotEmpty(ff_resp_to_cache) /\ inflight # <<>>
  /\ LET resp == Head(ff_resp_to_cache)
         req == Head(inflight) IN
     IF resp.last
     THEN /\ inflight' = Tail(inflight) /\ got' = 0
          /\ held' = IF line_of(req.addr) \in IoLine \/ resp.err THEN held
                     ELSE held \cup {line_of(req.addr)}
     ELSE /\ got' = (got + 1) % Arity
          /\ UNCHANGED <<inflight, held>>
  /\ ff_resp_to_cache' = Tail(ff_resp_to_cache)
  /\ UNCHANGED <<ff_req_from_cache, ff_evict_req, memFifos, treeFifos, mvuRegs,
                 memVars, written, faults, errors>>

MemAccept ==
  /\ burst = Invalid /\ NotEmpty(ff_req_to_mem)
  /\ burst' = [req |-> Head(ff_req_to_mem), beat |-> 0]
  /\ ff_req_to_mem' = Tail(ff_req_to_mem)
  /\ UNCHANGED <<cacheFifos, ff_resp_from_mem, treeFifos, mvuRegs, data, tree,
                 cacheVars, faults, errors>>

MemBeat ==
  /\ burst # Invalid /\ NotFull(ff_resp_from_mem)
  /\ LET last == burst.beat = burst.req.len IN
     /\ ff_resp_from_mem' = Append(ff_resp_from_mem,
          [data |-> data[wrap(burst.req, burst.beat)], last |-> last, err |-> FALSE])
     /\ burst' = IF last THEN Invalid ELSE [burst EXCEPT !.beat = @ + 1]
  /\ UNCHANGED <<cacheFifos, ff_req_to_mem, treeFifos, mvuRegs, data, tree,
                 cacheVars, faults, errors>>

TreeRead ==
  /\ NotEmpty(ff_tree_req) /\ NotFull(ff_tree_resp)
  /\ LET req == Head(ff_tree_req) IN
     ff_tree_resp' = Append(ff_tree_resp,
       [k \in Pos |-> tree[<<req.level, req.base_index + k>>]])
  /\ ff_tree_req' = Tail(ff_tree_req)
  /\ UNCHANGED <<cacheFifos, memFifos, ff_tree_write, ff_tree_write_resp, mvuRegs,
                 memVars, cacheVars, faults, errors>>

TreeWrite ==
  /\ NotEmpty(ff_tree_write) /\ NotFull(ff_tree_write_resp)
  /\ LET req == Head(ff_tree_write) IN
     tree' = [tree EXCEPT ![<<req.level, req.index>>] = req.hash]
  /\ ff_tree_write' = Tail(ff_tree_write)
  /\ ff_tree_write_resp' = Append(ff_tree_write_resp, TRUE)
  /\ UNCHANGED <<cacheFifos, memFifos, ff_tree_req, ff_tree_resp, mvuRegs, data, burst,
                 cacheVars, faults, errors>>

(* The bus reports an error.  A beat of data carries it to the unit        *)
(* (rl_handle_dmem_line_resp); the error of a group read is dropped by     *)
(* tree memory (rl_process_read_resp), that of a node write by the unit    *)
(* (rl_wait_update_ack): both go on with what they have.                   *)
BusError ==
  /\ errors < MaxErrors /\ errors' = errors + 1
  /\ Together \/ faults = 0
  /\ UNCHANGED faults

BeatFails(junk) ==
  /\ BusError
  /\ burst # Invalid /\ NotFull(ff_resp_from_mem)
  /\ LET last == burst.beat = burst.req.len IN
     /\ ff_resp_from_mem' = Append(ff_resp_from_mem,
          [data |-> junk, last |-> last, err |-> TRUE])
     /\ burst' = IF last THEN Invalid ELSE [burst EXCEPT !.beat = @ + 1]
  /\ UNCHANGED <<cacheFifos, ff_req_to_mem, treeFifos, mvuRegs, data, tree, cacheVars>>

GroupReadFails(junk) ==
  /\ BusError
  /\ NotEmpty(ff_tree_req) /\ NotFull(ff_tree_resp)
  /\ ff_tree_resp' = Append(ff_tree_resp, junk)
  /\ ff_tree_req' = Tail(ff_tree_req)
  /\ UNCHANGED <<cacheFifos, memFifos, ff_tree_write, ff_tree_write_resp, mvuRegs,
                 memVars, cacheVars>>

NodeWriteFails ==
  /\ BusError
  /\ NotEmpty(ff_tree_write) /\ NotFull(ff_tree_write_resp)
  /\ ff_tree_write' = Tail(ff_tree_write)
  /\ ff_tree_write_resp' = Append(ff_tree_write_resp, FALSE)
  /\ UNCHANGED <<cacheFifos, memFifos, ff_tree_req, ff_tree_resp, mvuRegs, memVars,
                 cacheVars>>

(* Protected memory loses a word of data, or a node of the tree.  Data is  *)
(* faulted once the HCache holds the first node above it that it stores:   *)
(* before that the unit accepts what it reads (rl_check_parent, Invalid).  *)
watched(a) ==
  get_hash(MinHwLevel, ancestor(addr_to_leaf_index(a))[MinHwLevel]) # Invalid

FaultData(a, w) ==
  /\ faults < MaxFaults /\ (Together \/ errors = 0)
  /\ is_protected(a) /\ watched(a) /\ w # data[a]
  /\ data' = [data EXCEPT ![a] = w]
  /\ faults' = faults + 1
  /\ UNCHANGED <<mvuVars, tree, burst, cacheVars, errors>>

FaultNode(n, w) ==
  /\ faults < MaxFaults /\ (Together \/ errors = 0)
  /\ w # tree[n]
  /\ tree' = [tree EXCEPT ![n] = w]
  /\ faults' = faults + 1
  /\ UNCHANGED <<mvuVars, data, burst, cacheVars, errors>>

Environment ==
  \/ \E req \in ReadReq : CacheRead(req)
  \/ \E line \in Line, d \in EvictData : CacheEvict(line, d)
  \/ \E line \in Line : CacheDrop(line)
  \/ \E a \in Addr, w \in Word : IoStore(a, w)
  \/ CacheTake \/ MemAccept \/ MemBeat \/ TreeRead \/ TreeWrite
  \/ \E a \in Addr, w \in Word : FaultData(a, w)
  \/ \E n \in MemNode, w \in Word : FaultNode(n, w)
  \/ \E junk \in Word : BeatFails(junk)
  \/ \E junk \in [Pos -> Word] : GroupReadFails(junk)
  \/ NodeWriteFails

Unit == MVURule /\ UNCHANGED <<memVars, cacheVars, faults, errors>>
Next == Unit \/ Environment

(* Every rule of the unit fires when it stays enabled (the scheduler runs  *)
(* each enabled rule every cycle), the memories answer, and the cache      *)
(* takes its beats.  Nothing makes the cache read or evict.                *)
(* rl_start_update and rl_forward_request compete in IDLE without an       *)
(* urgency annotation; bsc then prefers the one written first, and strong  *)
(* fairness for rl_start_update is weaker than that.                       *)
UnitStep(rule) == rule /\ UNCHANGED <<memVars, cacheVars, faults, errors>>
Fairness ==
  /\ SF_vars(UnitStep(rl_start_update))
  /\ WF_vars(UnitStep(MVUReadRule)) /\ WF_vars(UnitStep(MVUWalkRule))
  /\ WF_vars(CacheTake) /\ WF_vars(MemAccept) /\ WF_vars(MemBeat)
  /\ WF_vars(TreeRead) /\ WF_vars(TreeWrite)

Spec == Init /\ [][Next]_vars
FairSpec == Spec /\ Fairness

-----------------------------------------------------------------------------
TypeOK ==
  /\ MVUTypeOK
  /\ data \in [Addr -> Word] /\ tree \in [MemNode -> Word]
  /\ burst \in [req : ReadReq, beat : Pos] \cup {Invalid}
  /\ held \subseteq Line /\ inflight \in Seq(ReadReq) /\ got \in Pos
  /\ written \in [Addr -> Word] /\ faults \in 0..MaxFaults
  /\ errors \in 0..MaxErrors

(* The value a node has for the unit: the HCache reads an absent node as   *)
(* zero.                                                                   *)
node(level, index) ==
  IF is_hw_level(level) THEN get_hash_or_zero(level, index) ELSE tree[<<level, index>>]

leaf_node(line) == parent_index(addr_to_leaf_index(line_base(line)))

(* The tree agrees with memory: a level-1 node is the hash of its line and *)
(* a higher node the hash of its children.                                 *)
LeafConsistent(line) == node(1, leaf_node(line)) = Hash(line_data(data, line))
NodeConsistent(level, index) ==
  node(level, index) =
    Hash([k \in Pos |-> node(level - 1, child_index(index, k))])

(* Nothing was corrupted and no access failed.                             *)
Honest == faults = 0 /\ errors = 0

(* Without faults, and between updates, every stored node of every level   *)
(* is the hash of its children, and every line whose write-back has been   *)
(* folded in hashes to its leaf node: no interleaving of updates,          *)
(* verifications that store a first-seen node, evictions and fills leaves  *)
(* the tree half updated.                                                  *)
TreeConsistent ==
  (Honest /\ ~rg_is_update) =>
    /\ \A line \in ProtectedLine \ Unfolded : LeafConsistent(line)
    /\ \A level \in 2..Height : \A index \in NodesOf(level) :
         NodeConsistent(level, index)

(* Memory that nobody corrupted never raises the error, and no beat is     *)
(* poisoned: the unit answers "reads should never fault" of the tests.     *)
NoFalseAlarm ==
  Honest => /\ ~rg_mvu_error
            /\ \A resp \in Entries(ff_resp_to_cache) : ~resp.err

(* The two beats that may wait for the cache agree on err when they belong *)
(* to one line: what the unit reports of its own accord poisons the line   *)
(* as a whole.  (A beat that failed on the bus has its own err.)           *)
PoisonedWhole ==
  errors = 0 /\ Len(ff_resp_to_cache) = 2 /\ ~ff_resp_to_cache[1].last =>
    ff_resp_to_cache[1].err = ff_resp_to_cache[2].err

(* The beat the cache will take next belongs to the oldest read, is the    *)
(* word the wrap burst of that read puts at this place, is marked last     *)
(* exactly at the end, and holds what was last written there, or err.      *)
DeliveredCorrect ==
  ff_resp_to_cache # <<>> =>
    LET resp == Head(ff_resp_to_cache) IN
    /\ inflight # <<>>
    /\ resp.last = (got = Head(inflight).len)
    /\ resp.err \/ resp.data = written[wrap(Head(inflight), got)]

(* "verify that the MVU detects the resulting mismatch when reading the    *)
(* corresponding protected data" (mvu_test10_treeprot.c:3-4): a line whose *)
(* stored level-1 node is not its hash is not forwarded without the error. *)
TamperedNodeDetected ==
  (rg_state = "FORWARD_TO_CACHE" /\ leaf_line \notin Unfolded
     /\ ~LeafConsistent(leaf_line)) => rg_mvu_error

(* Every read the cache issues is answered, and every eviction reaches the *)
(* tree, whatever else the cache does.                                     *)
ReadsAnswered == \A line \in Line :
  (\E r \in Entries(inflight) : line_of(r.addr) = line) ~>
    ~(\E r \in Entries(inflight) : line_of(r.addr) = line)
EvictionsFolded == \A line \in ProtectedLine :
  line \in Unfolded ~> line \notin Unfolded

(* "[MVU] UPDATE: Write acknowledged" (mvu.bsv:471): when an update goes   *)
(* on from a node of tree memory, memory holds the hash it wrote there.    *)
AcknowledgedStored ==
  (rg_is_update /\ rg_state = "PROPAGATE_UP" /\ ~is_hw_level(rg_current_level)) =>
    tree[<<rg_current_level, rg_current_index>>] = rg_my_node_hash
=============================================================================
