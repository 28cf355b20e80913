------------------------------ MODULE DCacheInv ------------------------------
(***************************************************************************)
(* What makes the tag check of DCache right (IInv): a line is in one       *)
(* place, the fill buffer is a ring, and the RAM output is that of the set *)
(* whose request is checked next, although puts, releases, replays and the *)
(* fence all replace it.                                                   *)
(*                                                                         *)
(* What makes its words right (DataInv): the store buffer holds the        *)
(* answered stores of the pipeline in their order, and each word of the    *)
(* program is where the cache looks for it, or on its way to memory.       *)
(***************************************************************************)
EXTENDS DCache

(* No access is answered with a trap by the TLB.  A trapping access can    *)
(* leave rg_polling_mode set for the next one, whose check is then late    *)
(* (dcache_fault_poll).                                                    *)
NoTraps == Faults = {}

-----------------------------------------------------------------------------
(* Types, of the queues as sequences and of the data in the RAMs and       *)
(* buffers as well.                                                        *)
Entry == [valid : BOOLEAN, line_valid : BOOLEAN, line : Line, data : Data,
          dirty : BOOLEAN, err : BOOLEAN, faced : BOOLEAN]
Store == [valid : BOOLEAN, addr : Address, data : Datum, mask : SUBSET Lane,
          epoch : {0, 1}, fbindex : FbIndex, io : BOOLEAN, operand : Datum]
Answer == [word : Datum, trap : BOOLEAN]
Fetch == [addr : Address, io_request : BOOLEAN, fbindex : FbIndex]
Block == [tag : Tag, data : Data]

Queues ==
  /\ pipe \in Seq(Request) /\ ff_core_request \in Seq(Request)
  /\ responses \in Seq(Answer) /\ ff_pending_req \in Seq(Fetch)
  /\ ff_write_mem_request \in Seq(Write) /\ posted \in Seq(Write)
Contents ==
  /\ ram \in [Set -> Block] /\ ram_out \in Block
  /\ fb \in [FbIndex -> Entry] /\ sb \in [Slot -> Store]
Typed == Queues /\ Contents /\ TypeOK

(* Each request in the pipeline is answered or waits; a store to a device  *)
(* stays in the pipeline until it has landed.                              *)
Counted ==
  /\ Len(pipe) = Len(responses) + Len(ff_core_request)
  /\ \A k \in DOMAIN ff_core_request : ~ff_core_request[k].fault
DeviceWrite(q) == q # <<>> /\ Head(q).io
Initiated ==
  /\ DeviceWrite(ff_write_mem_request) \/ DeviceWrite(posted) => rg_store_initiated
  /\ ~(DeviceWrite(ff_write_mem_request) /\ DeviceWrite(posted))
  /\ rg_store_initiated => responses # <<>> /\ stores(op) /\ ~answer.trap

-----------------------------------------------------------------------------
(* The entries from the head to the tail are the valid ones.               *)
between(i) ==
  \/ rg_fbhead <= i /\ i < rg_fbtail
  \/ rg_fbtail < rg_fbhead /\ (rg_fbhead <= i \/ i < rg_fbtail)
Ring ==
  \/ rg_fbhead = rg_fbtail /\ (fb_full \/ fb_empty)
  \/ rg_fbhead # rg_fbtail /\ \A i \in FbIndex : fb[i].valid <=> between(i)

(* A line is in one place, and an uncached one in none.                    *)
in_rams(l) == v_reg_valid[l[2]] /\ ram[l[2]].tag = l[1]
Single ==
  /\ \A i, j \in FbIndex : fb[i].valid /\ fb[j].valid /\ fb[i].line = fb[j].line => i = j
  /\ \A i \in FbIndex : fb[i].valid => ~in_rams(fb[i].line) /\ fb[i].line[1] \notin IoTag
  /\ \A s \in Set : v_reg_valid[s] => ram[s].tag \notin IoTag

(* A fill under way has its entry; an uncached read is that of the request *)
(* that waits, and a second fill its.                                      *)
Fills ==
  /\ \A k \in DOMAIN ff_pending_req :
       LET p == ff_pending_req[k] IN
       /\ p.io_request <=> isIO(p.addr)
       /\ IF p.io_request
          THEN k = Len(ff_pending_req) /\ rg_handling_miss /\ p.addr = req.addr
          ELSE /\ fb[p.fbindex].valid /\ ~fb[p.fbindex].line_valid
               /\ fb[p.fbindex].line = line(p.addr)
  /\ Len(ff_pending_req) = 2 =>
       /\ rg_handling_miss /\ ff_pending_req[2].addr = req.addr
       /\ line(ff_pending_req[1].addr) # line(ff_pending_req[2].addr)

-----------------------------------------------------------------------------
(* The head of the queue of requests: what it waits for.                   *)
Waits ==
  /\ rg_handling_miss => at_head /\ ~nc_write
  /\ rg_polling_mode => at_head /\ ~nc_write /\ fb_hits # {}
  /\ rg_sb_busy => sb[1 - rg_tail].valid
busy == rg_handling_miss \/ rg_polling_mode
(* A second request is taken only behind one whose tag check is over.      *)
Overtaken == Len(ff_core_request) = 2 => busy /\ ~sb_full

(* The fence is the last request, and alone once it has begun.             *)
latest == ff_core_request[Len(ff_core_request)]
FenceLast ==
  /\ rg_fence_stall <=> (ff_core_request # <<>> /\ latest.access = "fence")
  /\ ff_core_request # <<>> /\ req.access = "fence" => Len(ff_core_request) = 1
  /\ rg_fence_set # 0 =>
       /\ ff_core_request # <<>> /\ req.access = "fence" /\ fb_empty
       /\ ~rg_performing_replay /\ ~rg_release_readphase

(* What the RAM put out.  A release that reads its victim disturbs it; the *)
(* replay after the release mends it.  A store that is answered in between *)
(* takes the release back, but not what it did to the RAM output.          *)
latest_set == IF latest.access = "fence" THEN 0 ELSE latest.addr[2]
next_check == IF rg_fence_set # 0 THEN rg_fence_set ELSE rg_recent_req
ReleaseDue ==
  ~fb_empty /\ fb[rg_fbhead].line_valid /\ ~fb[rg_fbhead].err /\ victim_dirty
ReleaseBegun ==
  rg_release_readphase =>
    /\ ReleaseDue /\ ram_out = ram[release_set] /\ ~rg_performing_replay
    /\ ff_core_request # <<>> => fb_full \/ rg_fence_stall
TakenBack ==
  ReleaseDue /\ (fb_full \/ (rg_fence_stall /\ req.access = "fence"))
Output ==
  /\ ReleaseBegun
  /\ ff_core_request # <<>> =>
       /\ rg_recent_req = latest_set
       /\ (~rg_performing_replay /\ ~rg_release_readphase) =>
            ram_out = ram[next_check] \/ TakenBack

(* What the head's action left open for the rest of its cycle.             *)
Offered ==
  /\ offered = "put" =>
       /\ Len(ff_core_request) <= 1 /\ ~rg_fence_stall
       /\ ff_core_request # <<>> => busy /\ ~sb_full
  /\ offered = "release" =>
       /\ releasable
       /\ rg_polling_mode => \A i \in fb_hits : ~fb[i].line_valid

IInv ==
  /\ Typed /\ Counted /\ Initiated
  /\ Ring /\ Single /\ Fills
  /\ Waits /\ Overtaken /\ FenceLast /\ Output /\ Offered

-----------------------------------------------------------------------------
(* Nothing is abandoned: no trap of the TLB, of an instruction or from the *)
(* bus.  After one a load may see a dropped store (dcache_dropped_store).  *)
(* An atomic on a device is answered before the device is asked.           *)
Straight ==
  /\ NoTraps /\ ~Flushes /\ Errors = "none"
  /\ \A r \in Menu : r.access = "atomic" => ~isIO(r.addr)
Calm ==
  /\ rg_epoch = 0
  /\ \A k \in DOMAIN pipe :
       pipe[k].epoch = 0 /\ (pipe[k].access = "atomic" => ~isIO(pipe[k].addr))
  /\ \A k \in DOMAIN responses : ~responses[k].trap
  /\ \A i \in FbIndex : ~fb[i].err

-----------------------------------------------------------------------------
(* The requests of the cache are those of the pipeline without an answer.  *)
Aligned == \A k \in DOMAIN ff_core_request : ff_core_request[k] = pipe[Len(responses) + k]

(* The answered stores that are not performed are in the store buffer, the *)
(* oldest at its head.                                                     *)
owed == {k \in DOMAIN responses : stores(pipe[k]) /\ ~(k = 1 /\ rg_store_initiated)}
place(k) == IF \E j \in owed : j < k THEN 1 - rg_head ELSE rg_head
Kept(k, e, o) ==
  /\ e.valid /\ e.addr = o.addr /\ e.mask = o.mask /\ e.epoch = o.epoch /\ e.io = isIO(o.addr)
  /\ e.data = IF o.access = "store" \/ (rg_sb_busy /\ k = Len(responses))
              THEN o.data ELSE fn_atomic_op(o.data, e.operand)
  /\ o.access = "atomic" => e.operand = responses[k].word
Paired ==
  /\ \A k \in owed : Kept(k, sb[place(k)], pipe[k])
  /\ \A s \in Slot : sb[s].valid => \E k \in owed : place(k) = s
  /\ \A i, j, k \in owed : ~(i < j /\ j < k)
  /\ rg_sb_busy => Len(responses) \in owed /\ pipe[Len(responses)].access = "atomic"
Turns ==
  /\ sb_full \/ sb_empty => rg_head = rg_tail
  /\ ~sb_full /\ ~sb_empty => rg_head # rg_tail /\ sb[rg_head].valid
InOrder == Calm /\ Aligned /\ Paired /\ Turns

-----------------------------------------------------------------------------
(* A word with the store of an entry laid over it, and the word that the   *)
(* k-th access of the pipeline finds.                                      *)
laid(word, e, a) == updated(word, e.data, IF e.addr = a THEN e.mask ELSE {})
laid_both(word, s, a) == laid(laid(word, sb[s], a), sb[1 - s], a)
before(k, a) ==
  IF \A j \in owed : j >= k THEN arch[a]
  ELSE IF \E i, j \in owed : i < j /\ j < k THEN laid_both(arch[a], rg_head, a)
  ELSE laid(arch[a], sb[rg_head], a)
program(a) == before(Len(responses) + 1, a)

(* Each answer is what its access finds.                                   *)
Seen ==
  \A k \in DOMAIN responses :
    pipe[k].access \in {"load", "atomic"} => responses[k].word = before(k, pipe[k].addr)

(* The mask of an entry does not look at its valid bit: laying both over a *)
(* word that holds the performed stores already changes nothing.           *)
Settled == \A a \in Address : laid_both(arch[a], rg_tail, a) = program(a)

-----------------------------------------------------------------------------
(* The beats of the fill under way are those from its first word on.       *)
first_word == Head(ff_pending_req).addr[3]
from_first(w) == IF w >= first_word THEN w - first_word ELSE w - first_word + Cardinality(Word)
Beats ==
  rg_fb_enables # {} =>
    /\ ff_pending_req # <<>> /\ ~Head(ff_pending_req).io_request
    /\ from_first(rg_next_bank) = Cardinality(rg_fb_enables)
    /\ \A w \in Word : w \in rg_fb_enables <=> from_first(w) < Cardinality(rg_fb_enables)

(* A store that waits has its word in the fill buffer, where it stays.     *)
Homes == \A s \in Slot : sb[s].valid /\ ~sb[s].io => in_fb(sb[s].fbindex, sb[s].addr)

(* Writes on their way: whole lines that are cached, and one word of a     *)
(* device, of the store that left the store buffer last.                   *)
Outgoing ==
  \A q \in {ff_write_mem_request, posted} : q # <<>> =>
    LET w == Head(q) IN
    /\ w.io <=> isIO(w.addr)
    /\ ~w.io => w.mask = Lane
    /\ w.io /\ ~sb_full => LET e == sb[1 - rg_head] IN
         e.addr = w.addr /\ e.mask = w.mask /\ \A x \in Word : w.data[x] = e.data

(* Where the word of an address is.                                        *)
entry_of(a) == {i \in FbIndex : fb[i].valid /\ fb[i].line = line(a)}
Held ==
  \A a \in Address : \A i \in entry_of(a) :
    /\ in_fb(i, a) => fb[i].data[a[3]] = arch[a]
    /\ (in_fb(i, a) /\ fb[i].dirty) \/ written(a) = arch[a]
Stored ==
  \A a \in Address : in_ram(a) =>
    /\ ram[a[2]].data[a[3]] = arch[a]
    /\ (v_reg_dirty[a[2]] /\ a[2] >= rg_fence_set) \/ written(a) = arch[a]
Away == \A a \in Address : entry_of(a) = {} /\ ~in_ram(a) => written(a) = arch[a]

(* rg_globaldirty lets the fence skip the sets behind.                     *)
Dirt ==
  /\ \A s \in Set : v_reg_valid[s] /\ v_reg_dirty[s] => rg_globaldirty
  /\ \A i \in FbIndex : fb[i].valid /\ fb[i].dirty => rg_globaldirty

Values == Held /\ Stored /\ Away
Placed == Beats /\ Homes /\ Outgoing /\ Values /\ Dirt
DataInv == InOrder /\ Seen /\ Settled /\ Placed
=============================================================================
