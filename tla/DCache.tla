------------------------------- MODULE DCache -------------------------------
(***************************************************************************)
(* The data cache mkdcache (dcache1rw.bsv) with its fill buffer and store  *)
(* buffer (dcache_lib.bsv), as core_config.yaml builds it: one way, one    *)
(* RAM port, two store-buffer entries, no ECC, cache enabled.              *)
(*                                                                         *)
(* What the head of ff_core_request can do in a cycle (rl_ram_check,       *)
(* rl_fillbuffer_check and the rule their wires enable) it does before the *)
(* put and the release of that cycle, as in the circuit, where both leave  *)
(* the RAM output alone until the next clock edge; offered keeps for them  *)
(* what was open when the cycle began.                                     *)
(***************************************************************************)
EXTENDS Integers, Sequences, FiniteSets

CONSTANTS
  Tag, Set, Word, Lane,  \* an address is <<tag, set, word>>; a word has byte lanes
  IoTag,                 \* tags of the uncached region (isIO)
  FbSize,                \* dfbsize
  Menu,                  \* the requests programs are made of
  Faults,                \* requests of Menu the TLB answers with a trap
  Flushes,               \* instructions other than memory accesses may trap
  Errors,                \* bus errors: "none", "line", "beat"
  MaxOps                 \* bound: the requests made

ASSUME DCacheAssumption ==
  /\ Word = 0..Cardinality(Word) - 1 /\ Cardinality(Word) \in Nat \ {0}
  /\ Set = 0..Cardinality(Set) - 1 /\ Cardinality(Set) \in Nat \ {0}
  /\ 0 \in Tag /\ IoTag \subseteq Tag
  /\ FbSize \in Nat \ {0, 1} /\ MaxOps \in Nat
  /\ Menu \subseteq [access : {"load", "store", "atomic", "fence"},
                     addr : Tag \X Set \X Word, mask : SUBSET Lane]
  /\ Faults \subseteq Menu
  /\ Flushes \in BOOLEAN /\ Errors \in {"none", "line", "beat"}

VARIABLES
  pipe, responses, issued,          \* requests not retired, their answers, a count
  offered,                          \* what this cycle may still do
  rg_epoch, rg_store_initiated,     \* of the write-back stage (stage5.bsv)
  ff_core_request, ff_pending_req, ff_write_mem_request,
  rg_fence_stall, rg_handling_miss, rg_release_readphase, rg_performing_replay,
  rg_recent_req, rg_polling_mode, rg_fence_set, rg_globaldirty,
  v_reg_valid, v_reg_dirty, ram, ram_out,            \* the RAMs, what they last read
  fb, rg_fbhead, rg_fbtail, rg_fb_enables, rg_next_bank,
  sb, rg_head, rg_tail, rg_sb_busy,
  mem, posted,                      \* memory, write-backs on their way to it
  arch                              \* the words as the program left them (auxiliary)

core == <<pipe, responses, issued, rg_epoch, rg_store_initiated, arch>>
fifos == <<ff_core_request, ff_pending_req>>
modes == <<rg_fence_stall, rg_recent_req, rg_fence_set>>
rams == <<v_reg_valid, v_reg_dirty, ram>>
fbPtrs == <<rg_fbhead, rg_fbtail>>
fill == <<rg_fb_enables, rg_next_bank>>
sbVars == <<sb, rg_head, rg_tail, rg_sb_busy>>
bus == <<mem, posted>>
vars == <<core, fifos, ff_write_mem_request, modes, rg_handling_miss,
          rg_release_readphase, rg_performing_replay, rg_polling_mode, rg_globaldirty,
          rams, ram_out, fb, fbPtrs, fill, sbVars, bus, offered>>

-----------------------------------------------------------------------------
Val == 0..2 * MaxOps
Datum == [Lane -> Val]
Data == [Word -> Datum]
Zero == [l \in Lane |-> 0]
Blank == [w \in Word |-> Zero]
FbIndex == 0..FbSize - 1
Slot == {0, 1}

line(a) == <<a[1], a[2]>>
isIO(a) == a[1] \in IoTag
(* data in the lanes of mask, word in the others.                          *)
updated(word, data, mask) == [l \in Lane |-> IF l \in mask THEN data[l] ELSE word[l]]
(* Any operation on the two words that no store is mistaken for.           *)
fn_atomic_op(data, loaded) == [l \in Lane |-> (data[l] + loaded[l]) % (2 * MaxOps + 1)]

fb_full == \A i \in FbIndex : fb[i].valid
fb_empty == \A i \in FbIndex : ~fb[i].valid
sb_full == \A i \in Slot : sb[i].valid
sb_empty == \A i \in Slot : ~sb[i].valid

(* An entry of the fill buffer; faced remembers every bus error (auxiliary)*)
NoEntry == [valid |-> FALSE, line_valid |-> FALSE, line |-> <<0, 0>>, data |-> Blank,
            dirty |-> FALSE, err |-> FALSE, faced |-> FALSE]
NoStore == [valid |-> FALSE, addr |-> <<0, 0, 0>>, data |-> Zero, mask |-> {},
            epoch |-> 0, fbindex |-> 0, io |-> FALSE, operand |-> Zero]

Init ==
  /\ pipe = <<>> /\ responses = <<>> /\ issued = 0 /\ offered = "none"
  /\ rg_epoch = 0 /\ rg_store_initiated = FALSE
  /\ ff_core_request = <<>> /\ ff_pending_req = <<>> /\ ff_write_mem_request = <<>>
  /\ rg_fence_stall = FALSE /\ rg_handling_miss = FALSE /\ rg_release_readphase = FALSE
  /\ rg_performing_replay = FALSE /\ rg_recent_req = 0 /\ rg_polling_mode = FALSE
  /\ rg_fence_set = 0 /\ rg_globaldirty = FALSE
  /\ v_reg_valid = [s \in Set |-> FALSE] /\ v_reg_dirty = [s \in Set |-> FALSE]
  /\ ram \in [Set -> {[tag |-> t, data |-> Blank] : t \in Tag}]
  /\ ram_out = [tag |-> 0, data |-> Blank]
  /\ fb = [i \in FbIndex |-> NoEntry] /\ rg_fbhead = 0 /\ rg_fbtail = 0
  /\ rg_fb_enables = {} /\ rg_next_bank = 0
  /\ sb = [i \in Slot |-> NoStore] /\ rg_head = 0 /\ rg_tail = 0 /\ rg_sb_busy = FALSE
  /\ mem = [a \in Tag \X Set \X Word |-> Zero] /\ posted = <<>>
  /\ arch = [a \in Tag \X Set \X Word |-> Zero]

-----------------------------------------------------------------------------
(* The checks of a cycle: rl_ram_check and rl_fillbuffer_check drive wires *)
(* read by rl_response_to_core and rl_send_memory_request.                 *)
req == Head(ff_core_request)
at_head == ff_core_request # <<>> /\ req.access # "fence"

ram_checked ==
  /\ at_head
  /\ ~rg_handling_miss /\ ~rg_performing_replay /\ ~rg_polling_mode
  /\ ~fb_full /\ ~rg_release_readphase /\ ~rg_sb_busy
wr_fault == ram_checked /\ req.fault
ram_match == ram_out.tag = req.addr[1] /\ v_reg_valid[req.addr[2]]
ram_hit == ram_checked /\ ~req.fault /\ ram_match
ram_miss == ram_checked /\ ~req.fault /\ ~ram_match

fb_checked == at_head /\ ~rg_sb_busy
fb_hits == {i \in FbIndex : fb[i].valid /\ fb[i].line = line(req.addr)}
fb_hitindex == CHOOSE i \in fb_hits : \A j \in fb_hits : j <= i
nc_write == isIO(req.addr) /\ req.access # "load"
word_hit ==
  \/ fb[fb_hitindex].line_valid
  \/ /\ ff_pending_req # <<>> /\ Head(ff_pending_req).fbindex = fb_hitindex
     /\ req.addr[3] \in rg_fb_enables
fb_hit == fb_checked /\ (nc_write \/ (fb_hits # {} /\ word_hit))
fb_miss_mutant == fb_checked /\ ~nc_write /\ ~(fb_hits # {} /\ word_hit)
fb_miss == fb_checked /\ ~nc_write /\ fb_hits = {}
polling_after ==
  IF ~fb_checked \/ nc_write THEN rg_polling_mode ELSE fb_hits # {} /\ ~word_hit

(* The word with the stores of the buffer laid over it.  The mask of an    *)
(* entry does not look at its valid bit; the newest entry, before rg_tail, *)
(* hides the other one where both cover a lane.                            *)
store_mask(i) == IF sb[i].addr = req.addr THEN sb[i].mask ELSE {}
forwarded_mutant(word) ==
  updated(updated(word, sb[1 - rg_tail].data, store_mask(1 - rg_tail)),
          sb[rg_tail].data, store_mask(rg_tail))
forwarded(word) ==
  updated(updated(word, sb[rg_tail].data, store_mask(rg_tail)),
          sb[1 - rg_tail].data, store_mask(1 - rg_tail))

(* What rl_response_to_core needs besides a hit: bsc lifts the conditions  *)
(* of the store buffer's allocate method out of the branch for stores.     *)
(* The FIFO to the core always has room for the answer of a request that   *)
(* waits: see pipe_room.                                                   *)
may_respond == ff_core_request # <<>> /\ ~sb_full /\ ~rg_sb_busy
can_respond == may_respond /\ (wr_fault \/ ram_hit \/ fb_hit)
can_send ==
  /\ ram_miss /\ fb_miss /\ ~fb_full /\ Len(ff_pending_req) < 2
can_poll == fb_checked /\ polling_after # rg_polling_mode /\ ~can_respond /\ ~can_send
head_acts == can_respond \/ can_send \/ can_poll

mv_cache_available ==
  /\ Len(ff_core_request) < 2
  /\ ~rg_fence_stall /\ ~fb_full /\ ~rg_performing_replay /\ ~sb_full /\ ~rg_sb_busy

release_set == fb[rg_fbhead].line[2]
fill_oppurtunity == ff_core_request = <<>> /\ release_set # rg_recent_req
releasable_mutant ==
  /\ rg_fence_stall \/ fill_oppurtunity
  /\ sb_empty /\ ~fb_empty /\ fb[rg_fbhead].line_valid /\ ~rg_performing_replay
  /\ ff_write_mem_request = <<>>
releasable ==
  /\ fb_full \/ rg_fence_stall \/ fill_oppurtunity
  /\ sb_empty /\ ~fb_empty /\ fb[rg_fbhead].line_valid /\ ~rg_performing_replay
  /\ ff_write_mem_request = <<>>

(* With what the head does, the cycle may take a put or make a release, if *)
(* that was open when it began; the two are never open at once, and a store*)
(* that enters the buffer holds the release back.                          *)
SameCycle ==
  offered' = IF mv_cache_available THEN "put"
             ELSE IF releasable /\ sb' = sb THEN "release" ELSE "none"
NextCycle == offered' = "none"

-----------------------------------------------------------------------------
(* rl_response_to_core, given the word and trap bit it answers with.       *)
allocated(l, data, from_ram, dirty) ==
  [valid |-> TRUE, line_valid |-> from_ram, line |-> l, data |-> data,
   dirty |-> from_ram /\ dirty, err |-> FALSE, faced |-> FALSE]
next_fb(i) == (i + 1) % FbSize

response_to_core(word, trap) ==
  LET a == req.addr
      r == forwarded(word)
      move == req.access # "load" /\ ram_hit
      stores == req.access # "load" /\ ~trap IN
  /\ responses' = Append(responses, [word |-> r, trap |-> trap])
  /\ ff_core_request' = Tail(ff_core_request)
  /\ rg_handling_miss' = FALSE /\ rg_polling_mode' = polling_after
  /\ IF move
     THEN /\ fb' = [fb EXCEPT ![rg_fbtail] =
                      allocated(line(a), ram_out.data, TRUE, v_reg_dirty[a[2]])]
          /\ rg_fbtail' = next_fb(rg_fbtail)
          /\ v_reg_valid' = [v_reg_valid EXCEPT ![a[2]] = FALSE]
          /\ v_reg_dirty' = [v_reg_dirty EXCEPT ![a[2]] = FALSE]
     ELSE UNCHANGED <<fb, rg_fbtail, v_reg_valid, v_reg_dirty>>
  /\ IF stores
     THEN /\ sb' = [sb EXCEPT ![rg_tail] =
                      [valid |-> TRUE, addr |-> a, data |-> req.data, mask |-> req.mask,
                       epoch |-> req.epoch, io |-> isIO(a), operand |-> r,
                       fbindex |-> IF move THEN rg_fbtail
                                   ELSE IF fb_hits # {} THEN fb_hitindex ELSE 0]]
          /\ rg_tail' = 1 - rg_tail
          /\ rg_sb_busy' = (req.access = "atomic")
          /\ rg_release_readphase' = FALSE
     ELSE UNCHANGED <<sb, rg_tail, rg_sb_busy, rg_release_readphase>>
  /\ UNCHANGED <<pipe, issued, rg_epoch, rg_store_initiated, arch, ff_write_mem_request,
                 modes, rg_performing_replay, rg_globaldirty, ram, ram_out,
                 rg_fbhead, fill, rg_head, bus>>

rl_response_to_core ==
  /\ can_respond
  /\ LET a == req.addr IN
     \/ wr_fault /\ response_to_core(Zero, TRUE)
     \/ ram_hit /\ response_to_core(ram_out.data[a[3]], FALSE)
     \/ /\ fb_hit /\ ~wr_fault /\ ~ram_hit
        /\ IF nc_write THEN response_to_core(Zero, FALSE)
           ELSE response_to_core(fb[fb_hitindex].data[a[3]], fb[fb_hitindex].err)
  /\ UNCHANGED ff_pending_req
  /\ SameCycle

(* A check that answers nothing still moves rg_polling_mode.               *)
rl_fillbuffer_check ==
  /\ can_poll
  /\ rg_polling_mode' = polling_after
  /\ UNCHANGED <<core, fifos, ff_write_mem_request, modes, rg_handling_miss,
                 rg_release_readphase, rg_performing_replay, rg_globaldirty, rams,
                 ram_out, fb, fbPtrs, fill, sbVars, bus>>
  /\ SameCycle

rl_send_memory_request ==
  /\ can_send
  /\ rg_handling_miss' = TRUE /\ rg_polling_mode' = FALSE
  /\ ff_pending_req' = Append(ff_pending_req,
       [addr |-> req.addr, io_request |-> isIO(req.addr), fbindex |-> rg_fbtail])
  /\ IF isIO(req.addr) THEN UNCHANGED <<fb, rg_fbtail>>
     ELSE /\ fb' = [fb EXCEPT ![rg_fbtail] = allocated(line(req.addr), Blank, FALSE, FALSE)]
          /\ rg_fbtail' = next_fb(rg_fbtail)
  /\ UNCHANGED <<core, ff_core_request, ff_write_mem_request, modes, rg_release_readphase,
                 rg_performing_replay, rg_globaldirty, rams, ram_out, rg_fbhead, fill,
                 sbVars, bus>>
  /\ SameCycle

rl_perform_atomic ==
  /\ rg_sb_busy
  /\ rg_sb_busy' = FALSE
  /\ sb' = [sb EXCEPT ![1 - rg_tail].data = fn_atomic_op(@, sb[1 - rg_tail].operand)]
  /\ UNCHANGED <<core, fifos, ff_write_mem_request, modes, rg_handling_miss,
                 rg_release_readphase, rg_performing_replay, rg_polling_mode,
                 rg_globaldirty, rams, ram_out, fb, fbPtrs, fill, rg_head, rg_tail, bus>>
  /\ NextCycle

-----------------------------------------------------------------------------
(* Memory answers the oldest request; a line is not read before its own    *)
(* write-back has landed (the bridge's part, see MemVerSoC).               *)
Entries(q) == {q[k] : k \in DOMAIN q}
Unwritten == {line(w.addr) : w \in Entries(ff_write_mem_request) \cup Entries(posted)}

beat_bank == IF rg_fb_enables = {} THEN Head(ff_pending_req).addr[3] ELSE rg_next_bank
last_beat == Cardinality(rg_fb_enables) = Cardinality(Word) - 1
may_fail(err, i) ==
  \/ ~err /\ (Errors = "line" => (rg_fb_enables = {} \/ ~fb[i].err))
  \/ err /\ (Errors = "beat" \/ (Errors = "line" /\ (rg_fb_enables = {} \/ fb[i].err)))

rl_fill_from_memory ==
  /\ ff_pending_req # <<>> /\ ~Head(ff_pending_req).io_request
  /\ LET p == Head(ff_pending_req)
         l == line(p.addr) IN
     /\ l \notin Unwritten
     /\ \E err \in BOOLEAN :
          /\ may_fail(err, p.fbindex)
          /\ fb' = [fb EXCEPT ![p.fbindex].data[beat_bank] = mem[<<l[1], l[2], beat_bank>>],
                              ![p.fbindex].line_valid = @ \/ last_beat,
                              ![p.fbindex].err = err,
                              ![p.fbindex].faced = @ \/ err]
  /\ rg_next_bank' = (beat_bank + 1) % Cardinality(Word)
  /\ rg_fb_enables' = IF last_beat THEN {} ELSE rg_fb_enables \cup {beat_bank}
  /\ ff_pending_req' = IF last_beat THEN Tail(ff_pending_req) ELSE ff_pending_req
  /\ UNCHANGED <<core, ff_core_request, ff_write_mem_request, modes, rg_handling_miss,
                 rg_release_readphase, rg_performing_replay, rg_polling_mode,
                 rg_globaldirty, rams, ram_out, fbPtrs, sbVars, bus>>
  /\ NextCycle

(* The answer to an uncached read is on a wire for one cycle: if the       *)
(* response rule cannot run in it, the answer is gone.                     *)
rl_capture_io_response ==
  /\ ff_pending_req # <<>> /\ Head(ff_pending_req).io_request
  /\ ff_pending_req' = Tail(ff_pending_req)
  /\ \/ may_respond /\ response_to_core(mem[Head(ff_pending_req).addr], FALSE)
     \/ /\ ~may_respond
        /\ UNCHANGED <<core, ff_core_request, ff_write_mem_request, modes,
                       rg_handling_miss, rg_release_readphase, rg_performing_replay,
                       rg_polling_mode, rg_globaldirty, rams, ram_out, fb, fbPtrs, fill,
                       sbVars, bus>>
  /\ NextCycle

-----------------------------------------------------------------------------
(* Release of the fill buffer's head into the RAMs.                        *)
victim_dirty_mutant == v_reg_valid[release_set] /\ fb[rg_fbhead].dirty
victim_dirty == v_reg_valid[release_set] /\ v_reg_dirty[release_set]

freed == [fb EXCEPT ![rg_fbhead].valid = FALSE, ![rg_fbhead].line_valid = FALSE]
written_back_mutant(tag, s, data) ==
  [addr |-> <<fb[rg_fbhead].line[1], s, 0>>, io |-> FALSE, data |-> data, mask |-> Lane]
written_back(tag, s, data) ==
  [addr |-> <<tag, s, 0>>, io |-> FALSE, data |-> data, mask |-> Lane]
replay_needed_mutant == rg_release_readphase
replay_needed == rg_release_readphase \/ release_set = rg_recent_req

release_discard ==
  /\ fb[rg_fbhead].err
  /\ fb' = freed /\ rg_fbhead' = next_fb(rg_fbhead) /\ rg_release_readphase' = FALSE
  /\ UNCHANGED <<rams, ram_out, ff_write_mem_request, rg_performing_replay>>

release_read ==
  /\ ~fb[rg_fbhead].err /\ victim_dirty /\ ~rg_release_readphase
  /\ rg_release_readphase' = TRUE /\ ram_out' = ram[release_set]
  /\ UNCHANGED <<rams, fb, rg_fbhead, ff_write_mem_request, rg_performing_replay>>

release_write ==
  /\ ~fb[rg_fbhead].err /\ (~victim_dirty \/ rg_release_readphase)
  /\ rg_release_readphase' = FALSE
  /\ ff_write_mem_request' =
       IF rg_release_readphase
       THEN <<written_back(ram_out.tag, release_set, ram_out.data)>> ELSE <<>>
  /\ ram' = [ram EXCEPT ![release_set] = [tag |-> fb[rg_fbhead].line[1],
                                          data |-> fb[rg_fbhead].data]]
  /\ v_reg_valid' = [v_reg_valid EXCEPT ![release_set] = TRUE]
  /\ v_reg_dirty' = [v_reg_dirty EXCEPT ![release_set] = fb[rg_fbhead].dirty]
  /\ fb' = freed /\ rg_fbhead' = next_fb(rg_fbhead)
  /\ rg_performing_replay' = replay_needed
  /\ UNCHANGED ram_out

rl_release_from_fillbuffer ==
  /\ (releasable /\ ~head_acts) \/ offered = "release"
  /\ release_discard \/ release_read \/ release_write
  /\ UNCHANGED <<core, fifos, modes, rg_handling_miss, rg_polling_mode, rg_globaldirty,
                 rg_fbtail, fill, sbVars, bus>>
  /\ NextCycle

rl_perform_replay ==
  /\ rg_performing_replay
  /\ ram_out' = ram[rg_recent_req] /\ rg_performing_replay' = FALSE
  /\ UNCHANGED <<core, fifos, ff_write_mem_request, modes, rg_handling_miss,
                 rg_release_readphase, rg_polling_mode, rg_globaldirty, rams, fb, fbPtrs,
                 fill, sbVars, bus>>
  /\ NextCycle

-----------------------------------------------------------------------------
(* The fence: one set a cycle, with one way.                               *)
fence_last == rg_fence_set = Cardinality(Set) - 1 \/ ~rg_globaldirty
can_fence ==
  /\ ff_core_request # <<>> /\ req.access = "fence"
  /\ rg_fence_stall /\ fb_empty /\ sb_empty /\ ~rg_performing_replay
  /\ ff_write_mem_request = <<>>
rl_fence_operation ==
  /\ can_fence
  /\ ff_write_mem_request' =
       IF v_reg_dirty[rg_fence_set] /\ v_reg_valid[rg_fence_set]
       THEN <<written_back(ram_out.tag, rg_fence_set, ram_out.data)>> ELSE <<>>
  /\ ram_out' = ram[(rg_fence_set + 1) % Cardinality(Set)]
  /\ \/ /\ fence_last
        /\ v_reg_valid' = [s \in Set |-> FALSE] /\ v_reg_dirty' = [s \in Set |-> FALSE]
        /\ rg_globaldirty' = FALSE /\ rg_fence_stall' = FALSE /\ rg_fence_set' = 0
        /\ ff_core_request' = Tail(ff_core_request)
        /\ responses' = Append(responses, [word |-> Zero, trap |-> FALSE])
     \/ /\ ~fence_last
        /\ rg_fence_set' = rg_fence_set + 1
        /\ UNCHANGED <<v_reg_valid, v_reg_dirty, rg_globaldirty, rg_fence_stall,
                       ff_core_request, responses>>
  /\ UNCHANGED <<pipe, issued, rg_epoch, rg_store_initiated, arch, ff_pending_req,
                 rg_recent_req, rg_handling_miss, rg_release_readphase,
                 rg_performing_replay, rg_polling_mode, ram, fb, fbPtrs, fill, sbVars, bus>>
  /\ NextCycle

-----------------------------------------------------------------------------
(* The core: requests leave stage 3 in program order when the cache is     *)
(* available, and retire in order in stage 5.  Two instructions fit between*)
(* stages 3 and 4 (pipe3, riscv.bsv), one that is answered between 4 and 5.*)
pipe_room == Len(pipe) < 2 \/ (Len(pipe) = 2 /\ responses # <<>>)
put_core_req(r) ==
  /\ issued < MaxOps /\ pipe_room
  /\ (mv_cache_available /\ ~head_acts) \/ offered = "put"
  /\ LET s == IF r.access = "fence" THEN 0 ELSE r.addr[2]
         q == [access |-> r.access, addr |-> r.addr, mask |-> r.mask,
               data |-> [l \in Lane |-> issued + 1], epoch |-> rg_epoch,
               fault |-> r \in Faults] IN
     /\ ff_core_request' = Append(ff_core_request, q)
     /\ pipe' = Append(pipe, q)
     /\ rg_fence_stall' = (r.access = "fence")
     /\ rg_recent_req' = s /\ ram_out' = ram[s]
  /\ issued' = issued + 1
  /\ rg_release_readphase' = FALSE
  /\ UNCHANGED <<responses, rg_epoch, rg_store_initiated, arch, ff_pending_req,
                 ff_write_mem_request, rg_fence_set, rg_handling_miss,
                 rg_performing_replay, rg_polling_mode, rg_globaldirty, rams, fb, fbPtrs,
                 fill, sbVars, bus>>
  /\ NextCycle

op == Head(pipe)
answer == Head(responses)
current == op.epoch = rg_epoch
stores(o) == o.access \in {"store", "atomic"}
pop == pipe' = Tail(pipe) /\ responses' = Tail(responses)

(* A load, a fence or an access that traps leaves the pipeline.            *)
RetireOther ==
  /\ responses # <<>> /\ (~stores(op) \/ answer.trap)
  /\ pop
  /\ rg_epoch' = IF current /\ answer.trap THEN 1 - rg_epoch ELSE rg_epoch
  /\ UNCHANGED <<issued, rg_store_initiated, arch, fifos, ff_write_mem_request, modes,
                 rg_handling_miss, rg_release_readphase, rg_performing_replay,
                 rg_polling_mode, rg_globaldirty, rams, ram_out, fb, fbPtrs, fill, sbVars,
                 bus>>
  /\ NextCycle

(* Stage 5 asks for the oldest store of the buffer to be performed; one of *)
(* an abandoned path is dropped by its epoch.                              *)
mv_commit_store_ready == ff_write_mem_request = <<>> /\ ~rg_sb_busy
after_store(a, o) ==
  updated(arch[a], IF o.access = "atomic" THEN fn_atomic_op(o.data, arch[a]) ELSE o.data, o.mask)

abandoned_mutant(e) == FALSE
abandoned(e) == e.epoch # rg_epoch
ma_perform_store ==
  LET e == sb[rg_head] IN
  /\ responses # <<>> /\ stores(op) /\ ~answer.trap /\ ~rg_store_initiated
  /\ mv_commit_store_ready /\ ~sb_empty
  /\ rg_head' = 1 - rg_head /\ sb' = [sb EXCEPT ![rg_head].valid = FALSE]
  /\ IF abandoned(e)
     THEN pop /\ UNCHANGED <<fb, ff_write_mem_request, rg_globaldirty, rg_store_initiated>>
     ELSE IF e.io
     THEN /\ ff_write_mem_request' = <<[addr |-> e.addr, io |-> TRUE, mask |-> e.mask,
                                        data |-> [w \in Word |-> e.data]]>>
          /\ rg_store_initiated' = TRUE
          /\ UNCHANGED <<pipe, responses, fb, rg_globaldirty>>
     ELSE /\ fb' = [fb EXCEPT ![e.fbindex].dirty = TRUE,
                              ![e.fbindex].data[e.addr[3]] = updated(@, e.data, e.mask)]
          /\ rg_globaldirty' = TRUE
          /\ pop /\ UNCHANGED <<ff_write_mem_request, rg_store_initiated>>
  /\ arch' = IF current THEN [arch EXCEPT ![op.addr] = after_store(op.addr, op)] ELSE arch
  /\ UNCHANGED <<issued, rg_epoch, fifos, modes, rg_handling_miss, rg_release_readphase,
                 rg_performing_replay, rg_polling_mode, rams, ram_out, fbPtrs, fill,
                 rg_tail, rg_sb_busy, bus>>
  /\ NextCycle

(* An instruction between memory accesses traps: everything in the         *)
(* pipeline is younger and belongs to the abandoned path.                  *)
Flush ==
  /\ Flushes /\ pipe # <<>> /\ ~rg_store_initiated
  /\ \A k \in DOMAIN pipe : pipe[k].epoch = rg_epoch
  /\ rg_epoch' = 1 - rg_epoch
  /\ UNCHANGED <<pipe, responses, issued, rg_store_initiated, arch, fifos,
                 ff_write_mem_request, modes, rg_handling_miss, rg_release_readphase,
                 rg_performing_replay, rg_polling_mode, rg_globaldirty, rams, ram_out, fb,
                 fbPtrs, fill, sbVars, bus>>
  /\ NextCycle

-----------------------------------------------------------------------------
(* Write-backs leave the FIFO with their last beat and land later; the     *)
(* answer to an uncached store retires it.                                 *)
BusTake ==
  /\ ff_write_mem_request # <<>> /\ posted = <<>>
  /\ posted' = ff_write_mem_request /\ ff_write_mem_request' = <<>>
  /\ UNCHANGED <<core, fifos, modes, rg_handling_miss, rg_release_readphase,
                 rg_performing_replay, rg_polling_mode, rg_globaldirty, rams, ram_out, fb,
                 fbPtrs, fill, sbVars, mem>>
  /\ NextCycle

BusLand ==
  /\ posted # <<>> /\ posted' = <<>>
  /\ LET w == Head(posted) IN
     /\ mem' = [a \in DOMAIN mem |->
                  IF line(a) = line(w.addr) /\ (w.io => a = w.addr)
                  THEN updated(mem[a], w.data[a[3]], w.mask) ELSE mem[a]]
     /\ IF w.io THEN pop /\ rg_store_initiated' = FALSE
        ELSE UNCHANGED <<pipe, responses, rg_store_initiated>>
  /\ UNCHANGED <<issued, rg_epoch, arch, fifos, ff_write_mem_request, modes,
                 rg_handling_miss, rg_release_readphase, rg_performing_replay,
                 rg_polling_mode, rg_globaldirty, rams, ram_out, fb, fbPtrs, fill, sbVars>>
  /\ NextCycle

Cache ==
  \/ rl_response_to_core \/ rl_fillbuffer_check \/ rl_send_memory_request
  \/ rl_perform_atomic \/ rl_fill_from_memory \/ rl_capture_io_response
  \/ rl_release_from_fillbuffer \/ rl_perform_replay \/ rl_fence_operation
Retire == RetireOther \/ ma_perform_store
Bus == BusTake \/ BusLand

Next == Cache \/ Retire \/ Bus \/ Flush \/ \E r \in Menu : put_core_req(r)

Spec == Init /\ [][Next]_vars
(* Every rule that stays enabled runs, the pipeline retires what is        *)
(* answered and the bus finishes what it has begun; nothing obliges the    *)
(* core to make requests or to trap.                                       *)
Fairness ==
  /\ WF_vars(rl_response_to_core) /\ WF_vars(rl_fillbuffer_check)
  /\ WF_vars(rl_send_memory_request) /\ WF_vars(rl_perform_atomic)
  /\ WF_vars(rl_fill_from_memory) /\ WF_vars(rl_capture_io_response)
  /\ WF_vars(rl_release_from_fillbuffer) /\ WF_vars(rl_perform_replay)
  /\ WF_vars(rl_fence_operation) /\ WF_vars(Retire)
  /\ WF_vars(BusTake) /\ WF_vars(BusLand)
FairSpec == Spec /\ Fairness

-----------------------------------------------------------------------------
Address == Tag \X Set \X Word
Line == Tag \X Set
Write == [addr : Address, io : BOOLEAN, data : Data, mask : SUBSET Lane]
Request == [access : {"load", "store", "atomic", "fence"}, addr : Address,
            mask : SUBSET Lane, data : Datum, epoch : {0, 1}, fault : BOOLEAN]
AtMost(n, q, S) == Len(q) <= n /\ Entries(q) \subseteq S

TypeOK ==
  /\ issued \in 0..MaxOps /\ rg_epoch \in {0, 1} /\ offered \in {"none", "put", "release"}
  /\ AtMost(3, pipe, Request) /\ AtMost(2, ff_core_request, Request)
  /\ AtMost(3, responses, [word : Datum, trap : BOOLEAN])
  /\ AtMost(2, ff_pending_req, [addr : Address, io_request : BOOLEAN, fbindex : FbIndex])
  /\ AtMost(1, ff_write_mem_request, Write) /\ AtMost(1, posted, Write)
  /\ {rg_store_initiated, rg_fence_stall, rg_handling_miss, rg_release_readphase,
      rg_performing_replay, rg_polling_mode, rg_globaldirty, rg_sb_busy} \subseteq BOOLEAN
  /\ {rg_recent_req, rg_fence_set} \subseteq Set
  /\ {rg_head, rg_tail} \subseteq Slot
  /\ {rg_fbhead, rg_fbtail} \subseteq FbIndex
  /\ rg_fb_enables \subseteq Word /\ rg_next_bank \in Word
  /\ v_reg_valid \in [Set -> BOOLEAN] /\ v_reg_dirty \in [Set -> BOOLEAN]
  /\ mem \in [Address -> Datum] /\ arch \in [Address -> Datum]

(* The word the caches would give for a cacheable address: the fill buffer *)
(* if it has the word, else the RAMs, else memory under the write-backs    *)
(* that have not landed.                                                   *)
in_fb(i, a) ==
  /\ fb[i].valid /\ fb[i].line = line(a)
  /\ \/ fb[i].line_valid
     \/ /\ ff_pending_req # <<>> /\ ~Head(ff_pending_req).io_request
        /\ Head(ff_pending_req).fbindex = i /\ a[3] \in rg_fb_enables
in_ram(a) == v_reg_valid[a[2]] /\ ram[a[2]].tag = a[1]
under(q, a, word) ==
  IF q # <<>> /\ line(Head(q).addr) = line(a) /\ (Head(q).io => Head(q).addr = a)
  THEN updated(word, Head(q).data[a[3]], Head(q).mask) ELSE word
written(a) == under(ff_write_mem_request, a, under(posted, a, mem[a]))
newest(a) ==
  IF \E i \in FbIndex : in_fb(i, a)
  THEN fb[CHOOSE i \in FbIndex : in_fb(i, a)].data[a[3]]
  ELSE IF in_ram(a) THEN ram[a[2]].data[a[3]] ELSE written(a)

(* A load or an atomic that retires on the program's path returns the word *)
(* as the older accesses left it: forwarding from the store buffer, polling*)
(* of a filling line, replay and the two structures together never give an *)
(* older or a foreign word (rl_response_to_core).                          *)
LoadsSeeStores ==
  (responses # <<>> /\ op.access \in {"load", "atomic"} /\ current /\ ~answer.trap)
    => answer.word = arch[op.addr]

(* A line is in one place: no two entries of the fill buffer, and never an *)
(* entry and the RAMs ("a tag-hit can occur either in the SRAM or the      *)
(* fill-buffer and never both", the header of dcache1rw.bsv).              *)
OneCopy ==
  \A l \in Line :
    Cardinality({i \in FbIndex : fb[i].valid /\ fb[i].line = l})
      + (IF v_reg_valid[l[2]] /\ ram[l[2]].tag = l[1] THEN 1 ELSE 0) <= 1

WellFormed == TypeOK /\ OneCopy

(* Whatever is moved, released, evicted, refetched or fenced, the newest   *)
(* copy of a cacheable word is the one the committed stores left.          *)
NothingLost == \A a \in Address : ~isIO(a) => newest(a) = arch[a]

(* The tag check reads what the RAM put out: it is that of the set under   *)
(* check, as it is in the RAM now.  The replay after a release exists for  *)
(* this (rl_perform_replay, rg_recent_req).                                *)
CheckedOutputFresh ==
  /\ ram_checked => ram_out = ram[req.addr[2]]
  /\ can_fence => ram_out = ram[rg_fence_set]

(* When a fence answers, memory and the writes on their way to it hold     *)
(* every committed store, and nothing is cached.                           *)
fence_answers ==
  /\ ff_core_request # <<>> /\ req.access = "fence"
  /\ ff_core_request' = Tail(ff_core_request)
FenceFlushes ==
  [][fence_answers => /\ \A a \in Address : ~isIO(a) => (written(a))' = arch[a]
                      /\ \A l \in Line : ~v_reg_valid'[l[2]]
                      /\ \A i \in FbIndex : ~fb'[i].valid]_vars

(* The fence starts when no write-back is on its way (the header of        *)
(* dcache1rw.bsv, "Fence operation").                                      *)
FenceStartsQuiet == [][rl_fence_operation => posted = <<>>]_vars

(* What an uncached read answers is what the device gave.                  *)
DeviceAnswers ==
  [][(rl_capture_io_response /\ may_respond) =>
       responses'[Len(responses')].word = mem[Head(ff_pending_req).addr]]_vars

(* A line of which some beat came with a bus error is marked and will not  *)
(* enter the RAMs (v_fb_err, dcache_lib.bsv).                              *)
BusErrorKept == \A i \in FbIndex : (fb[i].line_valid /\ fb[i].faced) => fb[i].err

(* Every request the core makes is answered.                               *)
EveryRequestAnswered == ff_core_request # <<>> ~> ff_core_request = <<>>
=============================================================================
