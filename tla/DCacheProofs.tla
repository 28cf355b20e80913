---------------------------- MODULE DCacheProofs ----------------------------
(***************************************************************************)
(* A line is in one place, and each tag check of the cache is about the    *)
(* right set: IInv of DCacheInv is inductive while no access traps, for    *)
(* every number of sets, tags and words, every size of the fill buffer,    *)
(* with abandoned paths and with errors of the bus.                        *)
(*                                                                         *)
(* No word is lost, loads see the stores before them and the fence         *)
(* flushes: DataInv is inductive on top of it, while no path is abandoned. *)
(***************************************************************************)
EXTENDS DCacheInv, FiniteSetTheorems, TLAPS

-----------------------------------------------------------------------------
(* Arithmetic of the rings, and the types of what is computed.             *)
LEMMA Shape ==
  /\ FbSize \in Nat /\ FbSize >= 2 /\ MaxOps \in Nat
  /\ Cardinality(Set) \in Nat /\ Cardinality(Set) > 0 /\ Set = 0..Cardinality(Set) - 1
  /\ Cardinality(Word) \in Nat /\ Cardinality(Word) > 0 /\ Word = 0..Cardinality(Word) - 1
  /\ 0 \in Tag /\ 0 \in Set /\ 0 \in Word /\ 0 \in FbIndex
BY DCacheAssumption DEF FbIndex

LEMMA Succession ==
  ASSUME NEW n \in Nat, n > 0, NEW i \in 0..n-1
  PROVE  (i + 1) % n = IF i = n - 1 THEN 0 ELSE i + 1
OBVIOUS

LEMMA NextFb ==
  ASSUME NEW i \in FbIndex
  PROVE  next_fb(i) \in FbIndex /\ next_fb(i) = IF i = FbSize - 1 THEN 0 ELSE i + 1
BY Shape, Succession DEF next_fb, FbIndex

LEMMA Words ==
  /\ Zero \in Datum /\ Blank \in Data /\ NoEntry \in Entry /\ NoStore \in Store
  /\ \A w, d \in Datum : \A m : updated(w, d, m) \in Datum
  /\ \A w, d \in Datum : fn_atomic_op(w, d) \in Datum
<1>1. 0 \in Val /\ 2 * MaxOps + 1 \in Nat /\ 2 * MaxOps + 1 > 0
  BY Shape DEF Val
<1>2. Zero \in Datum /\ Blank \in Data
  BY <1>1 DEF Zero, Blank, Datum, Data
<1>3. NoEntry \in Entry /\ NoStore \in Store
  BY <1>2, Shape DEF NoEntry, NoStore, Entry, Store, Line, Address
<1>4. \A w, d \in Datum : \A m : updated(w, d, m) \in Datum
  BY DEF updated, Datum
<1>5. ASSUME NEW w \in Datum, NEW d \in Datum PROVE fn_atomic_op(w, d) \in Datum
  <2>1. ASSUME NEW l \in Lane PROVE (w[l] + d[l]) % (2 * MaxOps + 1) \in Val
    <3>1. w[l] \in Nat /\ d[l] \in Nat
      BY Shape DEF Datum, Val
    <3>2. w[l] + d[l] \in Nat
      BY <3>1
    <3> QED BY <3>2, <1>1, Shape DEF Val
  <2> QED BY <2>1 DEF fn_atomic_op, Datum
<1> QED BY <1>2, <1>3, <1>4, <1>5

(* Types, with the lengths of the queues apart.                            *)
Bounds ==
  /\ Len(pipe) <= 3 /\ Len(ff_core_request) <= 2 /\ Len(ff_pending_req) <= 2
  /\ Len(ff_write_mem_request) <= 1 /\ Len(posted) <= 1
Regs ==
  /\ issued \in 0..MaxOps /\ rg_epoch \in {0, 1} /\ offered \in {"none", "put", "release"}
  /\ rg_store_initiated \in BOOLEAN /\ rg_fence_stall \in BOOLEAN
  /\ rg_handling_miss \in BOOLEAN /\ rg_release_readphase \in BOOLEAN
  /\ rg_performing_replay \in BOOLEAN /\ rg_polling_mode \in BOOLEAN
  /\ rg_globaldirty \in BOOLEAN /\ rg_sb_busy \in BOOLEAN
  /\ rg_recent_req \in Set /\ rg_fence_set \in Set
  /\ rg_head \in Slot /\ rg_tail \in Slot
  /\ rg_fbhead \in FbIndex /\ rg_fbtail \in FbIndex
  /\ rg_fb_enables \subseteq Word /\ rg_next_bank \in Word
  /\ v_reg_valid \in [Set -> BOOLEAN] /\ v_reg_dirty \in [Set -> BOOLEAN]
  /\ mem \in [Address -> Datum] /\ arch \in [Address -> Datum]

LEMMA TypesOf == Typed => Bounds /\ Regs
<1> SUFFICES ASSUME Typed PROVE Bounds /\ Regs
  OBVIOUS
<1>1. Bounds
  BY DEF Typed, TypeOK, AtMost, Bounds
<1>2. Regs
  BY DEF Typed, TypeOK, Regs
<1> QED BY <1>1, <1>2

LEMMA SeqEntries == ASSUME NEW S, NEW q \in Seq(S) PROVE Entries(q) \subseteq S
BY DEF Entries

LEMMA TypesJoin == Queues /\ Contents /\ Bounds /\ Regs /\ Counted => Typed
<1> SUFFICES ASSUME Queues, Contents, Bounds, Regs, Counted PROVE TypeOK
  BY DEF Typed
<1>1. /\ Entries(pipe) \subseteq Request /\ Entries(ff_core_request) \subseteq Request
      /\ Entries(responses) \subseteq Answer /\ Entries(ff_pending_req) \subseteq Fetch
      /\ Entries(ff_write_mem_request) \subseteq Write /\ Entries(posted) \subseteq Write
  BY SeqEntries DEF Queues
<1>2. Len(responses) <= 3
  <2>1. Len(pipe) \in Nat /\ Len(responses) \in Nat /\ Len(ff_core_request) \in Nat
    BY DEF Queues
  <2> QED BY <2>1 DEF Counted, Bounds
<1> QED BY <1>1, <1>2 DEF TypeOK, AtMost, Bounds, Regs, Answer, Fetch

LEMMA TypesJoinNext == Queues' /\ Contents' /\ Bounds' /\ Regs' /\ Counted' => Typed'
BY TypesJoin, PTL

LEMMA Queue ==
  ASSUME NEW S, NEW q \in Seq(S)
  PROVE  /\ Len(q) \in Nat /\ DOMAIN q = 1..Len(q) /\ \A k \in DOMAIN q : q[k] \in S
         /\ q # <<>> <=> Len(q) > 0
         /\ q # <<>> => /\ Head(q) = q[1] /\ Head(q) \in S /\ Tail(q) \in Seq(S)
                        /\ Len(Tail(q)) = Len(q) - 1
                        /\ \A k \in DOMAIN Tail(q) : k + 1 \in DOMAIN q /\ Tail(q)[k] = q[k + 1]
OBVIOUS

LEMMA Enqueued ==
  ASSUME NEW S, NEW q \in Seq(S), NEW x \in S
  PROVE  /\ Append(q, x) \in Seq(S) /\ Len(Append(q, x)) = Len(q) + 1
         /\ Append(q, x)[Len(q) + 1] = x
         /\ \A k \in DOMAIN q : k \in DOMAIN Append(q, x) /\ Append(q, x)[k] = q[k]
OBVIOUS

LEMMA OneEntry ==
  ASSUME NEW S, NEW x \in S
  PROVE  /\ <<x>> \in Seq(S) /\ Len(<<x>>) = 1 /\ Head(<<x>>) = x /\ <<x>>[1] = x
         /\ <<>> \in Seq(S) /\ Len(<<>>) = 0
OBVIOUS

-----------------------------------------------------------------------------
(* The entry of the fill buffer a request hits is the only one.            *)
LEMMA HitIndex ==
  ASSUME Single, fb_hits # {}
  PROVE  /\ fb_hitindex \in FbIndex /\ fb_hits = {fb_hitindex}
         /\ fb[fb_hitindex].valid /\ fb[fb_hitindex].line = line(req.addr)
<1>1. PICK i \in fb_hits : TRUE
  OBVIOUS
<1>2. \A j \in fb_hits : j = i
  BY <1>1 DEF Single, fb_hits
<1>3. i \in FbIndex /\ i \in Nat
  BY <1>1, Shape DEF fb_hits, FbIndex
<1>4. \E k \in fb_hits : \A j \in fb_hits : j <= k
  <2>1. \A j \in fb_hits : j <= i
    BY <1>2, <1>3
  <2> QED BY <1>1, <2>1
<1>5. fb_hitindex \in fb_hits
  BY <1>4 DEF fb_hitindex
<1>6. fb_hits = {fb_hitindex}
  BY <1>2, <1>5
<1> QED BY <1>5, <1>6 DEF fb_hits

LEMMA HeadRequest ==
  ASSUME Typed, ff_core_request # <<>>
  PROVE  /\ req \in Request /\ req = ff_core_request[1]
         /\ Len(ff_core_request) \in Nat /\ 1 <= Len(ff_core_request) /\ Len(ff_core_request) <= 2
         /\ line(req.addr) \in Line
         /\ req.addr = <<req.addr[1], req.addr[2], req.addr[3]>>
         /\ req.addr[1] \in Tag /\ req.addr[2] \in Set /\ req.addr[3] \in Word
<1>1. /\ ff_core_request \in Seq(Request) /\ Len(ff_core_request) <= 2
  BY TypesOf DEF Typed, Queues, Bounds
<1>2. req \in Request /\ req = ff_core_request[1] /\ 1 <= Len(ff_core_request) /\ Len(ff_core_request) <= 2
  <2>1. /\ Len(ff_core_request) \in Nat /\ Len(ff_core_request) > 0
        /\ Head(ff_core_request) = ff_core_request[1] /\ Head(ff_core_request) \in Request
    BY <1>1, Queue
  <2>2. req = ff_core_request[1]
    BY <2>1 DEF req
  <2>3. req \in Request
    BY <2>1 DEF req
  <2>4. 1 <= Len(ff_core_request)
    BY <2>1
  <2> QED BY <1>1, <2>2, <2>3, <2>4
<1> QED BY <1>2 DEF Request, Address, Line, line

-----------------------------------------------------------------------------
(* Types are kept, action by action.                                       *)
Arrange == Queues /\ Contents /\ Bounds /\ Regs
move == req.access # "load" /\ ram_hit
placed == [fb EXCEPT ![rg_fbtail] =
             allocated(line(req.addr), ram_out.data, TRUE, v_reg_dirty[req.addr[2]])]

LEMMA ForwardedTyped ==
  ASSUME Contents, Regs, NEW w \in Datum PROVE forwarded(w) \in Datum
<1>1. rg_tail \in Slot /\ 1 - rg_tail \in Slot
  BY DEF Regs, Slot
<1>2. sb[rg_tail].data \in Datum /\ sb[1 - rg_tail].data \in Datum
  BY <1>1 DEF Contents, Store
<1> QED BY <1>2, Words DEF forwarded

LEMMA TypedResponse ==
  ASSUME Arrange, Single, ff_core_request # <<>>, Len(responses) + Len(ff_core_request) = Len(pipe),
         NEW w \in Datum, NEW t \in BOOLEAN, response_to_core(w, t), req \in Request,
         at_head
  PROVE  /\ pipe' \in Seq(Request) /\ ff_core_request' \in Seq(Request)
         /\ responses' \in Seq(Answer) /\ ff_write_mem_request' \in Seq(Write)
         /\ posted' \in Seq(Write)
         /\ Contents' /\ Len(pipe') <= 3 /\ Len(ff_core_request') <= 2
         /\ Len(ff_write_mem_request') <= 1 /\ Len(posted') <= 1
         /\ offered' \in {"none", "put", "release"} => Regs'
         /\ Len(ff_core_request') = Len(ff_core_request) - 1
         /\ Len(responses') = Len(responses) + 1
<1> DEFINE r == forwarded(w)
           a == req.addr
<1>1. r \in Datum /\ [word |-> r, trap |-> t] \in Answer
  BY ForwardedTyped DEF Arrange, Answer
<1>2. /\ pipe' = pipe /\ ff_write_mem_request' = ff_write_mem_request /\ posted' = posted
      /\ responses' = Append(responses, [word |-> r, trap |-> t])
      /\ ff_core_request' = Tail(ff_core_request)
  BY DEF response_to_core, bus
<1>3. /\ pipe' \in Seq(Request) /\ ff_core_request' \in Seq(Request)
      /\ responses' \in Seq(Answer) /\ ff_write_mem_request' \in Seq(Write)
      /\ posted' \in Seq(Write)
      /\ Len(pipe') <= 3 /\ Len(ff_core_request') <= 2
      /\ Len(ff_write_mem_request') <= 1 /\ Len(posted') <= 1
      /\ Len(ff_core_request') = Len(ff_core_request) - 1
      /\ Len(responses') = Len(responses) + 1
  <2>1. /\ Tail(ff_core_request) \in Seq(Request) /\ Len(ff_core_request) \in Nat
        /\ Len(Tail(ff_core_request)) = Len(ff_core_request) - 1
    BY Queue DEF Arrange, Queues
  <2>2. /\ Append(responses, [word |-> r, trap |-> t]) \in Seq(Answer)
        /\ Len(Append(responses, [word |-> r, trap |-> t])) = Len(responses) + 1
    BY Enqueued, <1>1 DEF Arrange, Queues
  <2> QED BY <1>2, <2>1, <2>2 DEF Arrange, Queues, Bounds
<1>4. a \in Address /\ line(a) \in Line /\ a[2] \in Set /\ isIO(a) \in BOOLEAN
      /\ req.data \in Datum /\ req.mask \in SUBSET Lane /\ req.epoch \in {0, 1}
  BY DEF Request, Address, line, Line, isIO
<1>5. fb' \in [FbIndex -> Entry]
  <2>1. ASSUME move PROVE placed \in [FbIndex -> Entry]
    <3>1. allocated(line(a), ram_out.data, TRUE, v_reg_dirty[a[2]]) \in Entry
      BY <1>4 DEF allocated, Entry, Arrange, Contents, Regs, Block
    <3> QED BY <3>1 DEF placed, Arrange, Contents, Regs
  <2> QED BY <2>1 DEF response_to_core, move, placed, Arrange, Contents
<1>6. sb' \in [Slot -> Store]
  <2> DEFINE i == IF move THEN rg_fbtail ELSE IF fb_hits # {} THEN fb_hitindex ELSE 0
             e == [valid |-> TRUE, addr |-> a, data |-> req.data, mask |-> req.mask,
                   epoch |-> req.epoch, io |-> isIO(a), operand |-> r, fbindex |-> i]
  <2>1. i \in FbIndex
    BY HitIndex, Shape DEF Arrange, Regs
  <2>2. e \in Store
    BY <1>1, <1>4, <2>1 DEF Store
  <2>3. sb \in [Slot -> Store] /\ rg_tail \in Slot
    BY DEF Arrange, Contents, Regs
  <2>4. sb' = [sb EXCEPT ![rg_tail] = e] \/ sb' = sb
    BY DEF response_to_core, move
  <2> HIDE DEF e
  <2> QED BY <2>2, <2>3, <2>4
<1>7. ram' = ram /\ ram_out' = ram_out
  BY DEF response_to_core
<1>8. Contents'
  BY <1>5, <1>6, <1>7 DEF Arrange, Contents
<1>9. ASSUME offered' \in {"none", "put", "release"} PROVE Regs'
  <2>1. rg_tail' \in Slot
    BY DEF response_to_core, Arrange, Regs, Slot
  <2>2. rg_fbtail' \in FbIndex
    BY NextFb DEF response_to_core, Arrange, Regs
  <2>3. v_reg_valid' \in [Set -> BOOLEAN] /\ v_reg_dirty' \in [Set -> BOOLEAN]
    BY DEF response_to_core, Arrange, Regs
  <2>4. rg_polling_mode' \in BOOLEAN /\ rg_sb_busy' \in BOOLEAN
        /\ rg_release_readphase' \in BOOLEAN /\ rg_handling_miss' \in BOOLEAN
    BY DEF response_to_core, Arrange, Regs, polling_after, fb_checked, word_hit, at_head
  <2> QED BY <2>1, <2>2, <2>3, <2>4, <1>9 DEF response_to_core, Arrange, Regs, modes, fill, bus
<1> QED BY <1>3, <1>8, <1>9

(* What an action leaves alone of the queues, and what it then keeps.      *)
LEMMA CountedFrame == Counted /\ UNCHANGED <<pipe, responses, ff_core_request>> => Counted'
BY DEF Counted

LEMMA CountedAnswer ==
  ASSUME Arrange, Counted, ff_core_request # <<>>, pipe' = pipe,
         Len(responses') = Len(responses) + 1, ff_core_request' = Tail(ff_core_request)
  PROVE  Counted'
<1>1. /\ Len(ff_core_request) \in Nat /\ Len(Tail(ff_core_request)) = Len(ff_core_request) - 1
      /\ \A k \in DOMAIN Tail(ff_core_request) :
           k + 1 \in DOMAIN ff_core_request /\ Tail(ff_core_request)[k] = ff_core_request[k + 1]
  BY Queue DEF Arrange, Queues
<1>2. Len(responses) \in Nat
  BY Queue DEF Arrange, Queues
<1> QED BY <1>1, <1>2 DEF Counted

LEMMA CountedPop ==
  ASSUME Arrange, Counted, responses # <<>>, pop, ff_core_request' = ff_core_request
  PROVE  /\ Counted' /\ pipe' \in Seq(Request) /\ responses' \in Seq(Answer)
         /\ Len(pipe') <= 3 /\ pipe # <<>> /\ op \in Request /\ answer \in Answer
<1>1. /\ Len(responses) \in Nat /\ Len(responses) > 0 /\ Tail(responses) \in Seq(Answer)
      /\ Len(Tail(responses)) = Len(responses) - 1 /\ Head(responses) \in Answer
  BY Queue DEF Arrange, Queues
<1>2. Len(pipe) \in Nat /\ Len(ff_core_request) \in Nat
  BY DEF Arrange, Queues
<1>3. Len(pipe) > 0
  BY <1>1, <1>2 DEF Counted
<1>4. /\ pipe # <<>> /\ Tail(pipe) \in Seq(Request) /\ Len(Tail(pipe)) = Len(pipe) - 1
      /\ Head(pipe) \in Request
  BY <1>3, Queue DEF Arrange, Queues
<1> QED BY <1>1, <1>2, <1>4 DEF Counted, pop, op, answer, Arrange, Bounds

LEMMA Typed_send ==
  ASSUME Arrange, Counted, rl_send_memory_request, req \in Request PROVE Arrange' /\ Counted'
<1> DEFINE p == [addr |-> req.addr, io_request |-> isIO(req.addr), fbindex |-> rg_fbtail]
           e == allocated(line(req.addr), Blank, FALSE, FALSE)
<1>1. p \in Fetch /\ line(req.addr) \in Line
  BY DEF Fetch, Request, Address, line, Line, isIO, Arrange, Regs
<1>2. ff_pending_req' \in Seq(Fetch) /\ Len(ff_pending_req') <= 2
  <2>1. ff_pending_req \in Seq(Fetch) /\ Len(ff_pending_req) \in Nat /\ Len(ff_pending_req) < 2
    BY Queue DEF Arrange, Queues, rl_send_memory_request, can_send
  <2>2. /\ Append(ff_pending_req, p) \in Seq(Fetch)
        /\ Len(Append(ff_pending_req, p)) = Len(ff_pending_req) + 1
    BY <1>1, <2>1, Enqueued
  <2>3. ff_pending_req' = Append(ff_pending_req, p)
    BY DEF rl_send_memory_request
  <2> HIDE DEF p
  <2> QED BY <2>1, <2>2, <2>3
<1>3. e \in Entry
  BY <1>1, Words DEF allocated, Entry
<1>4. fb' \in [FbIndex -> Entry] /\ rg_fbtail' \in FbIndex
  <2>1. \/ fb' = fb /\ rg_fbtail' = rg_fbtail
        \/ fb' = [fb EXCEPT ![rg_fbtail] = e] /\ rg_fbtail' = next_fb(rg_fbtail)
    BY DEF rl_send_memory_request
  <2> HIDE DEF e
  <2> QED BY <1>3, <2>1, NextFb DEF Arrange, Contents, Regs
<1>5. offered' \in {"none", "put", "release"}
  BY DEF rl_send_memory_request, SameCycle
<1>6. UNCHANGED <<core, ff_core_request, ff_write_mem_request, modes, rg_release_readphase,
                  rg_performing_replay, rg_globaldirty, rams, ram_out, rg_fbhead, fill,
                  sbVars, bus>>
      /\ rg_handling_miss' = TRUE /\ rg_polling_mode' = FALSE
  BY DEF rl_send_memory_request
<1>7. Counted'
  BY <1>6, CountedFrame DEF core
<1>8. Queues'
  BY <1>2, <1>6 DEF Queues, Arrange, core, bus
<1>9. Contents'
  BY <1>4, <1>6 DEF Contents, Arrange, rams, sbVars
<1>10. Bounds'
  BY <1>2, <1>6 DEF Bounds, Arrange, core, bus
<1>11. Regs'
  BY <1>4, <1>5, <1>6 DEF Regs, Arrange, core, modes, rams, fill, sbVars, bus
<1> QED BY <1>7, <1>8, <1>9, <1>10, <1>11 DEF Arrange

LEMMA Typed_poll ==
  ASSUME Arrange, Counted, rl_fillbuffer_check PROVE Arrange' /\ Counted'
<1>1. offered' \in {"none", "put", "release"} /\ rg_polling_mode' \in BOOLEAN
  BY DEF rl_fillbuffer_check, SameCycle, polling_after, Arrange, Regs
<1>2. UNCHANGED <<core, fifos, ff_write_mem_request, modes, rg_handling_miss,
                  rg_release_readphase, rg_performing_replay, rg_globaldirty, rams,
                  ram_out, fb, fbPtrs, fill, sbVars, bus>>
  BY DEF rl_fillbuffer_check
<1>3. Counted'
  BY <1>2, CountedFrame DEF core, fifos
<1>4. Queues'
  BY <1>2 DEF Queues, Arrange, core, bus, fifos
<1>5. Contents'
  BY <1>2 DEF Contents, Arrange, rams, sbVars
<1>6. Bounds'
  BY <1>2 DEF Bounds, Arrange, core, bus, fifos
<1>7. Regs'
  BY <1>1, <1>2 DEF Regs, Arrange, core, modes, rams, fill, sbVars, bus, fbPtrs
<1> QED BY <1>3, <1>4, <1>5, <1>6, <1>7 DEF Arrange

LEMMA Typed_atomic ==
  ASSUME Arrange, Counted, rl_perform_atomic PROVE Arrange' /\ Counted'
<1>1. UNCHANGED <<core, fifos, ff_write_mem_request, modes, rg_handling_miss,
                  rg_release_readphase, rg_performing_replay, rg_polling_mode,
                  rg_globaldirty, rams, ram_out, fb, fbPtrs, fill, rg_head, rg_tail, bus>>
      /\ rg_sb_busy' = FALSE /\ offered' = "none"
  BY DEF rl_perform_atomic, NextCycle
<1>2. sb' \in [Slot -> Store]
  <2>1. 1 - rg_tail \in Slot /\ sb[1 - rg_tail] \in Store
    BY DEF Arrange, Contents, Regs, Slot
  <2>2. fn_atomic_op(sb[1 - rg_tail].data, sb[1 - rg_tail].operand) \in Datum
    BY <2>1, Words DEF Store
  <2> QED BY <2>1, <2>2 DEF rl_perform_atomic, Arrange, Contents, Store
<1>3. Counted'
  BY <1>1, CountedFrame DEF core, fifos
<1>4. Queues'
  BY <1>1 DEF Queues, Arrange, core, bus, fifos
<1>5. Contents'
  BY <1>1, <1>2 DEF Contents, Arrange, rams
<1>6. Bounds'
  BY <1>1 DEF Bounds, Arrange, core, bus, fifos
<1>7. Regs'
  BY <1>1 DEF Regs, Arrange, core, modes, rams, fill, bus, fbPtrs
<1> QED BY <1>3, <1>4, <1>5, <1>6, <1>7 DEF Arrange

LEMMA NextWord == ASSUME NEW w \in Word PROVE (w + 1) % Cardinality(Word) \in Word
BY Shape, Succession

LEMMA Typed_fill ==
  ASSUME Arrange, Counted, rl_fill_from_memory PROVE Arrange' /\ Counted'
<1>1. UNCHANGED <<core, ff_core_request, ff_write_mem_request, modes, rg_handling_miss,
                  rg_release_readphase, rg_performing_replay, rg_polling_mode,
                  rg_globaldirty, rams, ram_out, fbPtrs, sbVars, bus>>
      /\ offered' = "none" /\ ff_pending_req # <<>>
  BY DEF rl_fill_from_memory, NextCycle
<1>2. /\ Head(ff_pending_req) \in Fetch /\ Tail(ff_pending_req) \in Seq(Fetch)
      /\ Len(ff_pending_req) \in Nat /\ Len(Tail(ff_pending_req)) = Len(ff_pending_req) - 1
  BY <1>1, Queue DEF Arrange, Queues
<1>3. beat_bank \in Word
  BY <1>2 DEF beat_bank, Fetch, Address, Arrange, Regs
<1>4. ff_pending_req' \in Seq(Fetch) /\ Len(ff_pending_req') <= 2
  <2>1. ff_pending_req' = Tail(ff_pending_req) \/ ff_pending_req' = ff_pending_req
    BY DEF rl_fill_from_memory
  <2>2. ff_pending_req \in Seq(Fetch) /\ Len(ff_pending_req) <= 2
    BY DEF Arrange, Queues, Bounds
  <2> QED BY <1>2, <2>1, <2>2
<1>5. rg_next_bank' \in Word /\ rg_fb_enables' \subseteq Word
  BY <1>3, NextWord DEF rl_fill_from_memory, Arrange, Regs
<1>6. fb' \in [FbIndex -> Entry]
  <2> DEFINE p == Head(ff_pending_req)
             l == line(p.addr)
  <2>1. PICK err \in BOOLEAN :
          fb' = [fb EXCEPT ![p.fbindex].data[beat_bank] = mem[<<l[1], l[2], beat_bank>>],
                           ![p.fbindex].line_valid = @ \/ last_beat,
                           ![p.fbindex].err = err,
                           ![p.fbindex].faced = @ \/ err]
    BY DEF rl_fill_from_memory
  <2>2. p.fbindex \in FbIndex /\ <<l[1], l[2], beat_bank>> \in Address
    BY <1>2, <1>3 DEF Fetch, Address, line
  <2>3. mem[<<l[1], l[2], beat_bank>>] \in Datum /\ last_beat \in BOOLEAN
    BY <2>2 DEF Arrange, Regs, last_beat
  <2> DEFINE d == mem[<<l[1], l[2], beat_bank>>]
             e == fb[p.fbindex]
             e2 == [e EXCEPT !.data = [@ EXCEPT ![beat_bank] = d],
                             !.line_valid = @ \/ last_beat, !.err = err, !.faced = @ \/ err]
  <2>4. e \in Entry
    BY <2>2 DEF Arrange, Contents
  <2>5. e2 \in Entry
    <3> HIDE DEF e, d
    <3>1. [e.data EXCEPT ![beat_bank] = d] \in Data
      BY <2>3, <2>4, <1>3 DEF Entry, Data, d
    <3> QED BY <2>3, <2>4, <3>1 DEF Entry
  <2>6. fb' = [fb EXCEPT ![p.fbindex] = e2]
    <3> HIDE DEF d, p
    <3> QED BY <2>1, <2>2, <2>4 DEF Arrange, Contents, Entry, d
  <2> HIDE DEF e2, p
  <2> QED BY <2>2, <2>5, <2>6 DEF Arrange, Contents
<1>7. Counted'
  BY <1>1, CountedFrame DEF core
<1>8. Queues'
  BY <1>1, <1>4 DEF Queues, Arrange, core, bus
<1>9. Contents'
  BY <1>1, <1>6 DEF Contents, Arrange, rams, sbVars
<1>10. Bounds'
  BY <1>1, <1>4 DEF Bounds, Arrange, core, bus
<1>11. Regs'
  BY <1>1, <1>5 DEF Regs, Arrange, core, modes, rams, fill, sbVars, bus, fbPtrs
<1> QED BY <1>7, <1>8, <1>9, <1>10, <1>11 DEF Arrange

LEMMA Typed_capture ==
  ASSUME Arrange, Counted, Single, rl_capture_io_response, ff_core_request # <<>> => req \in Request /\ at_head
  PROVE Arrange' /\ Counted'
<1>1. /\ ff_pending_req # <<>> /\ ff_pending_req' = Tail(ff_pending_req) /\ offered' = "none"
  BY DEF rl_capture_io_response, NextCycle
<1>2. /\ Head(ff_pending_req) \in Fetch /\ Tail(ff_pending_req) \in Seq(Fetch)
      /\ Len(ff_pending_req) \in Nat /\ Len(Tail(ff_pending_req)) = Len(ff_pending_req) - 1
  BY <1>1, Queue DEF Arrange, Queues
<1>3. ff_pending_req' \in Seq(Fetch) /\ Len(ff_pending_req') <= 2
  BY <1>1, <1>2 DEF Arrange, Bounds
<1>4. CASE may_respond
  <2>1. ff_core_request # <<>> /\ mem[Head(ff_pending_req).addr] \in Datum
    BY <1>2, <1>4 DEF may_respond, Fetch, Arrange, Regs
  <2>2. response_to_core(mem[Head(ff_pending_req).addr], FALSE)
    BY <1>4 DEF rl_capture_io_response
  <2> DEFINE w == mem[Head(ff_pending_req).addr]
  <2>3. Len(responses) + Len(ff_core_request) = Len(pipe)
    BY DEF Counted
  <2>4. pipe' = pipe /\ ff_core_request' = Tail(ff_core_request)
    BY <2>2 DEF response_to_core
  <2> HIDE DEF w
  <2>5. w \in Datum /\ response_to_core(w, FALSE) /\ FALSE \in BOOLEAN
    BY <2>1, <2>2 DEF w
  <2>6. /\ pipe' \in Seq(Request) /\ ff_core_request' \in Seq(Request)
        /\ responses' \in Seq(Answer) /\ ff_write_mem_request' \in Seq(Write)
        /\ posted' \in Seq(Write)
        /\ Contents' /\ Len(pipe') <= 3 /\ Len(ff_core_request') <= 2
        /\ Len(ff_write_mem_request') <= 1 /\ Len(posted') <= 1
        /\ offered' \in {"none", "put", "release"} => Regs'
        /\ Len(responses') = Len(responses) + 1
    BY <2>1, <2>3, <2>5, TypedResponse
  <2>7. Counted'
    BY <2>1, <2>4, <2>6, CountedAnswer
  <2> QED BY <1>1, <1>3, <2>6, <2>7 DEF Arrange, Queues, Bounds
<1>5. CASE ~may_respond
  <2>1. UNCHANGED <<core, ff_core_request, ff_write_mem_request, modes,
                    rg_handling_miss, rg_release_readphase, rg_performing_replay,
                    rg_polling_mode, rg_globaldirty, rams, ram_out, fb, fbPtrs, fill,
                    sbVars, bus>>
    BY <1>5 DEF rl_capture_io_response
  <2>2. Counted'
    BY <2>1, CountedFrame DEF core
  <2>3. Queues'
    BY <1>3, <2>1 DEF Queues, Arrange, core, bus
  <2>4. Contents'
    BY <2>1 DEF Contents, Arrange, rams, sbVars
  <2>5. Bounds'
    BY <1>3, <2>1 DEF Bounds, Arrange, core, bus
  <2>6. Regs'
    BY <1>1, <2>1 DEF Regs, Arrange, core, modes, rams, fill, sbVars, bus, fbPtrs
  <2> QED BY <2>2, <2>3, <2>4, <2>5, <2>6 DEF Arrange
<1> QED BY <1>4, <1>5

LEMMA AtMostOne ==
  ASSUME NEW S, NEW x \in S, NEW q, q = <<x>> \/ q = <<>>
  PROVE  q \in Seq(S) /\ Len(q) <= 1
<1>1. CASE q = <<x>>
  BY <1>1
<1>2. CASE q = <<>>
  BY <1>2
<1> QED BY <1>1, <1>2

LEMMA WrittenBack ==
  ASSUME NEW t \in Tag, NEW s \in Set, NEW d \in Data
  PROVE  written_back(t, s, d) \in Write /\ ~written_back(t, s, d).io
BY Shape DEF written_back, Write, Address

LEMMA Typed_release ==
  ASSUME Arrange, Counted, rl_release_from_fillbuffer, release_set \in Set
  PROVE  Arrange' /\ Counted'
<1>1. UNCHANGED <<core, fifos, modes, rg_handling_miss, rg_polling_mode, rg_globaldirty,
                  rg_fbtail, fill, sbVars, bus>>
      /\ offered' = "none"
  BY DEF rl_release_from_fillbuffer, NextCycle
<1>2. rg_fbhead \in FbIndex /\ next_fb(rg_fbhead) \in FbIndex /\ fb[rg_fbhead] \in Entry
  BY NextFb DEF Arrange, Contents, Regs
<1>3. freed \in [FbIndex -> Entry]
  BY <1>2 DEF freed, Arrange, Contents, Entry
<1>4. /\ fb' \in [FbIndex -> Entry] /\ rg_fbhead' \in FbIndex
      /\ rg_release_readphase' \in BOOLEAN /\ rg_performing_replay' \in BOOLEAN
      /\ ram' \in [Set -> Block] /\ ram_out' \in Block
      /\ ff_write_mem_request' \in Seq(Write) /\ Len(ff_write_mem_request') <= 1
      /\ v_reg_valid' \in [Set -> BOOLEAN] /\ v_reg_dirty' \in [Set -> BOOLEAN]
  <2>1. CASE release_discard
    BY <1>2, <1>3, <2>1 DEF release_discard, rams, Arrange, Contents, Regs, Queues, Bounds
  <2>2. CASE release_read
    BY <2>2 DEF release_read, rams, Arrange, Contents, Regs, Queues, Bounds
  <2>3. CASE release_write
    <3>1. /\ fb' = freed /\ rg_fbhead' = next_fb(rg_fbhead) /\ rg_release_readphase' = FALSE
          /\ rg_performing_replay' = replay_needed /\ ram_out' = ram_out
      BY <2>3 DEF release_write
    <3>2. ram' \in [Set -> Block]
      <4>1. [tag |-> fb[rg_fbhead].line[1], data |-> fb[rg_fbhead].data] \in Block
        BY <1>2 DEF Entry, Line, Block
      <4> QED BY <2>3, <4>1 DEF release_write, Arrange, Contents
    <3>3. v_reg_valid' \in [Set -> BOOLEAN] /\ v_reg_dirty' \in [Set -> BOOLEAN]
      <4>1. fb[rg_fbhead].dirty \in BOOLEAN
        BY <1>2 DEF Entry
      <4> QED BY <2>3, <4>1 DEF release_write, Arrange, Regs
    <3>4. ff_write_mem_request' \in Seq(Write) /\ Len(ff_write_mem_request') <= 1
      <4>1. written_back(ram_out.tag, release_set, ram_out.data) \in Write
        BY WrittenBack DEF Arrange, Contents, Block
      <4>2. \/ ff_write_mem_request' = <<written_back(ram_out.tag, release_set, ram_out.data)>>
            \/ ff_write_mem_request' = <<>>
        BY <2>3 DEF release_write
      <4> QED BY <4>1, <4>2, AtMostOne
    <3>5. replay_needed \in BOOLEAN
      BY DEF replay_needed, Arrange, Regs
    <3> QED BY <1>2, <1>3, <3>1, <3>2, <3>3, <3>4, <3>5 DEF Arrange, Contents
  <2> QED BY <2>1, <2>2, <2>3 DEF rl_release_from_fillbuffer
<1>5. Counted'
  BY <1>1, CountedFrame DEF core, fifos
<1>6. Queues'
  BY <1>1, <1>4 DEF Queues, Arrange, core, bus, fifos
<1>7. Contents'
  BY <1>1, <1>4 DEF Contents, Arrange, sbVars
<1>8. Bounds'
  BY <1>1, <1>4 DEF Bounds, Arrange, core, bus, fifos
<1>9. Regs'
  BY <1>1, <1>4 DEF Regs, Arrange, core, modes, fill, sbVars, bus
<1> QED BY <1>5, <1>6, <1>7, <1>8, <1>9 DEF Arrange

LEMMA Typed_replay ==
  ASSUME Arrange, Counted, rl_perform_replay PROVE Arrange' /\ Counted'
<1>1. UNCHANGED <<core, fifos, ff_write_mem_request, modes, rg_handling_miss,
                  rg_release_readphase, rg_polling_mode, rg_globaldirty, rams, fb, fbPtrs,
                  fill, sbVars, bus>>
      /\ offered' = "none" /\ rg_performing_replay' = FALSE /\ ram_out' = ram[rg_recent_req]
  BY DEF rl_perform_replay, NextCycle
<1>2. ram_out' \in Block
  BY <1>1 DEF Arrange, Contents, Regs
<1>3. Counted'
  BY <1>1, CountedFrame DEF core, fifos
<1>4. Queues'
  BY <1>1 DEF Queues, Arrange, core, bus, fifos
<1>5. Contents'
  BY <1>1, <1>2 DEF Contents, Arrange, rams, sbVars
<1>6. Bounds'
  BY <1>1 DEF Bounds, Arrange, core, bus, fifos
<1>7. Regs'
  BY <1>1 DEF Regs, Arrange, core, modes, rams, fill, sbVars, bus, fbPtrs
<1> QED BY <1>3, <1>4, <1>5, <1>6, <1>7 DEF Arrange

LEMMA NextSet == ASSUME NEW s \in Set PROVE (s + 1) % Cardinality(Set) \in Set
BY Shape, Succession

LEMMA Typed_fence ==
  ASSUME Arrange, Counted, rl_fence_operation PROVE Arrange' /\ Counted'
<1>1. UNCHANGED <<pipe, issued, rg_epoch, rg_store_initiated, arch, ff_pending_req,
                  rg_recent_req, rg_handling_miss, rg_release_readphase,
                  rg_performing_replay, rg_polling_mode, ram, fb, fbPtrs, fill, sbVars, bus>>
      /\ offered' = "none" /\ ff_core_request # <<>>
      /\ ram_out' = ram[(rg_fence_set + 1) % Cardinality(Set)]
  BY DEF rl_fence_operation, NextCycle, can_fence
<1>2. ram_out' \in Block /\ ram_out \in Block /\ rg_fence_set \in Set
  BY <1>1, NextSet DEF Arrange, Contents, Regs
<1>3. ff_write_mem_request' \in Seq(Write) /\ Len(ff_write_mem_request') <= 1
  <2>1. written_back(ram_out.tag, rg_fence_set, ram_out.data) \in Write
    BY <1>2, WrittenBack DEF Block
  <2>2. \/ ff_write_mem_request' = <<written_back(ram_out.tag, rg_fence_set, ram_out.data)>>
        \/ ff_write_mem_request' = <<>>
    BY DEF rl_fence_operation
  <2> QED BY <2>1, <2>2, AtMostOne
<1>4. Contents'
  BY <1>1, <1>2 DEF Contents, Arrange, sbVars
<1>5. CASE fence_last /\ v_reg_valid' = [s \in Set |-> FALSE]
           /\ v_reg_dirty' = [s \in Set |-> FALSE]
           /\ rg_globaldirty' = FALSE /\ rg_fence_stall' = FALSE /\ rg_fence_set' = 0
           /\ ff_core_request' = Tail(ff_core_request)
           /\ responses' = Append(responses, [word |-> Zero, trap |-> FALSE])
  <2>1. [word |-> Zero, trap |-> FALSE] \in Answer
    BY Words DEF Answer
  <2>2. /\ responses' \in Seq(Answer) /\ Len(responses') = Len(responses) + 1
    BY <1>5, <2>1, Enqueued DEF Arrange, Queues
  <2>3. /\ ff_core_request' \in Seq(Request) /\ Len(ff_core_request) \in Nat
        /\ Len(ff_core_request') = Len(ff_core_request) - 1
    BY <1>1, <1>5, Queue DEF Arrange, Queues
  <2>4. Counted'
    BY <1>1, <1>5, <2>2, CountedAnswer
  <2>5. Queues'
    BY <1>1, <1>3, <2>2, <2>3 DEF Queues, Arrange, bus
  <2>6. Bounds'
    BY <1>1, <1>3, <2>3 DEF Bounds, Arrange, bus
  <2>7. Regs'
    BY <1>1, <1>5, Shape DEF Regs, Arrange, fill, sbVars, bus, fbPtrs
  <2> QED BY <1>4, <2>4, <2>5, <2>6, <2>7 DEF Arrange
<1>6. CASE ~fence_last /\ rg_fence_set' = rg_fence_set + 1
           /\ UNCHANGED <<v_reg_valid, v_reg_dirty, rg_globaldirty, rg_fence_stall,
                          ff_core_request, responses>>
  <2>1. rg_fence_set' \in Set
    BY <1>2, <1>6, Shape DEF fence_last
  <2>2. Counted'
    BY <1>1, <1>6, CountedFrame
  <2>3. Queues'
    BY <1>1, <1>3, <1>6 DEF Queues, Arrange, bus
  <2>4. Bounds'
    BY <1>1, <1>3, <1>6 DEF Bounds, Arrange, bus
  <2>5. Regs'
    BY <1>1, <1>6, <2>1 DEF Regs, Arrange, fill, sbVars, bus, fbPtrs
  <2> QED BY <1>4, <2>2, <2>3, <2>4, <2>5 DEF Arrange
<1> QED BY <1>5, <1>6 DEF rl_fence_operation

asked(r) == [access |-> r.access, addr |-> r.addr, mask |-> r.mask,
             data |-> [l \in Lane |-> issued + 1], epoch |-> rg_epoch, fault |-> r \in Faults]
set_of(r) == IF r.access = "fence" THEN 0 ELSE r.addr[2]

LEMMA AskedTyped ==
  ASSUME Regs, issued < MaxOps, NEW r \in Menu
  PROVE  asked(r) \in Request /\ set_of(r) \in Set /\ asked(r).fault = (r \in Faults)
<1>1. /\ r \in [access : {"load", "store", "atomic", "fence"}, addr : Tag \X Set \X Word,
                mask : SUBSET Lane]
  BY DCacheAssumption
<1>2. issued + 1 \in Val
  BY Shape DEF Regs, Val
<1>3. [l \in Lane |-> issued + 1] \in Datum
  BY <1>2 DEF Datum
<1> QED BY <1>1, <1>3, Shape DEF asked, set_of, Request, Address, Regs

LEMMA Typed_put ==
  ASSUME NoTraps, Arrange, Counted, NEW r \in Menu, put_core_req(r), Len(ff_core_request) < 2
  PROVE  Arrange' /\ Counted'
<1>1. UNCHANGED <<responses, rg_epoch, rg_store_initiated, arch, ff_pending_req,
                  ff_write_mem_request, rg_fence_set, rg_handling_miss,
                  rg_performing_replay, rg_polling_mode, rg_globaldirty, rams, fb, fbPtrs,
                  fill, sbVars, bus>>
      /\ offered' = "none" /\ issued < MaxOps /\ issued' = issued + 1
      /\ rg_release_readphase' = FALSE /\ rg_fence_stall' = (r.access = "fence")
  BY DEF put_core_req, NextCycle
<1>2. /\ ff_core_request' = Append(ff_core_request, asked(r)) /\ pipe' = Append(pipe, asked(r))
      /\ rg_recent_req' = set_of(r) /\ ram_out' = ram[set_of(r)]
  BY DEF put_core_req, asked, set_of
<1>3. asked(r) \in Request /\ set_of(r) \in Set /\ ~asked(r).fault
  BY <1>1, AskedTyped DEF Arrange, NoTraps
<1>4. /\ pipe \in Seq(Request) /\ ff_core_request \in Seq(Request)
      /\ Len(pipe) \in Nat /\ Len(ff_core_request) \in Nat
      /\ DOMAIN ff_core_request = 1..Len(ff_core_request)
  BY DEF Arrange, Queues
<1>5. /\ pipe' \in Seq(Request) /\ Len(pipe') = Len(pipe) + 1
      /\ ff_core_request' \in Seq(Request) /\ Len(ff_core_request') = Len(ff_core_request) + 1
      /\ ff_core_request'[Len(ff_core_request) + 1] = asked(r)
      /\ \A k \in DOMAIN ff_core_request : ff_core_request'[k] = ff_core_request[k]
      /\ DOMAIN ff_core_request' = 1..Len(ff_core_request')
  BY <1>2, <1>3, <1>4, Enqueued, Queue
<1>6. Len(pipe') <= 3
  <2>1. Len(pipe) < 2 \/ Len(pipe) = 2
    BY DEF put_core_req, pipe_room
  <2>2. \A n \in Nat : n < 2 \/ n = 2 => n + 1 <= 3
    OBVIOUS
  <2>3. Len(pipe') = Len(pipe) + 1 /\ Len(pipe) \in Nat
    BY <1>4, <1>5
  <2> QED BY <2>1, <2>2, <2>3
<1>7. Counted'
  <2>1. Len(pipe') = Len(responses') + Len(ff_core_request')
    BY <1>1, <1>4, <1>5 DEF Counted, Arrange, Queues
  <2>2. ASSUME NEW k \in DOMAIN ff_core_request' PROVE ~ff_core_request'[k].fault
    <3>1. k \in DOMAIN ff_core_request \/ k = Len(ff_core_request) + 1
      BY <1>4, <1>5
    <3> QED BY <1>3, <1>5, <3>1 DEF Counted
  <2> QED BY <2>1, <2>2 DEF Counted
<1>8. Queues'
  BY <1>1, <1>5 DEF Queues, Arrange, bus
<1>9. Contents'
  BY <1>1, <1>2, <1>3 DEF Contents, Arrange, rams, sbVars
<1>10. Bounds'
  BY <1>1, <1>4, <1>5, <1>6 DEF Bounds, Arrange, bus
<1>11. Regs'
  <2>1. issued' \in 0..MaxOps /\ rg_fence_stall' \in BOOLEAN
    BY <1>1, Shape DEF Arrange, Regs
  <2> QED BY <1>1, <1>2, <1>3, <2>1 DEF Regs, Arrange, rams, fill, sbVars, bus, fbPtrs
<1> QED BY <1>7, <1>8, <1>9, <1>10, <1>11 DEF Arrange

LEMMA Typed_retire ==
  ASSUME Arrange, Counted, RetireOther PROVE Arrange' /\ Counted'
<1>1. UNCHANGED <<issued, rg_store_initiated, arch, fifos, ff_write_mem_request, modes,
                  rg_handling_miss, rg_release_readphase, rg_performing_replay,
                  rg_polling_mode, rg_globaldirty, rams, ram_out, fb, fbPtrs, fill, sbVars,
                  bus>>
      /\ offered' = "none" /\ responses # <<>> /\ pop
  BY DEF RetireOther, NextCycle
<1>2. rg_epoch' \in {0, 1}
  BY DEF RetireOther, Arrange, Regs
<1>3. /\ Counted' /\ pipe' \in Seq(Request) /\ responses' \in Seq(Answer) /\ Len(pipe') <= 3
  BY <1>1, CountedPop DEF fifos
<1>4. Queues'
  BY <1>1, <1>3 DEF Queues, Arrange, bus, fifos
<1>5. Contents'
  BY <1>1 DEF Contents, Arrange, rams, sbVars
<1>6. Bounds'
  BY <1>1, <1>3 DEF Bounds, Arrange, bus, fifos
<1>7. Regs'
  BY <1>1, <1>2 DEF Regs, Arrange, modes, rams, fill, sbVars, bus, fbPtrs
<1> QED BY <1>3, <1>4, <1>5, <1>6, <1>7 DEF Arrange

LEMMA Typed_store ==
  ASSUME Arrange, Counted, ma_perform_store PROVE Arrange' /\ Counted'
<1> DEFINE e == sb[rg_head]
           w == [addr |-> e.addr, io |-> TRUE, mask |-> e.mask,
                 data |-> [i \in Word |-> e.data]]
<1>1. UNCHANGED <<issued, rg_epoch, fifos, modes, rg_handling_miss, rg_release_readphase,
                  rg_performing_replay, rg_polling_mode, rams, ram_out, fbPtrs, fill,
                  rg_tail, rg_sb_busy, bus>>
      /\ offered' = "none" /\ responses # <<>> /\ rg_head' = 1 - rg_head
      /\ sb' = [sb EXCEPT ![rg_head].valid = FALSE]
  BY DEF ma_perform_store, NextCycle
<1>2. e \in Store
  BY DEF Arrange, Contents, Regs
<1>3. sb' \in [Slot -> Store] /\ rg_head' \in Slot
  <2>1. [e EXCEPT !.valid = FALSE] \in Store
    BY <1>2 DEF Store
  <2>2. rg_head \in Slot /\ 1 - rg_head \in Slot /\ sb \in [Slot -> Store]
    BY DEF Arrange, Contents, Regs, Slot
  <2>3. sb' = [sb EXCEPT ![rg_head] = [e EXCEPT !.valid = FALSE]]
    BY <1>1
  <2> DEFINE e2 == [e EXCEPT !.valid = FALSE]
  <2> HIDE DEF e2
  <2>4. [sb EXCEPT ![rg_head] = e2] \in [Slot -> Store]
    BY <2>1, <2>2 DEF e2
  <2> QED BY <1>1, <2>2, <2>3, <2>4 DEF e2
<1>4. /\ ff_write_mem_request' \in Seq(Write) /\ Len(ff_write_mem_request') <= 1
      /\ rg_store_initiated' \in BOOLEAN /\ rg_globaldirty' \in BOOLEAN
  <2>1. w \in Write
    BY <1>2 DEF Store, Write, Data
  <2>2. ff_write_mem_request' = <<w>> \/ ff_write_mem_request' = ff_write_mem_request
    BY DEF ma_perform_store
  <2>3. rg_store_initiated' \in BOOLEAN /\ rg_globaldirty' \in BOOLEAN
    BY DEF ma_perform_store, Arrange, Regs
  <2> HIDE DEF w
  <2>4. CASE ff_write_mem_request' = <<w>>
    BY <2>1, <2>3, <2>4, AtMostOne
  <2>5. CASE ff_write_mem_request' = ff_write_mem_request
    BY <2>3, <2>5 DEF Arrange, Queues, Bounds
  <2> QED BY <2>2, <2>4, <2>5
<1>5. fb' \in [FbIndex -> Entry]
  <2>1. \/ fb' = fb
        \/ fb' = [fb EXCEPT ![e.fbindex].dirty = TRUE,
                            ![e.fbindex].data[e.addr[3]] = updated(@, e.data, e.mask)]
    BY DEF ma_perform_store
  <2> DEFINE i == e.fbindex
             b == e.addr[3]
             f == fb[i]
             v == updated(f.data[b], e.data, e.mask)
             f2 == [f EXCEPT !.dirty = TRUE, !.data = [f.data EXCEPT ![b] = v]]
  <2>2. i \in FbIndex /\ b \in Word /\ e.data \in Datum
    BY <1>2 DEF Store, Address
  <2>3. f \in Entry
    BY <2>2 DEF Arrange, Contents
  <2>4. f2 \in Entry
    <3>1. f.data \in Data /\ f.data[b] \in Datum
      BY <2>2, <2>3 DEF Entry, Data
    <3>2. v \in Datum
      BY <2>2, <3>1, Words
    <3> HIDE DEF v
    <3>3. [f.data EXCEPT ![b] = v] \in Data
      BY <3>1, <3>2 DEF Data
    <3> HIDE DEF f
    <3> QED BY <2>3, <3>3 DEF Entry
  <2>5. CASE fb' # fb
    <3>1. fb' = [fb EXCEPT ![i] = f2]
      <4>1. fb' = [fb EXCEPT ![i].dirty = TRUE, ![i].data[b] = updated(@, e.data, e.mask)]
        BY <2>1, <2>5
      <4>2. fb \in [FbIndex -> Entry]
        BY DEF Arrange, Contents
      <4> HIDE DEF e, i, b
      <4> QED BY <2>2, <2>3, <4>1, <4>2 DEF Entry
    <3> HIDE DEF f2, i
    <3> QED BY <2>2, <2>4, <3>1 DEF Arrange, Contents
  <2> QED BY <2>1, <2>5 DEF Arrange, Contents
<1>6. UNCHANGED <<pipe, responses>> \/ pop
  BY DEF ma_perform_store
<1>7. /\ op \in Request /\ answer \in Answer
      /\ Counted' /\ pipe' \in Seq(Request) /\ responses' \in Seq(Answer) /\ Len(pipe') <= 3
  <2>1. /\ Len(responses) \in Nat /\ Len(responses) > 0 /\ Head(responses) \in Answer
        /\ Len(ff_core_request) \in Nat
    BY <1>1, Queue DEF Arrange, Queues
  <2>2. pipe # <<>> /\ Head(pipe) \in Request
    <3>1. Len(pipe) \in Nat /\ Len(pipe) > 0
      BY <2>1 DEF Counted, Arrange, Queues
    <3> QED BY <3>1, Queue DEF Arrange, Queues
  <2>3. CASE pop
    BY <1>1, <2>3, CountedPop DEF fifos
  <2>4. CASE UNCHANGED <<pipe, responses>>
    BY <1>1, <2>1, <2>2, <2>4, CountedFrame DEF fifos, Arrange, Queues, Bounds, op, answer
  <2> QED BY <1>6, <2>3, <2>4
<1>8. arch' \in [Address -> Datum]
  <2>1. arch' = arch \/ arch' = [arch EXCEPT ![op.addr] = after_store(op.addr, op)]
    BY DEF ma_perform_store
  <2>2. op.addr \in Address /\ op.data \in Datum /\ arch[op.addr] \in Datum
    BY <1>7 DEF Request, Arrange, Regs
  <2>3. after_store(op.addr, op) \in Datum
    BY <2>2, Words DEF after_store
  <2> HIDE DEF e
  <2> QED BY <2>1, <2>2, <2>3 DEF Arrange, Regs
<1>9. Queues'
  BY <1>1, <1>4, <1>7 DEF Queues, Arrange, bus, fifos
<1>10. Contents'
  BY <1>1, <1>3, <1>5 DEF Contents, Arrange, rams
<1>11. Bounds'
  BY <1>1, <1>4, <1>7 DEF Bounds, Arrange, bus, fifos
<1>12. Regs'
  BY <1>1, <1>3, <1>4, <1>8 DEF Regs, Arrange, modes, rams, fill, bus, fbPtrs
<1> QED BY <1>7, <1>9, <1>10, <1>11, <1>12 DEF Arrange

LEMMA Typed_flush ==
  ASSUME Arrange, Counted, Flush PROVE Arrange' /\ Counted'
<1>1. UNCHANGED <<pipe, responses, issued, rg_store_initiated, arch, fifos,
                  ff_write_mem_request, modes, rg_handling_miss, rg_release_readphase,
                  rg_performing_replay, rg_polling_mode, rg_globaldirty, rams, ram_out, fb,
                  fbPtrs, fill, sbVars, bus>>
      /\ offered' = "none" /\ rg_epoch' = 1 - rg_epoch
  BY DEF Flush, NextCycle
<1>2. Counted'
  BY <1>1, CountedFrame DEF fifos
<1>3. Queues' /\ Contents' /\ Bounds'
  BY <1>1 DEF Queues, Contents, Bounds, Arrange, bus, fifos, rams, sbVars
<1>4. Regs'
  BY <1>1 DEF Regs, Arrange, modes, rams, fill, sbVars, bus, fbPtrs
<1> QED BY <1>2, <1>3, <1>4 DEF Arrange

LEMMA Typed_bustake ==
  ASSUME Arrange, Counted, BusTake PROVE Arrange' /\ Counted'
<1>1. UNCHANGED <<core, fifos, modes, rg_handling_miss, rg_release_readphase,
                  rg_performing_replay, rg_polling_mode, rg_globaldirty, rams, ram_out, fb,
                  fbPtrs, fill, sbVars, mem>>
      /\ offered' = "none" /\ posted' = ff_write_mem_request /\ ff_write_mem_request' = <<>>
  BY DEF BusTake, NextCycle
<1>2. Counted'
  BY <1>1, CountedFrame DEF fifos, core
<1>3. <<>> \in Seq(Write) /\ Len(<<>>) <= 1
  OBVIOUS
<1>4. Queues' /\ Contents' /\ Bounds'
  BY <1>1, <1>3 DEF Queues, Contents, Bounds, Arrange, core, fifos, rams, sbVars
<1>5. Regs'
  BY <1>1 DEF Regs, Arrange, core, modes, rams, fill, sbVars, fbPtrs
<1> QED BY <1>2, <1>4, <1>5 DEF Arrange

LEMMA Typed_busland ==
  ASSUME Arrange, Counted, Initiated, BusLand PROVE Arrange' /\ Counted'
<1> DEFINE w == Head(posted)
           m == [a \in DOMAIN mem |->
                   IF line(a) = line(w.addr) /\ (w.io => a = w.addr)
                   THEN updated(mem[a], w.data[a[3]], w.mask) ELSE mem[a]]
<1>1. UNCHANGED <<issued, rg_epoch, arch, fifos, ff_write_mem_request, modes,
                  rg_handling_miss, rg_release_readphase, rg_performing_replay,
                  rg_polling_mode, rg_globaldirty, rams, ram_out, fb, fbPtrs, fill, sbVars>>
      /\ offered' = "none" /\ posted # <<>> /\ posted' = <<>>
      /\ IF w.io THEN pop /\ rg_store_initiated' = FALSE
         ELSE UNCHANGED <<pipe, responses, rg_store_initiated>>
  BY DEF BusLand, NextCycle
<1>9. mem' = m
  BY DEF BusLand
<1>2. w \in Write
  BY <1>1, Queue DEF Arrange, Queues
<1>3. mem' \in [Address -> Datum]
  <2>1. DOMAIN mem = Address
    BY DEF Arrange, Regs
  <2>2. ASSUME NEW a \in Address PROVE updated(mem[a], w.data[a[3]], w.mask) \in Datum
    <3>1. mem[a] \in Datum /\ a[3] \in Word
      BY DEF Arrange, Regs, Address
    <3>2. w.data[a[3]] \in Datum
      BY <1>2, <3>1 DEF Write, Data
    <3> QED BY <3>1, <3>2, Words
  <2>3. \A a \in Address : mem[a] \in Datum
    BY DEF Arrange, Regs
  <2>4. m \in [Address -> Datum]
    <3> HIDE DEF w
    <3> QED BY <2>1, <2>2, <2>3
  <2> HIDE DEF m
  <2> QED BY <2>4, <1>9
<1>4. /\ Counted' /\ pipe' \in Seq(Request) /\ responses' \in Seq(Answer) /\ Len(pipe') <= 3
      /\ rg_store_initiated' \in BOOLEAN
  <2>1. CASE w.io
    <3>1. responses # <<>>
      BY <1>1, <2>1 DEF Initiated, DeviceWrite
    <3> QED BY <1>1, <2>1, <3>1, CountedPop DEF fifos
  <2>2. CASE ~w.io
    BY <1>1, <2>2, CountedFrame DEF fifos, Arrange, Queues, Bounds, Regs
  <2> QED BY <2>1, <2>2
<1>5. <<>> \in Seq(Write) /\ Len(<<>>) <= 1
  OBVIOUS
<1>6. Queues' /\ Bounds'
  BY <1>1, <1>4, <1>5 DEF Queues, Bounds, Arrange, fifos
<1>7. Contents'
  BY <1>1 DEF Contents, Arrange, rams, sbVars
<1>8. Regs'
  BY <1>1, <1>3, <1>4 DEF Regs, Arrange, modes, rams, fill, sbVars, fbPtrs
<1> QED BY <1>4, <1>6, <1>7, <1>8 DEF Arrange

(* The rest of the types follows for a step: what each action needs of the *)
(* other parts is a queue that has room, or an entry that exists.          *)
LEMMA HeadEntry ==
  ASSUME Typed
  PROVE  /\ rg_fbhead \in FbIndex /\ rg_fbtail \in FbIndex /\ fb[rg_fbhead] \in Entry
         /\ release_set \in Set /\ fb[rg_fbhead].line \in Line
<1>1. rg_fbhead \in FbIndex /\ rg_fbtail \in FbIndex /\ fb[rg_fbhead] \in Entry
  BY TypesOf DEF Typed, Contents, Regs
<1> QED BY <1>1 DEF Entry, Line, release_set

LEMMA ResponseTyped ==
  ASSUME Typed, Single, rl_response_to_core
  PROVE  /\ \E w \in Datum, t \in BOOLEAN : response_to_core(w, t)
         /\ at_head /\ ff_core_request # <<>> /\ ff_pending_req' = ff_pending_req
<1>1. Zero \in Datum
  BY Words
<1>2. ff_core_request # <<>> /\ req.addr[3] \in Word
  BY HeadRequest DEF rl_response_to_core, can_respond, may_respond
<1>3. ram_out.data[req.addr[3]] \in Datum
  BY <1>2 DEF Typed, Contents, Block, Data
<1>4. ASSUME fb_hit, ~nc_write
      PROVE  fb[fb_hitindex].data[req.addr[3]] \in Datum /\ fb[fb_hitindex].err \in BOOLEAN
  <2>1. fb_hitindex \in FbIndex
    BY <1>4, HitIndex DEF fb_hit
  <2>2. fb[fb_hitindex] \in Entry
    BY <2>1 DEF Typed, Contents
  <2> QED BY <1>2, <2>2 DEF Entry, Data
<1>5. \E w \in Datum, t \in BOOLEAN : response_to_core(w, t)
  BY <1>1, <1>3, <1>4 DEF rl_response_to_core
<1>6. at_head
  BY DEF rl_response_to_core, can_respond, wr_fault, ram_hit, fb_hit, ram_checked, fb_checked
<1> QED BY <1>2, <1>5, <1>6 DEF rl_response_to_core

LEMMA PutHasRoom ==
  ASSUME Offered, NEW r, put_core_req(r)
  PROVE  /\ Len(ff_core_request) < 2 \/ Len(ff_core_request) <= 1
         /\ ~rg_fence_stall
BY DEF put_core_req, Offered, mv_cache_available

LEMMA TypedStep ==
  ASSUME NoTraps, IInv, [Next]_vars PROVE Typed' /\ Counted'
<1>1. Arrange /\ Counted /\ Single /\ Initiated /\ Offered /\ Typed
  BY TypesOf DEF IInv, Typed, Arrange
<1> SUFFICES Arrange' /\ Counted'
  BY TypesJoinNext DEF Arrange
<1>2. ff_core_request # <<>> => req \in Request
  BY <1>1, HeadRequest
<1>3. CASE rl_response_to_core
  <2>1. PICK w \in Datum, t \in BOOLEAN : response_to_core(w, t)
    BY <1>1, <1>3, ResponseTyped
  <2>2. at_head /\ ff_core_request # <<>>
    BY <1>3 DEF rl_response_to_core, can_respond, wr_fault, ram_hit, fb_hit, ram_checked,
                fb_checked, at_head
  <2>3. offered' \in {"none", "put", "release"} /\ ff_pending_req' = ff_pending_req
    BY <1>3 DEF rl_response_to_core, SameCycle
  <2>4. pipe' = pipe /\ ff_core_request' = Tail(ff_core_request)
    BY <2>1 DEF response_to_core
  <2>5. Len(responses) + Len(ff_core_request) = Len(pipe)
    BY <1>1 DEF Counted
  <2>6. /\ pipe' \in Seq(Request) /\ ff_core_request' \in Seq(Request)
        /\ responses' \in Seq(Answer) /\ ff_write_mem_request' \in Seq(Write)
        /\ posted' \in Seq(Write)
        /\ Contents' /\ Len(pipe') <= 3 /\ Len(ff_core_request') <= 2
        /\ Len(ff_write_mem_request') <= 1 /\ Len(posted') <= 1
        /\ offered' \in {"none", "put", "release"} => Regs'
        /\ Len(responses') = Len(responses) + 1
    BY <1>1, <1>2, <2>1, <2>2, <2>5, TypedResponse
  <2>7. Counted'
    BY <1>1, <2>2, <2>4, <2>6, CountedAnswer
  <2> QED BY <1>1, <2>3, <2>6, <2>7 DEF Arrange, Queues, Bounds
<1>4. CASE rl_fillbuffer_check
  BY <1>1, <1>4, Typed_poll
<1>5. CASE rl_send_memory_request
  <2>1. req \in Request
    BY <1>2, <1>5 DEF rl_send_memory_request, can_send, ram_miss, ram_checked, at_head
  <2> QED BY <1>1, <1>5, <2>1, Typed_send
<1>6. CASE rl_perform_atomic
  BY <1>1, <1>6, Typed_atomic
<1>7. CASE rl_fill_from_memory
  BY <1>1, <1>7, Typed_fill
<1>8. CASE rl_capture_io_response
  <2>1. rg_handling_miss
    <3>1. 1 \in DOMAIN ff_pending_req /\ Head(ff_pending_req) = ff_pending_req[1]
      BY <1>1, <1>8, Queue DEF rl_capture_io_response, Arrange, Queues
    <3> QED BY <1>8, <3>1 DEF rl_capture_io_response, IInv, Fills
  <2>2. at_head
    BY <2>1 DEF IInv, Waits
  <2> QED BY <1>1, <1>2, <1>8, <2>2, Typed_capture
<1>9. CASE rl_release_from_fillbuffer
  BY <1>1, <1>9, HeadEntry, Typed_release
<1>10. CASE rl_perform_replay
  BY <1>1, <1>10, Typed_replay
<1>11. CASE rl_fence_operation
  BY <1>1, <1>11, Typed_fence
<1>12. CASE RetireOther
  BY <1>1, <1>12, Typed_retire
<1>13. CASE ma_perform_store
  BY <1>1, <1>13, Typed_store
<1>14. CASE BusTake
  BY <1>1, <1>14, Typed_bustake
<1>15. CASE BusLand
  BY <1>1, <1>15, Typed_busland
<1>16. CASE Flush
  BY <1>1, <1>16, Typed_flush
<1>17. ASSUME NEW r \in Menu, put_core_req(r) PROVE Arrange' /\ Counted'
  <2>1. Len(ff_core_request) \in Nat
    BY <1>1, Queue DEF Arrange, Queues
  <2>2. Len(ff_core_request) < 2
    BY <1>1, <1>17, <2>1, PutHasRoom
  <2> QED BY <1>1, <1>17, <2>2, Typed_put
<1>18. CASE UNCHANGED vars
  <2>1. UNCHANGED <<core, fifos, ff_write_mem_request, modes, rg_handling_miss,
          rg_release_readphase, rg_performing_replay, rg_polling_mode, rg_globaldirty,
          rams, ram_out, fb, fbPtrs, fill, sbVars, bus, offered>>
    BY <1>18 DEF vars
  <2>2. Queues' /\ Contents' /\ Bounds' /\ Counted'
    BY <1>1, <2>1 DEF Queues, Contents, Bounds, Counted, Arrange, core, bus, fifos, rams, sbVars
  <2>3. Regs'
    BY <1>1, <2>1 DEF Regs, Arrange, core, modes, rams, fill, sbVars, bus, fbPtrs
  <2> QED BY <2>2, <2>3 DEF Arrange
<1> QED BY <1>3, <1>4, <1>5, <1>6, <1>7, <1>8, <1>9, <1>10, <1>11, <1>12, <1>13, <1>14,
           <1>15, <1>16, <1>17, <1>18 DEF Next, Cache, Retire, Bus

-----------------------------------------------------------------------------
(* A store to a device keeps its place at the head of the pipeline.        *)
LEMMA HeadKept ==
  ASSUME NEW S, NEW q \in Seq(S), NEW x \in S, q # <<>>
  PROVE  Append(q, x) # <<>> /\ Head(Append(q, x)) = Head(q)
OBVIOUS

NoDeviceWrite == ~DeviceWrite(ff_write_mem_request)

LEMMA InitiatedFrame ==
  ASSUME Initiated, UNCHANGED <<rg_store_initiated, posted>>,
         ff_write_mem_request' = ff_write_mem_request \/ NoDeviceWrite',
         rg_store_initiated => responses' # <<>> /\ answer' = answer /\ op' = op
  PROVE  Initiated'
<1>1. DeviceWrite(ff_write_mem_request)' => DeviceWrite(ff_write_mem_request)
  BY DEF DeviceWrite, NoDeviceWrite
<1>2. DeviceWrite(posted)' <=> DeviceWrite(posted)
  BY DEF DeviceWrite
<1> QED BY <1>1, <1>2 DEF Initiated, stores

LEMMA InitiatedSame ==
  ASSUME Initiated, UNCHANGED <<pipe, responses, rg_store_initiated, posted>>,
         ff_write_mem_request' = ff_write_mem_request \/ NoDeviceWrite'
  PROVE  Initiated'
<1>1. answer' = answer /\ op' = op
  BY DEF answer, op
<1> QED BY <1>1, InitiatedFrame DEF Initiated

LEMMA InitiatedAnswer ==
  ASSUME Arrange, Initiated, UNCHANGED <<pipe, rg_store_initiated, posted>>, NEW x \in Answer,
         responses' = Append(responses, x),
         ff_write_mem_request' = ff_write_mem_request \/ NoDeviceWrite'
  PROVE  Initiated'
<1>1. responses # <<>> => responses' # <<>> /\ answer' = answer
  BY HeadKept DEF answer, Arrange, Queues
<1>2. op' = op
  BY DEF op
<1> QED BY <1>1, <1>2, InitiatedFrame DEF Initiated

LEMMA InitiatedStep ==
  ASSUME NoTraps, IInv, [Next]_vars PROVE Initiated'
<1>1. Arrange /\ Counted /\ Single /\ Initiated /\ Typed /\ Queues /\ Bounds
  BY TypesOf DEF IInv, Typed, Arrange
<1>2. ASSUME NEW w, NEW t \in BOOLEAN, w \in Datum, response_to_core(w, t) PROVE Initiated'
  <2>1. /\ pipe' = pipe /\ rg_store_initiated' = rg_store_initiated /\ posted' = posted
        /\ ff_write_mem_request' = ff_write_mem_request
        /\ responses' = Append(responses, [word |-> forwarded(w), trap |-> t])
    BY <1>2 DEF response_to_core, bus
  <2>2. [word |-> forwarded(w), trap |-> t] \in Answer
    BY <1>1, <1>2, ForwardedTyped DEF Arrange, Answer
  <2> DEFINE x == [word |-> forwarded(w), trap |-> t]
  <2> HIDE DEF x
  <2>3. x \in Answer /\ responses' = Append(responses, x)
    BY <2>1, <2>2 DEF x
  <2> QED BY <1>1, <2>1, <2>3, InitiatedAnswer
<1>3. CASE rl_response_to_core
  BY <1>1, <1>2, <1>3, ResponseTyped DEF IInv
<1>4. CASE rl_fillbuffer_check
  BY <1>1, <1>4, InitiatedSame DEF rl_fillbuffer_check, core, bus
<1>5. CASE rl_send_memory_request
  BY <1>1, <1>5, InitiatedSame DEF rl_send_memory_request, core, bus
<1>6. CASE rl_perform_atomic
  BY <1>1, <1>6, InitiatedSame DEF rl_perform_atomic, core, bus
<1>7. CASE rl_fill_from_memory
  BY <1>1, <1>7, InitiatedSame DEF rl_fill_from_memory, core, bus
<1>8. CASE rl_capture_io_response
  <2>1. CASE may_respond
    <3>1. mem[Head(ff_pending_req).addr] \in Datum
      <4>1. Head(ff_pending_req) \in Fetch
        BY <1>1, <1>8, Queue DEF rl_capture_io_response, Queues
      <4> QED BY <1>1, <4>1 DEF Fetch, Arrange, Regs
    <3> QED BY <1>2, <1>8, <2>1, <3>1 DEF rl_capture_io_response
  <2>2. CASE ~may_respond
    BY <1>1, <1>8, <2>2, InitiatedSame DEF rl_capture_io_response, core, bus
  <2> QED BY <2>1, <2>2
<1>9. CASE rl_release_from_fillbuffer
  <2>1. UNCHANGED <<pipe, responses, rg_store_initiated, posted>>
    BY <1>9 DEF rl_release_from_fillbuffer, core, bus
  <2>2. ff_write_mem_request' = ff_write_mem_request \/ NoDeviceWrite'
    BY <1>9 DEF rl_release_from_fillbuffer, release_discard, release_read, release_write,
                NoDeviceWrite, DeviceWrite, written_back
  <2> QED BY <1>1, <2>1, <2>2, InitiatedSame
<1>10. CASE rl_perform_replay
  BY <1>1, <1>10, InitiatedSame DEF rl_perform_replay, core, bus
<1>11. CASE rl_fence_operation
  <2>1. UNCHANGED <<pipe, rg_store_initiated, posted>>
    BY <1>11 DEF rl_fence_operation, bus
  <2>2. ff_write_mem_request' = ff_write_mem_request \/ NoDeviceWrite'
    BY <1>11 DEF rl_fence_operation, NoDeviceWrite, DeviceWrite, written_back
  <2>3. [word |-> Zero, trap |-> FALSE] \in Answer
    BY Words DEF Answer
  <2>4. CASE responses' = responses
    BY <1>1, <2>1, <2>2, <2>4, InitiatedSame
  <2>5. CASE responses' = Append(responses, [word |-> Zero, trap |-> FALSE])
    BY <1>1, <2>1, <2>2, <2>3, <2>5, InitiatedAnswer
  <2> QED BY <1>11, <2>4, <2>5 DEF rl_fence_operation
<1>12. CASE RetireOther
  <2>1. ~rg_store_initiated
    BY <1>1, <1>12 DEF RetireOther, Initiated
  <2>2. UNCHANGED <<rg_store_initiated, ff_write_mem_request, posted>>
    BY <1>12 DEF RetireOther, bus
  <2> QED BY <1>1, <2>1, <2>2, InitiatedFrame
<1>13. CASE ma_perform_store
  <2>1. /\ ~rg_store_initiated /\ ff_write_mem_request = <<>> /\ posted' = posted
        /\ responses # <<>> /\ stores(op) /\ ~answer.trap
    BY <1>13 DEF ma_perform_store, mv_commit_store_ready, bus
  <2>2. ~DeviceWrite(posted) /\ ~DeviceWrite(posted)'
    BY <1>1, <2>1 DEF Initiated, DeviceWrite
  <2>3. CASE UNCHANGED <<ff_write_mem_request, rg_store_initiated>>
    BY <1>1, <2>1, <2>3, InitiatedFrame
  <2>4. CASE rg_store_initiated' = TRUE /\ UNCHANGED <<pipe, responses>>
    BY <2>1, <2>2, <2>4 DEF Initiated, stores, op, answer
  <2> QED BY <1>13, <2>3, <2>4 DEF ma_perform_store
<1>14. CASE BusTake
  <2>1. /\ posted' = ff_write_mem_request /\ ff_write_mem_request' = <<>>
        /\ UNCHANGED <<pipe, responses, rg_store_initiated>>
    BY <1>14 DEF BusTake, core
  <2>2. DeviceWrite(posted)' => DeviceWrite(ff_write_mem_request)
    BY <2>1 DEF DeviceWrite
  <2>3. ~DeviceWrite(ff_write_mem_request)'
    BY <2>1 DEF DeviceWrite
  <2> QED BY <1>1, <2>1, <2>2, <2>3 DEF Initiated, stores, op, answer
<1>15. CASE BusLand
  <2>1. posted # <<>> /\ posted' = <<>> /\ ff_write_mem_request' = ff_write_mem_request
    BY <1>15 DEF BusLand
  <2>2. ~DeviceWrite(posted)'
    BY <2>1 DEF DeviceWrite
  <2>3. DeviceWrite(ff_write_mem_request)' <=> DeviceWrite(ff_write_mem_request)
    BY <2>1 DEF DeviceWrite
  <2>4. CASE Head(posted).io
    <3>1. rg_store_initiated' = FALSE
      BY <1>15, <2>4 DEF BusLand
    <3> QED BY <1>1, <2>1, <2>2, <2>3, <2>4, <3>1 DEF Initiated, DeviceWrite
  <2>5. CASE ~Head(posted).io
    <3>1. UNCHANGED <<pipe, responses, rg_store_initiated>>
      BY <1>15, <2>5 DEF BusLand
    <3> QED BY <1>1, <2>2, <2>3, <3>1 DEF Initiated, stores, op, answer
  <2> QED BY <2>4, <2>5
<1>16. CASE Flush
  BY <1>1, <1>16, InitiatedSame DEF Flush, bus
<1>17. ASSUME NEW r \in Menu, put_core_req(r) PROVE Initiated'
  <2>1. /\ UNCHANGED <<responses, ff_write_mem_request, rg_store_initiated, posted>>
        /\ pipe' = Append(pipe, asked(r))
    BY <1>17 DEF put_core_req, bus, asked
  <2>2. asked(r) \in Request
    BY <1>1, <1>17, AskedTyped DEF put_core_req, Arrange
  <2>3. ASSUME rg_store_initiated PROVE op' = op /\ responses # <<>>
    <3>1. responses # <<>>
      BY <1>1, <2>3 DEF Initiated
    <3>2. Len(responses) \in Nat /\ Len(responses) > 0 /\ Len(pipe) \in Nat
          /\ Len(ff_core_request) \in Nat
      BY <1>1, <3>1, Queue DEF Queues
    <3>3. Len(pipe) > 0
      BY <1>1, <3>2 DEF Counted
    <3>4. pipe # <<>>
      BY <1>1, <3>3, Queue DEF Queues
    <3> QED BY <1>1, <2>1, <2>2, <3>1, <3>4, HeadKept DEF op, Queues
  <2>4. answer' = answer
    BY <2>1 DEF answer
  <2> QED BY <1>1, <2>1, <2>3, <2>4, InitiatedFrame
<1>18. CASE UNCHANGED vars
  BY <1>1, <1>18, InitiatedSame DEF vars, core, bus
<1> QED BY <1>3, <1>4, <1>5, <1>6, <1>7, <1>8, <1>9, <1>10, <1>11, <1>12, <1>13, <1>14,
           <1>15, <1>16, <1>17, <1>18 DEF Next, Cache, Retire, Bus

-----------------------------------------------------------------------------
(* A tag check is made when no second request has overtaken the one under  *)
(* check, so what the RAM put out last is for it.                          *)
LEMMA AloneIsLatest ==
  ASSUME Typed, ff_core_request # <<>>, Len(ff_core_request) # 2
  PROVE  latest = req /\ Len(ff_core_request) = 1 /\ Tail(ff_core_request) = <<>>
<1>1. /\ req = ff_core_request[1] /\ Len(ff_core_request) \in Nat
      /\ 1 <= Len(ff_core_request) /\ Len(ff_core_request) <= 2
  BY HeadRequest
<1>2. Len(ff_core_request) = 1
  <2>1. \A n \in Nat : 1 <= n /\ n <= 2 /\ n # 2 => n = 1
    OBVIOUS
  <2> QED BY <1>1, <2>1
<1>3. /\ ff_core_request \in Seq(Request) /\ Tail(ff_core_request) \in Seq(Request)
      /\ Len(Tail(ff_core_request)) = 0
  BY <1>2, Queue DEF Typed, Queues
<1> QED BY <1>1, <1>2, <1>3, Queue DEF latest

LEMMA CheckFresh == IInv => CheckedOutputFresh
<1> SUFFICES ASSUME IInv PROVE CheckedOutputFresh
  OBVIOUS
<1>1. ASSUME ram_checked PROVE ram_out = ram[req.addr[2]]
  <2>1. /\ ff_core_request # <<>> /\ req.access # "fence" /\ ~busy
        /\ ~rg_performing_replay /\ ~rg_release_readphase /\ ~fb_full
    BY <1>1 DEF ram_checked, at_head, busy
  <2>2. latest = req
    BY <2>1, AloneIsLatest DEF IInv, Overtaken
  <2>3. rg_fence_set = 0
    BY <2>1 DEF IInv, FenceLast
  <2>4. ~TakenBack
    BY <2>1 DEF TakenBack
  <2> QED BY <2>1, <2>2, <2>3, <2>4 DEF IInv, Output, latest_set, next_check
<1>2. ASSUME can_fence PROVE ram_out = ram[rg_fence_set]
  <2>1. ff_core_request # <<>> /\ req.access = "fence" /\ fb_empty /\ ~rg_performing_replay
    BY <1>2 DEF can_fence
  <2>2. latest = req
    BY <2>1, AloneIsLatest DEF IInv, FenceLast
  <2>3. ~ReleaseDue
    BY <2>1 DEF ReleaseDue
  <2>4. ~TakenBack /\ ~rg_release_readphase
    BY <2>3 DEF IInv, Output, ReleaseBegun, TakenBack
  <2> QED BY <2>1, <2>2, <2>4 DEF IInv, Output, latest_set, next_check
<1> QED BY <1>1, <1>2 DEF CheckedOutputFresh

(* The numeric form of a line being in one place.                          *)
Holders(l) == {i \in FbIndex : fb[i].valid /\ fb[i].line = l}

LEMMA OneCopyOf == Single => OneCopy
<1> SUFFICES ASSUME Single, NEW l \in Line
    PROVE  Cardinality(Holders(l)) + (IF v_reg_valid[l[2]] /\ ram[l[2]].tag = l[1] THEN 1 ELSE 0) <= 1
  BY DEF OneCopy, Holders
<1>1. CASE Holders(l) = {}
  <2>1. Cardinality(Holders(l)) = 0
    BY <1>1, FS_EmptySet
  <2> QED BY <2>1
<1>2. CASE Holders(l) # {}
  <2>1. PICK i \in Holders(l) : TRUE
    BY <1>2
  <2>2. Holders(l) = {i}
    BY <2>1 DEF Single, Holders
  <2>3. Cardinality(Holders(l)) = 1
    BY <2>2, FS_Singleton
  <2>4. ~(v_reg_valid[l[2]] /\ ram[l[2]].tag = l[1])
    BY <2>1 DEF Single, in_rams, Holders
  <2> QED BY <2>3, <2>4
<1> QED BY <1>1, <1>2

-----------------------------------------------------------------------------
(* Steps on the ring of the fill buffer.                                   *)
LEMMA TailIsFree ==
  ASSUME Typed, Ring, ~fb_full PROVE ~fb[rg_fbtail].valid
<1>1. rg_fbhead \in FbIndex /\ rg_fbtail \in FbIndex /\ rg_fbhead \in Nat /\ rg_fbtail \in Nat
  BY HeadEntry, Shape DEF FbIndex
<1> QED BY <1>1 DEF Ring, between, fb_empty

LEMMA HeadIsValid ==
  ASSUME Typed, Ring, ~fb_empty PROVE fb[rg_fbhead].valid
<1>1. rg_fbhead \in FbIndex /\ rg_fbtail \in FbIndex /\ rg_fbhead \in Nat /\ rg_fbtail \in Nat
  BY HeadEntry, Shape DEF FbIndex
<1> QED BY <1>1 DEF Ring, between, fb_full

LEMMA RingSame ==
  ASSUME Ring, UNCHANGED fbPtrs, \A i \in FbIndex : fb'[i].valid = fb[i].valid
  PROVE  Ring'
<1>1. fb_full' = fb_full /\ fb_empty' = fb_empty
  BY DEF fb_full, fb_empty
<1> QED BY <1>1 DEF Ring, between, fbPtrs

LEMMA RingAlloc ==
  ASSUME Typed, Ring, ~fb_full, rg_fbhead' = rg_fbhead, rg_fbtail' = next_fb(rg_fbtail),
         \A i \in FbIndex : fb'[i].valid <=> (fb[i].valid \/ i = rg_fbtail)
  PROVE  Ring'
<1>1. rg_fbhead \in FbIndex /\ rg_fbtail \in FbIndex
  BY HeadEntry
<1>2. FbSize \in Nat /\ FbSize >= 2 /\ FbIndex = 0..FbSize - 1
  BY Shape DEF FbIndex
<1>3. rg_fbtail' = IF rg_fbtail = FbSize - 1 THEN 0 ELSE rg_fbtail + 1
  BY <1>1, NextFb
<1>4. CASE rg_fbhead = rg_fbtail
  <2>1. \A i \in FbIndex : fb'[i].valid <=> i = rg_fbhead
    BY <1>4 DEF Ring, fb_empty
  <2>2. rg_fbhead' # rg_fbtail'
    BY <1>1, <1>2, <1>3, <1>4
  <2>3. \A i \in FbIndex : between(i)' <=> i = rg_fbhead
    BY <1>1, <1>2, <1>3, <1>4 DEF between
  <2> QED BY <2>1, <2>2, <2>3 DEF Ring
<1>5. CASE rg_fbhead # rg_fbtail
  <2>1. \A i \in FbIndex : fb'[i].valid <=> (between(i) \/ i = rg_fbtail)
    BY <1>5 DEF Ring
  <2>2. CASE rg_fbhead = rg_fbtail'
    <3>1. \A i \in FbIndex : between(i) \/ i = rg_fbtail
      BY <1>1, <1>2, <1>3, <1>5, <2>2 DEF between
    <3> QED BY <2>1, <2>2, <3>1 DEF Ring, fb_full
  <2>3. CASE rg_fbhead # rg_fbtail'
    <3>1. \A i \in FbIndex : between(i)' <=> (between(i) \/ i = rg_fbtail)
      BY <1>1, <1>2, <1>3, <1>5, <2>3 DEF between
    <3> QED BY <2>1, <2>3, <3>1 DEF Ring
  <2> QED BY <2>2, <2>3
<1> QED BY <1>4, <1>5

LEMMA RingFree ==
  ASSUME Typed, Ring, ~fb_empty, rg_fbtail' = rg_fbtail, rg_fbhead' = next_fb(rg_fbhead),
         \A i \in FbIndex : fb'[i].valid <=> (fb[i].valid /\ i # rg_fbhead)
  PROVE  Ring'
<1>1. rg_fbhead \in FbIndex /\ rg_fbtail \in FbIndex
  BY HeadEntry
<1>2. FbSize \in Nat /\ FbSize >= 2 /\ FbIndex = 0..FbSize - 1
  BY Shape DEF FbIndex
<1>3. rg_fbhead' = IF rg_fbhead = FbSize - 1 THEN 0 ELSE rg_fbhead + 1
  BY <1>1, NextFb
<1>4. CASE rg_fbhead = rg_fbtail
  <2>1. \A i \in FbIndex : fb'[i].valid <=> i # rg_fbhead
    BY <1>4 DEF Ring, fb_full
  <2>2. rg_fbhead' # rg_fbtail'
    BY <1>1, <1>2, <1>3, <1>4
  <2>3. \A i \in FbIndex : between(i)' <=> i # rg_fbhead
    BY <1>1, <1>2, <1>3, <1>4 DEF between
  <2> QED BY <2>1, <2>2, <2>3 DEF Ring
<1>5. CASE rg_fbhead # rg_fbtail
  <2>1. \A i \in FbIndex : fb'[i].valid <=> (between(i) /\ i # rg_fbhead)
    BY <1>5 DEF Ring
  <2>2. CASE rg_fbhead' = rg_fbtail
    <3>1. \A i \in FbIndex : between(i) => i = rg_fbhead
      BY <1>1, <1>2, <1>3, <1>5, <2>2 DEF between
    <3> QED BY <2>1, <2>2, <3>1 DEF Ring, fb_empty
  <2>3. CASE rg_fbhead' # rg_fbtail
    <3>1. \A i \in FbIndex : between(i)' <=> (between(i) /\ i # rg_fbhead)
      BY <1>1, <1>2, <1>3, <1>5, <2>3 DEF between
    <3> QED BY <2>1, <2>3, <3>1 DEF Ring
  <2> QED BY <2>2, <2>3
<1> QED BY <1>4, <1>5

-----------------------------------------------------------------------------
(* An answer, by the response rule or with the word of a device.           *)
Answers == rl_response_to_core \/ (rl_capture_io_response /\ may_respond)

LEMMA HitInRams ==
  ASSUME IInv, ram_checked, ram_match
  PROVE  in_rams(line(req.addr)) /\ fb_hits = {} /\ ~isIO(req.addr)
<1>1. ff_core_request # <<>> /\ ram_out = ram[req.addr[2]]
  BY CheckFresh DEF CheckedOutputFresh, ram_checked, at_head
<1>2. req.addr[2] \in Set
  BY <1>1, HeadRequest DEF IInv
<1>3. in_rams(line(req.addr))
  BY <1>1 DEF ram_match, in_rams, line
<1>4. fb_hits = {}
  BY <1>3 DEF IInv, Single, fb_hits
<1>5. ~isIO(req.addr)
  BY <1>1, <1>2 DEF IInv, Single, ram_match, isIO
<1> QED BY <1>3, <1>4, <1>5

LEMMA MissOutOfRams ==
  ASSUME IInv, ram_checked, ~ram_match PROVE ~in_rams(line(req.addr))
<1>1. ram_out = ram[req.addr[2]]
  BY CheckFresh DEF CheckedOutputFresh
<1> QED BY <1>1 DEF ram_match, in_rams, line

(* A fill of the line of the request that waits is the last one under way. *)
LEMMA NoMissNoDevice ==
  ASSUME IInv, ~rg_handling_miss
  PROVE  /\ Len(ff_pending_req) \in Nat /\ Len(ff_pending_req) <= 1
         /\ \A k \in DOMAIN ff_pending_req : ~ff_pending_req[k].io_request
<1>1. Len(ff_pending_req) \in Nat /\ Len(ff_pending_req) <= 2
  BY Queue, TypesOf DEF IInv, Typed, Queues, Bounds
<1>2. Len(ff_pending_req) # 2 /\ \A k \in DOMAIN ff_pending_req : ~ff_pending_req[k].io_request
  BY DEF IInv, Fills
<1>3. \A n \in Nat : n <= 2 /\ n # 2 => n <= 1
  OBVIOUS
<1> QED BY <1>1, <1>2, <1>3

LEMMA HitNoDevice ==
  ASSUME IInv, fb_hit, ~ram_hit
  PROVE  /\ Len(ff_pending_req) \in Nat /\ Len(ff_pending_req) <= 1
         /\ \A k \in DOMAIN ff_pending_req : ~ff_pending_req[k].io_request
<1>1. CASE ~rg_handling_miss
  BY <1>1, NoMissNoDevice
<1>2. CASE rg_handling_miss
  <2>1. ~nc_write /\ fb_hits # {} /\ word_hit /\ at_head
    BY <1>2 DEF IInv, Waits, fb_hit, fb_checked
  <2>2. /\ fb_hitindex \in FbIndex /\ fb_hits = {fb_hitindex}
        /\ fb[fb_hitindex].valid /\ fb[fb_hitindex].line = line(req.addr)
    BY <2>1, HitIndex DEF IInv
  <2>3. ~isIO(req.addr)
    BY <2>2 DEF IInv, Single, isIO, line
  <2>4. \A k \in DOMAIN ff_pending_req : ~ff_pending_req[k].io_request
    BY <2>3 DEF IInv, Fills
  <2>5. /\ Len(ff_pending_req) \in Nat /\ Len(ff_pending_req) <= 2
        /\ DOMAIN ff_pending_req = 1..Len(ff_pending_req)
        /\ \A k \in DOMAIN ff_pending_req : ff_pending_req[k] \in Fetch
        /\ ff_pending_req # <<>> => Head(ff_pending_req) = ff_pending_req[1]
    BY Queue, TypesOf DEF IInv, Typed, Queues, Bounds
  <2>6. Len(ff_pending_req) # 2
    <3> SUFFICES ASSUME Len(ff_pending_req) = 2 PROVE FALSE
      OBVIOUS
    <3>1. 1 \in DOMAIN ff_pending_req /\ 2 \in DOMAIN ff_pending_req /\ ff_pending_req # <<>>
      BY <2>5
    <3>2. /\ ff_pending_req[2].addr = req.addr
          /\ line(ff_pending_req[1].addr) # line(req.addr)
      BY DEF IInv, Fills
    <3> DEFINE p == ff_pending_req[1]
               q == ff_pending_req[2]
    <3>3. /\ fb[p.fbindex].line = line(p.addr)
          /\ fb[q.fbindex].valid /\ ~fb[q.fbindex].line_valid /\ fb[q.fbindex].line = line(q.addr)
          /\ q.fbindex \in FbIndex
      BY <2>4, <2>5, <3>1 DEF IInv, Fills, Fetch
    <3>4. q.fbindex = fb_hitindex
      BY <2>2, <3>2, <3>3 DEF IInv, Single
    <3>5. p.fbindex # fb_hitindex
      BY <2>2, <3>2, <3>3
    <3> QED BY <2>1, <2>5, <3>1, <3>3, <3>4, <3>5 DEF word_hit
  <2>7. \A n \in Nat : n <= 2 /\ n # 2 => n <= 1
    OBVIOUS
  <2> QED BY <2>4, <2>5, <2>6, <2>7
<1> QED BY <1>1, <1>2

LEMMA DeviceIsLast ==
  ASSUME IInv, rl_capture_io_response
  PROVE  /\ ff_pending_req' = <<>> /\ Len(ff_pending_req) = 1
         /\ rg_handling_miss /\ at_head /\ ~nc_write /\ isIO(req.addr) /\ fb_hits = {}
<1>1. ff_pending_req # <<>> /\ Head(ff_pending_req).io_request
      /\ ff_pending_req' = Tail(ff_pending_req)
  BY DEF rl_capture_io_response
<1>2. /\ Len(ff_pending_req) \in Nat /\ DOMAIN ff_pending_req = 1..Len(ff_pending_req)
      /\ Len(ff_pending_req) > 0 /\ Head(ff_pending_req) = ff_pending_req[1]
      /\ Tail(ff_pending_req) \in Seq(Fetch) /\ Len(Tail(ff_pending_req)) = Len(ff_pending_req) - 1
  BY <1>1, Queue DEF IInv, Typed, Queues
<1>3. 1 \in DOMAIN ff_pending_req
  BY <1>2
<1>4. /\ Len(ff_pending_req) = 1 /\ rg_handling_miss /\ isIO(ff_pending_req[1].addr)
      /\ ff_pending_req[1].addr = req.addr
  BY <1>1, <1>2, <1>3 DEF IInv, Fills
<1>5. ff_pending_req' = <<>>
  <2>1. Len(Tail(ff_pending_req)) = 0
    BY <1>2, <1>4
  <2> QED BY <1>1, <1>2, <2>1, Queue
<1>6. at_head /\ ~nc_write
  BY <1>4 DEF IInv, Waits
<1>7. fb_hits = {}
  BY <1>4 DEF IInv, Single, fb_hits, isIO, line
<1> QED BY <1>4, <1>5, <1>6, <1>7

(* What an answer does to the structure.                                   *)
MovesLine ==
  /\ ~fb_full /\ in_rams(line(req.addr)) /\ ~isIO(req.addr) /\ fb_hits = {} /\ ~busy
  /\ fb' = placed /\ rg_fbtail' = next_fb(rg_fbtail)
  /\ v_reg_valid' = [v_reg_valid EXCEPT ![req.addr[2]] = FALSE]
  /\ v_reg_dirty' = [v_reg_dirty EXCEPT ![req.addr[2]] = FALSE]
  /\ ~rg_release_readphase
MovesNothing == UNCHANGED <<fb, rg_fbtail, v_reg_valid, v_reg_dirty>>
Remembers ==
  /\ sb'[rg_tail].valid /\ rg_tail' = 1 - rg_tail /\ ~rg_release_readphase'
  /\ ~sb_empty \/ sb' # sb
RemembersNothing == UNCHANGED <<sb, rg_tail, rg_sb_busy, rg_release_readphase>>

LEMMA AnswerEffects ==
  ASSUME NoTraps, IInv, Answers
  PROVE  /\ at_head /\ ff_core_request # <<>> /\ ~rg_sb_busy /\ ~sb_full
         /\ ff_core_request' = Tail(ff_core_request)
         /\ ~rg_handling_miss' /\ ~rg_polling_mode'
         /\ Len(ff_pending_req') \in Nat /\ Len(ff_pending_req') <= 1
         /\ ff_pending_req' = ff_pending_req \/ ff_pending_req' = <<>>
         /\ \A k \in DOMAIN ff_pending_req' : ~ff_pending_req'[k].io_request
         /\ (MovesLine /\ Remembers) \/ MovesNothing
         /\ Remembers \/ RemembersNothing
         /\ UNCHANGED <<modes, rg_performing_replay, ram, ram_out, rg_fbhead,
                        ff_write_mem_request>>
<1>1. /\ ff_core_request # <<>> /\ ~sb_full /\ ~rg_sb_busy
  BY DEF Answers, rl_response_to_core, can_respond, may_respond
<1>2. at_head
  BY DeviceIsLast DEF Answers, rl_response_to_core, can_respond, wr_fault, ram_hit, fb_hit,
                      ram_checked, fb_checked
<1>3. ~wr_fault
  <2>1. 1 \in DOMAIN ff_core_request /\ req = ff_core_request[1]
    <3>1. ff_core_request \in Seq(Request)
      BY DEF IInv, Typed, Queues
    <3> QED BY <1>1, <3>1, Queue DEF req
  <2> QED BY <2>1 DEF IInv, Counted, wr_fault
<1>4. \/ rl_response_to_core /\ ff_pending_req' = ff_pending_req /\ (ram_hit \/ (fb_hit /\ ~ram_hit))
      \/ rl_capture_io_response /\ ff_pending_req' = <<>> /\ rg_handling_miss /\ fb_hits = {}
         /\ ~nc_write
  BY <1>3, DeviceIsLast DEF Answers, rl_response_to_core, can_respond
<1>5. ram_hit => /\ ~busy /\ ~fb_full /\ ~rg_release_readphase /\ ram_checked /\ ram_match
  BY DEF ram_hit, ram_checked, busy
<1>6. ram_hit => in_rams(line(req.addr)) /\ fb_hits = {} /\ ~isIO(req.addr)
  BY <1>5, HitInRams
<1>7. /\ Len(ff_pending_req') \in Nat /\ Len(ff_pending_req') <= 1
      /\ \A k \in DOMAIN ff_pending_req' : ~ff_pending_req'[k].io_request
  <2>1. CASE rl_response_to_core /\ ff_pending_req' = ff_pending_req /\ ram_hit
    BY <1>5, <2>1, NoMissNoDevice DEF busy
  <2>2. CASE rl_response_to_core /\ ff_pending_req' = ff_pending_req /\ fb_hit /\ ~ram_hit
    BY <2>2, HitNoDevice
  <2>3. CASE ff_pending_req' = <<>>
    <3>1. Len(<<>>) = 0 /\ DOMAIN <<>> = {}
      OBVIOUS
    <3> QED BY <2>3, <3>1
  <2> QED BY <1>4, <2>1, <2>2, <2>3
<1>8. polling_after = FALSE
  <2>1. fb_checked
    BY <1>1, <1>2 DEF fb_checked
  <2>2. CASE nc_write
    BY <2>1, <2>2 DEF IInv, Waits, polling_after, Typed, TypeOK
  <2>3. CASE ~nc_write
    <3>1. fb_hits = {} \/ word_hit
      BY <1>4, <1>6, <2>3 DEF fb_hit
    <3> QED BY <2>1, <2>3, <3>1 DEF polling_after
  <2> QED BY <2>2, <2>3
<1>9. PICK w : \E t \in BOOLEAN : response_to_core(w, t) /\ (move => ~t)
  <2>1. CASE rl_response_to_core
    <3>1. CASE ram_hit /\ response_to_core(ram_out.data[req.addr[3]], FALSE)
      BY <3>1
    <3>2. CASE nc_write /\ ~ram_hit /\ response_to_core(Zero, FALSE)
      BY <3>2
    <3>3. CASE /\ fb_hit /\ ~nc_write /\ ~ram_hit
               /\ response_to_core(fb[fb_hitindex].data[req.addr[3]], fb[fb_hitindex].err)
      <4>1. fb_hitindex \in FbIndex
        BY <3>3, HitIndex DEF fb_hit, IInv
      <4>2. fb[fb_hitindex].err \in BOOLEAN
        BY <4>1 DEF IInv, Typed, Contents, Entry
      <4> QED BY <3>3, <4>2 DEF move
    <3> QED BY <1>3, <2>1, <3>1, <3>2, <3>3 DEF rl_response_to_core
  <2>2. CASE rl_capture_io_response /\ may_respond
    <3>1. response_to_core(mem[Head(ff_pending_req).addr], FALSE)
      BY <2>2 DEF rl_capture_io_response
    <3> QED BY <3>1
  <2> QED BY <2>1, <2>2 DEF Answers
<1>11. PICK t \in BOOLEAN : response_to_core(w, t) /\ (move => ~t)
  BY <1>9
<1>10. /\ ff_core_request' = Tail(ff_core_request)
       /\ ~rg_handling_miss' /\ ~rg_polling_mode'
       /\ UNCHANGED <<modes, rg_performing_replay, ram, ram_out, rg_fbhead,
                      ff_write_mem_request>>
  BY <1>8, <1>11 DEF response_to_core
<1>12. sb \in [Slot -> Store] /\ rg_tail \in Slot /\ 1 - rg_tail \in Slot
  BY TypesOf DEF IInv, Typed, Contents, Regs, Slot
<1>13. Remembers \/ (RemembersNothing /\ (req.access = "load" \/ t))
  <2>1. CASE req.access # "load" /\ ~t
    <3> DEFINE i == IF move THEN rg_fbtail ELSE IF fb_hits # {} THEN fb_hitindex ELSE 0
               e == [valid |-> TRUE, addr |-> req.addr, data |-> req.data, mask |-> req.mask,
                     epoch |-> req.epoch, io |-> isIO(req.addr), operand |-> forwarded(w),
                     fbindex |-> i]
    <3>1. /\ sb' = [sb EXCEPT ![rg_tail] = e] /\ rg_tail' = 1 - rg_tail
          /\ rg_release_readphase' = FALSE
      BY <1>11, <2>1 DEF response_to_core, move
    <3>2. e.valid
      OBVIOUS
    <3> HIDE DEF e
    <3>3. sb'[rg_tail].valid
      BY <1>12, <3>1, <3>2
    <3>4. ~sb_empty \/ sb' # sb
      BY <1>12, <3>3 DEF sb_empty
    <3> QED BY <3>1, <3>3, <3>4 DEF Remembers
  <2>2. CASE ~(req.access # "load" /\ ~t)
    BY <1>11, <2>2 DEF response_to_core, RemembersNothing
  <2> QED BY <2>1, <2>2
<1>14. MovesNothing \/ (MovesLine /\ Remembers)
  <2>1. CASE move
    <3>1. Remembers
      BY <1>11, <1>13, <2>1 DEF move
    <3>2. /\ fb' = placed /\ rg_fbtail' = next_fb(rg_fbtail)
          /\ v_reg_valid' = [v_reg_valid EXCEPT ![req.addr[2]] = FALSE]
          /\ v_reg_dirty' = [v_reg_dirty EXCEPT ![req.addr[2]] = FALSE]
      BY <1>11, <2>1 DEF response_to_core, move, placed
    <3> QED BY <1>5, <1>6, <2>1, <3>1, <3>2 DEF MovesLine, Remembers, move
  <2>2. CASE ~move
    BY <1>11, <2>2 DEF response_to_core, move, MovesNothing
  <2> QED BY <2>1, <2>2
<1>15. ff_pending_req' = ff_pending_req \/ ff_pending_req' = <<>>
  BY <1>4
<1> QED BY <1>1, <1>2, <1>7, <1>10, <1>13, <1>14, <1>15

-----------------------------------------------------------------------------
(* The structure is kept: entries that an action leaves as they were, and  *)
(* a new entry at the tail.                                                *)
SameEntry(i) ==
  /\ fb'[i].valid = fb[i].valid /\ fb'[i].line_valid = fb[i].line_valid
  /\ fb'[i].line = fb[i].line
NewEntry(l) ==
  /\ ~fb_full /\ rg_fbhead' = rg_fbhead /\ rg_fbtail' = next_fb(rg_fbtail)
  /\ fb'[rg_fbtail].valid /\ fb'[rg_fbtail].line = l
  /\ \A i \in FbIndex : i # rg_fbtail => fb'[i] = fb[i]

LEMMA AllocatedAt ==
  ASSUME Typed, NEW l, NEW d, NEW b \in BOOLEAN, NEW c,
         fb' = [fb EXCEPT ![rg_fbtail] = allocated(l, d, b, c)]
  PROVE  /\ fb'[rg_fbtail].valid /\ fb'[rg_fbtail].line = l /\ fb'[rg_fbtail].line_valid = b
         /\ fb'[rg_fbtail].err = FALSE
         /\ \A i \in FbIndex : i # rg_fbtail => fb'[i] = fb[i]
<1>1. fb \in [FbIndex -> Entry] /\ rg_fbtail \in FbIndex
  BY HeadEntry DEF Typed, Contents
<1> DEFINE e == allocated(l, d, b, c)
<1>2. e.valid /\ e.line = l /\ e.line_valid = b /\ e.err = FALSE
  BY DEF allocated
<1> HIDE DEF e
<1> QED BY <1>1, <1>2 DEF e

LEMMA RingNew ==
  ASSUME Typed, Ring, NEW l, NewEntry(l) PROVE Ring' /\ ~fb[rg_fbtail].valid
<1>1. ~fb[rg_fbtail].valid
  BY TailIsFree DEF NewEntry
<1>2. \A i \in FbIndex : fb'[i].valid <=> (fb[i].valid \/ i = rg_fbtail)
  BY DEF NewEntry
<1> QED BY <1>1, <1>2, RingAlloc DEF NewEntry

LEMMA SingleSame ==
  ASSUME Single, UNCHANGED <<v_reg_valid, ram>>,
         \A i \in FbIndex : fb'[i].valid = fb[i].valid /\ fb'[i].line = fb[i].line
  PROVE  Single'
BY DEF Single, in_rams

(* The entry at the tail is of a line that was in no other entry, nor is   *)
(* it in the RAMs any more.                                                *)
LEMMA SingleNew ==
  ASSUME Typed, Ring, Single, NEW l \in Line, NewEntry(l), l[1] \notin IoTag,
         \A i \in FbIndex : fb[i].valid => fb[i].line # l,
         ram' = ram, ~in_rams(l)', \A s \in Set : v_reg_valid'[s] => v_reg_valid[s]
  PROVE  Single'
<1>1. ~fb[rg_fbtail].valid
  BY RingNew
<1>2. \A i \in FbIndex : fb'[i].valid =>
        \/ i = rg_fbtail /\ fb'[i].line = l
        \/ i # rg_fbtail /\ fb[i].valid /\ fb'[i].line = fb[i].line /\ fb[i].line # l
  BY DEF NewEntry
<1>3. \A i \in FbIndex : fb[i].valid => fb[i].line \in Line /\ fb[i].line[2] \in Set
  BY DEF Typed, Contents, Entry, Line
<1>4. \A i, j \in FbIndex : fb'[i].valid /\ fb'[j].valid /\ fb'[i].line = fb'[j].line => i = j
  BY <1>2 DEF Single
<1>5. ASSUME NEW i \in FbIndex, fb'[i].valid
      PROVE  fb'[i].line[1] \notin IoTag /\ ~in_rams(fb[i].line)'
  <2>1. CASE i = rg_fbtail /\ fb'[i].line = l
    BY <2>1 DEF in_rams
  <2>2. CASE i # rg_fbtail /\ fb[i].valid /\ fb'[i].line = fb[i].line
    <3>1. fb[i].line \in Line /\ fb[i].line[2] \in Set
      BY <1>3, <2>2
    <3>2. ~in_rams(fb[i].line) /\ fb[i].line[1] \notin IoTag
      BY <2>2 DEF Single
    <3> QED BY <2>2, <3>1, <3>2 DEF in_rams
  <2> QED BY <1>2, <1>5, <2>1, <2>2
<1>6. \A s \in Set : v_reg_valid'[s] => ram'[s].tag \notin IoTag
  BY DEF Single
<1> QED BY <1>4, <1>5, <1>6 DEF Single, in_rams

(* A fill keeps its entry: no entry of a fill is taken or freed.           *)
Filling(p) ==
  /\ fb[p.fbindex].valid /\ ~fb[p.fbindex].line_valid /\ fb[p.fbindex].line = line(p.addr)
LEMMA FillsSame ==
  ASSUME Typed, Fills, ff_pending_req' = ff_pending_req,
         \A i \in FbIndex : fb[i].valid /\ ~fb[i].line_valid => SameEntry(i),
         rg_handling_miss => rg_handling_miss' /\ req' = req
  PROVE  Fills'
<1>1. \A k \in DOMAIN ff_pending_req : ff_pending_req[k] \in Fetch
  BY Queue DEF Typed, Queues
<1>2. \A k \in DOMAIN ff_pending_req : ff_pending_req[k].fbindex \in FbIndex
  BY <1>1 DEF Fetch
<1> QED BY <1>2 DEF Fills, SameEntry, isIO

Structure == Ring /\ Single /\ Fills

LEMMA StructureSame ==
  ASSUME Typed, Structure, UNCHANGED <<rg_fbhead, rg_fbtail, v_reg_valid, ram, ff_pending_req>>,
         \A i \in FbIndex : SameEntry(i),
         rg_handling_miss => rg_handling_miss' /\ req' = req
  PROVE  Structure'
<1>1. Ring'
  BY RingSame DEF Structure, SameEntry, fbPtrs
<1>2. Single'
  BY SingleSame DEF Structure, SameEntry
<1>3. Fills'
  BY FillsSame DEF Structure
<1> QED BY <1>1, <1>2, <1>3 DEF Structure

LEMMA FillsLeft ==
  ASSUME Typed, Fills, Len(ff_pending_req') \in Nat, Len(ff_pending_req') <= 1,
         ff_pending_req' = ff_pending_req \/ ff_pending_req' = <<>>,
         \A k \in DOMAIN ff_pending_req' : ~ff_pending_req'[k].io_request,
         \A i \in FbIndex : fb[i].valid /\ ~fb[i].line_valid => SameEntry(i)
  PROVE  Fills'
<1>1. \A k \in DOMAIN ff_pending_req : ff_pending_req[k] \in Fetch
  BY Queue DEF Typed, Queues
<1>2. \A k \in DOMAIN ff_pending_req : ff_pending_req[k].fbindex \in FbIndex
  BY <1>1 DEF Fetch
<1>3. Len(ff_pending_req') # 2
  <2>1. \A n \in Nat : n <= 1 => n # 2
    OBVIOUS
  <2> QED BY <2>1
<1>4. ASSUME NEW k \in DOMAIN ff_pending_req'
      PROVE  /\ k \in DOMAIN ff_pending_req /\ ff_pending_req'[k] = ff_pending_req[k]
  <2>1. DOMAIN <<>> = {}
    OBVIOUS
  <2> QED BY <1>4, <2>1
<1>5. ASSUME NEW k \in DOMAIN ff_pending_req'
      PROVE  LET p == ff_pending_req'[k] IN
             /\ ~p.io_request /\ ~isIO(p.addr)
             /\ fb'[p.fbindex].valid /\ ~fb'[p.fbindex].line_valid
             /\ fb'[p.fbindex].line = line(p.addr)
  <2> DEFINE p == ff_pending_req[k]
  <2>1. /\ ~p.io_request /\ ~isIO(p.addr)
        /\ fb[p.fbindex].valid /\ ~fb[p.fbindex].line_valid
        /\ fb[p.fbindex].line = line(p.addr) /\ p.fbindex \in FbIndex
    BY <1>2, <1>4, <1>5 DEF Fills
  <2>2. SameEntry(p.fbindex)
    BY <2>1
  <2> HIDE DEF p
  <2>3. fb'[p.fbindex].valid /\ ~fb'[p.fbindex].line_valid
        /\ fb'[p.fbindex].line = line(p.addr)
    BY <2>1, <2>2 DEF SameEntry
  <2> QED BY <1>4, <2>1, <2>3 DEF p
<1> QED BY <1>3, <1>5 DEF Fills

LEMMA StructureAnswer ==
  ASSUME NoTraps, IInv, Answers PROVE Structure'
<1>1. Typed /\ Ring /\ Single /\ Fills
  BY DEF IInv
<1>2. /\ ff_core_request # <<>>
      /\ Len(ff_pending_req') \in Nat /\ Len(ff_pending_req') <= 1
      /\ ff_pending_req' = ff_pending_req \/ ff_pending_req' = <<>>
      /\ \A k \in DOMAIN ff_pending_req' : ~ff_pending_req'[k].io_request
      /\ MovesLine \/ MovesNothing
      /\ UNCHANGED <<ram, rg_fbhead>>
  BY AnswerEffects
<1>3. CASE MovesNothing
  <2>1. \A i \in FbIndex : SameEntry(i)
    BY <1>3 DEF MovesNothing, SameEntry
  <2>2. Ring'
    BY <1>1, <1>2, <1>3, <2>1, RingSame DEF MovesNothing, SameEntry, fbPtrs
  <2>3. Single'
    BY <1>1, <1>2, <1>3, <2>1, SingleSame DEF MovesNothing, SameEntry
  <2>4. Fills'
    BY <1>1, <1>2, <2>1, FillsLeft
  <2> QED BY <2>2, <2>3, <2>4 DEF Structure
<1>4. CASE MovesLine
  <2> DEFINE l == line(req.addr)
  <2>1. /\ l \in Line /\ l[1] = req.addr[1] /\ l[2] = req.addr[2] /\ l[2] \in Set
    BY <1>1, <1>2, HeadRequest DEF line
  <2>2. NewEntry(l) /\ ~fb[rg_fbtail].valid
    <3>1. /\ fb'[rg_fbtail].valid /\ fb'[rg_fbtail].line = l
          /\ \A i \in FbIndex : i # rg_fbtail => fb'[i] = fb[i]
      BY <1>1, <1>4, AllocatedAt DEF MovesLine, placed
    <3>2. NewEntry(l)
      BY <1>2, <1>4, <3>1 DEF MovesLine, NewEntry
    <3> QED BY <1>1, <3>2, RingNew
  <2>3. Ring'
    BY <1>1, <2>2, RingNew
  <2>4. v_reg_valid \in [Set -> BOOLEAN]
    BY <1>1 DEF Typed, TypeOK
  <2>5. /\ ~v_reg_valid'[l[2]] /\ \A s \in Set : v_reg_valid'[s] => v_reg_valid[s]
    BY <1>4, <2>1, <2>4 DEF MovesLine
  <2>6. /\ l[1] \notin IoTag /\ \A i \in FbIndex : fb[i].valid => fb[i].line # l
    BY <1>4, <2>1 DEF MovesLine, isIO, fb_hits
  <2>7. Single'
    <3> HIDE DEF l
    <3> QED BY <1>1, <1>2, <2>1, <2>2, <2>5, <2>6, SingleNew DEF in_rams
  <2>8. \A i \in FbIndex : fb[i].valid /\ ~fb[i].line_valid => SameEntry(i)
    BY <2>2 DEF NewEntry, SameEntry
  <2>9. Fills'
    BY <1>1, <1>2, <2>8, FillsLeft
  <2> QED BY <2>3, <2>7, <2>9 DEF Structure
<1> QED BY <1>2, <1>3, <1>4

-----------------------------------------------------------------------------
(* What waits behind the request that is answered.                         *)
LEMMA QueueOne ==
  ASSUME NEW S, NEW q \in Seq(S), Len(q) = 1
  PROVE  q # <<>> /\ Head(q) = q[1] /\ 1 \in DOMAIN q
OBVIOUS

LEMMA TailRequests ==
  ASSUME Typed, ff_core_request # <<>>, ff_core_request' = Tail(ff_core_request)
  PROVE  \/ ff_core_request' = <<>> /\ Len(ff_core_request) = 1 /\ latest = req
            /\ Len(ff_core_request') = 0
         \/ /\ Len(ff_core_request) = 2 /\ Len(ff_core_request') = 1
            /\ ff_core_request' # <<>> /\ latest' = latest /\ req' = latest
<1>1. /\ ff_core_request \in Seq(Request) /\ Len(ff_core_request) \in Nat
      /\ 1 <= Len(ff_core_request) /\ Len(ff_core_request) <= 2
  BY HeadRequest DEF Typed, Queues
<1>2. CASE Len(ff_core_request) # 2
  <2>1. Len(<<>>) = 0
    OBVIOUS
  <2> QED BY <1>2, <2>1, AloneIsLatest
<1>3. CASE Len(ff_core_request) = 2
  <2>1. /\ ff_core_request' \in Seq(Request) /\ Len(ff_core_request') = 1
        /\ ff_core_request'[1] = ff_core_request[2]
    <3>1. ASSUME NEW q \in Seq(Request), Len(q) = 2
          PROVE  Len(Tail(q)) = 1 /\ Tail(q)[1] = q[2] /\ Tail(q) \in Seq(Request)
      <4>1. /\ q # <<>> /\ Tail(q) \in Seq(Request) /\ Len(Tail(q)) = 1
            /\ \A k \in DOMAIN Tail(q) : Tail(q)[k] = q[k + 1]
        BY <3>1, Queue
      <4>2. 1 \in DOMAIN Tail(q)
        BY <4>1, QueueOne
      <4> QED BY <4>1, <4>2
    <3> QED BY <1>1, <1>3, <3>1
  <2>2. ff_core_request' # <<>> /\ Head(ff_core_request') = ff_core_request'[1]
    <3>1. ASSUME NEW q \in Seq(Request), Len(q) = 1 PROVE q # <<>> /\ Head(q) = q[1]
      BY <3>1, QueueOne
    <3> QED BY <2>1, <3>1
  <2>3. latest' = latest /\ req' = latest
    BY <1>3, <2>1, <2>2 DEF latest, req
  <2> QED BY <1>3, <2>1, <2>2, <2>3
<1> QED BY <1>2, <1>3

Order == Waits /\ Overtaken /\ FenceLast /\ Output

LEMMA OrderAnswer ==
  ASSUME NoTraps, IInv, Answers PROVE Order'
<1>1. Typed /\ Ring /\ Single /\ Fills /\ Waits /\ Overtaken /\ FenceLast /\ Output
  BY DEF IInv
<1>2. /\ at_head /\ ff_core_request # <<>> /\ ~rg_sb_busy /\ ~sb_full
      /\ ff_core_request' = Tail(ff_core_request)
      /\ ~rg_handling_miss' /\ ~rg_polling_mode'
      /\ (MovesLine /\ Remembers) \/ MovesNothing
      /\ Remembers \/ RemembersNothing
      /\ UNCHANGED <<modes, rg_performing_replay, ram, ram_out, rg_fbhead,
                     ff_write_mem_request>>
  BY AnswerEffects
<1>3. \/ ff_core_request' = <<>> /\ Len(ff_core_request) = 1 /\ latest = req
         /\ Len(ff_core_request') = 0
      \/ /\ Len(ff_core_request) = 2 /\ Len(ff_core_request') = 1
         /\ ff_core_request' # <<>> /\ latest' = latest /\ req' = latest
  BY <1>1, <1>2, TailRequests
<1>4. UNCHANGED <<rg_fence_stall, rg_recent_req, rg_fence_set>>
  BY <1>2 DEF modes
<1>5. rg_tail \in Slot /\ 1 - (1 - rg_tail) = rg_tail
  BY <1>1, TypesOf DEF Regs, Slot
<1>6. Waits'
  <2>1. rg_sb_busy' => sb'[1 - rg_tail'].valid
    BY <1>2, <1>5 DEF Remembers, RemembersNothing
  <2> QED BY <1>2, <2>1 DEF Waits
<1>7. Overtaken'
  BY <1>3 DEF Overtaken
<1>8. rg_fence_set = 0 /\ rg_fence_set' = 0 /\ req.access # "fence"
  BY <1>1, <1>2, <1>4 DEF FenceLast, at_head
<1>9. FenceLast'
  BY <1>1, <1>2, <1>3, <1>4, <1>8 DEF FenceLast
<1>10. MovesLine => ff_core_request' = <<>>
  BY <1>1, <1>3 DEF MovesLine, Overtaken
<1>11. CASE MovesNothing
  <2>1. /\ ReleaseDue' = ReleaseDue /\ fb_full' = fb_full /\ release_set' = release_set
    BY <1>2, <1>11 DEF MovesNothing, ReleaseDue, fb_full, fb_empty, release_set, victim_dirty
  <2>2. rg_release_readphase' => rg_release_readphase
    BY <1>2 DEF Remembers, RemembersNothing
  <2>3. ReleaseBegun'
    BY <1>1, <1>2, <1>4, <2>1, <2>2 DEF Output, ReleaseBegun
  <2>4. ASSUME ff_core_request' # <<>>
        PROVE  /\ rg_recent_req' = latest_set'
               /\ (~rg_performing_replay' /\ ~rg_release_readphase') =>
                     ram_out' = ram'[next_check'] \/ TakenBack'
    <3>1. rg_recent_req' = latest_set' /\ next_check' = next_check
      BY <1>1, <1>2, <1>3, <1>4, <2>4 DEF Output, latest_set, next_check
    <3>2. ASSUME ~rg_performing_replay', ~rg_release_readphase'
          PROVE  ram_out' = ram'[next_check'] \/ TakenBack'
      <4>1. CASE rg_release_readphase
        <5>1. ReleaseDue /\ (fb_full \/ rg_fence_stall)
          BY <1>1, <1>2, <4>1 DEF Output, ReleaseBegun
        <5>2. rg_fence_stall => req'.access = "fence"
          BY <1>1, <1>3, <2>4 DEF FenceLast
        <5> QED BY <1>4, <2>1, <5>1, <5>2 DEF TakenBack
      <4>2. CASE ~rg_release_readphase
        <5>1. ram_out = ram[next_check] \/ TakenBack
          BY <1>1, <1>2, <3>2, <4>2 DEF Output
        <5>2. TakenBack => TakenBack'
          BY <1>8, <2>1 DEF TakenBack
        <5> QED BY <1>2, <3>1, <5>1, <5>2
      <4> QED BY <4>1, <4>2
    <3> QED BY <3>1, <3>2
  <2>5. Output'
    BY <2>3, <2>4 DEF Output
  <2> QED BY <1>6, <1>7, <1>9, <2>5 DEF Order
<1>12. CASE MovesLine /\ Remembers
  <2>1. ~rg_release_readphase' /\ ff_core_request' = <<>>
    BY <1>10, <1>12 DEF Remembers
  <2>2. Output'
    BY <2>1 DEF Output, ReleaseBegun
  <2> QED BY <1>6, <1>7, <1>9, <2>2 DEF Order
<1> QED BY <1>2, <1>11, <1>12

LEMMA OfferedAnswer ==
  ASSUME NoTraps, IInv, Answers PROVE Offered'
<1>1. Typed /\ Ring /\ Single /\ Fills /\ Waits /\ Overtaken /\ FenceLast /\ Output
  BY DEF IInv
<1>2. /\ at_head /\ ff_core_request # <<>> /\ ~rg_sb_busy /\ ~sb_full
      /\ ff_core_request' = Tail(ff_core_request)
      /\ ~rg_handling_miss' /\ ~rg_polling_mode'
      /\ (MovesLine /\ Remembers) \/ MovesNothing
      /\ Remembers \/ RemembersNothing
      /\ UNCHANGED <<modes, rg_performing_replay, ram, ram_out, rg_fbhead,
                     ff_write_mem_request>>
  BY AnswerEffects
<1>3. \/ ff_core_request' = <<>> /\ Len(ff_core_request) = 1 /\ latest = req
         /\ Len(ff_core_request') = 0
      \/ /\ Len(ff_core_request) = 2 /\ Len(ff_core_request') = 1
         /\ ff_core_request' # <<>> /\ latest' = latest /\ req' = latest
  BY <1>1, <1>2, TailRequests
<1>4. UNCHANGED <<rg_fence_stall, rg_recent_req, rg_fence_set>>
  BY <1>2 DEF modes
<1>5. offered' = "none" \/ SameCycle
  BY DEF Answers, rl_response_to_core, rl_capture_io_response, NextCycle
<1>6. offered' = "put" => Len(ff_core_request) < 2 /\ ~rg_fence_stall
  BY <1>5 DEF SameCycle, mv_cache_available
<1>7. CASE offered' = "release"
  <2>1. releasable /\ sb' = sb
    BY <1>5, <1>7 DEF SameCycle
  <2>2. sb_empty
    BY <2>1 DEF releasable
  <2>3. MovesNothing
    BY <1>2, <2>1, <2>2 DEF Remembers
  <2>4. fb_full \/ rg_fence_stall
    BY <1>2, <2>1 DEF releasable, fill_oppurtunity
  <2>5. releasable'
    BY <1>2, <1>4, <2>1, <2>3, <2>4 DEF releasable, MovesNothing, fb_full, fb_empty, sb_empty
  <2> QED BY <1>2, <1>7, <2>5 DEF Offered
<1>8. CASE offered' = "put"
  BY <1>3, <1>4, <1>6, <1>8 DEF Offered
<1> QED BY <1>7, <1>8 DEF Offered

-----------------------------------------------------------------------------
(* What an action keeps of the order of requests when it leaves the queue  *)
(* of requests alone.                                                      *)
LEMMA HeadSame ==
  ASSUME ff_core_request' = ff_core_request
  PROVE  req' = req /\ latest' = latest /\ at_head' = at_head /\ nc_write' = nc_write
         /\ latest_set' = latest_set
<1>1. req' = req
  BY DEF req
<1>2. latest' = latest
  BY DEF latest
<1> QED BY <1>1, <1>2 DEF at_head, nc_write, isIO, latest_set

LEMMA HitsSame ==
  ASSUME ff_core_request' = ff_core_request,
         \A i \in FbIndex : fb'[i].valid = fb[i].valid /\ fb'[i].line = fb[i].line
  PROVE  fb_hits' = fb_hits
BY HeadSame DEF fb_hits, line

LEMMA WaitsSame ==
  ASSUME Waits, UNCHANGED <<ff_core_request, rg_handling_miss, rg_polling_mode>>,
         \A i \in FbIndex : fb'[i].valid = fb[i].valid /\ fb'[i].line = fb[i].line,
         rg_sb_busy' => sb'[1 - rg_tail'].valid
  PROVE  Waits'
<1>1. fb_hits' = fb_hits
  BY HitsSame
<1> QED BY <1>1, HeadSame DEF Waits

LEMMA FenceSame ==
  ASSUME FenceLast, UNCHANGED <<ff_core_request, modes, rg_performing_replay>>,
         rg_release_readphase' => rg_release_readphase, fb_empty' = fb_empty
  PROVE  FenceLast'
BY HeadSame DEF FenceLast, modes

LEMMA OutputSame ==
  ASSUME Output, UNCHANGED <<ff_core_request, modes, ram, ram_out, rg_performing_replay,
                             rg_release_readphase>>,
         ReleaseDue => ReleaseDue', fb_full' = fb_full, release_set' = release_set
  PROVE  Output'
<1>1. ReleaseBegun'
  BY DEF Output, ReleaseBegun, modes
<1>2. req' = req /\ latest_set' = latest_set /\ next_check' = next_check
  BY HeadSame DEF next_check, modes
<1>3. TakenBack => TakenBack'
  BY <1>2 DEF TakenBack, modes
<1> QED BY <1>1, <1>2, <1>3 DEF Output, modes

LEMMA EntriesSame ==
  ASSUME UNCHANGED <<rg_fbhead, v_reg_valid, v_reg_dirty>>,
         \A i \in FbIndex : SameEntry(i), fb'[rg_fbhead].err = fb[rg_fbhead].err,
         rg_fbhead \in FbIndex
  PROVE  /\ fb_full' = fb_full /\ fb_empty' = fb_empty /\ release_set' = release_set
         /\ ReleaseDue' = ReleaseDue
<1>1. fb_full' = fb_full /\ fb_empty' = fb_empty /\ release_set' = release_set
  BY DEF fb_full, fb_empty, release_set, SameEntry
<1> QED BY <1>1 DEF ReleaseDue, victim_dirty, SameEntry

(* A check that answers nothing turns polling on, unless another request   *)
(* waits for the store buffer.                                             *)
LEMMA PollEffects ==
  ASSUME NoTraps, IInv, rl_fillbuffer_check
  PROVE  /\ ff_core_request # <<>> /\ at_head /\ ~nc_write /\ ~rg_sb_busy
         /\ rg_polling_mode' => fb_hits # {} /\ ~word_hit
         /\ ~sb_full => rg_polling_mode'
<1>1. /\ at_head /\ ~rg_sb_busy /\ fb_checked /\ polling_after # rg_polling_mode
      /\ ~can_respond /\ rg_polling_mode' = polling_after
  BY DEF rl_fillbuffer_check, can_poll, fb_checked
<1>2. ~nc_write /\ polling_after = (fb_hits # {} /\ ~word_hit)
  BY <1>1 DEF polling_after
<1>3. ASSUME ~sb_full PROVE rg_polling_mode'
  <2>1. ~fb_hit
    BY <1>1, <1>3 DEF can_respond, may_respond, at_head
  <2>2. ~(fb_hits # {} /\ word_hit)
    BY <1>1, <2>1 DEF fb_hit
  <2>3. rg_polling_mode => fb_hits # {}
    BY DEF IInv, Waits
  <2>4. rg_polling_mode \in BOOLEAN
    BY DEF IInv, Typed, TypeOK
  <2> QED BY <1>1, <1>2, <2>2, <2>3, <2>4
<1> QED BY <1>1, <1>2, <1>3 DEF at_head

LEMMA KeptPoll ==
  ASSUME NoTraps, IInv, rl_fillbuffer_check PROVE Structure' /\ Order' /\ Offered'
<1>1. Typed /\ Structure /\ Ring /\ Single /\ Fills /\ Waits /\ Overtaken /\ FenceLast /\ Output
  BY DEF IInv, Structure
<1>2. /\ ff_core_request # <<>> /\ at_head /\ ~nc_write /\ ~rg_sb_busy
      /\ rg_polling_mode' => fb_hits # {} /\ ~word_hit
      /\ ~sb_full => rg_polling_mode'
  BY PollEffects
<1>3. UNCHANGED <<ff_core_request, ff_pending_req, ff_write_mem_request, modes, rg_handling_miss,
                  rg_release_readphase, rg_performing_replay, v_reg_valid, v_reg_dirty, ram,
                  ram_out, fb, rg_fbhead, rg_fbtail, sb, rg_tail, rg_sb_busy>>
      /\ SameCycle
  BY DEF rl_fillbuffer_check, fifos, rams, fbPtrs, sbVars
<1>4. req' = req /\ at_head' = at_head /\ nc_write' = nc_write /\ fb_hits' = fb_hits
  BY <1>3, HeadSame, HitsSame
<1>5. Structure'
  BY <1>1, <1>3, <1>4, StructureSame DEF SameEntry
<1>6. /\ fb_full' = fb_full /\ fb_empty' = fb_empty /\ release_set' = release_set
      /\ ReleaseDue' = ReleaseDue /\ sb_full' = sb_full /\ sb_empty' = sb_empty
  BY <1>1, <1>3, HeadEntry, EntriesSame DEF SameEntry, sb_full, sb_empty
<1>7. Waits'
  BY <1>1, <1>2, <1>3, <1>4 DEF Waits
<1>8. Overtaken'
  BY <1>1, <1>2, <1>3, <1>6 DEF Overtaken, busy
<1>9. FenceLast' /\ Output'
  BY <1>1, <1>3, <1>6, FenceSame, OutputSame
<1>10. ASSUME offered' = "put" PROVE Offered'
  <2>1. Len(ff_core_request) < 2 /\ ~rg_fence_stall /\ ~sb_full
    BY <1>3, <1>10 DEF SameCycle, mv_cache_available
  <2>2. Len(ff_core_request) <= 1
    BY <1>1, <1>2, <2>1, HeadRequest
  <2> QED BY <1>2, <1>3, <1>6, <1>10, <2>1, <2>2 DEF Offered, modes, busy
<1>11. ASSUME offered' = "release" PROVE Offered'
  <2>1. releasable
    BY <1>3, <1>11 DEF SameCycle
  <2>2. releasable'
    BY <1>3, <1>6, <2>1 DEF releasable, fill_oppurtunity, modes
  <2>3. ASSUME rg_polling_mode' PROVE \A i \in fb_hits' : ~fb'[i].line_valid
    <3>1. fb_hits = {fb_hitindex}
      BY <1>1, <1>2, <2>3, HitIndex
    <3> QED BY <1>2, <1>3, <1>4, <2>3, <3>1 DEF word_hit
  <2> QED BY <1>11, <2>2, <2>3 DEF Offered
<1>12. Offered'
  BY <1>10, <1>11 DEF Offered
<1> QED BY <1>5, <1>7, <1>8, <1>9, <1>12 DEF Order

LEMMA SendEffects ==
  ASSUME NoTraps, IInv, rl_send_memory_request
  PROVE  /\ at_head /\ ff_core_request # <<>> /\ ~fb_full /\ ~rg_release_readphase
         /\ ~rg_performing_replay /\ ~rg_handling_miss /\ ~nc_write /\ fb_hits = {}
         /\ latest = req /\ Len(ff_core_request) = 1 /\ ~in_rams(line(req.addr))
         /\ ~rg_sb_busy /\ ~rg_fence_stall
<1>1. /\ ram_checked /\ ~ram_match /\ fb_miss /\ ~busy
  BY DEF rl_send_memory_request, can_send, ram_miss, ram_checked, busy
<1>2. /\ at_head /\ ff_core_request # <<>> /\ ~fb_full /\ ~rg_release_readphase
      /\ ~rg_performing_replay /\ ~rg_handling_miss /\ ~nc_write /\ fb_hits = {} /\ ~rg_sb_busy
  BY <1>1 DEF ram_checked, fb_miss, at_head
<1>3. latest = req /\ Len(ff_core_request) = 1
  BY <1>1, <1>2, AloneIsLatest DEF IInv, Overtaken
<1>4. ~in_rams(line(req.addr))
  BY <1>1, MissOutOfRams
<1> QED BY <1>2, <1>3, <1>4 DEF at_head, IInv, FenceLast

LEMMA FillsSend ==
  ASSUME NoTraps, IInv, rl_send_memory_request,
         \/ isIO(req.addr) /\ fb' = fb
         \/ /\ ~isIO(req.addr) /\ NewEntry(line(req.addr)) /\ ~fb'[rg_fbtail].line_valid
            /\ ~fb[rg_fbtail].valid
  PROVE  Fills'
<1> DEFINE p == [addr |-> req.addr, io_request |-> isIO(req.addr), fbindex |-> rg_fbtail]
<1>1. Typed /\ Fills
  BY DEF IInv
<1>2. /\ ~rg_handling_miss /\ rg_handling_miss' = TRUE /\ ff_core_request' = ff_core_request
      /\ ff_pending_req' = Append(ff_pending_req, p) /\ fb_hits = {} /\ ff_core_request # <<>>
  BY SendEffects DEF rl_send_memory_request
<1>3. req' = req
  BY <1>2 DEF req
<1>4. /\ Len(ff_pending_req) \in Nat /\ Len(ff_pending_req) <= 1
      /\ \A k \in DOMAIN ff_pending_req : ~ff_pending_req[k].io_request
  BY <1>2, NoMissNoDevice
<1>5. p \in Fetch
  BY <1>1, <1>2, HeadRequest, HeadEntry DEF Fetch, Request, isIO
<1> HIDE DEF p
<1>6. /\ DOMAIN ff_pending_req = 1..Len(ff_pending_req)
      /\ \A k \in DOMAIN ff_pending_req : ff_pending_req[k] \in Fetch
      /\ Len(ff_pending_req') = Len(ff_pending_req) + 1
      /\ DOMAIN ff_pending_req' = 1..Len(ff_pending_req')
      /\ ff_pending_req'[Len(ff_pending_req) + 1] = p
      /\ \A k \in DOMAIN ff_pending_req : ff_pending_req'[k] = ff_pending_req[k]
  BY <1>1, <1>2, <1>5, Queue, Enqueued DEF Typed, Queues
<1>7. ASSUME NEW k \in DOMAIN ff_pending_req
      PROVE  LET q == ff_pending_req[k] IN
             /\ ~q.io_request /\ ~isIO(q.addr)
             /\ fb'[q.fbindex].valid /\ ~fb'[q.fbindex].line_valid
             /\ fb'[q.fbindex].line = line(q.addr) /\ line(q.addr) # line(req.addr)
  <2> DEFINE q == ff_pending_req[k]
  <2>1. /\ ~q.io_request /\ ~isIO(q.addr) /\ q.fbindex \in FbIndex
        /\ fb[q.fbindex].valid /\ ~fb[q.fbindex].line_valid
        /\ fb[q.fbindex].line = line(q.addr)
    BY <1>1, <1>4, <1>6 DEF Fills, Fetch
  <2> HIDE DEF q
  <2>2. line(q.addr) # line(req.addr)
    BY <1>2, <2>1 DEF fb_hits
  <2>3. fb'[q.fbindex] = fb[q.fbindex]
    BY <2>1 DEF NewEntry
  <2> QED BY <2>1, <2>2, <2>3 DEF q
<1>8. /\ p.io_request <=> isIO(p.addr)
      /\ p.addr = req.addr
      /\ ~p.io_request => /\ fb'[p.fbindex].valid /\ ~fb'[p.fbindex].line_valid
                          /\ fb'[p.fbindex].line = line(p.addr)
  BY DEF p, NewEntry
<1>9. ASSUME NEW k \in DOMAIN ff_pending_req'
      PROVE  k \in DOMAIN ff_pending_req \/ k = Len(ff_pending_req) + 1
  BY <1>4, <1>6
<1>10. ASSUME NEW k \in DOMAIN ff_pending_req'
       PROVE  LET q == ff_pending_req'[k] IN
              /\ q.io_request <=> isIO(q.addr)
              /\ IF q.io_request
                 THEN k = Len(ff_pending_req') /\ rg_handling_miss' /\ q.addr = req'.addr
                 ELSE /\ fb'[q.fbindex].valid /\ ~fb'[q.fbindex].line_valid
                      /\ fb'[q.fbindex].line = line(q.addr)
  <2>1. CASE k \in DOMAIN ff_pending_req
    BY <1>6, <1>7, <2>1
  <2>2. CASE k = Len(ff_pending_req) + 1
    BY <1>2, <1>3, <1>6, <1>8, <2>2
  <2> QED BY <1>9, <2>1, <2>2
<1>11. ASSUME Len(ff_pending_req') = 2
       PROVE  /\ ff_pending_req'[2].addr = req'.addr
              /\ line(ff_pending_req'[1].addr) # line(ff_pending_req'[2].addr)
  <2>1. Len(ff_pending_req) = 1 /\ 1 \in DOMAIN ff_pending_req
    BY <1>4, <1>6, <1>11
  <2>2. ff_pending_req'[1] = ff_pending_req[1] /\ ff_pending_req'[2] = p
    BY <1>6, <2>1
  <2> QED BY <1>3, <1>7, <1>8, <2>1, <2>2
<1>12. rg_handling_miss'
  BY <1>2
<1> QED BY <1>10, <1>11, <1>12 DEF Fills, isIO, line

LEMMA KeptSend ==
  ASSUME NoTraps, IInv, rl_send_memory_request PROVE Structure' /\ Order' /\ Offered'
<1> DEFINE l == line(req.addr)
<1>1. Typed /\ Ring /\ Single /\ Fills /\ Waits /\ Overtaken /\ FenceLast /\ Output
  BY DEF IInv
<1>2. /\ at_head /\ ff_core_request # <<>> /\ ~fb_full /\ ~rg_release_readphase
      /\ ~rg_performing_replay /\ ~rg_handling_miss /\ ~nc_write /\ fb_hits = {}
      /\ latest = req /\ Len(ff_core_request) = 1 /\ ~in_rams(line(req.addr))
      /\ ~rg_sb_busy /\ ~rg_fence_stall
  BY SendEffects
<1>3. UNCHANGED <<ff_core_request, ff_write_mem_request, modes, rg_release_readphase,
                  rg_performing_replay, v_reg_valid, v_reg_dirty, ram,
                  ram_out, rg_fbhead, sb, rg_tail, rg_sb_busy>>
      /\ rg_handling_miss' = TRUE /\ rg_polling_mode' = FALSE /\ SameCycle
  BY DEF rl_send_memory_request, rams, sbVars
<1>4. req' = req /\ at_head' = at_head /\ nc_write' = nc_write /\ latest_set' = latest_set
  BY <1>3, HeadSame
<1>5. l \in Line /\ l[1] = req.addr[1]
  BY <1>1, <1>2, HeadRequest DEF line
<1>6. ASSUME isIO(req.addr) PROVE Structure'
  <2>1. fb' = fb /\ rg_fbtail' = rg_fbtail
    BY <1>6 DEF rl_send_memory_request
  <2>2. Ring' /\ Single'
    BY <1>1, <1>3, <2>1, RingSame, SingleSame DEF fbPtrs, SameEntry
  <2> QED BY <1>6, <2>1, <2>2, FillsSend DEF Structure
<1>7. ASSUME ~isIO(req.addr) PROVE Structure'
  <2>1. fb' = [fb EXCEPT ![rg_fbtail] = allocated(l, Blank, FALSE, FALSE)]
        /\ rg_fbtail' = next_fb(rg_fbtail)
    BY <1>7 DEF rl_send_memory_request
  <2> HIDE DEF l
  <2>2. /\ fb'[rg_fbtail].valid /\ fb'[rg_fbtail].line = l /\ fb'[rg_fbtail].line_valid = FALSE
        /\ \A i \in FbIndex : i # rg_fbtail => fb'[i] = fb[i]
    BY <1>1, <2>1, AllocatedAt
  <2>3. NewEntry(l)
    BY <1>2, <1>3, <2>1, <2>2 DEF NewEntry
  <2>4. Ring' /\ ~fb[rg_fbtail].valid
    BY <1>1, <2>3, RingNew
  <2>5. l[1] \notin IoTag /\ \A i \in FbIndex : fb[i].valid => fb[i].line # l
    BY <1>2, <1>5, <1>7 DEF l, isIO, fb_hits
  <2>6. Single'
    BY <1>1, <1>2, <1>3, <1>5, <2>3, <2>5, SingleNew DEF in_rams, l
  <2>7. Fills'
    BY <1>7, <2>2, <2>3, <2>4, FillsSend DEF l
  <2> QED BY <2>4, <2>6, <2>7 DEF Structure
<1>8. Structure'
  BY <1>6, <1>7
<1>9. Waits'
  BY <1>1, <1>2, <1>3, <1>4 DEF Waits
<1>10. Overtaken'
  BY <1>2, <1>3 DEF Overtaken
<1>11. rg_fence_set = 0 /\ rg_fence_set' = 0
  BY <1>1, <1>2, <1>3 DEF FenceLast, at_head, modes
<1>12. FenceLast'
  BY <1>1, <1>2, <1>3, <1>4, <1>11, HeadSame DEF FenceLast, modes, at_head
<1>13. Output'
  <2>1. rg_recent_req = latest_set /\ ram_out = ram[next_check]
    BY <1>1, <1>2 DEF Output, TakenBack, at_head
  <2>2. next_check' = next_check
    BY <1>3 DEF next_check, modes
  <2> QED BY <1>2, <1>3, <1>4, <2>1, <2>2 DEF Output, ReleaseBegun, modes
<1>14. Offered'
  <2>1. offered' # "release"
    BY <1>2, <1>3 DEF SameCycle, releasable, fill_oppurtunity
  <2>2. offered' = "put" => ~sb_full'
    BY <1>3 DEF SameCycle, mv_cache_available, sb_full
  <2>3. rg_fence_stall' = rg_fence_stall /\ busy' /\ Len(ff_core_request') = 1
    BY <1>2, <1>3 DEF busy, modes
  <2>4. Len(ff_core_request') <= 1
    BY <2>3
  <2> QED BY <1>2, <2>1, <2>2, <2>3, <2>4 DEF Offered
<1> QED BY <1>8, <1>9, <1>10, <1>12, <1>13, <1>14 DEF Order

-----------------------------------------------------------------------------
(* Actions that leave the entries' lines, the RAMs and the requests alone. *)
Quiet ==
  /\ UNCHANGED <<ff_core_request, modes, rg_handling_miss, rg_polling_mode,
                 rg_release_readphase, rg_performing_replay, v_reg_valid, v_reg_dirty, ram,
                 ram_out, rg_fbhead, rg_fbtail, rg_tail>>
  /\ \A i \in FbIndex : SameEntry(i) /\ fb'[i].err = fb[i].err

LEMMA OrderQuiet ==
  ASSUME Typed, Order, Quiet, sb_full' => sb_full, rg_sb_busy' => sb'[1 - rg_tail].valid
  PROVE  Order'
<1>1. rg_fbhead \in FbIndex
  BY HeadEntry
<1>2. /\ fb_full' = fb_full /\ fb_empty' = fb_empty /\ release_set' = release_set
      /\ ReleaseDue' = ReleaseDue
  BY <1>1, EntriesSame DEF Quiet
<1>3. Waits'
  BY WaitsSame DEF Quiet, Order, SameEntry
<1>4. Overtaken'
  BY DEF Quiet, Overtaken, busy, Order
<1>5. FenceLast' /\ Output'
  BY <1>2, FenceSame, OutputSame DEF Quiet, Order
<1> QED BY <1>3, <1>4, <1>5 DEF Order

LEMMA StructureQuiet ==
  ASSUME Typed, Structure, Quiet, ff_pending_req' = ff_pending_req
  PROVE  Structure'
<1>1. req' = req
  BY HeadSame DEF Quiet
<1> QED BY <1>1, StructureSame DEF Quiet

LEMMA KeptQuiet ==
  ASSUME IInv, Quiet, ff_pending_req' = ff_pending_req, offered' = "none",
         sb_full' => sb_full, rg_sb_busy' => sb'[1 - rg_tail].valid
  PROVE  Structure' /\ Order' /\ Offered'
<1>1. Typed /\ Structure /\ Order
  BY DEF IInv, Structure, Order
<1>2. Structure' /\ Order'
  BY <1>1, OrderQuiet, StructureQuiet
<1>3. Offered'
  BY DEF Offered
<1> QED BY <1>2, <1>3

LEMMA KeptCaptureLost ==
  ASSUME IInv, rl_capture_io_response, ~may_respond PROVE Structure' /\ Order' /\ Offered'
<1>1. Typed /\ Structure /\ Order /\ Waits /\ Ring /\ Single /\ Fills
  BY DEF IInv, Structure, Order
<1>2. Quiet /\ UNCHANGED <<sb, rg_sb_busy, rg_tail>> /\ offered' = "none"
  BY DEF rl_capture_io_response, rams, fbPtrs, sbVars, modes, Quiet, SameEntry, NextCycle
<1>3. ff_pending_req' = <<>> /\ Len(<<>>) = 0 /\ DOMAIN <<>> = {}
  BY DeviceIsLast
<1>4. Ring' /\ Single'
  BY <1>1, <1>2, RingSame, SingleSame DEF Quiet, SameEntry, fbPtrs
<1>5. Fills'
  BY <1>1, <1>2, <1>3, FillsLeft DEF Quiet
<1>6. sb_full' = sb_full
  BY <1>2 DEF sb_full
<1>7. Order'
  BY <1>1, <1>2, <1>6, OrderQuiet DEF Waits
<1> QED BY <1>2, <1>4, <1>5, <1>7 DEF Structure, Offered

LEMMA KeptStore ==
  ASSUME IInv, ma_perform_store PROVE Structure' /\ Order' /\ Offered'
<1> DEFINE e == sb[rg_head]
<1>1. Typed /\ fb \in [FbIndex -> Entry] /\ sb \in [Slot -> Store] /\ rg_head \in Slot
  BY TypesOf DEF IInv, Typed, Contents, Regs
<1>2. UNCHANGED <<ff_core_request, ff_pending_req, modes, rg_handling_miss, rg_release_readphase,
                  rg_performing_replay, rg_polling_mode, v_reg_valid, v_reg_dirty, ram,
                  ram_out, rg_fbhead, rg_fbtail, rg_tail, rg_sb_busy>>
      /\ offered' = "none" /\ ~rg_sb_busy
      /\ sb' = [sb EXCEPT ![rg_head].valid = FALSE]
  BY DEF ma_perform_store, NextCycle, fifos, rams, fbPtrs, mv_commit_store_ready
<1>3. \A i \in FbIndex : SameEntry(i) /\ fb'[i].err = fb[i].err
  <2>1. \/ fb' = fb
        \/ fb' = [fb EXCEPT ![e.fbindex].dirty = TRUE,
                            ![e.fbindex].data[e.addr[3]] = updated(@, e.data, e.mask)]
    BY DEF ma_perform_store
  <2>2. CASE fb' # fb
    <3> DEFINE k == e.fbindex
               b == e.addr[3]
    <3>1. fb' = [fb EXCEPT ![k].dirty = TRUE, ![k].data[b] = updated(@, e.data, e.mask)]
      BY <2>1, <2>2
    <3>2. k \in FbIndex /\ fb \in [FbIndex -> Entry]
      BY <1>1 DEF Store
    <3> HIDE DEF e, k, b
    <3>3. ASSUME NEW i \in FbIndex PROVE SameEntry(i) /\ fb'[i].err = fb[i].err
      <4>1. CASE i # k
        BY <3>1, <3>2, <4>1 DEF SameEntry
      <4>2. CASE i = k
        BY <3>1, <3>2, <4>2 DEF SameEntry, Entry
      <4> QED BY <4>1, <4>2
    <3> QED BY <3>3
  <2>3. CASE fb' = fb
    BY <2>3 DEF SameEntry
  <2> QED BY <2>2, <2>3
<1>4. sb_full' => sb_full
  BY <1>1, <1>2 DEF sb_full, Slot
<1>5. Quiet
  BY <1>2, <1>3 DEF Quiet
<1> QED BY <1>2, <1>4, <1>5, KeptQuiet

LEMMA KeptAtomic ==
  ASSUME IInv, rl_perform_atomic PROVE Structure' /\ Order' /\ Offered'
<1>1. Quiet /\ ff_pending_req' = ff_pending_req /\ offered' = "none" /\ rg_sb_busy' = FALSE
  BY DEF rl_perform_atomic, NextCycle, fifos, rams, fbPtrs, Quiet, SameEntry
<1>2. \A i \in Slot : sb'[i].valid = sb[i].valid
  <2>1. sb \in [Slot -> Store]
    BY DEF IInv, Typed, Contents
  <2> QED BY <2>1 DEF rl_perform_atomic, Store
<1>3. sb_full' = sb_full
  BY <1>2 DEF sb_full
<1> QED BY <1>1, <1>3, KeptQuiet

LEMMA KeptRest ==
  ASSUME IInv, RetireOther \/ Flush \/ BusTake \/ BusLand
  PROVE  Structure' /\ Order' /\ Offered'
<1>1. Quiet /\ ff_pending_req' = ff_pending_req /\ offered' = "none"
      /\ UNCHANGED <<sb, rg_tail, rg_sb_busy>>
  BY DEF RetireOther, Flush, BusTake, BusLand, NextCycle, fifos, rams, fbPtrs, sbVars, Quiet,
         SameEntry
<1>2. sb_full' = sb_full
  BY <1>1 DEF sb_full
<1> QED BY <1>1, <1>2, KeptQuiet DEF IInv, Waits

(* A beat of a line; the last one makes the entry whole.                   *)
LEMMA FillEffects ==
  ASSUME IInv, rl_fill_from_memory
  PROVE  LET p == ff_pending_req[1] IN
         /\ ff_pending_req # <<>> /\ ~p.io_request /\ p.fbindex \in FbIndex
         /\ ~fb[p.fbindex].line_valid /\ fb[p.fbindex].valid /\ fb[p.fbindex].line = line(p.addr)
         /\ fb'[p.fbindex].valid = fb[p.fbindex].valid /\ fb'[p.fbindex].line = fb[p.fbindex].line
         /\ fb'[p.fbindex].line_valid = last_beat
         /\ \A i \in FbIndex : i # p.fbindex => fb'[i] = fb[i]
         /\ ff_pending_req' = IF last_beat THEN Tail(ff_pending_req) ELSE ff_pending_req
<1> DEFINE p == Head(ff_pending_req)
           l == line(p.addr)
<1>1. ff_pending_req # <<>> /\ ~p.io_request
  BY DEF rl_fill_from_memory
<1>2. p = ff_pending_req[1] /\ p \in Fetch /\ 1 \in DOMAIN ff_pending_req
  BY <1>1, Queue DEF IInv, Typed, Queues
<1>3. /\ p.fbindex \in FbIndex
      /\ ~fb[p.fbindex].line_valid /\ fb[p.fbindex].valid /\ fb[p.fbindex].line = l
  BY <1>1, <1>2 DEF IInv, Fills, Fetch
<1>4. PICK err \in BOOLEAN :
        fb' = [fb EXCEPT ![p.fbindex].data[beat_bank] = mem[<<l[1], l[2], beat_bank>>],
                         ![p.fbindex].line_valid = @ \/ last_beat,
                         ![p.fbindex].err = err,
                         ![p.fbindex].faced = @ \/ err]
  BY DEF rl_fill_from_memory
<1>5. fb \in [FbIndex -> Entry] /\ last_beat \in BOOLEAN
  BY DEF IInv, Typed, Contents, last_beat
<1>6. /\ fb'[p.fbindex].valid = fb[p.fbindex].valid /\ fb'[p.fbindex].line = fb[p.fbindex].line
      /\ fb'[p.fbindex].line_valid = last_beat
      /\ \A i \in FbIndex : i # p.fbindex => fb'[i] = fb[i]
  <2> DEFINE k == p.fbindex
             d == mem[<<l[1], l[2], beat_bank>>]
  <2>1. /\ fb' = [fb EXCEPT ![k].data[beat_bank] = d, ![k].line_valid = @ \/ last_beat,
                            ![k].err = err, ![k].faced = @ \/ err]
        /\ k \in FbIndex /\ ~fb[k].line_valid
    BY <1>3, <1>4
  <2> HIDE DEF k, d
  <2>2. /\ fb'[k].valid = fb[k].valid /\ fb'[k].line = fb[k].line
        /\ fb'[k].line_valid = last_beat
        /\ \A i \in FbIndex : i # k => fb'[i] = fb[i]
    BY <1>5, <2>1 DEF Entry
  <2> QED BY <2>2 DEF k
<1>7. ff_pending_req' = IF last_beat THEN Tail(ff_pending_req) ELSE ff_pending_req
  BY DEF rl_fill_from_memory
<1> QED BY <1>1, <1>2, <1>3, <1>6, <1>7

LEMMA KeptFill ==
  ASSUME IInv, rl_fill_from_memory PROVE Structure' /\ Order' /\ Offered'
<1> DEFINE p == ff_pending_req[1]
<1>1. Typed /\ Ring /\ Single /\ Fills /\ Waits /\ Overtaken /\ FenceLast /\ Output
  BY DEF IInv
<1>2. UNCHANGED <<ff_core_request, modes, rg_handling_miss, rg_release_readphase,
                  rg_performing_replay, rg_polling_mode, v_reg_valid, v_reg_dirty, ram,
                  ram_out, rg_fbhead, rg_fbtail, sb, rg_tail, rg_sb_busy>>
      /\ offered' = "none"
  BY DEF rl_fill_from_memory, NextCycle, rams, fbPtrs, sbVars
<1>3. /\ ff_pending_req # <<>> /\ ~p.io_request /\ p.fbindex \in FbIndex
      /\ ~fb[p.fbindex].line_valid /\ fb[p.fbindex].valid /\ fb[p.fbindex].line = line(p.addr)
      /\ fb'[p.fbindex].valid = fb[p.fbindex].valid /\ fb'[p.fbindex].line = fb[p.fbindex].line
      /\ fb'[p.fbindex].line_valid = last_beat
      /\ \A i \in FbIndex : i # p.fbindex => fb'[i] = fb[i]
      /\ ff_pending_req' = IF last_beat THEN Tail(ff_pending_req) ELSE ff_pending_req
  BY FillEffects
<1> HIDE DEF p
<1>4. \A i \in FbIndex : fb'[i].valid = fb[i].valid /\ fb'[i].line = fb[i].line
  BY <1>3
<1>5. Ring' /\ Single'
  BY <1>1, <1>2, <1>4, RingSame, SingleSame DEF fbPtrs
<1>6. req' = req
  BY <1>2, HeadSame
<1>7. ASSUME ~last_beat PROVE Fills'
  <2>1. fb[p.fbindex].line_valid = FALSE /\ last_beat = FALSE
    <3>1. fb[p.fbindex] \in Entry
      BY <1>1, <1>3 DEF Typed, Contents
    <3>2. fb[p.fbindex].line_valid \in BOOLEAN /\ last_beat \in BOOLEAN
      BY <3>1 DEF Entry, last_beat
    <3> QED BY <1>3, <1>7, <3>2
  <2>2. ASSUME NEW i \in FbIndex PROVE SameEntry(i)
    <3>1. CASE i = p.fbindex
      BY <1>3, <2>1, <3>1 DEF SameEntry
    <3>2. CASE i # p.fbindex
      BY <1>3, <3>2 DEF SameEntry
    <3> QED BY <3>1, <3>2
  <2>3. ff_pending_req' = ff_pending_req
    BY <1>3, <1>7
  <2> QED BY <1>1, <1>2, <1>6, <2>2, <2>3, FillsSame
<1>8. ASSUME last_beat PROVE Fills'
  <2>1. /\ Len(ff_pending_req) \in Nat /\ Len(ff_pending_req) <= 2
        /\ DOMAIN ff_pending_req = 1..Len(ff_pending_req)
        /\ \A k \in DOMAIN ff_pending_req : ff_pending_req[k] \in Fetch
        /\ Tail(ff_pending_req) \in Seq(Fetch) /\ Len(Tail(ff_pending_req)) = Len(ff_pending_req) - 1
        /\ \A k \in DOMAIN Tail(ff_pending_req) :
              k + 1 \in DOMAIN ff_pending_req /\ Tail(ff_pending_req)[k] = ff_pending_req[k + 1]
    BY <1>1, <1>3, TypesOf, Queue DEF Typed, Queues, Bounds
  <2>2. ff_pending_req' = Tail(ff_pending_req)
    BY <1>3, <1>8
  <2>3. Len(ff_pending_req') \in Nat /\ Len(ff_pending_req') # 2
    <3>1. \A n \in Nat : n <= 2 => n - 1 # 2
      OBVIOUS
    <3>2. Len(ff_pending_req') \in Nat
      BY <2>1, <2>2, Queue
    <3> QED BY <2>1, <2>2, <3>1, <3>2
  <2>4. ASSUME NEW k \in DOMAIN ff_pending_req'
        PROVE  LET q == ff_pending_req'[k] IN
               /\ q.io_request <=> isIO(q.addr)
               /\ IF q.io_request
                  THEN k = Len(ff_pending_req') /\ rg_handling_miss' /\ q.addr = req'.addr
                  ELSE /\ fb'[q.fbindex].valid /\ ~fb'[q.fbindex].line_valid
                       /\ fb'[q.fbindex].line = line(q.addr)
    <3> DEFINE q == ff_pending_req[k + 1]
    <3>1. /\ k + 1 \in DOMAIN ff_pending_req /\ ff_pending_req'[k] = q
          /\ q \in Fetch /\ q.fbindex \in FbIndex
      BY <2>1, <2>2, <2>4 DEF Fetch
    <3>2. DOMAIN ff_pending_req' = 1..Len(ff_pending_req')
      BY <2>1, <2>2, Queue
    <3>3. k = 1 /\ Len(ff_pending_req) = 2 /\ Len(ff_pending_req') = 1
      <4>1. k \in 1..Len(ff_pending_req') /\ Len(ff_pending_req') = Len(ff_pending_req) - 1
        BY <2>1, <2>2, <2>4, <3>2
      <4>2. \A n \in Nat : \A m \in 1..(n-1) : n <= 2 => m = 1 /\ n = 2 /\ n - 1 = 1
        OBVIOUS
      <4> QED BY <2>1, <4>1, <4>2
    <3>4. q = ff_pending_req[2]
      BY <3>3
    <3>5. line(p.addr) # line(q.addr)
      BY <1>1, <3>3, <3>4 DEF Fills, p
    <3>6. /\ q.io_request <=> isIO(q.addr)
          /\ IF q.io_request
             THEN rg_handling_miss /\ q.addr = req.addr
             ELSE /\ fb[q.fbindex].valid /\ ~fb[q.fbindex].line_valid
                  /\ fb[q.fbindex].line = line(q.addr)
      BY <1>1, <3>1 DEF Fills
    <3> HIDE DEF q
    <3>7. ~q.io_request => fb'[q.fbindex] = fb[q.fbindex]
      <4>1. ~q.io_request => q.fbindex # p.fbindex
        BY <1>3, <3>5, <3>6
      <4> QED BY <1>3, <3>1, <4>1
    <3> QED BY <1>2, <1>6, <3>1, <3>3, <3>6, <3>7
  <2> QED BY <2>3, <2>4 DEF Fills, isIO, line
<1>9. Waits'
  BY <1>1, <1>2, <1>4, WaitsSame DEF Waits
<1>10. Overtaken'
  BY <1>1, <1>2 DEF Overtaken, busy, sb_full
<1>11. fb_full' = fb_full /\ fb_empty' = fb_empty
  BY <1>4 DEF fb_full, fb_empty
<1>12. rg_fbhead \in FbIndex
  BY <1>1, HeadEntry
<1>13. release_set' = release_set
  BY <1>2, <1>4, <1>12 DEF release_set
<1>14. ReleaseDue => ReleaseDue'
  <2>1. ReleaseDue => fb'[rg_fbhead] = fb[rg_fbhead]
    BY <1>3, <1>12 DEF ReleaseDue
  <2> QED BY <1>2, <1>11, <1>13, <2>1 DEF ReleaseDue, victim_dirty
<1>15. FenceLast' /\ Output'
  BY <1>1, <1>2, <1>11, <1>13, <1>14, FenceSame, OutputSame
<1>16. Offered'
  BY <1>2 DEF Offered
<1> QED BY <1>5, <1>7, <1>8, <1>9, <1>10, <1>15, <1>16 DEF Structure, Order

-----------------------------------------------------------------------------
(* A release does not take the entry a request polls for: if that were     *)
(* whole, the request would have been answered first.                      *)
LEMMA ReleaseFacts ==
  ASSUME NoTraps, IInv, rl_release_from_fillbuffer
  PROVE  /\ releasable /\ sb_empty /\ ~fb_empty /\ ~rg_performing_replay
         /\ fb[rg_fbhead].valid /\ fb[rg_fbhead].line_valid /\ rg_fbhead \in FbIndex
         /\ rg_fence_set = 0
         /\ rg_polling_mode => \A i \in fb_hits : ~fb[i].line_valid
<1>1. releasable /\ (~head_acts \/ offered = "release")
  BY DEF rl_release_from_fillbuffer, IInv, Offered
<1>2. /\ sb_empty /\ ~fb_empty /\ ~rg_performing_replay /\ fb[rg_fbhead].line_valid
  BY <1>1 DEF releasable
<1>3. fb[rg_fbhead].valid /\ rg_fbhead \in FbIndex
  BY <1>2, HeadIsValid, HeadEntry DEF IInv
<1>4. rg_fence_set = 0
  BY <1>2 DEF IInv, FenceLast
<1>5. ASSUME rg_polling_mode, NEW i \in fb_hits, fb[i].line_valid, ~head_acts PROVE FALSE
  <2>1. at_head /\ ~nc_write /\ fb_hits # {} /\ (rg_sb_busy => sb[1 - rg_tail].valid)
    BY <1>5 DEF IInv, Waits
  <2>2. rg_tail \in Slot /\ 1 - rg_tail \in Slot
    BY TypesOf DEF IInv, Regs, Slot
  <2>3. ~rg_sb_busy /\ ~sb_full
    BY <1>2, <2>1, <2>2 DEF sb_empty, sb_full
  <2>4. word_hit
    <3>1. i = fb_hitindex
      BY <1>5, <2>1, HitIndex DEF IInv
    <3> QED BY <1>5, <3>1 DEF word_hit
  <2>5. can_respond
    BY <2>1, <2>3, <2>4 DEF can_respond, may_respond, fb_hit, fb_checked, at_head
  <2> QED BY <1>5, <2>5 DEF head_acts
<1>6. rg_polling_mode => \A i \in fb_hits : ~fb[i].line_valid
  BY <1>1, <1>5 DEF IInv, Offered
<1> QED BY <1>1, <1>2, <1>3, <1>4, <1>6

(* The head of the fill buffer is freed.                                   *)
Freed ==
  /\ ~fb'[rg_fbhead].valid /\ \A i \in FbIndex : i # rg_fbhead => fb'[i] = fb[i]
  /\ rg_fbhead' = next_fb(rg_fbhead) /\ rg_fbtail' = rg_fbtail
LEMMA FreedEffects ==
  ASSUME Typed, fb' = freed, rg_fbhead' = next_fb(rg_fbhead), rg_fbtail' = rg_fbtail
  PROVE  Freed
<1>1. fb \in [FbIndex -> Entry] /\ rg_fbhead \in FbIndex
  BY HeadEntry DEF Typed, Contents
<1>2. ~fb'[rg_fbhead].valid
  BY <1>1 DEF freed, Entry
<1>3. \A i \in FbIndex : i # rg_fbhead => fb'[i] = fb[i]
  BY <1>1 DEF freed
<1> QED BY <1>2, <1>3 DEF Freed

LEMMA RingFreed ==
  ASSUME Typed, Ring, ~fb_empty, Freed PROVE Ring'
<1>1. \A i \in FbIndex : fb'[i].valid <=> (fb[i].valid /\ i # rg_fbhead)
  BY DEF Freed
<1> QED BY <1>1, RingFree DEF Freed

LEMMA FillsFreed ==
  ASSUME Typed, Fills, Freed, fb[rg_fbhead].line_valid,
         UNCHANGED <<ff_pending_req, ff_core_request, rg_handling_miss>>
  PROVE  Fills'
<1>1. \A i \in FbIndex : fb[i].valid /\ ~fb[i].line_valid => SameEntry(i)
  BY DEF Freed, SameEntry
<1> QED BY <1>1, FillsSame, HeadSame

LEMMA WaitsFreed ==
  ASSUME Typed, Waits, Freed, fb[rg_fbhead].line_valid,
         UNCHANGED <<ff_core_request, rg_handling_miss, rg_polling_mode, sb, rg_tail, rg_sb_busy>>,
         rg_polling_mode => \A i \in fb_hits : ~fb[i].line_valid
  PROVE  Waits'
<1>1. req' = req /\ at_head' = at_head /\ nc_write' = nc_write
  BY HeadSame
<1>2. rg_polling_mode => fb_hits' = fb_hits
  <2>1. ASSUME rg_polling_mode, NEW i \in FbIndex
        PROVE  (fb'[i].valid /\ fb'[i].line = line(req.addr))
                 <=> (fb[i].valid /\ fb[i].line = line(req.addr))
    <3>1. CASE i = rg_fbhead
      BY <2>1, <3>1 DEF Freed, fb_hits
    <3>2. CASE i # rg_fbhead
      BY <2>1, <3>2 DEF Freed
    <3> QED BY <3>1, <3>2
  <2> QED BY <1>1, <2>1 DEF fb_hits, line
<1> QED BY <1>1, <1>2 DEF Waits

LEMMA KeptRelease ==
  ASSUME NoTraps, IInv, rl_release_from_fillbuffer PROVE Structure' /\ Order' /\ Offered'
<1>1. Typed /\ Structure /\ Ring /\ Single /\ Fills /\ Waits /\ Overtaken /\ FenceLast /\ Output
      /\ Order
  BY DEF IInv, Structure, Order
<1>2. UNCHANGED <<ff_core_request, ff_pending_req, modes, rg_handling_miss, rg_polling_mode,
                  rg_fbtail, sb, rg_tail, rg_sb_busy>>
      /\ offered' = "none" /\ (release_discard \/ release_read \/ release_write)
  BY DEF rl_release_from_fillbuffer, NextCycle, fifos, sbVars
<1>3. /\ releasable /\ sb_empty /\ ~fb_empty /\ ~rg_performing_replay
      /\ fb[rg_fbhead].valid /\ fb[rg_fbhead].line_valid /\ rg_fbhead \in FbIndex
      /\ rg_fence_set = 0
      /\ rg_polling_mode => \A i \in fb_hits : ~fb[i].line_valid
  BY ReleaseFacts
<1>4. req' = req /\ latest' = latest /\ latest_set' = latest_set
      /\ UNCHANGED <<rg_fence_stall, rg_recent_req, rg_fence_set>>
  BY <1>2, HeadSame DEF modes
<1>5. Offered'
  BY <1>2 DEF Offered
<1>6. Overtaken'
  BY <1>1, <1>2 DEF Overtaken, busy, sb_full
<1>7. FenceLast'
  BY <1>1, <1>2, <1>3, <1>4 DEF FenceLast
<1>8. ASSUME release_read PROVE Structure' /\ Order'
  <2>1. /\ UNCHANGED <<v_reg_valid, v_reg_dirty, ram, fb, rg_fbhead, rg_performing_replay>>
        /\ rg_release_readphase' = TRUE /\ ram_out' = ram[release_set]
        /\ ~fb[rg_fbhead].err /\ victim_dirty
    BY <1>8 DEF release_read, rams
  <2>2. \A i \in FbIndex : SameEntry(i)
    BY <2>1 DEF SameEntry
  <2>3. Structure'
    BY <1>1, <1>2, <1>4, <2>1, <2>2, StructureSame
  <2>4. Waits'
    BY <1>1, <1>2, <2>2, WaitsSame DEF Waits, SameEntry
  <2>5. /\ fb_full' = fb_full /\ fb_empty' = fb_empty /\ release_set' = release_set
        /\ ReleaseDue' = ReleaseDue
    BY <1>3, <2>1, <2>2, EntriesSame
  <2>6. ReleaseDue
    BY <1>3, <2>1 DEF ReleaseDue
  <2>7. ff_core_request # <<>> => fb_full \/ rg_fence_stall
    BY <1>3 DEF releasable, fill_oppurtunity
  <2>8. ReleaseBegun'
    BY <1>2, <1>3, <1>4, <2>1, <2>5, <2>6, <2>7 DEF ReleaseBegun
  <2>9. Output'
    BY <1>1, <1>2, <1>4, <2>1, <2>8 DEF Output
  <2> QED BY <1>6, <1>7, <2>3, <2>4, <2>9 DEF Order
<1>9. ASSUME release_discard PROVE Structure' /\ Order'
  <2>1. /\ UNCHANGED <<v_reg_valid, v_reg_dirty, ram, ram_out, rg_performing_replay>>
        /\ rg_release_readphase' = FALSE /\ fb' = freed /\ rg_fbhead' = next_fb(rg_fbhead)
        /\ fb[rg_fbhead].err
    BY <1>9 DEF release_discard, rams
  <2>2. Freed
    BY <1>1, <1>2, <2>1, FreedEffects
  <2>3. Ring' /\ Fills' /\ Waits'
    BY <1>1, <1>2, <1>3, <2>2, RingFreed, FillsFreed, WaitsFreed
  <2>4. \A i \in FbIndex : fb'[i].valid => fb[i].valid /\ fb'[i].line = fb[i].line
    BY <2>2 DEF Freed
  <2>5. Single'
    BY <1>1, <2>1, <2>4 DEF Single, in_rams
  <2>6. ~ReleaseDue /\ ~rg_release_readphase
    BY <1>1, <2>1 DEF ReleaseDue, Output, ReleaseBegun
  <2>7. Output'
    <3>1. ff_core_request # <<>> => rg_recent_req = latest_set /\ ram_out = ram[next_check]
      BY <1>1, <1>3, <2>6 DEF Output, TakenBack
    <3> QED BY <1>2, <1>4, <2>1, <3>1 DEF Output, ReleaseBegun, next_check
  <2> QED BY <1>6, <1>7, <2>3, <2>5, <2>7 DEF Order, Structure
<1>10. ASSUME release_write PROVE Structure' /\ Order'
  <2> DEFINE l == fb[rg_fbhead].line
  <2>1. /\ UNCHANGED ram_out
        /\ rg_release_readphase' = FALSE /\ fb' = freed /\ rg_fbhead' = next_fb(rg_fbhead)
        /\ ~fb[rg_fbhead].err /\ (~victim_dirty \/ rg_release_readphase)
        /\ rg_performing_replay' = (rg_release_readphase \/ release_set = rg_recent_req)
        /\ ram' = [ram EXCEPT ![l[2]] = [tag |-> l[1], data |-> fb[rg_fbhead].data]]
        /\ v_reg_valid' = [v_reg_valid EXCEPT ![l[2]] = TRUE]
    BY <1>10 DEF release_write, release_set, replay_needed
  <2>2. Freed
    BY <1>1, <1>2, <2>1, FreedEffects
  <2>3. Ring' /\ Fills' /\ Waits'
    BY <1>1, <1>2, <1>3, <2>2, RingFreed, FillsFreed, WaitsFreed
  <2>4. \A i \in FbIndex : fb'[i].valid => i # rg_fbhead /\ fb[i].valid /\ fb'[i].line = fb[i].line
    BY <2>2 DEF Freed
  <2>5. /\ ram \in [Set -> Block] /\ v_reg_valid \in [Set -> BOOLEAN]
        /\ l \in Line /\ l[2] \in Set /\ l = <<l[1], l[2]>> /\ l[1] \notin IoTag
        /\ \A i \in FbIndex : fb[i].line \in Line /\ fb[i].line[2] \in Set
                              /\ fb[i].line = <<fb[i].line[1], fb[i].line[2]>>
    <3>1. \A i \in FbIndex : fb[i] \in Entry
      BY <1>1 DEF Typed, Contents
    <3>2. l[1] \notin IoTag
      BY <1>1, <1>3 DEF Single
    <3>3. \A i \in FbIndex : fb[i].line \in Line
      BY <3>1 DEF Entry
    <3>4. \A m \in Line : m[2] \in Set /\ m = <<m[1], m[2]>>
      BY DEF Line
    <3>5. ram \in [Set -> Block] /\ v_reg_valid \in [Set -> BOOLEAN]
      BY <1>1 DEF Typed, Contents, TypeOK
    <3> QED BY <1>3, <3>2, <3>3, <3>4, <3>5
  <2>6. \A s \in Set : IF s = l[2] THEN v_reg_valid'[s] /\ ram'[s].tag = l[1]
                       ELSE v_reg_valid'[s] = v_reg_valid[s] /\ ram'[s] = ram[s]
    <3> HIDE DEF l
    <3> QED BY <2>1, <2>5
  <2>7. Single'
    <3>1. \A i, j \in FbIndex : fb'[i].valid /\ fb'[j].valid /\ fb'[i].line = fb'[j].line => i = j
      BY <1>1, <2>4 DEF Single
    <3>2. ASSUME NEW i \in FbIndex, fb'[i].valid
          PROVE  ~in_rams(fb[i].line)' /\ fb'[i].line[1] \notin IoTag
      <4> DEFINE m == fb[i].line
      <4>1. m # l /\ fb'[i].line = m /\ m[1] \notin IoTag /\ ~in_rams(m) /\ m[2] \in Set
            /\ m = <<m[1], m[2]>>
        BY <1>1, <1>3, <2>4, <2>5, <3>2 DEF Single
      <4> HIDE DEF m, l
      <4>2. ~(v_reg_valid'[m[2]] /\ ram'[m[2]].tag = m[1])
        BY <2>5, <2>6, <4>1 DEF in_rams
      <4> QED BY <4>1, <4>2 DEF in_rams
    <3>3. \A s \in Set : v_reg_valid'[s] => ram'[s].tag \notin IoTag
      BY <1>1, <2>5, <2>6 DEF Single
    <3> QED BY <3>1, <3>2, <3>3 DEF Single
  <2>8. Output'
    <3>1. ASSUME ff_core_request # <<>>, ~rg_performing_replay'
          PROVE  ram_out = ram'[next_check]
      <4>1. ~rg_release_readphase /\ release_set # rg_recent_req /\ ~victim_dirty
        BY <2>1, <3>1
      <4>2. ram_out = ram[rg_recent_req] /\ rg_recent_req \in Set
        <5>1. ~TakenBack
          BY <4>1 DEF TakenBack, ReleaseDue
        <5> QED BY <1>1, <1>3, <3>1, <4>1, <5>1 DEF Output, next_check, Typed, TypeOK
      <4> QED BY <1>3, <2>6, <4>1, <4>2 DEF next_check, release_set
    <3>2. next_check' = next_check
      BY <1>4 DEF next_check
    <3> QED BY <1>1, <1>2, <1>4, <2>1, <3>1, <3>2 DEF Output, ReleaseBegun
  <2> QED BY <1>6, <1>7, <2>3, <2>7, <2>8 DEF Order, Structure
<1> QED BY <1>2, <1>5, <1>8, <1>9, <1>10

-----------------------------------------------------------------------------
LEMMA KeptReplay ==
  ASSUME IInv, rl_perform_replay PROVE Structure' /\ Order' /\ Offered'
<1>1. Typed /\ Structure /\ Waits /\ Overtaken /\ FenceLast /\ Output
  BY DEF IInv, Structure
<1>2. UNCHANGED <<ff_core_request, ff_pending_req, modes, rg_handling_miss, rg_release_readphase,
                  rg_polling_mode, v_reg_valid, v_reg_dirty, ram, fb, rg_fbhead, rg_fbtail, sb,
                  rg_tail, rg_sb_busy>>
      /\ offered' = "none" /\ rg_performing_replay /\ rg_performing_replay' = FALSE
      /\ ram_out' = ram[rg_recent_req]
  BY DEF rl_perform_replay, NextCycle, fifos, sbVars, rams, fbPtrs
<1>3. req' = req /\ latest_set' = latest_set
      /\ UNCHANGED <<rg_fence_stall, rg_recent_req, rg_fence_set>>
  BY <1>2, HeadSame DEF modes
<1>4. \A i \in FbIndex : SameEntry(i)
  BY <1>2 DEF SameEntry
<1>5. Structure'
  BY <1>1, <1>2, <1>3, <1>4, StructureSame
<1>6. Waits'
  BY <1>1, <1>2, <1>4, WaitsSame DEF Waits, SameEntry
<1>7. Overtaken'
  BY <1>1, <1>2 DEF Overtaken, busy, sb_full
<1>8. rg_fence_set = 0 /\ ~rg_release_readphase
  BY <1>1, <1>2 DEF FenceLast, Output, ReleaseBegun
<1>9. FenceLast'
  BY <1>1, <1>2, <1>3, <1>8, HeadSame DEF FenceLast
<1>10. Output'
  BY <1>1, <1>2, <1>3, <1>8 DEF Output, ReleaseBegun, next_check
<1> QED BY <1>2, <1>5, <1>6, <1>7, <1>9, <1>10 DEF Order, Offered

LEMMA KeptFence ==
  ASSUME IInv, rl_fence_operation PROVE Structure' /\ Order' /\ Offered'
<1>1. Typed /\ Structure /\ Ring /\ Single /\ Fills /\ Waits /\ Overtaken /\ FenceLast /\ Output
  BY DEF IInv, Structure
<1>2. UNCHANGED <<ff_pending_req, rg_recent_req, rg_handling_miss, rg_release_readphase,
                  rg_performing_replay, rg_polling_mode, ram, fb, rg_fbhead, rg_fbtail, sb,
                  rg_tail, rg_sb_busy>>
      /\ offered' = "none" /\ ram_out' = ram[(rg_fence_set + 1) % Cardinality(Set)]
      /\ ff_core_request # <<>> /\ req.access = "fence" /\ fb_empty /\ ~rg_performing_replay
  BY DEF rl_fence_operation, can_fence, NextCycle, sbVars, fbPtrs
<1>3. latest = req /\ Tail(ff_core_request) = <<>> /\ Len(ff_core_request) = 1
      /\ ~at_head /\ ~rg_handling_miss /\ ~rg_polling_mode
  <2>1. Len(ff_core_request) = 1
    BY <1>1, <1>2 DEF FenceLast
  <2>2. Len(ff_core_request) # 2
    BY <2>1
  <2>3. ~at_head
    BY <1>2 DEF at_head
  <2> QED BY <1>1, <1>2, <2>1, <2>2, <2>3, AloneIsLatest DEF Waits
<1>4. ~rg_release_readphase
  BY <1>1, <1>2 DEF Output, ReleaseBegun, ReleaseDue
<1>5. \A i \in FbIndex : SameEntry(i)
  BY <1>2 DEF SameEntry
<1>6. \A s \in Set : v_reg_valid'[s] => v_reg_valid[s]
  BY DEF rl_fence_operation
<1>7. Ring' /\ Fills'
  BY <1>1, <1>2, <1>3, <1>5, RingSame, FillsSame DEF SameEntry, fbPtrs
<1>8. Single'
  <2>1. \A i \in FbIndex : fb[i].valid = FALSE \/ ~fb[i].valid
    BY <1>2 DEF fb_empty
  <2>2. \A i \in FbIndex : ~fb'[i].valid
    BY <1>2 DEF fb_empty
  <2> QED BY <1>1, <1>2, <1>6, <2>2 DEF Single
<1>9. Waits'
  BY <1>1, <1>2, <1>3 DEF Waits
<1>10. fb_empty' = fb_empty
  BY <1>2 DEF fb_empty
<1>11. CASE fence_last /\ rg_fence_stall' = FALSE /\ rg_fence_set' = 0
            /\ ff_core_request' = Tail(ff_core_request)
  <2>1. ff_core_request' = <<>> /\ Len(<<>>) = 0
    BY <1>3, <1>11
  <2>2. Overtaken'
    BY <2>1 DEF Overtaken
  <2>3. FenceLast'
    BY <1>11, <2>1 DEF FenceLast
  <2>4. Output'
    BY <1>2, <1>4, <2>1 DEF Output, ReleaseBegun
  <2> QED BY <1>2, <1>7, <1>8, <1>9, <2>2, <2>3, <2>4 DEF Structure, Order, Offered
<1>12. CASE ~fence_last /\ rg_fence_set' = rg_fence_set + 1
            /\ UNCHANGED <<rg_fence_stall, ff_core_request>>
  <2>1. /\ rg_fence_set' # 0 /\ (rg_fence_set + 1) % Cardinality(Set) = rg_fence_set'
    <3>1. rg_fence_set \in Set /\ rg_fence_set # Cardinality(Set) - 1
      BY <1>1, <1>12, TypesOf DEF Regs, fence_last
    <3>2. rg_fence_set \in 0..Cardinality(Set) - 1 /\ Cardinality(Set) \in Nat /\ Cardinality(Set) > 0
      BY <3>1, Shape
    <3>3. (rg_fence_set + 1) % Cardinality(Set) = rg_fence_set + 1
      BY <3>1, <3>2, Succession
    <3> QED BY <1>12, <3>2, <3>3
  <2>2. req' = req /\ latest' = latest /\ latest_set' = latest_set
    BY <1>12, HeadSame
  <2>3. Overtaken'
    BY <1>3, <1>12 DEF Overtaken
  <2>4. FenceLast'
    BY <1>1, <1>2, <1>3, <1>4, <1>10, <1>12, <2>2 DEF FenceLast
  <2>5. Output'
    BY <1>1, <1>2, <1>4, <1>12, <2>1, <2>2 DEF Output, ReleaseBegun, next_check
  <2> QED BY <1>2, <1>7, <1>8, <1>9, <2>3, <2>4, <2>5 DEF Structure, Order, Offered
<1> QED BY <1>11, <1>12 DEF rl_fence_operation

-----------------------------------------------------------------------------
(* A request is taken behind another only if that one waits: one whose     *)
(* check is still to come would act in the cycle, and close it.            *)
LEMMA PutBehindWaiting ==
  ASSUME NoTraps, IInv, NEW r \in Menu, put_core_req(r), ff_core_request # <<>>
  PROVE  busy /\ ~sb_full /\ Len(ff_core_request) = 1 /\ req.access # "fence"
<1>1. Typed /\ Ring /\ Single /\ Fills /\ Waits /\ Overtaken /\ FenceLast /\ Output /\ Counted
      /\ Offered
  BY DEF IInv
<1>2. Len(ff_core_request) # 2 /\ ~rg_fence_stall
  BY <1>1, PutHasRoom, HeadRequest
<1>3. latest = req /\ Len(ff_core_request) = 1
  BY <1>1, <1>2, AloneIsLatest
<1>4. req.access # "fence"
  BY <1>1, <1>2, <1>3 DEF FenceLast
<1>5. CASE offered = "put"
  BY <1>1, <1>3, <1>4, <1>5 DEF Offered
<1>6. CASE mv_cache_available /\ ~head_acts
  <2>1. /\ ~fb_full /\ ~rg_performing_replay /\ ~sb_full /\ ~rg_sb_busy
    BY <1>6 DEF mv_cache_available
  <2>2. at_head
    BY <1>4 DEF at_head
  <2>3. ~rg_release_readphase
    BY <1>1, <1>2, <2>1 DEF Output, ReleaseBegun
  <2>4. ~req.fault
    <3>1. 1 \in DOMAIN ff_core_request /\ req = ff_core_request[1]
      BY <1>1, <1>3, QueueOne DEF req, Typed, Queues
    <3> QED BY <1>1, <3>1 DEF Counted
  <2>5. ASSUME ~busy PROVE FALSE
    <3>1. ram_checked /\ fb_checked
      BY <2>1, <2>2, <2>3, <2>5 DEF ram_checked, fb_checked, busy
    <3>2. may_respond
      BY <2>1 DEF may_respond
    <3>3. ~ram_hit /\ ~fb_hit /\ ~can_send /\ ~can_poll
      BY <1>6, <3>2 DEF head_acts, can_respond
    <3>4. ram_miss
      BY <2>4, <3>1, <3>3 DEF ram_hit, ram_miss
    <3>5. ~nc_write /\ ~(fb_hits # {} /\ word_hit)
      BY <3>1, <3>3 DEF fb_hit
    <3>6. CASE fb_hits = {}
      <4>1. Len(ff_pending_req) < 2
        <5>1. Len(ff_pending_req) \in Nat /\ Len(ff_pending_req) <= 1
          BY <2>5, NoMissNoDevice DEF busy
        <5> QED BY <5>1
      <4>2. fb_miss
        BY <3>1, <3>5, <3>6 DEF fb_miss
      <4> QED BY <2>1, <3>3, <3>4, <4>1, <4>2 DEF can_send
    <3>7. CASE fb_hits # {}
      <4>1. polling_after = TRUE
        BY <3>1, <3>5, <3>7 DEF polling_after
      <4>2. ~can_respond
        BY <1>6 DEF head_acts
      <4> QED BY <2>5, <3>1, <3>3, <4>1, <4>2 DEF can_poll, busy
    <3> QED BY <3>6, <3>7
  <2> QED BY <1>3, <1>4, <2>1, <2>5
<1> QED BY <1>5, <1>6 DEF put_core_req

LEMMA KeptPut ==
  ASSUME NoTraps, IInv, NEW r \in Menu, put_core_req(r) PROVE Structure' /\ Order' /\ Offered'
<1>1. Typed /\ Structure /\ Ring /\ Single /\ Fills /\ Waits /\ Overtaken /\ FenceLast /\ Output
  BY DEF IInv, Structure
<1>2. UNCHANGED <<ff_pending_req, rg_fence_set, rg_handling_miss, rg_performing_replay,
                  rg_polling_mode, v_reg_valid, v_reg_dirty, ram, fb, rg_fbhead, rg_fbtail, sb,
                  rg_tail, rg_sb_busy>>
      /\ offered' = "none" /\ ff_core_request' = Append(ff_core_request, asked(r))
      /\ rg_recent_req' = set_of(r) /\ ram_out' = ram[set_of(r)]
      /\ rg_release_readphase' = FALSE /\ rg_fence_stall' = (r.access = "fence")
      /\ issued < MaxOps
  BY DEF put_core_req, NextCycle, rams, fbPtrs, sbVars, asked, set_of
<1>3. asked(r) \in Request /\ asked(r).access = r.access /\ set_of(r) = set_of(asked(r))
  BY <1>1, <1>2, AskedTyped, TypesOf DEF asked, set_of
<1>4. ~rg_fence_stall /\ (ff_core_request # <<>> => busy /\ ~sb_full
                            /\ Len(ff_core_request) = 1 /\ req.access # "fence")
  BY PutBehindWaiting, PutHasRoom DEF IInv
<1> DEFINE x == asked(r)
<1>5. /\ ff_core_request' # <<>> /\ latest' = x
      /\ ff_core_request # <<>> => req' = req /\ Len(ff_core_request') = 2
      /\ ff_core_request = <<>> => req' = x /\ Len(ff_core_request') = 1
  <2>1. x \in Request /\ ff_core_request' = Append(ff_core_request, x)
    BY <1>2, <1>3
  <2> HIDE DEF x
  <2>2. /\ ff_core_request \in Seq(Request) /\ Len(ff_core_request) \in Nat
        /\ ff_core_request = <<>> => Len(ff_core_request) = 0
    BY <1>1, Queue DEF Typed, Queues
  <2>3. Len(ff_core_request') = Len(ff_core_request) + 1
        /\ ff_core_request'[Len(ff_core_request) + 1] = x
        /\ ff_core_request' \in Seq(Request)
    BY <2>1, <2>2, Enqueued
  <2>4. latest' = x
    BY <2>3 DEF latest
  <2>5. ff_core_request' # <<>>
    BY <2>2, <2>3, Queue
  <2>6. ff_core_request # <<>> => req' = req
    BY <2>1, <2>2, HeadKept DEF req
  <2>7. ASSUME ff_core_request = <<>> PROVE req' = x
    <3>1. Len(ff_core_request') = 1 /\ ff_core_request'[1] = x
      BY <2>2, <2>3, <2>7
    <3> QED BY <2>3, <3>1, QueueOne DEF req
  <2>8. ASSUME ff_core_request # <<>> PROVE Len(ff_core_request') = 2
    <3>1. Len(ff_core_request) = 1
      BY <1>4, <2>8
    <3>2. Len(ff_core_request') = 1 + 1
      BY <2>3, <3>1
    <3> QED BY <3>2
  <2>9. ff_core_request = <<>> => Len(ff_core_request') = 1
    BY <2>2, <2>3
  <2> QED BY <2>4, <2>5, <2>6, <2>7, <2>8, <2>9
<1>6. ff_core_request # <<>> => at_head' = at_head /\ nc_write' = nc_write /\ fb_hits' = fb_hits
  BY <1>2, <1>5 DEF at_head, nc_write, isIO, fb_hits, line
<1>7. Structure'
  <2>1. rg_handling_miss => rg_handling_miss' /\ req' = req
    BY <1>1, <1>2, <1>5 DEF Waits, at_head
  <2> QED BY <1>1, <1>2, <2>1, StructureSame DEF SameEntry
<1>8. Waits'
  BY <1>1, <1>2, <1>6 DEF Waits, at_head
<1>9. Overtaken'
  BY <1>2, <1>4, <1>5 DEF Overtaken, busy, sb_full
<1>10. rg_fence_set = 0 /\ rg_fence_set' = 0
  BY <1>1, <1>2, <1>4, <1>5 DEF FenceLast
<1>11. FenceLast'
  BY <1>2, <1>3, <1>4, <1>5, <1>10 DEF FenceLast
<1>12. latest_set' = set_of(x)
  BY <1>5 DEF latest_set, set_of
<1>13. Output'
  BY <1>2, <1>3, <1>10, <1>12 DEF Output, ReleaseBegun, next_check
<1> QED BY <1>2, <1>7, <1>8, <1>9, <1>11, <1>13 DEF Order, Offered

-----------------------------------------------------------------------------
LEMMA KeptStep ==
  ASSUME NoTraps, IInv, [Next]_vars PROVE Structure' /\ Order' /\ Offered'
<1>1. CASE rl_response_to_core \/ (rl_capture_io_response /\ may_respond)
  BY <1>1, StructureAnswer, OrderAnswer, OfferedAnswer DEF Answers
<1>2. CASE rl_capture_io_response /\ ~may_respond
  BY <1>2, KeptCaptureLost
<1>3. CASE rl_fillbuffer_check
  BY <1>3, KeptPoll
<1>4. CASE rl_send_memory_request
  BY <1>4, KeptSend
<1>5. CASE rl_perform_atomic
  BY <1>5, KeptAtomic
<1>6. CASE rl_fill_from_memory
  BY <1>6, KeptFill
<1>7. CASE rl_release_from_fillbuffer
  BY <1>7, KeptRelease
<1>8. CASE rl_perform_replay
  BY <1>8, KeptReplay
<1>9. CASE rl_fence_operation
  BY <1>9, KeptFence
<1>10. CASE ma_perform_store
  BY <1>10, KeptStore
<1>11. CASE RetireOther \/ Flush \/ BusTake \/ BusLand
  BY <1>11, KeptRest
<1>12. ASSUME NEW r \in Menu, put_core_req(r) PROVE Structure' /\ Order' /\ Offered'
  BY <1>12, KeptPut
<1>13. CASE UNCHANGED vars
  <2>1. Quiet /\ UNCHANGED <<ff_pending_req, sb, rg_tail, rg_sb_busy>>
    BY <1>13 DEF vars, fifos, modes, rams, fbPtrs, sbVars, Quiet, SameEntry
  <2>2. sb_full' = sb_full
    BY <2>1 DEF sb_full
  <2>3. Typed /\ Structure /\ Order /\ Waits /\ Offered
    BY DEF IInv, Structure, Order
  <2>4. Structure' /\ Order'
    BY <2>1, <2>2, <2>3, OrderQuiet, StructureQuiet DEF Waits
  <2>5. Offered'
    <3>1. UNCHANGED <<offered, ff_core_request, fb, sb, rg_fbhead, rg_recent_req, rg_fence_stall,
                      rg_handling_miss, rg_polling_mode, rg_performing_replay,
                      ff_write_mem_request>>
      BY <1>13 DEF vars, fifos, modes, fbPtrs, sbVars
    <3>2. releasable' = releasable /\ fb_hits' = fb_hits /\ busy' = busy
      BY <3>1, HitsSame DEF releasable, fill_oppurtunity, release_set, fb_full, fb_empty,
                            sb_empty, busy
    <3> QED BY <2>2, <2>3, <3>1, <3>2 DEF Offered
  <2> QED BY <2>4, <2>5
<1> QED BY <1>1, <1>2, <1>3, <1>4, <1>5, <1>6, <1>7, <1>8, <1>9, <1>10, <1>11, <1>12, <1>13
        DEF Next, Cache, Retire, Bus

LEMMA InvInit == NoTraps /\ Init => IInv
<1> SUFFICES ASSUME Init PROVE IInv
  OBVIOUS
<1>1. Queues /\ Bounds /\ Counted
  BY DEF Init, Queues, Bounds, Counted
<1>2. Contents
  <2>1. [i \in FbIndex |-> NoEntry] \in [FbIndex -> Entry]
        /\ [i \in Slot |-> NoStore] \in [Slot -> Store]
    BY Words
  <2>2. [tag |-> 0, data |-> Blank] \in Block
    BY Words, Shape DEF Block
  <2>3. ram \in [Set -> Block]
    BY Words DEF Init, Block
  <2> QED BY <2>1, <2>2, <2>3 DEF Init, Contents
<1>3. Regs
  <2>1. mem \in [Address -> Datum] /\ arch \in [Address -> Datum]
    BY Words DEF Init, Address
  <2>2. /\ 0 \in 0..MaxOps /\ 0 \in Set /\ 0 \in Slot /\ 0 \in FbIndex /\ 0 \in Word
    BY Shape DEF Slot
  <2> QED BY <2>1, <2>2 DEF Init, Regs
<1>4. Typed
  BY <1>1, <1>2, <1>3, TypesJoin
<1>5. /\ ff_core_request = <<>> /\ ff_pending_req = <<>> /\ responses = <<>>
      /\ ff_write_mem_request = <<>> /\ posted = <<>> /\ Len(<<>>) = 0 /\ DOMAIN <<>> = {}
      /\ ~rg_handling_miss /\ ~rg_polling_mode /\ ~rg_sb_busy /\ ~rg_fence_stall
      /\ ~rg_release_readphase /\ rg_fence_set = 0 /\ offered = "none" /\ ~rg_store_initiated
      /\ rg_fbhead = rg_fbtail
  BY DEF Init
<1>6. \A i \in FbIndex : ~fb[i].valid
  BY DEF Init, NoEntry
<1>7. \A s \in Set : ~v_reg_valid[s]
  BY DEF Init
<1>8. Initiated
  BY <1>5 DEF Initiated, DeviceWrite
<1>9. Ring /\ Single
  BY <1>5, <1>6, <1>7 DEF Ring, Single, fb_empty
<1>10. Fills
  BY <1>5 DEF Fills
<1>11. Waits /\ Overtaken /\ FenceLast /\ Output /\ Offered
  BY <1>5 DEF Waits, Overtaken, FenceLast, Output, ReleaseBegun, Offered
<1> QED BY <1>1, <1>4, <1>8, <1>9, <1>10, <1>11 DEF IInv

(* The structure of the tables and the order of the requests, as           *)
(* rl_ram_check, the release, its replay and the fence of dcache1rw.bsv     *)
(* leave them.  NoTraps is needed: a trap can leave rg_polling_mode set.   *)
THEOREM Invariant == NoTraps => (Spec => []IInv)
<1> SUFFICES ASSUME NoTraps PROVE Spec => []IInv
  OBVIOUS
<1>1. Init => IInv
  BY InvInit
<1>2. IInv /\ [Next]_vars => IInv'
  BY TypedStep, InitiatedStep, KeptStep DEF IInv, Structure, Order
<1> QED BY <1>1, <1>2, PTL DEF Spec

(* A tag hit is in the RAMs or in the fill buffer and never in both, as    *)
(* the header of dcache1rw.bsv says, and the tables hold what they may.    *)
THEOREM LinesInOnePlace == NoTraps => (Spec => []WellFormed)
<1> SUFFICES ASSUME NoTraps PROVE Spec => []WellFormed
  OBVIOUS
<1>1. IInv => WellFormed
  BY OneCopyOf DEF IInv, Typed, WellFormed
<1> QED BY <1>1, Invariant, PTL

(* A tag check reads the RAM output of the set under check: what           *)
(* rl_perform_replay and rg_recent_req are there for.                      *)
THEOREM ChecksAreFresh == NoTraps => (Spec => []CheckedOutputFresh)
<1> SUFFICES ASSUME NoTraps PROVE Spec => []CheckedOutputFresh
  OBVIOUS
<1>1. IInv => CheckedOutputFresh
  BY CheckFresh
<1> QED BY <1>1, Invariant, PTL

-----------------------------------------------------------------------------
(* The pipeline and the store buffer as sequences.                         *)
LEMMA Ops ==
  ASSUME Typed, Counted
  PROVE  /\ pipe \in Seq(Request) /\ responses \in Seq(Answer) /\ ff_core_request \in Seq(Request)
         /\ Len(pipe) \in Nat /\ Len(responses) \in Nat /\ Len(ff_core_request) \in Nat
         /\ Len(pipe) = Len(responses) + Len(ff_core_request) /\ Len(pipe) <= 3
         /\ DOMAIN pipe = 1..Len(pipe) /\ DOMAIN responses = 1..Len(responses)
         /\ DOMAIN ff_core_request = 1..Len(ff_core_request)
         /\ \A k \in DOMAIN responses : k \in Nat /\ 1 <= k /\ k <= 3 /\ k \in DOMAIN pipe
         /\ \A k \in DOMAIN pipe : pipe[k] \in Request
         /\ responses # <<>> => 1 \in DOMAIN responses /\ op = pipe[1] /\ answer = responses[1]
         /\ owed \subseteq DOMAIN responses
<1>1. pipe \in Seq(Request) /\ responses \in Seq(Answer) /\ ff_core_request \in Seq(Request)
  BY DEF Typed, Queues
<1>2. /\ Len(pipe) \in Nat /\ Len(responses) \in Nat /\ Len(ff_core_request) \in Nat
      /\ DOMAIN pipe = 1..Len(pipe) /\ DOMAIN responses = 1..Len(responses)
      /\ DOMAIN ff_core_request = 1..Len(ff_core_request)
      /\ \A k \in DOMAIN pipe : pipe[k] \in Request
  BY <1>1, Queue
<1>3. Len(pipe) = Len(responses) + Len(ff_core_request) /\ Len(pipe) <= 3
  BY TypesOf DEF Counted, Bounds
<1>4. \A k \in DOMAIN responses : k \in Nat /\ 1 <= k /\ k <= 3 /\ k \in DOMAIN pipe
  BY <1>2, <1>3
<1>5. ASSUME responses # <<>>
      PROVE  1 \in DOMAIN responses /\ op = pipe[1] /\ answer = responses[1]
  <2>1. Len(responses) > 0 /\ Head(responses) = responses[1]
    BY <1>1, <1>5, Queue
  <2>2. pipe # <<>>
    <3>1. Len(pipe) > 0
      BY <1>2, <1>3, <2>1
    <3> QED BY <1>1, <3>1, Queue
  <2>3. Head(pipe) = pipe[1]
    BY <1>1, <2>2, Queue
  <2> QED BY <1>2, <2>1, <2>3 DEF op, answer
<1> QED BY <1>1, <1>2, <1>3, <1>4, <1>5 DEF owed

(* The slots of the store buffer.                                          *)
LEMMA Ends ==
  ASSUME Typed
  PROVE  /\ rg_head \in Slot /\ rg_tail \in Slot /\ 1 - rg_head \in Slot /\ 1 - rg_tail \in Slot
         /\ 1 - (1 - rg_head) = rg_head /\ 1 - (1 - rg_tail) = rg_tail
         /\ rg_head # 1 - rg_head /\ rg_tail # 1 - rg_tail
         /\ rg_head = rg_tail \/ rg_head = 1 - rg_tail
         /\ \A s \in Slot : s = rg_head \/ s = 1 - rg_head
         /\ sb \in [Slot -> Store]
<1>1. rg_head \in {0, 1} /\ rg_tail \in {0, 1} /\ sb \in [Slot -> Store]
  BY TypesOf DEF Regs, Slot, Typed, Contents
<1> QED BY <1>1 DEF Slot

(* The three states of the store buffer.                                   *)
NoneOwed == owed = {} /\ sb_empty /\ rg_head = rg_tail
OneOwed(i) ==
  /\ owed = {i} /\ rg_head = 1 - rg_tail /\ place(i) = rg_head
  /\ sb[rg_head].valid /\ ~sb[rg_tail].valid
TwoOwed(i, j) ==
  /\ owed = {i, j} /\ i < j /\ rg_head = rg_tail /\ sb_full
  /\ place(i) = rg_head /\ place(j) = 1 - rg_head

LEMMA OwedCases ==
  ASSUME Typed, Counted, Paired, Turns
  PROVE  \/ NoneOwed \/ (\E i \in owed : OneOwed(i)) \/ (\E i, j \in owed : TwoOwed(i, j))
<1>1. owed \subseteq Nat
  BY Ops
<1>2. ASSUME owed = {} PROVE NoneOwed
  <2>1. sb_empty
    BY <1>2 DEF Paired, sb_empty
  <2> QED BY <1>2, <2>1 DEF NoneOwed, Turns
<1>3. ASSUME NEW i \in owed, owed = {i} PROVE OneOwed(i)
  <2>1. place(i) = rg_head
    BY <1>1, <1>3 DEF place
  <2>2. sb[rg_head].valid
    BY <1>3, <2>1 DEF Paired, Kept
  <2>3. ~sb[1 - rg_head].valid
    BY <1>3, <2>1, Ends DEF Paired
  <2>4. ~sb_full /\ ~sb_empty
    BY <2>2, <2>3, Ends DEF sb_full, sb_empty
  <2>5. rg_head = 1 - rg_tail /\ rg_tail = 1 - rg_head
    BY <2>4, Ends DEF Turns
  <2> QED BY <1>3, <2>1, <2>2, <2>3, <2>5 DEF OneOwed
<1>4. ASSUME NEW i \in owed, NEW j \in owed, i < j PROVE TwoOwed(i, j)
  <2>1. ASSUME NEW k \in owed PROVE k = i \/ k = j
    <3>1. ~(k < i /\ i < j) /\ ~(i < k /\ k < j) /\ ~(i < j /\ j < k)
      BY <1>4 DEF Paired
    <3>2. i \in Nat /\ j \in Nat /\ k \in Nat
      BY <1>1
    <3> QED BY <1>4, <3>1, <3>2
  <2>2. owed = {i, j}
    BY <2>1
  <2>3. i \in Nat /\ j \in Nat
    BY <1>1
  <2>4. place(i) = rg_head /\ place(j) = 1 - rg_head
    BY <1>4, <2>2, <2>3 DEF place
  <2>5. sb[rg_head].valid /\ sb[1 - rg_head].valid
    BY <2>4 DEF Paired, Kept
  <2>6. sb_full
    BY <2>5, Ends DEF sb_full
  <2> QED BY <1>4, <2>2, <2>4, <2>6 DEF TwoOwed, Turns
<1>5. owed = {} \/ (\E i \in owed : owed = {i}) \/ (\E i, j \in owed : i # j)
  OBVIOUS
<1>6. \A i, j \in owed : i # j => i < j \/ j < i
  BY <1>1
<1> QED BY <1>2, <1>3, <1>4, <1>5, <1>6

(* What each access finds, in each of the states.                          *)
LEMMA BeforeNone ==
  ASSUME NoneOwed, NEW k \in Nat, NEW a PROVE before(k, a) = arch[a]
BY DEF NoneOwed, before

LEMMA BeforeOne ==
  ASSUME NEW i \in Nat, OneOwed(i), NEW k \in Nat, NEW a
  PROVE  before(k, a) = IF k <= i THEN arch[a] ELSE laid(arch[a], sb[rg_head], a)
<1>1. (\A j \in owed : j >= k) <=> k <= i
  BY DEF OneOwed
<1>2. ~\E m, j \in owed : m < j /\ j < k
  BY DEF OneOwed
<1> QED BY <1>1, <1>2 DEF before

LEMMA BeforeTwo ==
  ASSUME NEW i \in Nat, NEW j \in Nat, TwoOwed(i, j), NEW k \in Nat, NEW a
  PROVE  before(k, a) = IF k <= i THEN arch[a]
                        ELSE IF k <= j THEN laid(arch[a], sb[rg_head], a)
                        ELSE laid_both(arch[a], rg_head, a)
<1>1. (\A m \in owed : m >= k) <=> k <= i
  BY DEF TwoOwed
<1>2. (\E m, n \in owed : m < n /\ n < k) <=> j < k
  <2>1. owed = {i, j} /\ i < j
    BY DEF TwoOwed
  <2> QED BY <2>1
<1> QED BY <1>1, <1>2 DEF before

(* With all answered stores.                                               *)
LEMMA ProgramIs ==
  ASSUME Typed, Counted, Paired, Turns, NEW a
  PROVE  /\ NoneOwed => program(a) = arch[a]
         /\ \A i \in owed : OneOwed(i) => program(a) = laid(arch[a], sb[rg_head], a)
         /\ \A i, j \in owed : TwoOwed(i, j) => program(a) = laid_both(arch[a], rg_head, a)
<1>1. Len(responses) + 1 \in Nat /\ \A k \in owed : k \in Nat /\ k < Len(responses) + 1
  BY Ops
<1>2. NoneOwed => program(a) = arch[a]
  BY <1>1, BeforeNone DEF program
<1>3. ASSUME NEW i \in owed, OneOwed(i) PROVE program(a) = laid(arch[a], sb[rg_head], a)
  <2>1. ~(Len(responses) + 1 <= i) /\ i \in Nat
    BY <1>1
  <2> QED BY <1>1, <1>3, <2>1, BeforeOne DEF program
<1>4. ASSUME NEW i \in owed, NEW j \in owed, TwoOwed(i, j)
      PROVE  program(a) = laid_both(arch[a], rg_head, a)
  <2>1. ~(Len(responses) + 1 <= i) /\ ~(Len(responses) + 1 <= j) /\ i \in Nat /\ j \in Nat
    BY <1>1
  <2> QED BY <1>1, <1>4, <2>1, BeforeTwo DEF program
<1> QED BY <1>2, <1>3, <1>4

-----------------------------------------------------------------------------
(* Steps after which the k-th access was the (k + d)-th one: none of the   *)
(* answered stores leaves, or the oldest does.                             *)
LEMMA NoStoreLeaves ==
  ASSUME NEW d \in {0, 1}, owed \subseteq Nat \ {0}, d = 0 \/ 1 \notin owed,
         \A k \in Nat \ {0} : k \in owed' <=> k + d \in owed, owed' \subseteq Nat \ {0},
         UNCHANGED <<rg_head, sb, arch>>, NEW k \in Nat \ {0}
  PROVE  place(k)' = place(k + d) /\ \A a : before(k, a)' = before(k + d, a)
<1>1. ASSUME NEW j \in owed PROVE j - d \in owed' /\ j - d \in Nat /\ j \in Nat
  <2>1. j - d \in Nat \ {0} /\ (j - d) + d = j
    OBVIOUS
  <2> QED BY <2>1
<1>2. ASSUME NEW j \in owed' PROVE j + d \in owed /\ j \in Nat
  OBVIOUS
<1>3. (\E j \in owed' : j < k) <=> \E j \in owed : j < k + d
  BY <1>1, <1>2
<1>4. (\A j \in owed' : j >= k) <=> \A j \in owed : j >= k + d
  BY <1>1, <1>2
<1>5. (\E i, j \in owed' : i < j /\ j < k) <=> \E i, j \in owed : i < j /\ j < k + d
  <2>1. ASSUME NEW i \in owed', NEW j \in owed', i < j, j < k
        PROVE  \E m, n \in owed : m < n /\ n < k + d
    <3>1. i + d \in owed /\ j + d \in owed /\ i + d < j + d /\ j + d < k + d
      BY <1>2, <2>1
    <3> QED BY <3>1
  <2>2. ASSUME NEW i \in owed, NEW j \in owed, i < j, j < k + d
        PROVE  \E m, n \in owed' : m < n /\ n < k
    <3>1. i - d \in owed' /\ j - d \in owed' /\ i - d < j - d /\ j - d < k
      BY <1>1, <2>2
    <3> QED BY <3>1
  <2> QED BY <2>1, <2>2
<1>6. place(k)' = place(k + d)
  BY <1>3 DEF place
<1>7. ASSUME NEW a PROVE before(k, a)' = before(k + d, a)
  <2>1. laid_both(arch[a], rg_head, a)' = laid_both(arch[a], rg_head, a)
        /\ laid(arch[a], sb[rg_head], a)' = laid(arch[a], sb[rg_head], a)
    BY DEF laid_both, laid, updated
  <2> QED BY <1>4, <1>5, <2>1 DEF before
<1> QED BY <1>6, <1>7

LEMMA StoreLeaves ==
  ASSUME Typed, Counted, Paired, Turns, NEW d \in {0, 1}, 1 \in owed,
         \A k \in Nat \ {0} : k \in owed' <=> k + d \in owed /\ k + d # 1,
         owed' \subseteq Nat \ {0},
         rg_head' = 1 - rg_head, sb'[1 - rg_head] = sb[1 - rg_head],
         \A a \in Address : arch'[a] = laid(arch[a], sb[rg_head], a),
         NEW k \in Nat \ {0}, k + d # 1
  PROVE  /\ k \in owed' => place(k)' = place(k + d)
         /\ \A a \in Address : before(k, a)' = before(k + d, a)
<1>1. owed \subseteq Nat \ {0}
  BY Ops
<1>2. CASE OneOwed(1)
  <2>1. owed' = {}
    BY <1>2 DEF OneOwed
  <2>2. ASSUME NEW a \in Address PROVE before(k, a)' = before(k + d, a)
    <3>1. before(k, a)' = arch'[a]
      BY <2>1 DEF before
    <3>2. ~(k + d <= 1) /\ k + d \in Nat
      OBVIOUS
    <3>3. before(k + d, a) = laid(arch[a], sb[rg_head], a)
      BY <1>2, <3>2, BeforeOne
    <3> QED BY <3>1, <3>3
  <2> QED BY <2>1, <2>2
<1>3. ASSUME NEW j \in owed, TwoOwed(1, j)
      PROVE  /\ k \in owed' => place(k)' = place(k + d)
             /\ \A a \in Address : before(k, a)' = before(k + d, a)
  <2>1. owed = {1, j} /\ 1 < j /\ j \in Nat /\ place(j) = 1 - rg_head
    BY <1>1, <1>3 DEF TwoOwed
  <2>2. j - d \in Nat \ {0} /\ (j - d) + d = j
    BY <2>1
  <2>3. owed' = {j - d}
    <3>1. j - d \in owed'
      BY <2>1, <2>2
    <3>2. ASSUME NEW m \in owed' PROVE m = j - d
      <4>1. m + d \in owed /\ m + d # 1 /\ m \in Nat
        OBVIOUS
      <4> QED BY <2>1, <2>2, <4>1
    <3> QED BY <3>1, <3>2
  <2>4. k \in owed' => place(k)' = place(k + d)
    <3>1. ASSUME k \in owed' PROVE place(k)' = place(k + d)
      <4>1. k = j - d /\ k + d = j
        BY <2>2, <2>3, <3>1
      <4>2. ~\E m \in owed' : m < k
        BY <2>3, <4>1
      <4> QED BY <2>1, <4>1, <4>2 DEF place
    <3> QED BY <3>1
  <2>5. ASSUME NEW a \in Address PROVE before(k, a)' = before(k + d, a)
    <3>1. /\ (\A m \in owed' : m >= k) <=> k + d <= j
          /\ ~\E m, n \in owed' : m < n /\ n < k
      BY <2>1, <2>2, <2>3
    <3>2. laid(arch'[a], sb'[rg_head'], a) = laid_both(arch[a], rg_head, a)
      BY DEF laid_both
    <3>3. before(k, a)' = IF k + d <= j THEN laid(arch[a], sb[rg_head], a)
                          ELSE laid_both(arch[a], rg_head, a)
      BY <3>1, <3>2 DEF before
    <3>4. ~(k + d <= 1) /\ k + d \in Nat
      OBVIOUS
    <3>5. before(k + d, a) = IF k + d <= j THEN laid(arch[a], sb[rg_head], a)
                             ELSE laid_both(arch[a], rg_head, a)
      BY <1>3, <2>1, <3>4, BeforeTwo
    <3> QED BY <3>3, <3>5
  <2> QED BY <2>4, <2>5
<1>4. OneOwed(1) \/ \E j \in owed : TwoOwed(1, j)
  <2>1. ~NoneOwed
    BY DEF NoneOwed
  <2>2. ASSUME NEW i \in owed, OneOwed(i) PROVE OneOwed(1)
    <3>1. i = 1
      BY <2>2 DEF OneOwed
    <3> QED BY <2>2, <3>1
  <2>3. ASSUME NEW i \in owed, NEW j \in owed, TwoOwed(i, j) PROVE TwoOwed(1, j)
    <3>1. owed = {i, j} /\ i < j /\ i \in Nat \ {0} /\ j \in Nat \ {0}
      BY <1>1, <2>3 DEF TwoOwed
    <3>2. i = 1
      BY <3>1
    <3> QED BY <2>3, <3>2
  <2> QED BY <2>1, <2>2, <2>3, OwedCases
<1> QED BY <1>2, <1>3, <1>4

-----------------------------------------------------------------------------
(* The overlay, lane by lane.                                              *)
LEMMA LaidTyped ==
  ASSUME NEW w \in Datum, NEW e \in Store, NEW a PROVE laid(w, e, a) \in Datum
BY DEF laid, updated, Datum, Store

LEMMA LaidBothTyped ==
  ASSUME Typed, NEW w \in Datum, NEW s \in Slot, NEW a PROVE laid_both(w, s, a) \in Datum
<1>1. sb[s] \in Store /\ sb[1 - s] \in Store
  BY DEF Typed, Contents, Slot
<1> QED BY <1>1, LaidTyped DEF laid_both

LEMMA SettledLanes ==
  ASSUME Typed, Counted, Paired, Turns
  PROVE  Settled <=> \A a \in Address : laid_both(arch[a], rg_tail, a) =
           IF sb_empty THEN arch[a]
           ELSE IF sb_full THEN laid_both(arch[a], rg_tail, a)
           ELSE laid(arch[a], sb[1 - rg_tail], a)
<1> SUFFICES ASSUME NEW a \in Address
    PROVE  program(a) = IF sb_empty THEN arch[a]
                        ELSE IF sb_full THEN laid_both(arch[a], rg_tail, a)
                        ELSE laid(arch[a], sb[1 - rg_tail], a)
  BY DEF Settled
<1>1. CASE NoneOwed
  <2>1. sb_empty
    BY <1>1 DEF NoneOwed
  <2> QED BY <1>1, <2>1, ProgramIs
<1>2. ASSUME NEW i \in owed, OneOwed(i) PROVE program(a) = laid(arch[a], sb[1 - rg_tail], a)
                                              /\ ~sb_empty /\ ~sb_full
  BY <1>2, ProgramIs, Ends DEF OneOwed, sb_empty, sb_full
<1>3. ASSUME NEW i \in owed, NEW j \in owed, TwoOwed(i, j)
      PROVE  program(a) = laid_both(arch[a], rg_tail, a) /\ ~sb_empty /\ sb_full
  BY <1>3, ProgramIs, Ends DEF TwoOwed, sb_empty, sb_full
<1> QED BY <1>1, <1>2, <1>3, OwedCases

-----------------------------------------------------------------------------
(* Laying a store over a word twice, or over one that has it already.      *)
LEMMA LaidTwice ==
  ASSUME NEW w \in Datum, NEW e \in Store, NEW a
  PROVE  laid(laid(w, e, a), e, a) = laid(w, e, a)
<1> DEFINE m == IF e.addr = a THEN e.mask ELSE {}
           v == [l \in Lane |-> IF l \in m THEN e.data[l] ELSE w[l]]
<1>1. laid(w, e, a) = v
  BY DEF laid, updated
<1>2. laid(v, e, a) = [l \in Lane |-> IF l \in m THEN e.data[l] ELSE v[l]]
  BY DEF laid, updated
<1>3. \A l \in Lane : (IF l \in m THEN e.data[l] ELSE v[l]) = v[l]
  BY Zenon
<1>4. laid(v, e, a) = v
  BY <1>2, <1>3, Zenon
<1> QED BY <1>1, <1>4

(* A mask is all that decides whether the entry before it shows.           *)
LEMMA LaidHidden ==
  ASSUME NEW w \in Datum, NEW e \in Store, NEW f \in Store, NEW g \in Store, NEW a,
         g.addr = f.addr, g.mask = f.mask,
         laid(laid(w, e, a), f, a) = laid(w, f, a)
  PROVE  laid(laid(w, e, a), g, a) = laid(w, g, a)
<1> DEFINE m == IF f.addr = a THEN f.mask ELSE {}
           v == laid(w, e, a)
<1>1. ASSUME NEW x PROVE /\ laid(x, f, a) = [l \in Lane |-> IF l \in m THEN f.data[l] ELSE x[l]]
                         /\ laid(x, g, a) = [l \in Lane |-> IF l \in m THEN g.data[l] ELSE x[l]]
  BY DEF laid, updated
<1> HIDE DEF v, m
<1>2. \A l \in Lane : l \notin m => v[l] = w[l]
  <2>1. [l \in Lane |-> IF l \in m THEN f.data[l] ELSE v[l]]
        = [l \in Lane |-> IF l \in m THEN f.data[l] ELSE w[l]]
    BY <1>1 DEF v
  <2> QED BY <2>1
<1>3. laid(v, g, a) = laid(w, g, a)
  BY <1>1, <1>2
<1> QED BY <1>3 DEF v

(* Both entries say what the word says.                                    *)
LEMMA LaidSettled ==
  ASSUME NEW w \in Datum, NEW e \in Store, NEW f \in Store, NEW a,
         laid(laid(w, e, a), f, a) = w
  PROVE  laid(w, f, a) = w
<1> DEFINE m == IF f.addr = a THEN f.mask ELSE {}
           v == laid(w, e, a)
<1>1. ASSUME NEW x PROVE laid(x, f, a) = [l \in Lane |-> IF l \in m THEN f.data[l] ELSE x[l]]
  BY DEF laid, updated
<1> HIDE DEF v, m
<1>2. [l \in Lane |-> IF l \in m THEN f.data[l] ELSE v[l]] = w
  BY <1>1 DEF v
<1>3. \A l \in Lane : l \in m => f.data[l] = w[l]
  BY <1>2
<1>4. [l \in Lane |-> IF l \in m THEN f.data[l] ELSE w[l]] = w
  BY <1>2, <1>3 DEF Datum
<1> QED BY <1>1, <1>4

(* The word once the newer entry is performed, the older before it.        *)
LEMMA LaidPerformed ==
  ASSUME NEW w \in Datum, NEW e \in Store, NEW f \in Store, NEW a,
         laid(laid(w, e, a), f, a) = laid(w, f, a)
  PROVE  laid(laid(laid(w, f, a), e, a), f, a) = laid(w, f, a)
<1> DEFINE m == IF f.addr = a THEN f.mask ELSE {}
           n == IF e.addr = a THEN e.mask ELSE {}
           u == laid(w, f, a)
<1>1. ASSUME NEW x PROVE /\ laid(x, f, a) = [l \in Lane |-> IF l \in m THEN f.data[l] ELSE x[l]]
                         /\ laid(x, e, a) = [l \in Lane |-> IF l \in n THEN e.data[l] ELSE x[l]]
  BY DEF laid, updated
<1> HIDE DEF u, m, n
<1>2. u = [l \in Lane |-> IF l \in m THEN f.data[l] ELSE w[l]]
  BY <1>1 DEF u
<1>3. \A l \in Lane : l \notin m /\ l \in n => e.data[l] = w[l]
  <2>1. [l \in Lane |-> IF l \in m THEN f.data[l] ELSE (IF l \in n THEN e.data[l] ELSE w[l])]
        = [l \in Lane |-> IF l \in m THEN f.data[l] ELSE w[l]]
    <3>1. laid(laid(w, e, a), f, a)
          = [l \in Lane |-> IF l \in m THEN f.data[l] ELSE laid(w, e, a)[l]]
      BY <1>1
    <3>2. \A l \in Lane : laid(w, e, a)[l] = IF l \in n THEN e.data[l] ELSE w[l]
      BY <1>1
    <3> QED BY <1>1, <3>1, <3>2
  <2> QED BY <2>1
<1>4. laid(laid(u, e, a), f, a) = [l \in Lane |-> IF l \in m THEN f.data[l] ELSE laid(u, e, a)[l]]
  BY <1>1
<1>5. \A l \in Lane : laid(u, e, a)[l] = IF l \in n THEN e.data[l] ELSE u[l]
  BY <1>1
<1>6. \A l \in Lane : (IF l \in m THEN f.data[l] ELSE laid(u, e, a)[l])
                      = IF l \in m THEN f.data[l] ELSE w[l]
  BY <1>2, <1>3, <1>5
<1> QED BY <1>2, <1>4, <1>6 DEF u

-----------------------------------------------------------------------------
(* What the program is told stays right, step by step.                     *)
Told == InOrder /\ Seen /\ Settled

(* Steps that leave the pipeline and the store buffer alone.               *)
LEMMA ToldSame ==
  ASSUME Typed, Counted, Told,
         UNCHANGED <<pipe, responses, ff_core_request, rg_epoch, rg_store_initiated, sb,
                     rg_head, rg_tail, rg_sb_busy, arch>>,
         \A i \in FbIndex : ~fb'[i].err
  PROVE  Told'
<1>1. owed' = owed
  BY DEF owed, stores
<1>2. owed \subseteq Nat \ {0} /\ \A k \in DOMAIN responses : k \in Nat \ {0}
  BY Ops
<1>3. ASSUME NEW k \in Nat \ {0}
      PROVE  place(k)' = place(k) /\ \A a : before(k, a)' = before(k, a)
  <2>1. \A j \in Nat \ {0} : j + 0 = j
    OBVIOUS
  <2> QED BY <1>1, <1>2, <2>1, NoStoreLeaves
<1>4. Calm' /\ Aligned' /\ Turns'
  BY DEF Told, InOrder, Calm, Aligned, Turns, isIO, sb_full, sb_empty
<1>5. Paired'
  <2>1. \A k \in owed : Kept(k, sb[place(k)], pipe[k])' = Kept(k, sb[place(k)], pipe[k])
    BY <1>2, <1>3 DEF Kept, isIO, fn_atomic_op
  <2> QED BY <1>1, <1>2, <1>3, <2>1 DEF Told, InOrder, Paired
<1>6. Seen'
  BY <1>2, <1>3 DEF Told, Seen
<1>7. Settled'
  <2>1. Len(responses) + 1 \in Nat \ {0}
    BY Ops
  <2>2. \A a : program(a)' = program(a)
    BY <1>3, <2>1 DEF program
  <2> QED BY <2>2 DEF Told, Settled, laid_both, laid, updated
<1> QED BY <1>4, <1>5, <1>6, <1>7 DEF Told, InOrder

(* rl_perform_atomic writes the result over the operand of the newest.     *)
LEMMA ToldAtomic ==
  ASSUME Typed, Counted, Told, rl_perform_atomic, Typed', Counted' PROVE Told'
<1> DEFINE n == Len(responses)
           t == 1 - rg_tail
<1>1. /\ UNCHANGED <<pipe, responses, ff_core_request, rg_epoch, rg_store_initiated, fb,
                     rg_head, rg_tail, arch>>
      /\ sb' = [sb EXCEPT ![t].data = fn_atomic_op(@, sb[t].operand)]
      /\ rg_sb_busy /\ rg_sb_busy' = FALSE
  BY DEF rl_perform_atomic, core, fifos
<1>2. n \in owed /\ pipe[n].access = "atomic" /\ Paired /\ Turns
  BY <1>1 DEF Told, InOrder, Paired
<1>3. owed' = owed /\ \A k : place(k)' = place(k)
  BY <1>1 DEF owed, place, stores
<1>4. /\ owed \subseteq Nat \ {0} /\ \A k \in owed : k <= n
      /\ \A k \in DOMAIN responses : k \in Nat \ {0} /\ k <= n
  BY Ops
<1>5. rg_tail \in Slot /\ t \in Slot /\ sb \in [Slot -> Store] /\ t # rg_tail
  BY Ends
<1>6. /\ sb'[rg_tail] = sb[rg_tail]
      /\ sb'[t] = [sb[t] EXCEPT !.data = fn_atomic_op(sb[t].data, sb[t].operand)]
  BY <1>1, <1>5
<1>7. /\ sb'[t].valid = sb[t].valid /\ sb'[t].addr = sb[t].addr /\ sb'[t].mask = sb[t].mask
      /\ sb'[t].epoch = sb[t].epoch /\ sb'[t].io = sb[t].io /\ sb'[t].operand = sb[t].operand
      /\ sb'[t].data = fn_atomic_op(sb[t].data, sb[t].operand)
  <2>1. sb[t] \in Store
    BY <1>5
  <2> QED BY <1>6, <2>1 DEF Store
<1>8. place(n) = t /\ (\A k \in owed : place(k) = t => k = n)
      /\ ((\E i \in owed : OneOwed(i)) \/ \E i \in owed : TwoOwed(i, n))
  <2>1. ~NoneOwed
    BY <1>2 DEF NoneOwed
  <2>2. ASSUME NEW i \in owed, OneOwed(i)
        PROVE  place(n) = t /\ \A k \in owed : place(k) = t => k = n
    BY <1>2, <2>2 DEF OneOwed
  <2>3. ASSUME NEW i \in owed, NEW j \in owed, TwoOwed(i, j)
        PROVE  /\ place(n) = t /\ (\A k \in owed : place(k) = t => k = n) /\ TwoOwed(i, n)
    <3>1. owed = {i, j} /\ i < j /\ place(i) = rg_tail /\ place(j) = t
      BY <2>3 DEF TwoOwed
    <3>2. j = n
      BY <1>2, <1>4, <3>1
    <3> QED BY <1>5, <2>3, <3>1, <3>2
  <2> QED BY <2>1, <2>2, <2>3, OwedCases, <1>2
<1>9. \A s \in Slot : s = t \/ s = rg_tail
  BY Ends
<1>10. \A s \in Slot : sb'[s].valid = sb[s].valid
  BY <1>6, <1>7, <1>9
<1>11. Paired'
  <2>1. ASSUME NEW k \in owed PROVE Kept(k, sb[place(k)], pipe[k])'
    <3>1. Kept(k, sb[place(k)], pipe[k])
      BY <1>2 DEF Paired
    <3>2. CASE k = n
      <4>1. sb'[t].data = fn_atomic_op(pipe[n].data, sb[t].operand)
        BY <1>1, <1>7, <1>8, <3>1, <3>2 DEF Kept
      <4> HIDE DEF t, n
      <4> QED BY <1>1, <1>2, <1>3, <1>7, <1>8, <3>1, <3>2, <4>1 DEF Kept, isIO, fn_atomic_op, n
    <3>3. CASE k # n
      <4>1. place(k) = rg_tail
        <5>1. place(k) \in Slot
          BY Ends DEF place
        <5> QED BY <1>8, <1>9, <3>3, <5>1
      <4>2. sb'[place(k)] = sb[place(k)]
        BY <1>6, <4>1
      <4> QED BY <1>1, <1>3, <3>1, <3>3, <4>2 DEF Kept, isIO, fn_atomic_op
    <3> QED BY <3>2, <3>3
  <2> QED BY <1>1, <1>2, <1>3, <1>10, <2>1 DEF Paired
<1>12. ASSUME NEW k \in Nat \ {0}, k <= n, NEW a PROVE before(k, a)' = before(k, a)
  <2>1. CASE \E i \in owed : OneOwed(i)
    <3>1. owed = {n}
      BY <1>2, <2>1 DEF OneOwed
    <3>2. \A j \in owed : j >= k
      BY <1>4, <1>12, <3>1
    <3> QED BY <1>1, <1>3, <3>2 DEF before
  <2>2. ASSUME NEW i \in owed, TwoOwed(i, n) PROVE before(k, a)' = before(k, a)
    <3>1. owed = {i, n} /\ rg_head = rg_tail
      BY <2>2 DEF TwoOwed
    <3>2. ~\E p, q \in owed : p < q /\ q < k
      BY <1>4, <1>12, <3>1
    <3>3. laid(arch[a], sb[rg_head], a)' = laid(arch[a], sb[rg_head], a)
      <4>1. sb'[rg_head'] = sb[rg_head] /\ arch'[a] = arch[a]
        BY <1>1, <1>6, <3>1
      <4> QED BY <4>1 DEF laid, updated
    <3> QED BY <1>1, <1>3, <3>2, <3>3 DEF before
  <2> QED BY <1>8, <2>1, <2>2
<1>13. Seen'
  <2>1. \A k \in DOMAIN responses : k \in Nat \ {0} /\ k <= n
    BY <1>4
  <2> QED BY <1>1, <1>12, <2>1 DEF Told, Seen
<1>14. sb_full' = sb_full /\ sb_empty' = sb_empty
  BY <1>10 DEF sb_full, sb_empty
<1>15. Calm' /\ Aligned' /\ Turns'
  <2>1. sb'[rg_head].valid = sb[rg_head].valid
    BY <1>10, Ends
  <2> QED BY <1>1, <1>14, <2>1 DEF Told, InOrder, Calm, Aligned, Turns, isIO
<1>16. Typed /\ Counted /\ Paired /\ Turns
  BY <1>2
<1>17. ASSUME NEW a \in Address
       PROVE  laid_both(arch[a], rg_tail, a)' =
                IF sb_empty' THEN arch'[a]
                ELSE IF sb_full' THEN laid_both(arch[a], rg_tail, a)'
                ELSE laid(arch[a], sb[1 - rg_tail], a)'
  <2>1. ~sb_empty
    <3>1. sb[rg_head].valid
      BY <1>8, Ends DEF OneOwed, TwoOwed, sb_full
    <3> QED BY <3>1, Ends DEF sb_empty
  <2>2. CASE ~sb_full
    <3>1. arch[a] \in Datum /\ sb[t] \in Store /\ sb[rg_tail] \in Store
      BY <1>5, TypesOf DEF Regs
    <3>2. sb'[t] \in Store
      <4>1. sb[t].data \in Datum /\ sb[t].operand \in Datum
        BY <3>1 DEF Store
      <4>2. fn_atomic_op(sb[t].data, sb[t].operand) \in Datum
        BY <4>1, Words
      <4> QED BY <1>6, <3>1, <4>2 DEF Store
    <3>3. laid(laid(arch[a], sb[rg_tail], a), sb[t], a) = laid(arch[a], sb[t], a)
      BY <1>16, <2>1, <2>2, SettledLanes DEF Told, laid_both
    <3>4. laid(laid(arch[a], sb[rg_tail], a), sb'[t], a) = laid(arch[a], sb'[t], a)
      BY <1>7, <3>1, <3>2, <3>3, LaidHidden
    <3>5. /\ laid_both(arch[a], rg_tail, a)' = laid(laid(arch[a], sb'[rg_tail], a), sb'[t], a)
          /\ laid(arch[a], sb[1 - rg_tail], a)' = laid(arch[a], sb'[t], a)
      BY <1>1 DEF laid_both, laid, updated
    <3> QED BY <1>6, <1>14, <2>1, <2>2, <3>4, <3>5
  <2> QED BY <1>14, <2>1, <2>2
<1>18. Settled'
  <2>1. (Typed /\ Counted /\ Paired /\ Turns)' =>
          (Settled <=> \A a \in Address : laid_both(arch[a], rg_tail, a) =
             IF sb_empty THEN arch[a]
             ELSE IF sb_full THEN laid_both(arch[a], rg_tail, a)
             ELSE laid(arch[a], sb[1 - rg_tail], a))'
    BY SettledLanes, PTL
  <2> QED BY <1>11, <1>15, <1>17, <2>1
<1> QED BY <1>11, <1>13, <1>15, <1>18 DEF Told, InOrder

-----------------------------------------------------------------------------
(* An answer takes its request out of the cache.                           *)
LEMMA Appended ==
  ASSUME Typed, Counted, Aligned, Initiated, ff_core_request # <<>>, NEW ans \in Answer,
         responses' = Append(responses, ans), ff_core_request' = Tail(ff_core_request),
         UNCHANGED <<pipe, rg_store_initiated>>, NEW n, n = Len(responses) + 1
  PROVE  /\ n \in Nat \ {0} /\ n \in DOMAIN pipe /\ pipe[n] = req
         /\ Len(responses') = n /\ responses'[n] = ans
         /\ \A k \in DOMAIN responses : responses'[k] = responses[k]
         /\ DOMAIN responses' = DOMAIN responses \cup {n}
         /\ Aligned'
         /\ owed' = (IF stores(req) THEN owed \cup {n} ELSE owed)
         /\ \A k \in DOMAIN responses : k \in Nat \ {0} /\ k < n
         /\ owed \subseteq DOMAIN responses
<1>1. /\ pipe \in Seq(Request) /\ responses \in Seq(Answer) /\ ff_core_request \in Seq(Request)
      /\ Len(pipe) \in Nat /\ Len(responses) \in Nat /\ Len(ff_core_request) \in Nat
      /\ Len(pipe) = Len(responses) + Len(ff_core_request)
      /\ DOMAIN pipe = 1..Len(pipe) /\ DOMAIN responses = 1..Len(responses)
      /\ DOMAIN ff_core_request = 1..Len(ff_core_request)
      /\ owed \subseteq DOMAIN responses
  BY Ops
<1>2. req = ff_core_request[1] /\ 1 \in DOMAIN ff_core_request
  BY <1>1, HeadRequest
<1>3. n \in Nat \ {0} /\ n \in DOMAIN pipe /\ pipe[n] = req
  <2>1. ff_core_request[1] = pipe[n]
    BY <1>2 DEF Aligned
  <2>2. Len(ff_core_request) >= 1
    BY <1>1, <1>2
  <2>3. n \in Nat \ {0} /\ n \in 1..Len(pipe)
    BY <1>1, <2>2
  <2> QED BY <1>1, <1>2, <2>1, <2>3
<1>4. /\ Len(responses') = n /\ responses'[n] = ans
      /\ \A k \in DOMAIN responses : responses'[k] = responses[k]
      /\ DOMAIN responses' = 1..n
  BY <1>1, Enqueued
<1>5. DOMAIN responses' = DOMAIN responses \cup {n}
  BY <1>1, <1>4
<1>6. \A k \in DOMAIN responses : k \in Nat \ {0} /\ k < n
  BY <1>1
<1>7. Aligned'
  <2>1. ASSUME NEW k \in DOMAIN ff_core_request'
        PROVE  ff_core_request'[k] = pipe'[Len(responses') + k]
    <3>1. k + 1 \in DOMAIN ff_core_request /\ ff_core_request'[k] = ff_core_request[k + 1]
      BY <1>1, Queue
    <3>2. ff_core_request[k + 1] = pipe[Len(responses) + (k + 1)]
      BY <3>1 DEF Aligned
    <3>3. k \in Nat
      BY <1>1, <3>1, Queue
    <3>4. Len(responses) + (k + 1) = Len(responses') + k
      BY <1>1, <1>4, <3>3
    <3> QED BY <3>1, <3>2, <3>4
  <2> QED BY <2>1 DEF Aligned
<1>8. owed' = (IF stores(req) THEN owed \cup {n} ELSE owed)
  <2>1. n = 1 => ~rg_store_initiated
    <3>1. responses = <<>> => ~rg_store_initiated
      BY DEF Initiated
    <3>2. n = 1 => responses = <<>>
      BY <1>1, Queue
    <3> QED BY <3>1, <3>2
  <2>2. \A k \in DOMAIN responses : k # n
    BY <1>6
  <2>3. ASSUME NEW k PROVE k \in owed' <=> (k \in owed \/ (k = n /\ stores(req)))
    <3>1. k \in owed' <=> k \in DOMAIN responses' /\ stores(pipe[k]) /\ ~(k = 1 /\ rg_store_initiated)
      BY DEF owed, stores
    <3>2. k \in owed <=> k \in DOMAIN responses /\ stores(pipe[k]) /\ ~(k = 1 /\ rg_store_initiated)
      BY DEF owed
    <3> QED BY <1>3, <1>5, <2>1, <2>2, <3>1, <3>2
  <2> QED BY <2>3
<1> QED BY <1>1, <1>3, <1>4, <1>5, <1>6, <1>7, <1>8

(* The overlay depends on the store buffer alone.                          *)
LEMMA SettledSame ==
  ASSUME Typed, Counted, Paired, Turns, Typed', Counted', Paired', Turns', Settled,
         UNCHANGED <<sb, rg_tail, arch>>
  PROVE  Settled'
<1> DEFINE lanes(a) == laid_both(arch[a], rg_tail, a) =
             IF sb_empty THEN arch[a]
             ELSE IF sb_full THEN laid_both(arch[a], rg_tail, a)
             ELSE laid(arch[a], sb[1 - rg_tail], a)
<1>1. \A a \in Address : lanes(a)
  BY SettledLanes
<1>2. ASSUME NEW a \in Address PROVE lanes(a)'
  <2>1. lanes(a)
    BY <1>1
  <2> QED BY <2>1 DEF laid_both, laid, updated, sb_empty, sb_full
<1>3. (Typed /\ Counted /\ Paired /\ Turns)' => (Settled <=> \A a \in Address : lanes(a))'
  BY SettledLanes, PTL
<1> QED BY <1>2, <1>3

(* A load is answered with the word of the program, and a fence with none. *)
LEMMA ToldLoad ==
  ASSUME Typed, Counted, Told, Initiated, Typed', Counted',
         ff_core_request # <<>>, NEW ans \in Answer,
         responses' = Append(responses, ans), ff_core_request' = Tail(ff_core_request),
         ~rg_sb_busy, ~stores(req), ~ans.trap, req.access # "fence" => ans.word = program(req.addr),
         UNCHANGED <<pipe, rg_epoch, rg_store_initiated, sb, rg_head, rg_tail, rg_sb_busy, arch>>,
         \A i \in FbIndex : ~fb'[i].err
  PROVE  Told'
<1> PICK n : n = Len(responses) + 1
  OBVIOUS
<1>1. /\ n \in Nat \ {0} /\ pipe[n] = req /\ Len(responses') = n /\ responses'[n] = ans
      /\ \A k \in DOMAIN responses : responses'[k] = responses[k]
      /\ DOMAIN responses' = DOMAIN responses \cup {n}
      /\ Aligned' /\ owed' = owed
      /\ \A k \in DOMAIN responses : k \in Nat \ {0} /\ k < n
      /\ owed \subseteq DOMAIN responses
  BY Appended DEF Told, InOrder
<1>2. ASSUME NEW k \in Nat \ {0}
      PROVE  place(k)' = place(k) /\ \A a : before(k, a)' = before(k, a)
  <2>1. \A j \in Nat \ {0} : j + 0 = j
    OBVIOUS
  <2> QED BY <1>1, <2>1, NoStoreLeaves
<1>3. Calm' /\ Turns'
  BY <1>1 DEF Told, InOrder, Calm, Turns, isIO, sb_full, sb_empty
<1>4. Paired'
  <2>1. ASSUME NEW k \in owed PROVE Kept(k, sb[place(k)], pipe[k])'
    <3>1. Kept(k, sb[place(k)], pipe[k])
      BY DEF Told, InOrder, Paired
    <3>2. place(k)' = place(k) /\ k \in DOMAIN responses
      BY <1>1, <1>2
    <3>3. ~rg_sb_busy'
      OBVIOUS
    <3> QED BY <1>1, <3>1, <3>2, <3>3 DEF Kept, isIO, fn_atomic_op
  <2>2. ASSUME NEW s \in Slot, sb'[s].valid PROVE \E k \in owed : place(k)' = s
    <3>1. PICK k \in owed : place(k) = s
      BY <2>2 DEF Told, InOrder, Paired
    <3> QED BY <1>1, <1>2, <3>1
  <2> QED BY <1>1, <2>1, <2>2 DEF Told, InOrder, Paired
<1>5. Settled'
  BY <1>3, <1>4, SettledSame DEF Told, InOrder
<1>6. Seen'
  <2>1. ASSUME NEW k \in DOMAIN responses, pipe[k].access \in {"load", "atomic"}
        PROVE  responses'[k].word = before(k, pipe[k].addr)'
    <3>1. responses[k].word = before(k, pipe[k].addr)
      BY <2>1 DEF Told, Seen
    <3>2. \A a : before(k, a)' = before(k, a)
      BY <1>1, <1>2
    <3> QED BY <1>1, <3>1, <3>2
  <2>2. ASSUME req.access \in {"load", "atomic"} PROVE ans.word = before(n, pipe[n].addr)'
    <3>1. \A a : before(n, a)' = before(n, a)
      BY <1>1, <1>2
    <3>2. ans.word = program(req.addr)
      BY <2>2
    <3>3. ans.word = before(n, req.addr)
      BY <3>2 DEF program
    <3>4. ans.word = before(n, pipe[n].addr)
      BY <1>1, <3>3
    <3> QED BY <3>1, <3>4
  <2> QED BY <1>1, <2>1, <2>2 DEF Seen
<1> QED BY <1>1, <1>3, <1>4, <1>5, <1>6 DEF Told, InOrder

(* A store or an atomic is answered and enters the store buffer at its     *)
(* tail, behind the oldest, with what it read.                             *)
LEMMA ToldStore ==
  ASSUME Typed, Counted, Told, Initiated, Typed', Counted',
         ff_core_request # <<>>, NEW ans \in Answer,
         responses' = Append(responses, ans), ff_core_request' = Tail(ff_core_request),
         ~rg_sb_busy, ~sb_full, stores(req), ~ans.trap,
         req.access = "atomic" => ans.word = program(req.addr),
         NEW i, sb' = [sb EXCEPT ![rg_tail] =
                         [valid |-> TRUE, addr |-> req.addr, data |-> req.data, mask |-> req.mask,
                          epoch |-> req.epoch, io |-> isIO(req.addr), operand |-> ans.word,
                          fbindex |-> i]],
         rg_tail' = 1 - rg_tail, rg_sb_busy' = (req.access = "atomic"),
         UNCHANGED <<pipe, rg_epoch, rg_store_initiated, rg_head, arch>>,
         \A j \in FbIndex : ~fb'[j].err
  PROVE  Told'
<1> PICK n : n = Len(responses) + 1
  OBVIOUS
<1> DEFINE e == [valid |-> TRUE, addr |-> req.addr, data |-> req.data, mask |-> req.mask,
                 epoch |-> req.epoch, io |-> isIO(req.addr), operand |-> ans.word, fbindex |-> i]
<1>1. /\ n \in Nat \ {0} /\ pipe[n] = req /\ Len(responses') = n /\ responses'[n] = ans
      /\ \A k \in DOMAIN responses : responses'[k] = responses[k]
      /\ DOMAIN responses' = DOMAIN responses \cup {n}
      /\ Aligned' /\ owed' = owed \cup {n}
      /\ \A k \in DOMAIN responses : k \in Nat \ {0} /\ k < n
      /\ owed \subseteq DOMAIN responses
  BY Appended DEF Told, InOrder
<1>2. /\ e.valid /\ e.addr = req.addr /\ e.data = req.data /\ e.mask = req.mask
      /\ e.epoch = req.epoch /\ e.io = isIO(req.addr) /\ e.operand = ans.word
  OBVIOUS
<1>3. sb' = [sb EXCEPT ![rg_tail] = e]
  OBVIOUS
<1> HIDE DEF e
<1>4. /\ rg_head \in Slot /\ rg_tail \in Slot /\ 1 - rg_tail \in Slot /\ rg_tail # 1 - rg_tail
      /\ 1 - (1 - rg_tail) = rg_tail /\ sb \in [Slot -> Store]
      /\ rg_head = rg_tail \/ rg_head = 1 - rg_tail
      /\ \A s \in Slot : s = rg_tail \/ s = 1 - rg_tail
  BY Ends
<1>5. sb'[rg_tail] = e /\ sb'[1 - rg_tail] = sb[1 - rg_tail]
  BY <1>3, <1>4
<1>6. NoneOwed \/ \E k \in owed : OneOwed(k)
  BY OwedCases DEF Told, InOrder, TwoOwed
<1>7. n \notin owed /\ \A k \in owed : k \in Nat \ {0} /\ k < n
  BY <1>1
<1>8. place(n)' = rg_tail /\ (\A k \in owed : place(k)' = place(k) /\ place(k) = 1 - rg_tail)
  <2>1. CASE NoneOwed
    <3>1. ~\E j \in owed' : j < n
      BY <1>1, <2>1 DEF NoneOwed
    <3> QED BY <2>1, <3>1 DEF place, NoneOwed
  <2>2. ASSUME NEW k \in owed, OneOwed(k)
        PROVE  /\ place(n)' = rg_tail /\ place(k)' = place(k) /\ place(k) = 1 - rg_tail
               /\ owed = {k}
    <3>1. owed = {k} /\ rg_head = 1 - rg_tail /\ place(k) = rg_head /\ k < n /\ k \in Nat
      BY <1>7, <2>2 DEF OneOwed
    <3>2. \E j \in owed' : j < n
      BY <1>1, <3>1
    <3>3. ~\E j \in owed' : j < k
      BY <1>1, <3>1
    <3>4. place(n)' = 1 - rg_head' /\ place(k)' = rg_head'
      BY <3>2, <3>3 DEF place
    <3> QED BY <1>4, <3>1, <3>4
  <2> QED BY <1>6, <2>1, <2>2 DEF NoneOwed
<1>9. Paired'
  <2>1. ASSUME NEW k \in owed PROVE Kept(k, sb[place(k)], pipe[k])'
    <3>1. Kept(k, sb[place(k)], pipe[k])
      BY DEF Told, InOrder, Paired
    <3>2. sb'[place(k)'] = sb[place(k)] /\ k \in DOMAIN responses /\ k # Len(responses')
      BY <1>1, <1>5, <1>7, <1>8
    <3> QED BY <1>1, <3>1, <3>2 DEF Kept, isIO, fn_atomic_op
  <2>2. Kept(n, sb[place(n)], pipe[n])'
    <3>1. stores(pipe[n]) /\ (pipe[n].access = "store" \/ rg_sb_busy')
      BY <1>1 DEF stores
    <3>2. sb'[place(n)'] = e /\ pipe'[n] = req /\ n = Len(responses')
      BY <1>1, <1>5, <1>8
    <3>3. isIO(req.addr) = isIO(pipe[n].addr)'
      BY <1>1 DEF isIO
    <3> QED BY <1>1, <1>2, <3>1, <3>2, <3>3 DEF Kept
  <2>3. ASSUME NEW s \in Slot, sb'[s].valid PROVE \E k \in owed' : place(k)' = s
    <3>1. CASE s = rg_tail
      BY <1>1, <1>8, <3>1
    <3>2. CASE s = 1 - rg_tail
      <4>1. sb[s].valid
        BY <1>5, <2>3, <3>2
      <4>2. PICK k \in owed : place(k) = s
        BY <4>1 DEF Told, InOrder, Paired
      <4> QED BY <1>1, <1>8, <4>2
    <3> QED BY <1>4, <3>1, <3>2
  <2>4. \A j, k, m \in owed' : ~(j < k /\ k < m)
    <3>1. owed = {} \/ \E k \in owed : owed = {k}
      BY <1>6 DEF NoneOwed, OneOwed
    <3> QED BY <1>1, <1>7, <3>1
  <2>5. rg_sb_busy' => Len(responses') \in owed' /\ pipe'[Len(responses')].access = "atomic"
    BY <1>1
  <2> QED BY <1>1, <2>1, <2>2, <2>3, <2>4, <2>5 DEF Paired
<1>10. Turns'
  <2>1. CASE NoneOwed
    <3>1. ~sb'[1 - rg_tail].valid /\ sb'[rg_tail].valid /\ rg_head = rg_tail
      BY <1>2, <1>4, <1>5, <2>1 DEF NoneOwed, sb_empty
    <3> QED BY <1>4, <3>1 DEF Turns, sb_full, sb_empty
  <2>2. ASSUME NEW k \in owed, OneOwed(k) PROVE Turns'
    <3>1. sb'[1 - rg_tail].valid /\ sb'[rg_tail].valid /\ rg_head = 1 - rg_tail
      BY <1>2, <1>4, <1>5, <2>2 DEF OneOwed
    <3> QED BY <1>4, <3>1 DEF Turns, sb_full, sb_empty
  <2> QED BY <1>6, <2>1, <2>2
<1>11. Calm'
  <2>1. \A k \in DOMAIN responses' : ~responses'[k].trap
    BY <1>1 DEF Told, InOrder, Calm
  <2> QED BY <2>1 DEF Told, InOrder, Calm, isIO
<1>12. ASSUME NEW k \in Nat \ {0}, k <= n, NEW a PROVE before(k, a)' = before(k, a)
  <2>1. CASE NoneOwed
    <3>1. owed' = {n} /\ owed = {}
      BY <1>1, <2>1 DEF NoneOwed
    <3>2. (\A j \in owed' : j >= k) /\ \A j \in owed : j >= k
      BY <1>1, <1>12, <3>1
    <3> QED BY <3>2 DEF before
  <2>2. ASSUME NEW m \in owed, OneOwed(m) PROVE before(k, a)' = before(k, a)
    <3>1. owed' = {m, n} /\ owed = {m} /\ m < n /\ m \in Nat
      BY <1>1, <1>7, <2>2 DEF OneOwed
    <3>2. /\ (\A j \in owed' : j >= k) <=> k <= m
          /\ (\A j \in owed : j >= k) <=> k <= m
          /\ ~(\E j, l \in owed' : j < l /\ l < k) /\ ~(\E j, l \in owed : j < l /\ l < k)
      BY <1>1, <1>12, <3>1
    <3>3. laid(arch[a], sb[rg_head], a)' = laid(arch[a], sb[rg_head], a)
      <4>1. sb'[rg_head'] = sb[rg_head] /\ arch'[a] = arch[a]
        BY <1>5, <2>2 DEF OneOwed
      <4> QED BY <4>1 DEF laid, updated
    <3> QED BY <3>2, <3>3 DEF before
  <2> QED BY <1>6, <2>1, <2>2
<1>13. Seen'
  <2>1. ASSUME NEW k \in DOMAIN responses, pipe[k].access \in {"load", "atomic"}
        PROVE  responses'[k].word = before(k, pipe[k].addr)'
    <3>1. responses[k].word = before(k, pipe[k].addr)
      BY <2>1 DEF Told, Seen
    <3>2. k \in Nat \ {0} /\ k <= n
      BY <1>1
    <3>3. \A a : before(k, a)' = before(k, a)
      BY <1>12, <3>2
    <3> QED BY <1>1, <3>1, <3>3
  <2>2. ASSUME req.access \in {"load", "atomic"} PROVE ans.word = before(n, pipe[n].addr)'
    <3>1. \A a : before(n, a)' = before(n, a)
      BY <1>1, <1>12
    <3>2. req.access = "atomic"
      BY <2>2 DEF stores
    <3>3. ans.word = before(n, req.addr)
      BY <3>2 DEF program
    <3>4. ans.word = before(n, pipe[n].addr)
      BY <1>1, <3>3
    <3> QED BY <3>1, <3>4
  <2> QED BY <1>1, <2>1, <2>2 DEF Seen
<1> DEFINE lanes(a) == laid_both(arch[a], rg_tail, a) =
             IF sb_empty THEN arch[a]
             ELSE IF sb_full THEN laid_both(arch[a], rg_tail, a)
             ELSE laid(arch[a], sb[1 - rg_tail], a)
<1>14. ASSUME NEW a \in Address PROVE lanes(a)'
  <2>1. CASE NoneOwed
    <3>1. ~sb_empty' /\ ~sb_full'
      <4>1. ~sb'[1 - rg_tail].valid /\ sb'[rg_tail].valid
        BY <1>2, <1>4, <1>5, <2>1 DEF NoneOwed, sb_empty
      <4> QED BY <1>4, <4>1 DEF sb_empty, sb_full
    <3>2. arch[a] \in Datum /\ sb[rg_tail] \in Store /\ sb[1 - rg_tail] \in Store
      BY <1>4, TypesOf DEF Regs
    <3>3. laid(laid(arch[a], sb[rg_tail], a), sb[1 - rg_tail], a) = arch[a]
      BY <2>1, SettledLanes DEF Told, InOrder, laid_both, NoneOwed
    <3>4. laid(arch[a], sb[1 - rg_tail], a) = arch[a]
      BY <3>2, <3>3, LaidSettled
    <3>5. /\ laid_both(arch[a], rg_tail, a)' = laid(laid(arch[a], sb[1 - rg_tail], a), e, a)
          /\ laid(arch[a], sb[1 - rg_tail], a)' = laid(arch[a], e, a)
      <4>1. arch'[a] = arch[a] /\ sb'[rg_tail'] = sb[1 - rg_tail] /\ sb'[1 - rg_tail'] = e
        BY <1>4, <1>5
      <4>2. /\ laid_both(arch[a], rg_tail, a)' = laid(laid(arch'[a], sb'[rg_tail'], a), sb'[1 - rg_tail'], a)
            /\ laid(arch[a], sb[1 - rg_tail], a)' = laid(arch'[a], sb'[1 - rg_tail'], a)
        BY DEF laid_both, laid, updated
      <4> QED BY <4>1, <4>2
    <3> QED BY <3>1, <3>4, <3>5
  <2>2. ASSUME NEW k \in owed, OneOwed(k) PROVE lanes(a)'
    <3>1. sb'[1 - rg_tail].valid /\ sb'[rg_tail].valid
      BY <1>2, <1>4, <1>5, <2>2 DEF OneOwed
    <3>2. ~sb_empty' /\ sb_full'
      BY <1>4, <3>1 DEF sb_empty, sb_full
    <3> QED BY <3>2
  <2> QED BY <1>6, <2>1, <2>2
<1>15. Settled'
  <2>1. (Typed /\ Counted /\ Paired /\ Turns)' => (Settled <=> \A a \in Address : lanes(a))'
    BY SettledLanes, PTL
  <2> QED BY <1>9, <1>10, <1>14, <2>1
<1> QED BY <1>1, <1>9, <1>10, <1>11, <1>13, <1>15 DEF Told, InOrder

(* A put adds to the end of the pipeline.                                  *)
LEMMA ToldPut ==
  ASSUME Typed, Counted, Told, Typed', Counted', Straight, NEW r \in Menu, put_core_req(r)
  PROVE  Told'
<1> DEFINE q == [access |-> r.access, addr |-> r.addr, mask |-> r.mask,
                 data |-> [l \in Lane |-> issued + 1], epoch |-> rg_epoch,
                 fault |-> r \in Faults]
<1>1. /\ ff_core_request' = Append(ff_core_request, q) /\ pipe' = Append(pipe, q)
      /\ UNCHANGED <<responses, rg_epoch, rg_store_initiated, arch, fb, sb, rg_head, rg_tail,
                     rg_sb_busy>>
  BY DEF put_core_req, sbVars
<1>2. q.epoch = rg_epoch /\ q.access = r.access /\ q.addr = r.addr
  OBVIOUS
<1> HIDE DEF q
<1>3. /\ Len(pipe) \in Nat /\ Len(responses) \in Nat /\ Len(ff_core_request) \in Nat
      /\ Len(pipe) = Len(responses) + Len(ff_core_request)
      /\ DOMAIN pipe = 1..Len(pipe) /\ DOMAIN responses = 1..Len(responses)
      /\ DOMAIN ff_core_request = 1..Len(ff_core_request)
      /\ pipe \in Seq(Request) /\ ff_core_request \in Seq(Request)
      /\ owed \subseteq DOMAIN responses
      /\ \A k \in DOMAIN responses : k \in DOMAIN pipe /\ k \in Nat \ {0}
  BY Ops
<1>4. /\ DOMAIN pipe' = 1..(Len(pipe) + 1) /\ pipe'[Len(pipe) + 1] = q
      /\ \A k \in DOMAIN pipe : pipe'[k] = pipe[k]
      /\ DOMAIN ff_core_request' = 1..(Len(ff_core_request) + 1)
      /\ ff_core_request'[Len(ff_core_request) + 1] = q
      /\ \A k \in DOMAIN ff_core_request : ff_core_request'[k] = ff_core_request[k]
  <2>1. q = asked(r) /\ issued < MaxOps
    BY DEF q, asked, put_core_req
  <2>2. q \in Request
    BY <2>1, AskedTyped, TypesOf
  <2>3. /\ Append(pipe, q) \in Seq(Request) /\ Len(Append(pipe, q)) = Len(pipe) + 1
        /\ Append(pipe, q)[Len(pipe) + 1] = q
        /\ \A k \in DOMAIN pipe : Append(pipe, q)[k] = pipe[k]
    BY <1>3, <2>2, Enqueued
  <2>4. /\ Append(ff_core_request, q) \in Seq(Request)
        /\ Len(Append(ff_core_request, q)) = Len(ff_core_request) + 1
        /\ Append(ff_core_request, q)[Len(ff_core_request) + 1] = q
        /\ \A k \in DOMAIN ff_core_request : Append(ff_core_request, q)[k] = ff_core_request[k]
    BY <1>3, <2>2, Enqueued
  <2> QED BY <1>1, <2>3, <2>4, Queue
<1>5. Calm'
  <2>1. q.epoch = 0 /\ (q.access = "atomic" => ~isIO(q.addr))
    BY <1>2 DEF Straight, Told, InOrder, Calm
  <2>2. ASSUME NEW k \in DOMAIN pipe'
        PROVE  pipe'[k].epoch = 0 /\ (pipe'[k].access = "atomic" => ~isIO(pipe'[k].addr))
    <3>1. CASE k \in DOMAIN pipe
      BY <1>4, <3>1 DEF Told, InOrder, Calm
    <3>2. CASE k \notin DOMAIN pipe
      <4>1. k \in 1..(Len(pipe) + 1) /\ ~(k \in 1..Len(pipe)) /\ Len(pipe) \in Nat
        BY <1>3, <1>4, <3>2
      <4>2. k = Len(pipe) + 1
        BY <4>1
      <4> QED BY <1>4, <2>1, <4>2
    <3> QED BY <3>1, <3>2
  <2> QED BY <1>1, <2>2 DEF Told, InOrder, Calm, isIO
<1>6. Aligned'
  <2>1. ASSUME NEW k \in DOMAIN ff_core_request'
        PROVE  ff_core_request'[k] = pipe'[Len(responses) + k]
    <3>1. CASE k \in DOMAIN ff_core_request
      <4>1. ff_core_request[k] = pipe[Len(responses) + k]
        BY <3>1 DEF Told, InOrder, Aligned
      <4>2. Len(responses) + k \in DOMAIN pipe
        BY <1>3, <3>1
      <4> QED BY <1>4, <3>1, <4>1, <4>2
    <3>2. CASE k \notin DOMAIN ff_core_request
      <4>1. k = Len(ff_core_request) + 1 /\ Len(responses) + k = Len(pipe) + 1
        BY <1>3, <1>4, <2>1, <3>2
      <4> QED BY <1>4, <4>1
    <3> QED BY <3>1, <3>2
  <2> QED BY <1>1, <2>1 DEF Aligned
<1>7. owed' = owed
  <2>1. ASSUME NEW k PROVE k \in owed' <=> k \in owed
    BY <1>1, <1>3, <1>4 DEF owed, stores
  <2> QED BY <2>1
<1>8. ASSUME NEW k \in Nat \ {0}
      PROVE  place(k)' = place(k) /\ \A a : before(k, a)' = before(k, a)
  <2>1. \A j \in Nat \ {0} : j + 0 = j
    OBVIOUS
  <2>2. owed \subseteq Nat \ {0}
    BY <1>3
  <2> QED BY <1>1, <1>7, <2>1, <2>2, NoStoreLeaves
<1>9. Turns'
  BY <1>1 DEF Told, InOrder, Turns, sb_full, sb_empty
<1>10. Paired'
  <2>1. ASSUME NEW k \in owed PROVE Kept(k, sb[place(k)], pipe[k])'
    <3>1. Kept(k, sb[place(k)], pipe[k])
      BY DEF Told, InOrder, Paired
    <3>2. place(k)' = place(k) /\ pipe'[k] = pipe[k]
      BY <1>3, <1>4, <1>8
    <3> QED BY <1>1, <3>1, <3>2 DEF Kept, isIO, fn_atomic_op
  <2>2. ASSUME NEW s \in Slot, sb'[s].valid PROVE \E k \in owed : place(k)' = s
    <3>1. PICK k \in owed : place(k) = s
      BY <1>1, <2>2 DEF Told, InOrder, Paired
    <3> QED BY <1>3, <1>8, <3>1
  <2>3. rg_sb_busy => Len(responses) \in owed /\ pipe'[Len(responses)].access = "atomic"
    BY <1>3, <1>4 DEF Told, InOrder, Paired
  <2> QED BY <1>1, <1>7, <2>1, <2>2, <2>3 DEF Told, InOrder, Paired
<1>11. Settled'
  BY <1>1, <1>9, <1>10, SettledSame DEF Told, InOrder
<1>12. Seen'
  <2>1. ASSUME NEW k \in DOMAIN responses, pipe'[k].access \in {"load", "atomic"}
        PROVE  responses'[k].word = before(k, pipe[k].addr)'
    <3>1. pipe'[k] = pipe[k]
      BY <1>3, <1>4
    <3>2. responses[k].word = before(k, pipe[k].addr)
      BY <2>1, <3>1 DEF Told, Seen
    <3>3. \A a : before(k, a)' = before(k, a)
      BY <1>3, <1>8
    <3> QED BY <1>1, <3>1, <3>2, <3>3
  <2> QED BY <1>1, <2>1 DEF Seen
<1> QED BY <1>5, <1>6, <1>9, <1>10, <1>11, <1>12 DEF Told, InOrder

(* The fence answers when every store is performed.                        *)
LEMMA ToldFence ==
  ASSUME Typed, Counted, Told, Initiated, Typed', Counted', rl_fence_operation PROVE Told'
<1>1. /\ ff_core_request # <<>> /\ req.access = "fence" /\ sb_empty
      /\ UNCHANGED <<pipe, rg_epoch, rg_store_initiated, sb, rg_head, rg_tail, rg_sb_busy, arch, fb>>
  BY DEF rl_fence_operation, can_fence, sbVars
<1>2. \A i \in FbIndex : ~fb'[i].err
  BY <1>1 DEF Told, InOrder, Calm
<1>3. CASE UNCHANGED <<ff_core_request, responses>>
  BY <1>1, <1>2, <1>3, ToldSame
<1>4. CASE /\ ff_core_request' = Tail(ff_core_request)
           /\ responses' = Append(responses, [word |-> Zero, trap |-> FALSE])
  <2> DEFINE x == [word |-> Zero, trap |-> FALSE]
  <2>1. x \in Answer /\ ~x.trap
    BY Words DEF Answer
  <2> HIDE DEF x
  <2>2. responses' = Append(responses, x)
    BY <1>4 DEF x
  <2>3. ~rg_sb_busy
    <3>1. \A k \in owed : sb[place(k)].valid /\ place(k) \in Slot
      BY Ends DEF Told, InOrder, Paired, Kept, place
    <3>2. owed = {}
      BY <1>1, <3>1 DEF sb_empty
    <3> QED BY <3>2 DEF Told, InOrder, Paired
  <2>4. ~stores(req)
    BY <1>1 DEF stores
  <2> QED BY <1>1, <1>2, <1>4, <2>1, <2>2, <2>3, <2>4, ToldLoad
<1> QED BY <1>3, <1>4 DEF rl_fence_operation

-----------------------------------------------------------------------------
(* The oldest access leaves the pipeline.                                  *)
LEMMA Shifted ==
  ASSUME Typed, Counted, Aligned, responses # <<>>, pop, ff_core_request' = ff_core_request
  PROVE  /\ Len(responses') \in Nat /\ Len(responses) = Len(responses') + 1
         /\ \A k \in DOMAIN responses' :
              /\ k \in Nat \ {0} /\ k + 1 \in DOMAIN responses
              /\ responses'[k] = responses[k + 1] /\ pipe'[k] = pipe[k + 1]
         /\ \A k \in Nat \ {0} : k \in DOMAIN responses' <=> k + 1 \in DOMAIN responses
         /\ \A k \in DOMAIN pipe' : k + 1 \in DOMAIN pipe /\ pipe'[k] = pipe[k + 1]
         /\ Aligned'
<1>1. /\ pipe \in Seq(Request) /\ responses \in Seq(Answer)
      /\ Len(pipe) \in Nat /\ Len(responses) \in Nat /\ Len(ff_core_request) \in Nat
      /\ Len(pipe) = Len(responses) + Len(ff_core_request)
      /\ DOMAIN pipe = 1..Len(pipe) /\ DOMAIN responses = 1..Len(responses)
      /\ DOMAIN ff_core_request = 1..Len(ff_core_request)
  BY Ops
<1>2. /\ Len(responses) > 0 /\ Tail(responses) \in Seq(Answer)
      /\ Len(Tail(responses)) = Len(responses) - 1
      /\ \A k \in DOMAIN Tail(responses) :
           k + 1 \in DOMAIN responses /\ Tail(responses)[k] = responses[k + 1]
  BY <1>1, Queue
<1>3. pipe # <<>>
  <2>1. Len(pipe) > 0
    BY <1>1, <1>2
  <2> QED BY <1>1, <2>1, Queue
<1>4. /\ Tail(pipe) \in Seq(Request) /\ Len(Tail(pipe)) = Len(pipe) - 1
      /\ \A k \in DOMAIN Tail(pipe) : k + 1 \in DOMAIN pipe /\ Tail(pipe)[k] = pipe[k + 1]
  BY <1>1, <1>3, Queue
<1>5. DOMAIN responses' = 1..Len(responses) - 1 /\ DOMAIN pipe' = 1..Len(pipe) - 1
      /\ Len(responses') = Len(responses) - 1
  BY <1>2, <1>4, Queue DEF pop
<1>6. \A k \in Nat \ {0} : k \in DOMAIN responses' <=> k + 1 \in DOMAIN responses
  BY <1>1, <1>5
<1>7. \A k \in DOMAIN responses' : k \in DOMAIN pipe' /\ k \in Nat \ {0}
  BY <1>1, <1>5
<1>8. Aligned'
  <2>1. ASSUME NEW k \in DOMAIN ff_core_request
        PROVE  ff_core_request[k] = pipe'[Len(responses') + k]
    <3>1. ff_core_request[k] = pipe[Len(responses) + k]
      BY <2>1 DEF Aligned
    <3>2. Len(responses') + k \in DOMAIN pipe' /\ (Len(responses') + k) + 1 = Len(responses) + k
      BY <1>1, <1>2, <1>5, <2>1
    <3> QED BY <1>4, <3>1, <3>2 DEF pop
  <2> QED BY <2>1 DEF Aligned
<1> QED BY <1>1, <1>2, <1>4, <1>5, <1>6, <1>7, <1>8 DEF pop

(* An access that owes nothing leaves the pipeline.                        *)
LEMMA ToldPop ==
  ASSUME Typed, Counted, Told, Typed', Counted', responses # <<>>, pop, 1 \notin owed,
         rg_store_initiated' = FALSE,
         UNCHANGED <<ff_core_request, rg_epoch, sb, rg_head, rg_tail, rg_sb_busy, arch, fb>>
  PROVE  Told'
<1> PICK n : n = Len(responses)
  OBVIOUS
<1>1. /\ Len(responses') \in Nat /\ n = Len(responses') + 1
      /\ \A k \in DOMAIN responses' :
           /\ k \in Nat \ {0} /\ k + 1 \in DOMAIN responses
           /\ responses'[k] = responses[k + 1] /\ pipe'[k] = pipe[k + 1]
      /\ \A k \in Nat \ {0} : k \in DOMAIN responses' <=> k + 1 \in DOMAIN responses
      /\ \A k \in DOMAIN pipe' : k + 1 \in DOMAIN pipe /\ pipe'[k] = pipe[k + 1]
      /\ Aligned'
  BY Shifted DEF Told, InOrder
<1>2. \A k \in DOMAIN responses : k \in Nat \ {0}
  BY Ops
<1>3. owed \subseteq Nat \ {0} /\ owed' \subseteq Nat \ {0}
  BY <1>1, <1>2 DEF owed
<1>4. ASSUME NEW k \in Nat \ {0} PROVE k \in owed' <=> k + 1 \in owed
  <2>1. k + 1 # 1
    OBVIOUS
  <2>2. k \in owed' <=> k \in DOMAIN responses' /\ stores(pipe'[k])
    BY DEF owed, stores
  <2>3. k + 1 \in owed <=> k + 1 \in DOMAIN responses /\ stores(pipe[k + 1])
    BY <2>1 DEF owed
  <2> QED BY <1>1, <2>2, <2>3
<1>5. ASSUME NEW k \in Nat \ {0}
      PROVE  place(k)' = place(k + 1) /\ \A a : before(k, a)' = before(k + 1, a)
  BY <1>3, <1>4, NoStoreLeaves
<1>6. Calm'
  BY <1>1 DEF Told, InOrder, Calm, isIO
<1>7. Turns'
  BY DEF Told, InOrder, Turns, sb_full, sb_empty
<1>8. Paired'
  <2>1. ASSUME NEW k \in owed' PROVE Kept(k, sb[place(k)], pipe[k])'
    <3>1. k \in Nat \ {0} /\ k + 1 \in owed /\ k \in DOMAIN responses'
      BY <1>3, <1>4 DEF owed
    <3>2. Kept(k + 1, sb[place(k + 1)], pipe[k + 1])
      BY <3>1 DEF Told, InOrder, Paired
    <3>3. pipe'[k] = pipe[k + 1] /\ responses'[k] = responses[k + 1]
      BY <1>1, <3>1
    <3>4. k = Len(responses') <=> k + 1 = n
      <4>1. k \in Nat /\ Len(responses') \in Nat /\ n = Len(responses') + 1
        BY <1>1, <3>1
      <4> QED BY <4>1
    <3>5. place(k)' = place(k + 1)
      BY <1>5, <3>1
    <3> QED BY <3>2, <3>3, <3>4, <3>5 DEF Kept, isIO, fn_atomic_op
  <2>2. ASSUME NEW s \in Slot, sb'[s].valid PROVE \E k \in owed' : place(k)' = s
    <3>1. PICK k \in owed : place(k) = s
      BY <2>2 DEF Told, InOrder, Paired
    <3>2. k # 1 /\ k \in Nat \ {0}
      BY <1>3, <3>1
    <3>3. k - 1 \in Nat \ {0} /\ (k - 1) + 1 = k
      BY <3>2
    <3> QED BY <1>4, <1>5, <3>1, <3>3
  <2>3. \A i, j, k \in owed' : ~(i < j /\ j < k)
    <3>1. ASSUME NEW i \in owed', NEW j \in owed', NEW k \in owed', i < j, j < k PROVE FALSE
      <4>1. i + 1 \in owed /\ j + 1 \in owed /\ k + 1 \in owed /\ i \in Nat /\ j \in Nat /\ k \in Nat
        BY <1>3, <1>4
      <4>2. i + 1 < j + 1 /\ j + 1 < k + 1
        BY <3>1, <4>1
      <4> QED BY <4>1, <4>2 DEF Told, InOrder, Paired
    <3> QED BY <3>1
  <2>4. rg_sb_busy => Len(responses') \in owed' /\ pipe'[Len(responses')].access = "atomic"
    <3>1. rg_sb_busy => n \in owed /\ pipe[n].access = "atomic"
      BY DEF Told, InOrder, Paired
    <3>2. ASSUME n \in owed PROVE Len(responses') \in owed' /\ pipe'[Len(responses')] = pipe[n]
      <4>1. n # 1
        BY <3>2
      <4>2. Len(responses') \in Nat \ {0}
        BY <1>1, <4>1
      <4>3. Len(responses') \in owed'
        BY <1>1, <1>4, <3>2, <4>2
      <4>4. Len(responses') \in DOMAIN responses'
        BY <4>3 DEF owed
      <4> QED BY <1>1, <4>3, <4>4
    <3> QED BY <3>1, <3>2
  <2> QED BY <2>1, <2>2, <2>3, <2>4 DEF Paired
<1>9. Settled'
  BY <1>7, <1>8, SettledSame DEF Told, InOrder
<1>10. Seen'
  <2>1. ASSUME NEW k \in DOMAIN responses', pipe'[k].access \in {"load", "atomic"}
        PROVE  responses'[k].word = before(k, pipe[k].addr)'
    <3>1. k \in Nat \ {0} /\ k + 1 \in DOMAIN responses /\ pipe'[k] = pipe[k + 1]
          /\ responses'[k] = responses[k + 1]
      BY <1>1
    <3>2. responses[k + 1].word = before(k + 1, pipe[k + 1].addr)
      BY <2>1, <3>1 DEF Told, Seen
    <3>3. \A a : before(k, a)' = before(k + 1, a)
      BY <1>5, <3>1
    <3> QED BY <3>1, <3>2, <3>3
  <2> QED BY <2>1 DEF Seen
<1> QED BY <1>1, <1>6, <1>7, <1>8, <1>9, <1>10 DEF Told, InOrder

(* A load or a fence retires.                                              *)
LEMMA ToldRetire ==
  ASSUME Typed, Counted, Told, Initiated, Typed', Counted', RetireOther PROVE Told'
<1>1. 1 \in DOMAIN responses /\ op = pipe[1] /\ answer = responses[1]
  BY Ops DEF RetireOther
<1>2. ~answer.trap /\ ~stores(op)
  BY <1>1 DEF Told, InOrder, Calm, RetireOther
<1>3. ~rg_store_initiated
  BY <1>2 DEF Initiated
<1>4. 1 \notin owed
  BY <1>1, <1>2 DEF owed
<1>5. rg_epoch' = rg_epoch /\ pop /\ responses # <<>> /\ rg_store_initiated' = FALSE
      /\ UNCHANGED <<ff_core_request, sb, rg_head, rg_tail, rg_sb_busy, arch, fb>>
  BY <1>2, <1>3, TypesOf DEF RetireOther, fifos, sbVars, Regs
<1> QED BY <1>4, <1>5, ToldPop

(* The write to a device lands, which retires its store.                   *)
LEMMA ToldLand ==
  ASSUME Typed, Counted, Told, Initiated, Typed', Counted', BusLand PROVE Told'
<1>1. UNCHANGED <<ff_core_request, rg_epoch, sb, rg_head, rg_tail, rg_sb_busy, arch, fb>>
  BY DEF BusLand, fifos, sbVars
<1>2. CASE Head(posted).io
  <2>1. rg_store_initiated /\ responses # <<>> /\ pop /\ rg_store_initiated' = FALSE
    BY <1>2 DEF BusLand, Initiated, DeviceWrite
  <2>2. 1 \notin owed
    BY <2>1 DEF owed
  <2> QED BY <1>1, <2>1, <2>2, ToldPop
<1>3. CASE ~Head(posted).io
  <2>1. UNCHANGED <<pipe, responses, rg_store_initiated>>
    BY <1>3 DEF BusLand
  <2>2. \A i \in FbIndex : ~fb'[i].err
    BY <1>1 DEF Told, InOrder, Calm
  <2> QED BY <1>1, <2>1, <2>2, ToldSame
<1> QED BY <1>2, <1>3

(* The store stage 5 asks for is the oldest that is answered.              *)
LEMMA CommitsOldest ==
  ASSUME Typed, Counted, Told, ma_perform_store
  PROVE  LET e == sb[rg_head] IN
         /\ 1 \in owed /\ place(1) = rg_head /\ responses # <<>> /\ op = pipe[1]
         /\ e.valid /\ e.addr = op.addr /\ e.io = isIO(op.addr) /\ ~abandoned(e)
         /\ e \in Store /\ op \in Request /\ op.addr \in Address
         /\ ~rg_sb_busy /\ rg_head' = 1 - rg_head /\ sb' = [sb EXCEPT ![rg_head].valid = FALSE]
         /\ \A a \in Address : arch'[a] = laid(arch[a], e, a)
<1> DEFINE e == sb[rg_head]
<1>1. /\ responses # <<>> /\ stores(op) /\ ~answer.trap /\ ~rg_store_initiated /\ ~rg_sb_busy
      /\ rg_head' = 1 - rg_head /\ sb' = [sb EXCEPT ![rg_head].valid = FALSE]
      /\ arch' = IF current THEN [arch EXCEPT ![op.addr] = after_store(op.addr, op)] ELSE arch
  BY DEF ma_perform_store, mv_commit_store_ready
<1>2. /\ 1 \in DOMAIN responses /\ op = pipe[1] /\ 1 \in DOMAIN pipe /\ op \in Request
  BY <1>1, Ops
<1>3. 1 \in owed
  BY <1>1, <1>2 DEF owed
<1>4. \A k \in owed : k \in Nat /\ 1 <= k
  BY Ops
<1>5. place(1) = rg_head
  <2>1. ~\E j \in owed : j < 1
    BY <1>4
  <2> QED BY <2>1 DEF place
<1>6. Kept(1, e, op)
  BY <1>2, <1>3, <1>5 DEF Told, InOrder, Paired
<1>7. op.epoch = 0 /\ rg_epoch = 0
  BY <1>2 DEF Told, InOrder, Calm
<1>8. e \in Store /\ op.addr \in Address /\ op.data \in Datum /\ arch \in [Address -> Datum]
  BY <1>2, Ends, TypesOf DEF Request, Regs
<1>9. ~abandoned(e) /\ current
  BY <1>6, <1>7 DEF Kept, abandoned, current
<1>10. op.access = "atomic" => e.operand = arch[op.addr]
  <2>1. ASSUME op.access = "atomic" PROVE responses[1].word = before(1, op.addr)
    BY <1>2, <2>1 DEF Told, Seen
  <2>2. before(1, op.addr) = arch[op.addr]
    <3>1. \A j \in owed : j >= 1
      BY <1>4
    <3> QED BY <3>1 DEF before
  <2> QED BY <1>6, <2>1, <2>2 DEF Kept
<1>11. e.data = IF op.access = "atomic" THEN fn_atomic_op(op.data, arch[op.addr]) ELSE op.data
  BY <1>1, <1>6, <1>10 DEF Kept, stores
<1>12. after_store(op.addr, op) = updated(arch[op.addr], e.data, e.mask)
  BY <1>6, <1>11 DEF after_store, Kept
<1>13. ASSUME NEW a \in Address PROVE arch'[a] = laid(arch[a], e, a)
  <2>1. CASE a = op.addr
    BY <1>1, <1>6, <1>8, <1>9, <1>12, <2>1 DEF Kept, laid
  <2>2. CASE a # op.addr
    <3>1. arch'[a] = arch[a]
      BY <1>1, <1>8, <2>2
    <3>2. laid(arch[a], e, a) = updated(arch[a], e.data, {})
      BY <1>6, <2>2 DEF Kept, laid
    <3>3. updated(arch[a], e.data, {}) = arch[a]
      BY <1>8 DEF updated, Datum
    <3> QED BY <3>1, <3>2, <3>3
  <2> QED BY <2>1, <2>2
<1> QED BY <1>1, <1>2, <1>3, <1>5, <1>6, <1>8, <1>9, <1>13 DEF Kept

(* An entry keeps its store when the pipeline moves.                       *)
LEMMA KeptMoves ==
  ASSUME NEW k, NEW m, Kept(m, sb[place(m)], pipe[m]), ~rg_sb_busy, ~rg_sb_busy',
         pipe'[k] = pipe[m], responses'[k] = responses[m], sb'[place(k)'] = sb[place(m)]
  PROVE  Kept(k, sb[place(k)], pipe[k])'
BY DEF Kept, isIO, fn_atomic_op

(* The oldest store leaves the store buffer: it retires, or waits for its  *)
(* device.                                                                 *)
LEMMA ToldPerformed ==
  ASSUME Typed, Counted, Told, Typed', Counted', NEW d \in {0, 1}, 1 \in owed, place(1) = rg_head,
         \/ d = 1 /\ pop /\ responses # <<>> /\ UNCHANGED rg_store_initiated
         \/ d = 0 /\ UNCHANGED <<pipe, responses>> /\ rg_store_initiated' = TRUE
            /\ isIO(pipe[1].addr),
         UNCHANGED <<ff_core_request, rg_epoch, rg_tail, rg_sb_busy>>, ~rg_sb_busy,
         rg_head' = 1 - rg_head, sb' = [sb EXCEPT ![rg_head].valid = FALSE],
         \A a \in Address : arch'[a] = laid(arch[a], sb[rg_head], a),
         \A i \in FbIndex : ~fb'[i].err
  PROVE  Told'
<1> PICK n : n = Len(responses)
  OBVIOUS
<1>1. /\ n \in Nat /\ \A k \in DOMAIN responses : k \in Nat \ {0}
      /\ owed \subseteq Nat \ {0} /\ owed \subseteq DOMAIN responses
      /\ ~rg_store_initiated
  <2>1. n \in Nat /\ \A k \in DOMAIN responses : k \in Nat \ {0}
    BY Ops
  <2>2. owed \subseteq DOMAIN responses
    BY DEF owed
  <2>3. ~rg_store_initiated
    BY DEF owed
  <2> QED BY <2>1, <2>2, <2>3
<1>2. /\ Len(responses') \in Nat /\ n = Len(responses') + d
      /\ \A k \in DOMAIN responses' :
           /\ k \in Nat \ {0} /\ k + d \in DOMAIN responses
           /\ responses'[k] = responses[k + d] /\ pipe'[k] = pipe[k + d]
      /\ \A k \in Nat \ {0} : k \in DOMAIN responses' <=> k + d \in DOMAIN responses
      /\ \A k \in DOMAIN pipe' : k + d \in DOMAIN pipe /\ pipe'[k] = pipe[k + d]
      /\ Aligned'
  <2>1. CASE d = 1
    BY <2>1, Shifted DEF Told, InOrder
  <2>2. CASE d = 0
    <3>1. \A k \in Nat : k + 0 = k
      OBVIOUS
    <3>2. \A k \in DOMAIN pipe : k \in Nat
      BY Ops
    <3> QED BY <1>1, <2>2, <3>1, <3>2 DEF Told, InOrder, Aligned
  <2> QED BY <2>1, <2>2
<1>3. ASSUME NEW k \in Nat \ {0} PROVE k \in owed' <=> k + d \in owed /\ k + d # 1
  <2>1. k \in owed' <=> k \in DOMAIN responses' /\ stores(pipe'[k]) /\ ~(k = 1 /\ rg_store_initiated')
    BY DEF owed, stores
  <2>2. k + d \in owed <=> k + d \in DOMAIN responses /\ stores(pipe[k + d])
    BY <1>1 DEF owed
  <2>3. CASE d = 1
    <3>1. k + d # 1
      BY <2>3
    <3> QED BY <1>1, <1>2, <2>1, <2>2, <2>3, <3>1
  <2>4. CASE d = 0
    <3>1. k + d = k
      BY <2>4
    <3> QED BY <1>2, <2>1, <2>2, <2>4, <3>1
  <2> QED BY <2>3, <2>4
<1>4. owed' \subseteq Nat \ {0}
  BY <1>2 DEF owed
<1>5. /\ rg_head \in Slot /\ 1 - rg_head \in Slot /\ rg_head # 1 - rg_head
      /\ 1 - (1 - rg_head) = rg_head /\ sb \in [Slot -> Store] /\ rg_tail \in Slot
      /\ rg_head = rg_tail \/ rg_tail = 1 - rg_head
      /\ \A s \in Slot : s = rg_head \/ s = 1 - rg_head
  BY Ends
<1>6. /\ sb'[1 - rg_head] = sb[1 - rg_head] /\ ~sb'[rg_head].valid
      /\ sb'[rg_head].data = sb[rg_head].data /\ sb'[rg_head].mask = sb[rg_head].mask
      /\ sb'[rg_head].addr = sb[rg_head].addr
  BY <1>5 DEF Store
<1>7. ASSUME NEW k \in Nat \ {0}, k + d # 1
      PROVE  /\ k \in owed' => place(k)' = place(k + d)
             /\ \A a \in Address : before(k, a)' = before(k + d, a)
  BY <1>3, <1>4, <1>6, <1>7, StoreLeaves DEF Told, InOrder
<1>8. \A k \in owed : k # 1 => place(k) = 1 - rg_head
  <2>1. ASSUME NEW k \in owed, k # 1 PROVE \E j \in owed : j < k
    BY <1>1, <2>1
  <2> QED BY <2>1 DEF place
<1>9. Calm'
  BY <1>2 DEF Told, InOrder, Calm, isIO
<1>10. Paired'
  <2>1. ASSUME NEW k \in owed' PROVE Kept(k, sb[place(k)], pipe[k])'
    <3>1. k \in Nat \ {0} /\ k + d \in owed /\ k + d # 1 /\ k \in DOMAIN responses'
      BY <1>3, <1>4 DEF owed
    <3>2. Kept(k + d, sb[place(k + d)], pipe[k + d])
      BY <3>1 DEF Told, InOrder, Paired
    <3>3. pipe'[k] = pipe[k + d] /\ responses'[k] = responses[k + d]
      BY <1>2, <3>1
    <3>4. sb'[place(k)'] = sb[place(k + d)]
      BY <1>6, <1>7, <1>8, <3>1
    <3>5. ~rg_sb_busy /\ ~rg_sb_busy'
      OBVIOUS
    <3> QED BY <3>2, <3>3, <3>4, <3>5, KeptMoves
  <2>2. ASSUME NEW s \in Slot, sb'[s].valid PROVE \E k \in owed' : place(k)' = s
    <3>1. s = 1 - rg_head /\ sb[s].valid
      BY <1>5, <1>6, <2>2
    <3>2. PICK k \in owed : place(k) = s
      BY <3>1 DEF Told, InOrder, Paired
    <3>3. k # 1 /\ k \in Nat \ {0}
      BY <1>1, <1>5, <3>1, <3>2
    <3>4. k - d \in Nat \ {0} /\ (k - d) + d = k
      BY <3>3
    <3> QED BY <1>3, <1>7, <3>2, <3>3, <3>4
  <2>3. \A i, j, k \in owed' : ~(i < j /\ j < k)
    <3>1. ASSUME NEW i \in owed', NEW j \in owed', NEW k \in owed', i < j, j < k PROVE FALSE
      <4>1. i + d \in owed /\ j + d \in owed /\ k + d \in owed /\ i \in Nat /\ j \in Nat /\ k \in Nat
        BY <1>3, <1>4
      <4>2. i + d < j + d /\ j + d < k + d
        BY <3>1, <4>1
      <4> QED BY <4>1, <4>2 DEF Told, InOrder, Paired
    <3> QED BY <3>1
  <2> QED BY <2>1, <2>2, <2>3 DEF Paired
<1>11. sb[rg_head].valid
  BY DEF Told, InOrder, Paired, Kept
<1>12. Turns'
  <2>1. sb_full' = FALSE /\ sb_empty' = ~sb[1 - rg_head].valid
    BY <1>5, <1>6 DEF sb_full, sb_empty
  <2>2. sb_full <=> sb[1 - rg_head].valid
    BY <1>5, <1>11 DEF sb_full
  <2>3. ~sb_empty
    BY <1>5, <1>11 DEF sb_empty
  <2> QED BY <1>5, <1>6, <2>1, <2>2, <2>3 DEF Told, InOrder, Turns
<1> DEFINE lanes(a) == laid_both(arch[a], rg_tail, a) =
             IF sb_empty THEN arch[a]
             ELSE IF sb_full THEN laid_both(arch[a], rg_tail, a)
             ELSE laid(arch[a], sb[1 - rg_tail], a)
<1>13. ASSUME NEW a \in Address PROVE lanes(a)'
  <2> DEFINE e == sb[rg_head]
             f == sb[1 - rg_head]
  <2>1. arch[a] \in Datum /\ e \in Store /\ f \in Store /\ arch'[a] = laid(arch[a], e, a)
    BY <1>5, TypesOf DEF Regs
  <2>2. /\ \A w : laid(w, sb'[rg_head], a) = laid(w, e, a)
        /\ \A w : laid(w, sb'[1 - rg_head], a) = laid(w, f, a)
    BY <1>6 DEF laid
  <2>3. /\ laid_both(arch[a], rg_tail, a)' = laid(laid(arch'[a], sb'[rg_tail], a), sb'[1 - rg_tail], a)
        /\ laid(arch[a], sb[1 - rg_tail], a)' = laid(arch'[a], sb'[1 - rg_tail], a)
    BY DEF laid_both, laid, updated
  <2>4. CASE f.valid
    <3>1. rg_tail = rg_head /\ ~sb_empty'
      BY <1>5, <1>6, <1>11, <2>4 DEF Told, InOrder, Turns, sb_full, sb_empty
    <3>2. laid(arch'[a], e, a) = arch'[a]
      BY <2>1, LaidTwice
    <3> QED BY <2>2, <2>3, <3>1, <3>2
  <2>5. CASE ~f.valid
    <3>1. ~sb_full /\ ~sb_empty
      BY <1>5, <1>11, <2>5 DEF sb_full, sb_empty
    <3>2. rg_tail = 1 - rg_head /\ 1 - rg_tail = rg_head /\ sb_empty'
      BY <1>5, <1>6, <2>5, <3>1 DEF Told, InOrder, Turns, sb_empty
    <3>3. laid(laid(arch[a], f, a), e, a) = arch'[a]
      <4>1. laid_both(arch[a], rg_tail, a) = laid(arch[a], sb[1 - rg_tail], a)
        BY <3>1, SettledLanes DEF Told, InOrder
      <4> QED BY <2>1, <3>2, <4>1 DEF laid_both
    <3>4. laid(laid(arch'[a], f, a), e, a) = arch'[a]
      BY <2>1, <3>3, LaidPerformed
    <3> QED BY <2>2, <2>3, <3>2, <3>4
  <2> QED BY <2>4, <2>5
<1>14. Settled'
  <2>1. (Typed /\ Counted /\ Paired /\ Turns)' => (Settled <=> \A a \in Address : lanes(a))'
    BY SettledLanes, PTL
  <2> QED BY <1>10, <1>12, <1>13, <2>1
<1>15. Seen'
  <2>1. ASSUME NEW k \in DOMAIN responses', pipe'[k].access \in {"load", "atomic"}
        PROVE  responses'[k].word = before(k, pipe[k].addr)'
    <3>1. k \in Nat \ {0} /\ k + d \in DOMAIN responses /\ pipe'[k] = pipe[k + d]
          /\ responses'[k] = responses[k + d]
      BY <1>2
    <3>2. responses[k + d].word = before(k + d, pipe[k + d].addr)
      BY <2>1, <3>1 DEF Told, Seen
    <3>3. pipe[k + d].addr \in Address
      BY <3>1, Ops DEF Request
    <3>4. CASE k + d # 1
      BY <1>7, <3>1, <3>2, <3>3, <3>4
    <3>5. CASE k + d = 1
      <4>1. k = 1 /\ d = 0
        BY <3>1, <3>5
      <4>2. pipe[1].access = "atomic" /\ 1 \in DOMAIN pipe /\ isIO(pipe[1].addr)
        BY <1>1, <2>1, <3>1, <4>1, Ops DEF owed, stores
      <4> QED BY <4>2 DEF Told, InOrder, Calm
    <3> QED BY <3>4, <3>5
  <2> QED BY <2>1 DEF Seen
<1> QED BY <1>2, <1>9, <1>10, <1>12, <1>14, <1>15 DEF Told, InOrder

(* ma_perform_store, in the fill buffer or to a device.                    *)
LEMMA ToldCommit ==
  ASSUME Typed, Counted, Told, Typed', Counted', ma_perform_store PROVE Told'
<1> DEFINE e == sb[rg_head]
<1>1. /\ 1 \in owed /\ place(1) = rg_head /\ responses # <<>> /\ op = pipe[1]
      /\ e.io = isIO(op.addr) /\ ~abandoned(e) /\ ~rg_sb_busy /\ rg_head' = 1 - rg_head
      /\ sb' = [sb EXCEPT ![rg_head].valid = FALSE]
      /\ \A a \in Address : arch'[a] = laid(arch[a], e, a)
  BY CommitsOldest
<1>2. UNCHANGED <<ff_core_request, rg_epoch, rg_tail, rg_sb_busy>>
  BY DEF ma_perform_store, fifos
<1>3. CASE e.io
  <2>1. UNCHANGED <<pipe, responses, fb>> /\ rg_store_initiated' = TRUE
    BY <1>1, <1>3 DEF ma_perform_store
  <2>2. \A i \in FbIndex : ~fb'[i].err
    BY <2>1 DEF Told, InOrder, Calm
  <2>3. isIO(pipe[1].addr)
    BY <1>1, <1>3
  <2>4. PICK d \in {0, 1} : d = 0
    OBVIOUS
  <2> QED BY <1>1, <1>2, <2>1, <2>2, <2>3, <2>4, ToldPerformed
<1>4. CASE ~e.io
  <2>1. /\ pop /\ UNCHANGED rg_store_initiated
        /\ fb' = [fb EXCEPT ![e.fbindex].dirty = TRUE,
                            ![e.fbindex].data[e.addr[3]] = updated(@, e.data, e.mask)]
    BY <1>1, <1>4 DEF ma_perform_store
  <2>2. \A i \in FbIndex : ~fb'[i].err
    <3>1. fb \in [FbIndex -> Entry]
      BY DEF Typed, Contents
    <3>2. \A i \in FbIndex : fb'[i].err = fb[i].err
      BY <2>1, <3>1 DEF Entry
    <3> QED BY <3>2 DEF Told, InOrder, Calm
  <2>3. PICK d \in {0, 1} : d = 1
    OBVIOUS
  <2> QED BY <1>1, <1>2, <2>1, <2>2, <2>3, ToldPerformed
<1> QED BY <1>3, <1>4

-----------------------------------------------------------------------------
(* A word under a write on its way to its device.                          *)
LEMMA LaidUnder ==
  ASSUME NEW m \in Datum, NEW e \in Store, NEW f \in Store, NEW a
  PROVE  laid(laid(laid(m, e, a), f, a), e, a) = laid(laid(m, f, a), e, a)
BY DEF laid, updated, Datum, Store

(* Only the store performed last can be under way to a device.             *)
LEMMA UnderDevice ==
  ASSUME Outgoing, ~sb_full, NEW q \in {ff_write_mem_request, posted}, NEW a \in Address, isIO(a),
         NEW w
  PROVE  under(q, a, w) = w \/ under(q, a, w) = laid(w, sb[1 - rg_head], a)
<1> DEFINE h == Head(q)
           e == sb[1 - rg_head]
<1> SUFFICES ASSUME q # <<>>, line(h.addr) = line(a), h.io => h.addr = a
             PROVE  under(q, a, w) = laid(w, e, a)
  BY DEF under
<1>1. isIO(h.addr)
  BY DEF line, isIO
<1>2. h.io /\ h.addr = a
  BY <1>1 DEF Outgoing
<1>3. e.addr = a /\ e.mask = h.mask /\ h.data[a[3]] = e.data
  BY <1>2 DEF Outgoing, Address
<1> QED BY <1>2, <1>3 DEF under, laid

(* What a device gives, under the stores of the buffer, is what it would   *)
(* give with the write under way landed.                                   *)
LEMMA DeviceWord ==
  ASSUME IInv, Told, Outgoing, Away, ~sb_full, NEW a \in Address, isIO(a)
  PROVE  laid_both(mem[a], rg_tail, a) = laid_both(arch[a], rg_tail, a)
<1> DEFINE e == sb[1 - rg_head]
           f == sb[rg_head]
           m == mem[a]
<1>1. /\ rg_head \in Slot /\ 1 - rg_head \in Slot /\ 1 - (1 - rg_head) = rg_head
      /\ rg_tail = rg_head \/ rg_tail = 1 - rg_head
      /\ e \in Store /\ f \in Store /\ m \in Datum
  BY Ends, TypesOf DEF IInv, Regs
<1>2. written(a) = arch[a]
  <2>1. entry_of(a) = {}
    BY DEF entry_of, IInv, Single, isIO, line
  <2>2. ~in_ram(a)
    <3>1. a[2] \in Set
      BY DEF Address
    <3> QED BY <3>1 DEF in_ram, IInv, Single, isIO
  <2> QED BY <2>1, <2>2 DEF Away
<1>3. arch[a] = m \/ arch[a] = laid(m, e, a)
  <2>1. under(posted, a, m) = m \/ under(posted, a, m) = laid(m, e, a)
    BY UnderDevice
  <2>2. \A w : \/ under(ff_write_mem_request, a, w) = w
               \/ under(ff_write_mem_request, a, w) = laid(w, e, a)
    BY UnderDevice
  <2>3. laid(laid(m, e, a), e, a) = laid(m, e, a)
    BY <1>1, LaidTwice
  <2> QED BY <1>2, <2>1, <2>2, <2>3 DEF written
<1>4. CASE rg_tail = rg_head
  <2>1. laid(laid(laid(m, e, a), f, a), e, a) = laid(laid(m, f, a), e, a)
    BY <1>1, LaidUnder
  <2> QED BY <1>3, <1>4, <2>1 DEF laid_both
<1>5. CASE rg_tail = 1 - rg_head
  <2>1. laid(laid(m, e, a), e, a) = laid(m, e, a)
    BY <1>1, LaidTwice
  <2> QED BY <1>1, <1>3, <1>5, <2>1 DEF laid_both
<1> QED BY <1>1, <1>4, <1>5

(* The request at the head is the oldest access without an answer.         *)
LEMMA HeadInPipe ==
  ASSUME Typed, Counted, Aligned, ff_core_request # <<>>
  PROVE  /\ Len(responses) + 1 \in DOMAIN pipe /\ req = pipe[Len(responses) + 1]
         /\ 1 \in DOMAIN ff_core_request /\ req = ff_core_request[1]
<1>1. /\ Len(pipe) \in Nat /\ Len(responses) \in Nat /\ Len(ff_core_request) \in Nat
      /\ Len(pipe) = Len(responses) + Len(ff_core_request) /\ DOMAIN pipe = 1..Len(pipe)
      /\ DOMAIN ff_core_request = 1..Len(ff_core_request)
  BY Ops
<1>2. req = ff_core_request[1] /\ 1 <= Len(ff_core_request)
  BY HeadRequest
<1> QED BY <1>1, <1>2 DEF Aligned

(* What the response rule finds in the RAMs, in the fill buffer or at the  *)
(* device, with the stores of the buffer laid over it, is the word of the  *)
(* program.                                                                *)
LEMMA AnswerIs ==
  ASSUME Straight, IInv, Told, Values, Outgoing, Answers
  PROVE  \E w \in Datum :
           /\ response_to_core(w, FALSE) /\ ~wr_fault
           /\ ~nc_write => laid_both(w, rg_tail, req.addr) = program(req.addr)
<1> DEFINE a == req.addr
<1>1. /\ at_head /\ ff_core_request # <<>> /\ ~rg_sb_busy /\ ~sb_full
  BY AnswerEffects DEF Straight
<1>2. a \in Address /\ a[2] \in Set /\ a[3] \in Word /\ a = <<a[1], a[2], a[3]>>
  BY <1>1, HeadRequest DEF Request, IInv
<1>3. ~wr_fault
  BY <1>1, HeadInPipe DEF IInv, Counted, wr_fault, Told, InOrder
<1>4. laid_both(arch[a], rg_tail, a) = program(a) /\ arch[a] \in Datum
  BY <1>2, TypesOf DEF Told, Settled, IInv, Regs
<1>5. CASE ram_hit /\ response_to_core(ram_out.data[a[3]], FALSE)
  <2>1. in_rams(line(a)) /\ ram_out = ram[a[2]]
    BY <1>5, HitInRams, CheckFresh DEF CheckedOutputFresh, ram_hit
  <2>2. in_ram(a)
    BY <2>1 DEF in_rams, in_ram, line
  <2>3. ram_out.data[a[3]] = arch[a]
    BY <1>2, <2>1, <2>2 DEF Values, Stored
  <2> QED BY <1>3, <1>4, <1>5, <2>3
<1>6. CASE nc_write /\ response_to_core(Zero, FALSE)
  BY <1>3, <1>6, Words
<1>7. CASE /\ fb_hit /\ ~ram_hit /\ ~nc_write
           /\ response_to_core(fb[fb_hitindex].data[a[3]], fb[fb_hitindex].err)
  <2>1. fb_hits # {} /\ word_hit
    BY <1>7 DEF fb_hit
  <2>2. /\ fb_hitindex \in FbIndex /\ fb[fb_hitindex].valid /\ fb[fb_hitindex].line = line(a)
    BY <2>1, HitIndex DEF IInv
  <2>3. fb_hitindex \in entry_of(a)
    BY <2>2 DEF entry_of
  <2>4. ff_pending_req # <<>> => ~Head(ff_pending_req).io_request
    <3>1. \A k \in DOMAIN ff_pending_req : ~ff_pending_req[k].io_request
      BY <1>7, HitNoDevice
    <3>2. ff_pending_req # <<>> => 1 \in DOMAIN ff_pending_req /\ Head(ff_pending_req) = ff_pending_req[1]
      BY Queue DEF IInv, Typed, Queues
    <3> QED BY <3>1, <3>2
  <2>5. in_fb(fb_hitindex, a)
    BY <2>1, <2>2, <2>4 DEF in_fb, word_hit
  <2>6. fb[fb_hitindex].data[a[3]] = arch[a]
    BY <1>2, <2>3, <2>5 DEF Values, Held
  <2>7. fb[fb_hitindex].err = FALSE
    <3>1. fb[fb_hitindex].err \in BOOLEAN /\ ~fb[fb_hitindex].err
      BY <2>2 DEF IInv, Typed, Contents, Entry, Told, InOrder, Calm
    <3> QED BY <3>1
  <2> QED BY <1>3, <1>4, <1>7, <2>6, <2>7
<1>8. CASE rl_capture_io_response /\ may_respond
  <2>1. response_to_core(mem[Head(ff_pending_req).addr], FALSE)
    BY <1>8 DEF rl_capture_io_response
  <2>2. isIO(a) /\ Head(ff_pending_req).addr = a
    <3>1. isIO(a) /\ Len(ff_pending_req) = 1
      BY <1>8, DeviceIsLast
    <3>2. Head(ff_pending_req) = ff_pending_req[1] /\ 1 \in DOMAIN ff_pending_req
      BY <3>1, QueueOne DEF IInv, Typed, Queues
    <3>3. ff_pending_req[1].io_request
      BY <1>8, <3>2 DEF rl_capture_io_response
    <3> QED BY <3>1, <3>2, <3>3 DEF IInv, Fills
  <2>3. laid_both(mem[a], rg_tail, a) = program(a)
    BY <1>1, <1>2, <1>4, <2>2, DeviceWord DEF Values
  <2>4. mem[a] \in Datum
    BY <1>2, TypesOf DEF IInv, Regs
  <2> QED BY <1>3, <2>1, <2>2, <2>3, <2>4
<1> QED BY <1>3, <1>5, <1>6, <1>7, <1>8 DEF Answers, rl_response_to_core

(* The response rule and the answer of a device.                           *)
LEMMA ToldAnswer ==
  ASSUME Straight, IInv, Told, Values, Outgoing, Answers, Typed', Counted'
  PROVE  Told'
<1> DEFINE a == req.addr
<1>1. /\ at_head /\ ff_core_request # <<>> /\ ~rg_sb_busy /\ ~sb_full
      /\ (MovesLine /\ Remembers) \/ MovesNothing
  BY AnswerEffects DEF Straight
<1>2. PICK w \in Datum : /\ response_to_core(w, FALSE)
                         /\ ~nc_write => laid_both(w, rg_tail, a) = program(a)
  BY AnswerIs
<1>3. a \in Address /\ req \in Request
  BY <1>1, HeadRequest DEF Request, IInv
<1> DEFINE ans == [word |-> forwarded(w), trap |-> FALSE]
<1>4. ans \in Answer /\ ~ans.trap /\ ans.word = forwarded(w)
  BY ForwardedTyped, TypesOf DEF Answer, IInv, Typed
<1>5. forwarded(w) = laid_both(w, rg_tail, a)
  BY DEF forwarded, laid_both, laid, store_mask
<1>6. req.access = "atomic" => ~nc_write
  <2>1. req.access = "atomic" => ~isIO(a)
    BY <1>1, HeadInPipe DEF IInv, Told, InOrder, Calm
  <2> QED BY <2>1 DEF nc_write
<1>7. req.access = "load" => ~nc_write
  BY DEF nc_write
<1>8. \A i \in FbIndex : ~fb'[i].err
  <2>1. \A i \in FbIndex : ~fb[i].err
    BY DEF Told, InOrder, Calm
  <2>2. CASE MovesLine
    BY <2>1, <2>2, AllocatedAt DEF MovesLine, placed, IInv
  <2> QED BY <1>1, <2>1, <2>2 DEF MovesNothing
<1>9. responses' = Append(responses, ans) /\ ff_core_request' = Tail(ff_core_request)
      /\ UNCHANGED <<pipe, rg_epoch, rg_store_initiated, rg_head, arch>>
  BY <1>2 DEF response_to_core
<1>10. CASE req.access = "load"
  <2>1. ~stores(req) /\ ans.word = program(a)
    BY <1>2, <1>4, <1>5, <1>7, <1>10 DEF stores
  <2>2. UNCHANGED <<sb, rg_tail, rg_sb_busy>>
    BY <1>2, <1>10 DEF response_to_core
  <2> HIDE DEF ans
  <2> QED BY <1>1, <1>4, <1>8, <1>9, <2>1, <2>2, ToldLoad DEF IInv
<1>11. CASE req.access # "load"
  <2>1. stores(req)
    BY <1>1, <1>3, <1>11 DEF stores, Request, at_head
  <2>2. req.access = "atomic" => ans.word = program(a)
    BY <1>2, <1>4, <1>5, <1>6
  <2>3. PICK i : sb' = [sb EXCEPT ![rg_tail] =
                         [valid |-> TRUE, addr |-> a, data |-> req.data, mask |-> req.mask,
                          epoch |-> req.epoch, io |-> isIO(a), operand |-> forwarded(w),
                          fbindex |-> i]]
    BY <1>2, <1>11 DEF response_to_core
  <2>4. rg_tail' = 1 - rg_tail /\ rg_sb_busy' = (req.access = "atomic")
    BY <1>2, <1>11 DEF response_to_core
  <2>5. sb' = [sb EXCEPT ![rg_tail] =
                 [valid |-> TRUE, addr |-> a, data |-> req.data, mask |-> req.mask,
                  epoch |-> req.epoch, io |-> isIO(a), operand |-> ans.word, fbindex |-> i]]
    BY <1>4, <2>3
  <2> HIDE DEF ans
  <2> QED BY <1>1, <1>4, <1>8, <1>9, <2>1, <2>2, <2>4, <2>5, ToldStore DEF IInv
<1> QED BY <1>10, <1>11

(* The beats of a fill go round the line from its first word.              *)
LEMMA FirstWord ==
  ASSUME Typed, ff_pending_req # <<>>
  PROVE  /\ first_word \in Word /\ Head(ff_pending_req) \in Fetch
         /\ Head(ff_pending_req) = ff_pending_req[1] /\ 1 \in DOMAIN ff_pending_req
<1>1. /\ Head(ff_pending_req) \in Fetch /\ Head(ff_pending_req) = ff_pending_req[1]
      /\ 1 \in DOMAIN ff_pending_req
  BY Queue DEF Typed, Queues
<1> QED BY <1>1 DEF first_word, Fetch, Address

(* Counting the words of a line from the first one, round its end.         *)
LEMMA GoesRound ==
  ASSUME first_word \in Word, NEW w \in Word
  PROVE  /\ from_first(w) \in Nat /\ from_first(w) < Cardinality(Word) /\ from_first(first_word) = 0
         /\ \A v \in Word : from_first(v) = from_first(w) => v = w
         /\ (w + 1) % Cardinality(Word) \in Word
         /\ from_first(w) # Cardinality(Word) - 1 =>
              from_first((w + 1) % Cardinality(Word)) = from_first(w) + 1
<1>1. PICK n \in Nat : n = Cardinality(Word) /\ n > 0 /\ Word = 0..n-1
  BY Shape
<1>2. PICK f \in 0..n-1 : f = first_word
  BY <1>1
<1>3. w \in 0..n-1
  BY <1>1
<1>4. \A v : from_first(v) = IF v >= f THEN v - f ELSE v - f + n
  BY <1>1, <1>2 DEF from_first
<1>5. (w + 1) % n = IF w = n - 1 THEN 0 ELSE w + 1
  BY <1>1, <1>3, Succession
<1>6. /\ from_first(w) \in Nat /\ from_first(w) < n /\ from_first(f) = 0
  BY <1>1, <1>2, <1>3, <1>4
<1>7. \A v \in 0..n-1 : from_first(v) = from_first(w) => v = w
  BY <1>1, <1>2, <1>3, <1>4
<1>8. (w + 1) % n \in 0..n-1
  BY <1>1, <1>3, <1>5
<1>9. ASSUME from_first(w) # n - 1 PROVE from_first((w + 1) % n) = from_first(w) + 1
  <2>1. PICK x \in 0..n-1 : x = (w + 1) % n
    BY <1>8
  <2>2. x = IF w = n - 1 THEN 0 ELSE w + 1
    BY <1>5, <2>1
  <2>3. PICK a \in Nat : a = from_first(w) /\ a = IF w >= f THEN w - f ELSE w - f + n
    BY <1>4, <1>6
  <2>4. from_first(x) = IF x >= f THEN x - f ELSE x - f + n
    BY <1>4
  <2>5. (IF x >= f THEN x - f ELSE x - f + n) = a + 1
    BY <1>1, <1>2, <1>3, <1>9, <2>2, <2>3
  <2> QED BY <2>1, <2>3, <2>4, <2>5
<1> QED BY <1>1, <1>2, <1>6, <1>7, <1>8, <1>9

(* The beat that comes next is of a word that has not come.                *)
LEMMA BeatIs ==
  ASSUME IInv, Beats, ff_pending_req # <<>>
  PROVE  /\ beat_bank \in Word /\ beat_bank \notin rg_fb_enables
         /\ IsFiniteSet(rg_fb_enables) /\ Cardinality(rg_fb_enables) \in Nat
         /\ from_first(beat_bank) = Cardinality(rg_fb_enables)
         /\ \A w \in Word : w \in rg_fb_enables <=> from_first(w) < Cardinality(rg_fb_enables)
         /\ last_beat => \A w \in Word : w \in rg_fb_enables \/ w = beat_bank
<1>1. first_word \in Word
  BY FirstWord DEF IInv
<1>2. rg_fb_enables \subseteq Word /\ rg_next_bank \in Word
  BY TypesOf DEF IInv, Regs
<1>3. IsFiniteSet(rg_fb_enables) /\ Cardinality(rg_fb_enables) \in Nat
  <2>1. IsFiniteSet(Word)
    BY Shape, FS_Interval
  <2>2. IsFiniteSet(rg_fb_enables)
    BY <1>2, <2>1, FS_Subset
  <2> QED BY <2>2, FS_CardinalityType
<1>4. /\ beat_bank \in Word /\ from_first(beat_bank) = Cardinality(rg_fb_enables)
      /\ \A w \in Word : w \in rg_fb_enables <=> from_first(w) < Cardinality(rg_fb_enables)
  <2>1. CASE rg_fb_enables = {}
    <3>1. Cardinality(rg_fb_enables) = 0 /\ beat_bank = first_word
      BY <2>1, FS_EmptySet DEF beat_bank, first_word
    <3>2. from_first(first_word) = 0 /\ \A w \in Word : ~(from_first(w) < 0)
      BY <1>1, GoesRound
    <3> QED BY <1>1, <2>1, <3>1, <3>2
  <2>2. CASE rg_fb_enables # {}
    BY <1>2, <2>2 DEF beat_bank, Beats
  <2> QED BY <2>1, <2>2
<1>5. beat_bank \notin rg_fb_enables
  BY <1>3, <1>4
<1>6. ASSUME last_beat, NEW w \in Word, w \notin rg_fb_enables PROVE w = beat_bank
  <2>1. from_first(w) \in Nat /\ from_first(w) < Cardinality(Word) /\ from_first(beat_bank) \in Nat
    BY <1>1, <1>4, GoesRound
  <2>2. Cardinality(rg_fb_enables) = Cardinality(Word) - 1 /\ ~(from_first(w) < Cardinality(rg_fb_enables))
    BY <1>4, <1>6 DEF last_beat
  <2>3. from_first(w) = from_first(beat_bank)
    BY <1>3, <1>4, <2>1, <2>2, Shape
  <2> QED BY <1>1, <1>4, <2>3, GoesRound
<1> QED BY <1>3, <1>4, <1>5, <1>6

(* A beat counts one more word.                                            *)
LEMMA BeatsFill ==
  ASSUME IInv, Beats, rl_fill_from_memory PROVE Beats'
<1>1. /\ ff_pending_req # <<>> /\ ~Head(ff_pending_req).io_request
      /\ rg_next_bank' = (beat_bank + 1) % Cardinality(Word)
      /\ rg_fb_enables' = IF last_beat THEN {} ELSE rg_fb_enables \cup {beat_bank}
      /\ ff_pending_req' = IF last_beat THEN Tail(ff_pending_req) ELSE ff_pending_req
  BY DEF rl_fill_from_memory
<1>2. CASE last_beat
  BY <1>1, <1>2 DEF Beats
<1>3. CASE ~last_beat
  <2>1. first_word' = first_word /\ \A w : from_first(w)' = from_first(w)
    BY <1>1, <1>3 DEF first_word, from_first
  <2>2. PICK c \in Nat : c = Cardinality(rg_fb_enables)
    BY <1>1, BeatIs
  <2>3. Cardinality(rg_fb_enables') = c + 1
    BY <1>1, <1>3, <2>2, BeatIs, FS_AddElement
  <2>4. first_word \in Word
    BY <1>1, FirstWord DEF IInv
  <2>5. from_first(beat_bank) = c /\ beat_bank \in Word /\ c # Cardinality(Word) - 1
    BY <1>1, <1>3, <2>2, BeatIs DEF last_beat
  <2>6. rg_next_bank' \in Word /\ from_first(rg_next_bank') = c + 1
    BY <1>1, <2>4, <2>5, GoesRound
  <2>7. ASSUME NEW w \in Word PROVE w \in rg_fb_enables' <=> from_first(w) < c + 1
    <3>1. from_first(w) \in Nat /\ (from_first(w) = c => w = beat_bank)
      BY <2>4, <2>5, GoesRound
    <3>2. w \in rg_fb_enables <=> from_first(w) < c
      BY <1>1, <2>2, BeatIs
    <3>3. w \in rg_fb_enables' <=> w \in rg_fb_enables \/ w = beat_bank
      BY <1>1, <1>3
    <3> QED BY <2>5, <3>1, <3>2, <3>3
  <2>8. \A w \in Word : w \in rg_fb_enables' <=> from_first(w)' < c + 1
    BY <2>1, <2>7
  <2>9. from_first(rg_next_bank)' = c + 1
    <3>1. from_first(rg_next_bank)' = from_first(rg_next_bank')
      BY <2>1 DEF from_first
    <3> QED BY <2>6, <3>1
  <2> QED BY <1>1, <1>3, <2>3, <2>8, <2>9 DEF Beats
<1> QED BY <1>2, <1>3

(* Steps that change nothing a part of Placed speaks of.                   *)
LEMMA WrittenSame ==
  ASSUME UNCHANGED <<ff_write_mem_request, posted, mem>>, NEW a PROVE written(a)' = written(a)
BY DEF written, under, line, updated

LEMMA ValuesSame ==
  ASSUME Values, UNCHANGED <<v_reg_valid, v_reg_dirty, ram, rg_fence_set, arch>>,
         \A i \in FbIndex : /\ fb'[i].valid = fb[i].valid /\ fb'[i].line = fb[i].line
                            /\ fb'[i].data = fb[i].data /\ fb'[i].dirty = fb[i].dirty,
         \A i \in FbIndex, a \in Address : in_fb(i, a)' = in_fb(i, a),
         \A a \in Address : written(a)' = written(a)
  PROVE  Values'
<1>1. ASSUME NEW a \in Address PROVE in_ram(a)' = in_ram(a) /\ entry_of(a)' = entry_of(a)
  <2>1. \A i \in FbIndex : i \in entry_of(a)' <=> i \in entry_of(a)
    BY DEF entry_of, line
  <2>2. entry_of(a) \subseteq FbIndex /\ entry_of(a)' \subseteq FbIndex
    BY DEF entry_of, FbIndex
  <2>3. in_ram(a)' = in_ram(a)
    BY DEF in_ram
  <2> QED BY <2>1, <2>2, <2>3
<1>2. \A a \in Address : entry_of(a) \subseteq FbIndex
  BY DEF entry_of
<1>3. Held'
  BY <1>1, <1>2 DEF Values, Held
<1>4. Stored'
  BY <1>1 DEF Values, Stored
<1>5. Away'
  BY <1>1 DEF Values, Away
<1> QED BY <1>3, <1>4, <1>5 DEF Values

LEMMA HomesSame ==
  ASSUME Typed, Homes,
         \A s \in Slot : sb'[s].valid =>
           /\ sb[s].valid /\ sb'[s].addr = sb[s].addr /\ sb'[s].io = sb[s].io
           /\ sb'[s].fbindex = sb[s].fbindex,
         \A i \in FbIndex, a \in Address : in_fb(i, a) => in_fb(i, a)'
  PROVE  Homes'
<1>1. \A s \in Slot : sb[s].fbindex \in FbIndex /\ sb[s].addr \in Address
  BY DEF Typed, Contents, Store
<1>2. ASSUME NEW s \in Slot, sb'[s].valid, ~sb'[s].io PROVE in_fb(sb[s].fbindex, sb[s].addr)'
  <2>1. in_fb(sb[s].fbindex, sb[s].addr)
    BY <1>2 DEF Homes
  <2>2. sb'[s].fbindex = sb[s].fbindex /\ sb'[s].addr = sb[s].addr
    BY <1>2
  <2>3. PICK i \in FbIndex, a \in Address : i = sb[s].fbindex /\ a = sb[s].addr
    BY <1>1
  <2>4. in_fb(i, a)'
    BY <2>1, <2>3
  <2> QED BY <2>2, <2>3, <2>4 DEF in_fb, line
<1> QED BY <1>2 DEF Homes

LEMMA OutgoingSame ==
  ASSUME Outgoing, UNCHANGED <<ff_write_mem_request, posted, rg_head>>,
         ~sb_full' => /\ ~sb_full /\ sb'[1 - rg_head].addr = sb[1 - rg_head].addr
                      /\ sb'[1 - rg_head].data = sb[1 - rg_head].data
                      /\ sb'[1 - rg_head].mask = sb[1 - rg_head].mask
  PROVE  Outgoing'
BY DEF Outgoing, isIO

LEMMA InFbSame ==
  ASSUME UNCHANGED <<ff_pending_req, rg_fb_enables>>, NEW i,
         fb'[i].valid = fb[i].valid, fb'[i].line = fb[i].line, fb'[i].line_valid = fb[i].line_valid,
         NEW a
  PROVE  in_fb(i, a)' = in_fb(i, a)
BY DEF in_fb, line

(* What leaves the words and their places alone.                           *)
LEMMA PlacedWrites ==
  ASSUME IInv, Placed, Outgoing',
         UNCHANGED <<fb, fill, v_reg_valid, v_reg_dirty, ram, rg_fence_set, arch, rg_globaldirty,
                     ff_pending_req, sb>>,
         \A a \in Address : written(a)' = written(a)
  PROVE  Placed'
<1>1. Beats'
  BY DEF Placed, Beats, from_first, first_word, fill
<1>2. \A i \in FbIndex, a \in Address : in_fb(i, a)' = in_fb(i, a)
  BY InFbSame DEF fill
<1>3. Homes'
  BY <1>2, HomesSame DEF Placed, IInv
<1>4. Values'
  BY <1>2, ValuesSame DEF Placed
<1>5. Dirt'
  BY DEF Placed, Dirt
<1> QED BY <1>1, <1>3, <1>4, <1>5 DEF Placed

(* What leaves the writes alone as well.                                   *)
LEMMA PlacedQuiet ==
  ASSUME IInv, Placed,
         UNCHANGED <<fb, fill, v_reg_valid, v_reg_dirty, ram, rg_fence_set, arch, rg_globaldirty,
                     ff_pending_req, ff_write_mem_request, posted, mem, sb, rg_head>>
  PROVE  Placed'
<1>1. Outgoing'
  BY OutgoingSame DEF Placed, sb_full
<1>2. \A a \in Address : written(a)' = written(a)
  BY WrittenSame
<1> QED BY <1>1, <1>2, PlacedWrites

(* The result of an atomic changes no word but that of its entry.          *)
LEMMA PlacedAtomic ==
  ASSUME IInv, Told, Placed, rl_perform_atomic PROVE Placed'
<1>1. /\ rg_sb_busy /\ sb' = [sb EXCEPT ![1 - rg_tail].data = fn_atomic_op(@, sb[1 - rg_tail].operand)]
      /\ UNCHANGED <<fb, fill, v_reg_valid, v_reg_dirty, ram, rg_fence_set, arch, rg_globaldirty,
                     ff_pending_req, ff_write_mem_request, posted, mem, rg_head>>
  BY DEF rl_perform_atomic, core, fifos, modes, rams, bus
<1>2. /\ rg_head \in Slot /\ 1 - rg_head \in Slot /\ 1 - rg_tail \in Slot
      /\ rg_head # 1 - rg_head /\ sb \in [Slot -> Store]
      /\ rg_head = rg_tail \/ rg_head = 1 - rg_tail
      /\ \A s \in Slot : s = rg_head \/ s = 1 - rg_head
  BY Ends DEF IInv
<1>3. /\ \A s \in Slot : /\ sb'[s].valid = sb[s].valid /\ sb'[s].addr = sb[s].addr
                         /\ sb'[s].io = sb[s].io /\ sb'[s].fbindex = sb[s].fbindex
                         /\ sb'[s].mask = sb[s].mask
      /\ \A s \in Slot : s # 1 - rg_tail => sb'[s] = sb[s]
  BY <1>1, <1>2 DEF Store
<1>4. Beats'
  BY <1>1 DEF Placed, Beats, from_first, first_word, fill
<1>5. \A i \in FbIndex, a \in Address : in_fb(i, a)' = in_fb(i, a)
  BY <1>1, InFbSame DEF fill
<1>6. Homes'
  BY <1>3, <1>5, HomesSame DEF Placed, IInv
<1>7. Outgoing'
  <2>1. sb_full' = sb_full
    BY <1>3 DEF sb_full
  <2>2. sb[1 - rg_tail].valid
    BY <1>1 DEF IInv, Waits
  <2>3. ~sb_full => 1 - rg_tail # 1 - rg_head
    BY <1>2, <2>2 DEF Told, InOrder, Turns, sb_full, sb_empty
  <2> QED BY <1>1, <1>2, <1>3, <2>1, <2>3, OutgoingSame DEF Placed
<1>8. Values'
  BY <1>1, <1>5, WrittenSame, ValuesSame DEF Placed
<1>9. Dirt'
  BY <1>1 DEF Placed, Dirt
<1> QED BY <1>4, <1>6, <1>7, <1>8, <1>9 DEF Placed

(* The answer of a device leaves no beat behind.                           *)
LEMMA BeatsEnd ==
  ASSUME IInv, Beats, rl_capture_io_response
  PROVE  /\ rg_fb_enables = {} /\ ff_pending_req' = <<>>
         /\ rg_fb_enables' = rg_fb_enables =>
              /\ Beats'
              /\ \A i \in FbIndex, a \in Address :
                   fb'[i].valid = fb[i].valid /\ fb'[i].line = fb[i].line
                     /\ fb'[i].line_valid = fb[i].line_valid => in_fb(i, a)' = in_fb(i, a)
<1>1. ff_pending_req # <<>> /\ Head(ff_pending_req).io_request /\ ff_pending_req' = <<>>
  BY DeviceIsLast DEF rl_capture_io_response
<1>2. rg_fb_enables = {}
  BY <1>1 DEF Beats
<1>3. rg_fb_enables' = rg_fb_enables => Beats'
  BY <1>2 DEF Beats
<1>4. ASSUME NEW i \in FbIndex, NEW a \in Address,
             fb'[i].valid = fb[i].valid, fb'[i].line = fb[i].line, fb'[i].line_valid = fb[i].line_valid
      PROVE  in_fb(i, a)' = in_fb(i, a)
  BY <1>1, <1>4 DEF in_fb, line
<1> QED BY <1>1, <1>2, <1>3, <1>4

(* The answer of a device that nobody takes.                               *)
LEMMA PlacedDrop ==
  ASSUME IInv, Placed, rl_capture_io_response, ~may_respond PROVE Placed'
<1>1. UNCHANGED <<fb, fill, v_reg_valid, v_reg_dirty, ram, rg_fence_set, arch, rg_globaldirty,
                  ff_write_mem_request, posted, mem, sb, rg_head>>
  BY DEF rl_capture_io_response, may_respond, response_to_core, core, modes, rams, sbVars, bus
<1>2. /\ Beats'
      /\ \A i \in FbIndex, a \in Address : in_fb(i, a)' = in_fb(i, a)
  BY <1>1, BeatsEnd DEF Placed, fill
<1>3. Homes'
  BY <1>1, <1>2, HomesSame DEF Placed, IInv
<1>4. Outgoing'
  BY <1>1, OutgoingSame DEF Placed, sb_full
<1>5. Values'
  BY <1>1, <1>2, WrittenSame, ValuesSame DEF Placed
<1>6. Dirt'
  BY <1>1 DEF Placed, Dirt
<1> QED BY <1>2, <1>3, <1>4, <1>5, <1>6 DEF Placed

(* A new entry at the tail leaves what the others hold.                    *)
LEMMA OthersSame ==
  ASSUME IInv, NEW l, NewEntry(l), ff_pending_req # <<>> => Head(ff_pending_req') = Head(ff_pending_req),
         ff_pending_req # <<>> => ff_pending_req' # <<>>,
         rg_fb_enables' = rg_fb_enables, ff_pending_req = <<>> => rg_fb_enables = {}
  PROVE  /\ ~fb[rg_fbtail].valid /\ rg_fbtail \in FbIndex
         /\ \A i \in FbIndex, a \in Address :
              i # rg_fbtail => (in_fb(i, a)' <=> in_fb(i, a)) /\ (i \in entry_of(a)' <=> i \in entry_of(a))
         /\ \A a \in Address : line(a) # l => entry_of(a)' = entry_of(a)
<1>1. ~fb[rg_fbtail].valid /\ rg_fbtail \in FbIndex
  BY RingNew, HeadEntry DEF IInv
<1>2. \A i \in FbIndex : i # rg_fbtail => fb'[i] = fb[i]
  BY DEF NewEntry
<1>3. ASSUME NEW i \in FbIndex, NEW a \in Address, i # rg_fbtail
      PROVE  (in_fb(i, a)' <=> in_fb(i, a)) /\ (i \in entry_of(a)' <=> i \in entry_of(a))
  <2>1. fb'[i] = fb[i]
    BY <1>2, <1>3
  <2>2. i \in entry_of(a)' <=> i \in entry_of(a)
    BY <2>1 DEF entry_of, line
  <2>3. CASE ff_pending_req = <<>>
    BY <2>1, <2>2, <2>3 DEF in_fb, line
  <2>4. CASE ff_pending_req # <<>>
    BY <2>1, <2>2, <2>4 DEF in_fb, line
  <2> QED BY <2>3, <2>4
<1>4. ASSUME NEW a \in Address, line(a) # l PROVE entry_of(a)' = entry_of(a)
  <2>1. rg_fbtail \notin entry_of(a) /\ rg_fbtail \notin entry_of(a)'
    BY <1>1, <1>4 DEF entry_of, NewEntry, line
  <2>2. entry_of(a) \subseteq FbIndex /\ entry_of(a)' \subseteq FbIndex
    BY DEF entry_of, FbIndex
  <2>3. \A i \in FbIndex : i \in entry_of(a)' <=> i \in entry_of(a)
    BY <1>3, <2>1
  <2> QED BY <2>2, <2>3
<1> QED BY <1>1, <1>3, <1>4

(* A request to memory gives its line an entry without words.              *)
LEMMA PlacedSend ==
  ASSUME NoTraps, IInv, Placed, rl_send_memory_request PROVE Placed'
<1>1. UNCHANGED <<fill, v_reg_valid, v_reg_dirty, ram, rg_fence_set, arch, rg_globaldirty,
                  ff_write_mem_request, posted, mem, sb, rg_head>>
  BY DEF rl_send_memory_request, core, modes, rams, sbVars, bus
<1> DEFINE p == [addr |-> req.addr, io_request |-> isIO(req.addr), fbindex |-> rg_fbtail]
           l == line(req.addr)
<1>2. /\ fb_hits = {} /\ ~in_rams(l) /\ ~fb_full /\ l \in Line /\ req.addr \in Address
      /\ rg_fbtail \in FbIndex
  BY SendEffects, HeadRequest, HeadEntry DEF IInv, Request
<1>3. p \in Fetch
  BY <1>2 DEF Fetch, isIO
<1>4. ff_pending_req' = Append(ff_pending_req, p)
  BY DEF rl_send_memory_request
<1>5. ff_pending_req \in Seq(Fetch)
  BY DEF IInv, Typed, Queues
<1>6. /\ ff_pending_req' # <<>>
      /\ ff_pending_req # <<>> => Head(ff_pending_req') = Head(ff_pending_req)
      /\ ff_pending_req = <<>> => Head(ff_pending_req') = p
  <2> HIDE DEF p
  <2>1. ff_pending_req # <<>> => Append(ff_pending_req, p) # <<>> /\ Head(Append(ff_pending_req, p)) = Head(ff_pending_req)
    BY <1>3, <1>5, HeadKept
  <2>2. ff_pending_req = <<>> => Append(ff_pending_req, p) # <<>> /\ Head(Append(ff_pending_req, p)) = p
    BY <1>3, <1>5
  <2> QED BY <1>4, <2>1, <2>2
<1>7. ff_pending_req = <<>> => rg_fb_enables = {}
  BY DEF Placed, Beats
<1>8. Beats'
  BY <1>1, <1>6, <1>7 DEF Placed, Beats, from_first, first_word, fill
<1>9. Outgoing'
  BY <1>1, OutgoingSame DEF Placed, sb_full
<1>10. CASE isIO(req.addr)
  <2>1. fb' = fb
    BY <1>10 DEF rl_send_memory_request
  <2>2. ASSUME NEW i \in FbIndex, NEW a \in Address PROVE in_fb(i, a)' = in_fb(i, a)
    BY <1>1, <1>6, <1>7, <2>1 DEF in_fb, line, fill
  <2>3. Homes' /\ Values' /\ Dirt'
    BY <1>1, <2>1, <2>2, HomesSame, WrittenSame, ValuesSame DEF Placed, IInv, Dirt
  <2> QED BY <1>8, <1>9, <2>3 DEF Placed
<1>11. CASE ~isIO(req.addr)
  <2>1. fb' = [fb EXCEPT ![rg_fbtail] = allocated(l, Blank, FALSE, FALSE)]
        /\ rg_fbtail' = next_fb(rg_fbtail) /\ rg_fbhead' = rg_fbhead
    BY <1>11 DEF rl_send_memory_request
  <2>2. /\ fb'[rg_fbtail].valid /\ fb'[rg_fbtail].line = l /\ fb'[rg_fbtail].line_valid = FALSE
        /\ \A i \in FbIndex : i # rg_fbtail => fb'[i] = fb[i]
    BY <2>1, AllocatedAt DEF IInv
  <2>3. NewEntry(l)
    BY <1>2, <2>1, <2>2 DEF NewEntry
  <2>4. rg_fb_enables' = rg_fb_enables
    BY <1>1 DEF fill
  <2>5. /\ ~fb[rg_fbtail].valid
        /\ \A i \in FbIndex, a \in Address :
             i # rg_fbtail => (in_fb(i, a)' <=> in_fb(i, a)) /\ (i \in entry_of(a)' <=> i \in entry_of(a))
        /\ \A a \in Address : line(a) # l => entry_of(a)' = entry_of(a)
    BY <1>6, <1>7, <2>3, <2>4, OthersSame
  <2>6. ASSUME NEW a \in Address, NEW i, i = rg_fbtail PROVE ~in_fb(i, a)'
    <3>1. CASE ff_pending_req = <<>>
      BY <1>7, <2>2, <2>4, <2>6, <3>1 DEF in_fb
    <3>2. CASE ff_pending_req # <<>>
      <4>1. Head(ff_pending_req) = ff_pending_req[1] /\ 1 \in DOMAIN ff_pending_req
        BY <3>2, FirstWord DEF IInv
      <4>2. ~Head(ff_pending_req).io_request => fb[Head(ff_pending_req).fbindex].valid
        BY <4>1 DEF IInv, Fills
      <4> QED BY <1>6, <2>2, <2>5, <2>6, <3>2, <4>2 DEF in_fb
    <3> QED BY <3>1, <3>2
  <2>7. Homes'
    <3>1. \A i \in FbIndex, a \in Address : in_fb(i, a) => in_fb(i, a)'
      <4>1. \A a \in Address : ~in_fb(rg_fbtail, a)
        BY <2>5 DEF in_fb
      <4> QED BY <2>5, <4>1
    <3> QED BY <1>1, <3>1, HomesSame DEF Placed, IInv
  <2>8. \A a \in Address : written(a)' = written(a) /\ in_ram(a)' = in_ram(a)
    BY <1>1, WrittenSame DEF in_ram
  <2>9. ASSUME NEW a \in Address, line(a) = l PROVE written(a) = arch[a]
    <3>1. ~in_ram(a)
      BY <1>2, <2>9 DEF in_ram, in_rams, line
    <3>2. entry_of(a) = {}
      BY <1>2, <2>9 DEF entry_of, fb_hits
    <3> QED BY <3>1, <3>2 DEF Placed, Values, Away
  <2>10. Held'
    <3>1. ASSUME NEW a \in Address, NEW i \in entry_of(a)'
          PROVE  /\ in_fb(i, a)' => fb'[i].data[a[3]] = arch'[a]
                 /\ (in_fb(i, a)' /\ fb'[i].dirty) \/ written(a)' = arch'[a]
      <4>1. i \in FbIndex
        BY DEF entry_of, FbIndex
      <4>2. CASE i = rg_fbtail
        <5>1. line(a) = l
          BY <2>2, <4>2 DEF entry_of, line
        <5> QED BY <1>1, <2>6, <2>8, <2>9, <4>2, <5>1
      <4>3. CASE i # rg_fbtail
        <5>1. i \in entry_of(a) /\ fb'[i] = fb[i] /\ (in_fb(i, a)' <=> in_fb(i, a))
          BY <2>2, <2>5, <3>1, <4>1, <4>3
        <5>2. /\ in_fb(i, a) => fb[i].data[a[3]] = arch[a]
              /\ (in_fb(i, a) /\ fb[i].dirty) \/ written(a) = arch[a]
          BY <5>1 DEF Placed, Values, Held
        <5> QED BY <1>1, <2>8, <5>1, <5>2
      <4> QED BY <4>2, <4>3
    <3> QED BY <3>1 DEF Held
  <2>11. Stored'
    BY <1>1, <2>8 DEF Placed, Values, Stored
  <2>12. Away'
    <3>1. ASSUME NEW a \in Address, entry_of(a)' = {}, ~in_ram(a)' PROVE written(a)' = arch'[a]
      <4>1. line(a) # l
        BY <1>2, <2>2, <3>1 DEF entry_of, line, FbIndex
      <4> QED BY <1>1, <2>5, <2>8, <3>1, <4>1 DEF Placed, Values, Away
    <3> QED BY <3>1 DEF Away
  <2>13. Dirt'
    <3>1. ~fb'[rg_fbtail].dirty
      <4>1. fb \in [FbIndex -> Entry]
        BY DEF IInv, Typed, Contents
      <4> QED BY <1>2, <2>1, <4>1 DEF allocated
    <3> QED BY <1>1, <2>2, <3>1 DEF Placed, Dirt
  <2> QED BY <1>8, <1>9, <2>7, <2>10, <2>11, <2>12, <2>13 DEF Placed, Values
<1> QED BY <1>10, <1>11

(* The entry of an answered store knows where its word is.                 *)
KeepsStore ==
  /\ req.access # "load"
  /\ \E e : /\ sb' = [sb EXCEPT ![rg_tail] = e] /\ e.valid /\ e.addr = req.addr
            /\ e.io = isIO(req.addr)
            /\ e.fbindex = IF move THEN rg_fbtail ELSE IF fb_hits # {} THEN fb_hitindex ELSE 0

(* What an answer leaves alone, and the store it remembers.                *)
LEMMA AnswerFrame ==
  ASSUME Straight, IInv, Told, Values, Outgoing, Answers
  PROVE  /\ UNCHANGED <<rg_fb_enables, rg_next_bank, ram, rg_fence_set, arch, rg_globaldirty,
                        ff_write_mem_request, posted, mem, rg_head, rg_fbhead>>
         /\ \/ UNCHANGED <<sb, rg_tail>>
            \/ KeepsStore
         /\ move => MovesLine
         /\ ~move => MovesNothing
         /\ rl_response_to_core => ram_hit \/ (fb_hit /\ ~ram_hit)
<1>1. PICK w \in Datum : response_to_core(w, FALSE) /\ ~wr_fault
  BY AnswerIs
<1>2. UNCHANGED <<rg_fb_enables, rg_next_bank, ram, rg_fence_set, arch, rg_globaldirty,
                  ff_write_mem_request, posted, mem, rg_head, rg_fbhead>>
  BY <1>1 DEF response_to_core, modes, fill, bus
<1>3. ASSUME req.access # "load" PROVE KeepsStore
  <2> DEFINE e == [valid |-> TRUE, addr |-> req.addr, data |-> req.data, mask |-> req.mask,
                   epoch |-> req.epoch, io |-> isIO(req.addr), operand |-> forwarded(w),
                   fbindex |-> IF move THEN rg_fbtail
                               ELSE IF fb_hits # {} THEN fb_hitindex ELSE 0]
  <2>1. sb' = [sb EXCEPT ![rg_tail] = e]
    BY <1>1, <1>3 DEF response_to_core, move
  <2>2. /\ e.valid /\ e.addr = req.addr /\ e.io = isIO(req.addr)
        /\ e.fbindex = IF move THEN rg_fbtail ELSE IF fb_hits # {} THEN fb_hitindex ELSE 0
    OBVIOUS
  <2> HIDE DEF e
  <2> QED BY <1>3, <2>1, <2>2 DEF KeepsStore
<1>4. req.access = "load" => UNCHANGED <<sb, rg_tail>>
  BY <1>1 DEF response_to_core
<1>5. ~move => MovesNothing
  BY <1>1 DEF response_to_core, move, MovesNothing
<1>6. move => MovesLine
  <2>1. ASSUME move PROVE ~MovesNothing
    <3>1. rg_fbtail' = next_fb(rg_fbtail)
      BY <1>1, <2>1 DEF response_to_core, move
    <3>2. rg_fbtail \in 0..FbSize - 1 /\ FbSize \in Nat /\ FbSize >= 2
          /\ next_fb(rg_fbtail) = IF rg_fbtail = FbSize - 1 THEN 0 ELSE rg_fbtail + 1
      BY HeadEntry, NextFb, Shape DEF FbIndex, IInv
    <3>3. next_fb(rg_fbtail) # rg_fbtail
      BY <3>2
    <3> QED BY <3>1, <3>3 DEF MovesNothing
  <2> QED BY <2>1, AnswerEffects DEF Straight
<1>7. rl_response_to_core => ram_hit \/ (fb_hit /\ ~ram_hit)
  BY <1>1 DEF rl_response_to_core, can_respond
<1> QED BY <1>2, <1>3, <1>4, <1>5, <1>6, <1>7

(* A line that a store or an atomic hits in the RAMs moves to the fill     *)
(* buffer whole, with its dirty bit.                                       *)
LEMMA PlacedMove ==
  ASSUME Straight, IInv, Told, Placed, Answers, move
  PROVE  /\ Values' /\ Dirt'
         /\ \A i \in FbIndex, a \in Address : in_fb(i, a) => in_fb(i, a)'
         /\ \A a \in Address, i \in FbIndex : i = rg_fbtail /\ line(a) = line(req.addr) => in_fb(i, a)'
<1> DEFINE l == line(req.addr)
           s == req.addr[2]
<1>1. /\ UNCHANGED <<rg_fb_enables, ram, rg_fence_set, arch, rg_globaldirty,
                     ff_write_mem_request, posted, mem, rg_head, rg_fbhead>>
      /\ MovesLine
  BY AnswerFrame DEF Placed
<1>2. /\ ~isIO(req.addr) /\ fb_hits = {} /\ in_rams(l) /\ ~fb_full
      /\ fb' = placed /\ rg_fbtail' = next_fb(rg_fbtail)
      /\ v_reg_valid' = [v_reg_valid EXCEPT ![s] = FALSE]
      /\ v_reg_dirty' = [v_reg_dirty EXCEPT ![s] = FALSE]
      /\ ff_core_request # <<>>
  BY <1>1, AnswerEffects DEF MovesLine, Straight
<1>3. /\ req.addr \in Address /\ s \in Set /\ l \in Line /\ l = <<req.addr[1], s>>
      /\ rg_fbtail \in FbIndex /\ fb \in [FbIndex -> Entry]
      /\ v_reg_valid \in [Set -> BOOLEAN] /\ v_reg_dirty \in [Set -> BOOLEAN]
  BY <1>2, HeadRequest, HeadEntry, TypesOf DEF Request, IInv, line, Typed, Contents, Regs
<1>4. ram_out = ram[s]
  BY CheckFresh DEF CheckedOutputFresh, move, ram_hit
<1>5. rl_response_to_core /\ ff_pending_req' = ff_pending_req
  BY <1>2, DeviceIsLast DEF Answers, rl_response_to_core
<1>6. /\ fb'[rg_fbtail].valid /\ fb'[rg_fbtail].line = l /\ fb'[rg_fbtail].line_valid = TRUE
      /\ \A i \in FbIndex : i # rg_fbtail => fb'[i] = fb[i]
  BY <1>2, AllocatedAt DEF IInv, placed
<1>7. fb'[rg_fbtail].data = ram[s].data /\ fb'[rg_fbtail].dirty = v_reg_dirty[s]
  <2>1. fb'[rg_fbtail] = allocated(l, ram_out.data, TRUE, v_reg_dirty[s])
    BY <1>2, <1>3 DEF placed
  <2> QED BY <1>3, <1>4, <2>1 DEF allocated
<1>8. NewEntry(l)
  BY <1>1, <1>2, <1>6 DEF NewEntry
<1>9. ff_pending_req = <<>> => rg_fb_enables = {}
  BY DEF Placed, Beats
<1>10. /\ ~fb[rg_fbtail].valid
       /\ \A i \in FbIndex, a \in Address :
            i # rg_fbtail => (in_fb(i, a)' <=> in_fb(i, a)) /\ (i \in entry_of(a)' <=> i \in entry_of(a))
       /\ \A a \in Address : line(a) # l => entry_of(a)' = entry_of(a)
  BY <1>1, <1>5, <1>8, <1>9, OthersSame
<1>11. ASSUME NEW a \in Address, NEW i \in FbIndex, i = rg_fbtail, line(a) = l PROVE in_fb(i, a)'
  BY <1>6, <1>11 DEF in_fb, line
<1>12. \A i \in FbIndex, a \in Address : in_fb(i, a) => in_fb(i, a)'
  <2>1. \A a \in Address : ~in_fb(rg_fbtail, a)
    BY <1>10 DEF in_fb
  <2> QED BY <1>10, <2>1
<1>13. \A a \in Address : written(a)' = written(a)
  BY <1>1, WrittenSame
<1>14. ASSUME NEW a \in Address
       PROVE  /\ a[2] \in Set
              /\ line(a) = l => in_ram(a) /\ ~in_ram(a)' /\ a[2] = s
              /\ line(a) # l => /\ in_ram(a)' <=> in_ram(a)
                                /\ in_ram(a) => v_reg_dirty'[a[2]] = v_reg_dirty[a[2]]
  <2>1. a[2] \in Set
    BY DEF Address
  <2>2. CASE line(a) = l
    BY <1>2, <1>3, <2>1, <2>2 DEF in_ram, in_rams, line
  <2>3. CASE line(a) # l
    <3>1. CASE a[2] = s
      <4>1. ~in_ram(a) /\ ~in_ram(a)'
        BY <1>2, <1>3, <2>3, <3>1 DEF in_ram, in_rams, line
      <4> QED BY <2>1, <2>3, <4>1
    <3>2. CASE a[2] # s
      <4>1. v_reg_valid'[a[2]] = v_reg_valid[a[2]] /\ v_reg_dirty'[a[2]] = v_reg_dirty[a[2]]
        BY <1>2, <1>3, <2>1, <3>2
      <4> QED BY <1>1, <2>1, <2>3, <4>1 DEF in_ram
    <3> QED BY <3>1, <3>2
  <2> QED BY <2>2, <2>3
<1>15. Held'
  <2>1. ASSUME NEW a \in Address, NEW i \in entry_of(a)'
        PROVE  /\ in_fb(i, a)' => fb'[i].data[a[3]] = arch'[a]
               /\ (in_fb(i, a)' /\ fb'[i].dirty) \/ written(a)' = arch'[a]
    <3>1. i \in FbIndex
      BY DEF entry_of, FbIndex
    <3>2. CASE i = rg_fbtail
      <4>1. line(a) = l
        BY <1>6, <3>2 DEF entry_of, line
      <4>2. /\ ram[s].data[a[3]] = arch[a]
            /\ v_reg_dirty[s] \/ written(a) = arch[a]
        BY <1>14, <4>1 DEF Placed, Values, Stored
      <4>3. in_fb(i, a)'
        BY <1>11, <3>1, <3>2, <4>1
      <4>4. fb'[i].data[a[3]] = arch'[a] /\ (fb'[i].dirty \/ written(a)' = arch'[a])
        BY <1>1, <1>7, <1>13, <3>2, <4>2
      <4> QED BY <4>3, <4>4
    <3>3. CASE i # rg_fbtail
      <4>1. i \in entry_of(a) /\ fb'[i] = fb[i] /\ (in_fb(i, a)' <=> in_fb(i, a))
        BY <1>6, <1>10, <2>1, <3>1, <3>3
      <4>2. /\ in_fb(i, a) => fb[i].data[a[3]] = arch[a]
            /\ (in_fb(i, a) /\ fb[i].dirty) \/ written(a) = arch[a]
        BY <4>1 DEF Placed, Values, Held
      <4> QED BY <1>1, <1>13, <4>1, <4>2
    <3> QED BY <3>2, <3>3
  <2> QED BY <2>1 DEF Held
<1>16. Stored'
  <2>1. ASSUME NEW a \in Address, in_ram(a)'
        PROVE  /\ ram'[a[2]].data[a[3]] = arch'[a]
               /\ (v_reg_dirty'[a[2]] /\ a[2] >= rg_fence_set') \/ written(a)' = arch'[a]
    <3>1. in_ram(a) /\ v_reg_dirty'[a[2]] = v_reg_dirty[a[2]]
      BY <1>14, <2>1
    <3> QED BY <1>1, <1>13, <3>1 DEF Placed, Values, Stored
  <2> QED BY <2>1 DEF Stored
<1>17. Away'
  <2>1. ASSUME NEW a \in Address, entry_of(a)' = {}, ~in_ram(a)' PROVE written(a)' = arch'[a]
    <3>1. line(a) # l
      BY <1>3, <1>6, <2>1 DEF entry_of, line, FbIndex
    <3> QED BY <1>1, <1>10, <1>13, <1>14, <2>1, <3>1 DEF Placed, Values, Away
  <2> QED BY <2>1 DEF Away
<1>18. Dirt'
  <2>1. \A x \in Set : v_reg_valid'[x] /\ v_reg_dirty'[x] => v_reg_valid[x] /\ v_reg_dirty[x]
    BY <1>2, <1>3
  <2>2. v_reg_valid[s]
    BY <1>2 DEF in_rams, line
  <2> QED BY <1>1, <1>3, <1>6, <1>7, <2>1, <2>2 DEF Placed, Dirt
<1> QED BY <1>11, <1>12, <1>15, <1>16, <1>17, <1>18 DEF Values

(* An answer moves its line or nothing, and its store has its word in the  *)
(* fill buffer.                                                            *)
LEMMA PlacedAnswer ==
  ASSUME Straight, IInv, Told, Placed, Answers PROVE Placed'
<1>1. /\ UNCHANGED <<rg_fb_enables, rg_next_bank, ram, rg_fence_set, arch, rg_globaldirty,
                     ff_write_mem_request, posted, mem, rg_head, rg_fbhead>>
      /\ ~move => MovesNothing
      /\ rl_response_to_core => ram_hit \/ (fb_hit /\ ~ram_hit)
  BY AnswerFrame DEF Placed
<1>2. /\ ff_core_request # <<>> /\ ~sb_full /\ req.addr \in Address /\ at_head
  BY AnswerEffects, HeadRequest DEF Straight, IInv, Request
<1>3. rl_response_to_core => ff_pending_req' = ff_pending_req
  BY DEF rl_response_to_core
<1>4. rl_capture_io_response => ~move /\ isIO(req.addr)
  <2>1. rl_capture_io_response => isIO(req.addr)
    BY DeviceIsLast
  <2>2. move => ~isIO(req.addr)
    BY AnswerFrame DEF Placed, MovesLine
  <2> QED BY <2>1, <2>2
<1>5. Beats'
  <2>1. CASE rl_response_to_core
    BY <1>1, <1>3, <2>1 DEF Placed, Beats, from_first, first_word
  <2>2. CASE rl_capture_io_response
    BY <1>1, <2>2, BeatsEnd DEF Placed
  <2> QED BY <2>1, <2>2 DEF Answers
<1>6. ~move => /\ \A i \in FbIndex, a \in Address : in_fb(i, a)' = in_fb(i, a)
               /\ UNCHANGED <<fb, v_reg_valid, v_reg_dirty>>
  <2> SUFFICES ASSUME ~move PROVE \A i \in FbIndex, a \in Address : in_fb(i, a)' = in_fb(i, a)
    BY <1>1 DEF MovesNothing
  <2>1. fb' = fb
    BY <1>1 DEF MovesNothing
  <2>2. CASE rl_response_to_core
    BY <1>1, <1>3, <2>1, <2>2, InFbSame
  <2>3. CASE rl_capture_io_response
    BY <1>1, <2>1, <2>3, BeatsEnd DEF Placed
  <2> QED BY <2>2, <2>3 DEF Answers
<1>7. Values' /\ Dirt'
  <2>1. CASE move
    BY <2>1, PlacedMove
  <2>2. CASE ~move
    BY <1>1, <1>6, <2>2, WrittenSame, ValuesSame DEF Placed, Dirt
  <2> QED BY <2>1, <2>2
<1>8. \A i \in FbIndex, a \in Address : in_fb(i, a) => in_fb(i, a)'
  BY <1>6, PlacedMove
<1>9. /\ rg_head \in Slot /\ rg_tail \in Slot /\ 1 - rg_head \in Slot /\ 1 - rg_tail \in Slot
      /\ 1 - (1 - rg_tail) = rg_tail /\ rg_tail # 1 - rg_tail /\ rg_head # 1 - rg_head
      /\ rg_head = rg_tail \/ rg_head = 1 - rg_tail
      /\ \A s \in Slot : s = rg_head \/ s = 1 - rg_head
      /\ sb \in [Slot -> Store]
  BY Ends DEF IInv
<1>10. UNCHANGED <<sb, rg_tail>> => Homes' /\ Outgoing'
  BY <1>1, <1>8, HomesSame, OutgoingSame DEF Placed, IInv, sb_full
<1>11. ASSUME NEW e, sb' = [sb EXCEPT ![rg_tail] = e], e.valid, e.addr = req.addr,
              e.io = isIO(req.addr), req.access # "load",
              e.fbindex = IF move THEN rg_fbtail ELSE IF fb_hits # {} THEN fb_hitindex ELSE 0
       PROVE  Homes' /\ Outgoing'
  <2>1. sb'[rg_tail] = e /\ \A s \in Slot : s # rg_tail => sb'[s] = sb[s]
    BY <1>9, <1>11
  <2> PICK a \in Address : a = req.addr
    BY <1>2
  <2>2. ~e.io => \E i \in FbIndex : i = e.fbindex /\ in_fb(i, a)'
    <3> SUFFICES ASSUME ~isIO(req.addr) PROVE \E i \in FbIndex : i = e.fbindex /\ in_fb(i, a)'
      BY <1>11
    <3>1. CASE move
      <4>1. rg_fbtail \in FbIndex /\ e.fbindex = rg_fbtail
        BY <1>11, <3>1, HeadEntry DEF IInv
      <4>2. PICK i \in FbIndex : i = rg_fbtail
        BY <4>1
      <4>3. in_fb(i, a)'
        BY <3>1, <4>2, PlacedMove
      <4> QED BY <4>1, <4>2, <4>3
    <3>2. CASE ~move
      <4>1. rl_response_to_core /\ ~ram_hit /\ fb_hit
        BY <1>1, <1>4, <1>11, <3>2 DEF Answers, move
      <4>2. fb_hits # {} /\ word_hit
        BY <4>1 DEF fb_hit, nc_write
      <4>3. /\ fb_hitindex \in FbIndex /\ fb[fb_hitindex].valid
            /\ fb[fb_hitindex].line = line(req.addr) /\ e.fbindex = fb_hitindex
        BY <1>11, <3>2, <4>2, HitIndex DEF IInv
      <4>4. ff_pending_req # <<>> => ~Head(ff_pending_req).io_request
        BY <4>1, HitNoDevice, FirstWord DEF IInv
      <4>5. in_fb(fb_hitindex, a)
        BY <4>2, <4>3, <4>4 DEF in_fb, word_hit
      <4>6. PICK i \in FbIndex : i = fb_hitindex
        BY <4>3
      <4>7. in_fb(i, a)'
        BY <1>8, <4>5, <4>6
      <4> QED BY <4>3, <4>6, <4>7
    <3> QED BY <3>1, <3>2
  <2>3. ASSUME NEW s \in Slot, sb'[s].valid, ~sb'[s].io PROVE in_fb(sb[s].fbindex, sb[s].addr)'
    <3>1. CASE s = rg_tail
      <4>1. PICK i \in FbIndex : i = e.fbindex /\ in_fb(i, a)'
        BY <2>1, <2>2, <2>3, <3>1
      <4>2. sb'[s].fbindex = i /\ sb'[s].addr = a
        BY <1>11, <2>1, <3>1, <4>1
      <4> QED BY <4>1, <4>2 DEF in_fb, line
    <3>2. CASE s # rg_tail
      <4>1. sb'[s] = sb[s]
        BY <2>1, <3>2
      <4>2. PICK i \in FbIndex, b \in Address : i = sb[s].fbindex /\ b = sb[s].addr
        BY <1>9 DEF Store
      <4>3. in_fb(i, b)
        BY <2>3, <4>1, <4>2 DEF Placed, Homes
      <4>4. in_fb(i, b)'
        BY <1>8, <4>3
      <4>5. sb'[s].fbindex = i /\ sb'[s].addr = b
        BY <4>1, <4>2
      <4> QED BY <4>4, <4>5 DEF in_fb, line
    <3> QED BY <3>1, <3>2
  <2>4. Homes'
    BY <2>3 DEF Homes
  <2>5. ~sb_full' => sb'[1 - rg_head] = sb[1 - rg_head]
    <3>1. ASSUME ~sb_full' PROVE rg_head = rg_tail
      <4>1. ~sb[1 - rg_tail].valid
        BY <1>9, <1>11, <2>1, <3>1 DEF sb_full
      <4> QED BY <1>2, <1>9, <4>1 DEF Told, InOrder, Turns
    <3> QED BY <1>9, <2>1, <3>1
  <2>6. Outgoing'
    BY <1>1, <1>2, <2>5, OutgoingSame DEF Placed
  <2> QED BY <2>4, <2>6
<1>12. Homes' /\ Outgoing'
  <2>1. UNCHANGED <<sb, rg_tail>> \/ KeepsStore
    BY AnswerFrame DEF Placed
  <2> QED BY <1>10, <1>11, <2>1 DEF KeepsStore
<1> QED BY <1>5, <1>7, <1>12 DEF Placed

(* No write to a line that is being read is on its way.                    *)
LEMMA NothingUnwritten ==
  ASSUME Typed, NEW a \in Address, line(a) \notin Unwritten PROVE written(a) = mem[a]
<1>1. ASSUME NEW q \in {ff_write_mem_request, posted}, q # <<>> PROVE line(Head(q).addr) # line(a)
  <2>1. q \in Seq(Write)
    BY DEF Typed, Queues
  <2>2. Head(q) = q[1] /\ 1 \in DOMAIN q
    BY <1>1, <2>1, Queue
  <2>3. Head(q) \in Entries(ff_write_mem_request) \cup Entries(posted)
    BY <1>1, <2>2 DEF Entries
  <2> QED BY <2>3 DEF Unwritten
<1> QED BY <1>1 DEF written, under

(* The word a beat writes into its entry.                                  *)
LEMMA BeatWrites ==
  ASSUME IInv, rl_fill_from_memory, beat_bank \in Word
  PROVE  LET p == ff_pending_req[1] IN
         /\ fb'[p.fbindex].dirty = fb[p.fbindex].dirty
         /\ fb'[p.fbindex].data = [fb[p.fbindex].data EXCEPT
                                     ![beat_bank] = mem[<<p.addr[1], p.addr[2], beat_bank>>]]
         /\ Errors = "none" => ~fb'[p.fbindex].err
<1> DEFINE p == Head(ff_pending_req)
           l == line(p.addr)
<1>1. p = ff_pending_req[1] /\ p.fbindex \in FbIndex
  <2>1. ff_pending_req # <<>>
    BY DEF rl_fill_from_memory
  <2> QED BY <2>1, FillEffects, Queue DEF IInv, Typed, Queues
<1>2. PICK err \in BOOLEAN :
        /\ may_fail(err, p.fbindex)
        /\ fb' = [fb EXCEPT ![p.fbindex].data[beat_bank] = mem[<<l[1], l[2], beat_bank>>],
                            ![p.fbindex].line_valid = @ \/ last_beat,
                            ![p.fbindex].err = err,
                            ![p.fbindex].faced = @ \/ err]
  BY DEF rl_fill_from_memory
<1>3. fb \in [FbIndex -> Entry] /\ last_beat \in BOOLEAN
  BY DEF IInv, Typed, Contents, last_beat
<1> DEFINE k == p.fbindex
           d == mem[<<l[1], l[2], beat_bank>>]
           v == last_beat
           b == beat_bank
<1>4. /\ fb' = [fb EXCEPT ![k].data[b] = d, ![k].line_valid = @ \/ v, ![k].err = err,
                          ![k].faced = @ \/ err]
      /\ k \in FbIndex /\ b \in Word /\ v \in BOOLEAN
  BY <1>1, <1>2, <1>3
<1>5. d = mem[<<p.addr[1], p.addr[2], b>>]
  BY DEF line
<1> HIDE DEF k, d, v, b
<1>6. fb'[k].dirty = fb[k].dirty
  BY <1>3, <1>4 DEF Entry
<1>7. fb'[k].data = [fb[k].data EXCEPT ![b] = d]
  BY <1>3, <1>4 DEF Entry
<1>8. Errors = "none" => ~fb'[k].err
  <2>1. fb'[k].err = err
    BY <1>3, <1>4 DEF Entry
  <2>2. Errors = "none" => ~err
    BY <1>2 DEF may_fail
  <2> QED BY <2>1, <2>2
<1> QED BY <1>1, <1>5, <1>6, <1>7, <1>8 DEF k, b

(* A beat of a fill: the word from memory, which no newer copy has.        *)
LEMMA PlacedFill ==
  ASSUME Straight, IInv, Placed, rl_fill_from_memory PROVE Placed'
<1> PICK p : p = ff_pending_req[1]
  OBVIOUS
<1> PICK k : k = p.fbindex
  OBVIOUS
<1> PICK b : b = beat_bank
  OBVIOUS
<1>1. /\ ff_pending_req # <<>> /\ ~p.io_request /\ k \in FbIndex /\ p = Head(ff_pending_req)
      /\ ~fb[k].line_valid /\ fb[k].valid /\ fb[k].line = line(p.addr)
      /\ fb'[k].valid /\ fb'[k].line = line(p.addr) /\ fb'[k].line_valid = last_beat
      /\ \A i \in FbIndex : i # k => fb'[i] = fb[i]
      /\ ff_pending_req' = IF last_beat THEN Tail(ff_pending_req) ELSE ff_pending_req
  BY FillEffects, FirstWord DEF IInv
<1>2. /\ b \in Word /\ b \notin rg_fb_enables
      /\ last_beat => \A w \in Word : w \in rg_fb_enables \/ w = b
  BY <1>1, BeatIs DEF Placed
<1>3. /\ rg_fb_enables' = IF last_beat THEN {} ELSE rg_fb_enables \cup {b}
      /\ UNCHANGED <<v_reg_valid, v_reg_dirty, ram, rg_fence_set, arch, rg_globaldirty,
                     ff_write_mem_request, posted, mem, sb, rg_head>>
      /\ line(p.addr) \notin Unwritten
  BY <1>1 DEF rl_fill_from_memory, core, modes, rams, sbVars, bus
<1>4. /\ p \in Fetch /\ p.addr \in Address /\ line(p.addr) \in Line
      /\ fb \in [FbIndex -> Entry]
  BY <1>1, FirstWord DEF IInv, Typed, Contents, Fetch, line, Line, Address
<1>5. /\ fb'[k].dirty = fb[k].dirty
      /\ \A w \in Word : fb'[k].data[w] = IF w = b THEN mem[<<p.addr[1], p.addr[2], b>>] ELSE fb[k].data[w]
  <2>1. fb[k] \in Entry /\ fb[k].data \in [Word -> Datum]
    BY <1>1, <1>4 DEF Entry, Data
  <2>2. fb'[k].data = [fb[k].data EXCEPT ![b] = mem[<<p.addr[1], p.addr[2], b>>]]
        /\ fb'[k].dirty = fb[k].dirty
    BY <1>2, BeatWrites
  <2> QED BY <1>2, <2>1, <2>2
<1>6. ASSUME NEW a \in Address PROVE a[3] \in Word /\ a = <<a[1], a[2], a[3]>>
  BY DEF Address
<1>7. \A a \in Address : written(a)' = written(a)
  BY <1>3, WrittenSame
<1>8. ASSUME NEW a \in Address, NEW i \in FbIndex, i # k PROVE in_fb(i, a)' <=> in_fb(i, a)
  <2>1. fb'[i] = fb[i] /\ p.fbindex # i
    BY <1>1, <1>8
  <2>2. CASE last_beat
    BY <1>1, <1>3, <2>1, <2>2 DEF in_fb, line
  <2>3. CASE ~last_beat
    BY <1>1, <1>3, <2>1, <2>3 DEF in_fb, line
  <2> QED BY <2>2, <2>3
<1>9. ASSUME NEW a \in Address, line(a) = line(p.addr)
      PROVE  /\ in_fb(k, a)' <=> in_fb(k, a) \/ a[3] = b
             /\ in_fb(k, a) => a[3] # b
             /\ k \in entry_of(a)
  <2>1. in_fb(k, a) <=> a[3] \in rg_fb_enables
    BY <1>1, <1>9 DEF in_fb
  <2>2. CASE last_beat
    <3>1. in_fb(k, a)'
      BY <1>1, <1>9, <2>2 DEF in_fb, line
    <3> QED BY <1>1, <1>2, <1>6, <1>9, <2>1, <2>2, <3>1 DEF entry_of
  <2>3. CASE ~last_beat
    <3>1. Head(ff_pending_req') = p /\ ff_pending_req' # <<>>
      BY <1>1, <2>3
    <3>2. in_fb(k, a)' <=> a[3] \in rg_fb_enables'
      BY <1>1, <1>9, <2>3, <3>1 DEF in_fb, line
    <3> QED BY <1>1, <1>2, <1>3, <1>9, <2>1, <2>3, <3>2 DEF entry_of
  <2> QED BY <2>2, <2>3
<1>10. ASSUME NEW a \in Address, in_fb(k, a) PROVE in_fb(k, a)'
  <2>1. line(a) = line(p.addr)
    BY <1>1, <1>10 DEF in_fb
  <2> QED BY <1>9, <1>10, <2>1
<1>11. Homes'
  <2>1. \A i \in FbIndex, a \in Address : in_fb(i, a) => in_fb(i, a)'
    BY <1>8, <1>10
  <2> QED BY <1>3, <2>1, HomesSame DEF Placed, IInv
<1>12. Beats' /\ Outgoing'
  BY <1>3, BeatsFill, OutgoingSame DEF Placed, sb_full
<1>13. \A i \in FbIndex : fb'[i].valid = fb[i].valid /\ fb'[i].line = fb[i].line
                          /\ fb'[i].dirty = fb[i].dirty
  <2>1. fb[k].valid \in BOOLEAN /\ fb'[k].valid = fb[k].valid
    <3>1. fb'[k].valid = fb[k].valid
      BY <1>1, FillEffects
    <3> QED BY <1>1, <1>4, <3>1 DEF Entry
  <2> QED BY <1>1, <1>5, <2>1
<1>14. Dirt'
  BY <1>3, <1>13 DEF Placed, Dirt
<1>15. \A a \in Address : entry_of(a)' = entry_of(a) /\ in_ram(a)' = in_ram(a) /\ entry_of(a) \subseteq FbIndex
  <2>1. ASSUME NEW a \in Address PROVE entry_of(a)' = entry_of(a)
    <3>1. \A i \in FbIndex : i \in entry_of(a)' <=> i \in entry_of(a)
      BY <1>13 DEF entry_of, line
    <3>2. entry_of(a) \subseteq FbIndex /\ entry_of(a)' \subseteq FbIndex
      BY DEF entry_of, FbIndex
    <3> QED BY <3>1, <3>2
  <2> QED BY <1>3, <2>1 DEF in_ram, entry_of
<1>16. Held'
  <2>1. ASSUME NEW a \in Address, NEW i \in entry_of(a)'
        PROVE  /\ in_fb(i, a)' => fb'[i].data[a[3]] = arch'[a]
               /\ (in_fb(i, a)' /\ fb'[i].dirty) \/ written(a)' = arch'[a]
    <3>1. i \in FbIndex /\ i \in entry_of(a)
      BY <1>15
    <3>2. /\ in_fb(i, a) => fb[i].data[a[3]] = arch[a]
          /\ (in_fb(i, a) /\ fb[i].dirty) \/ written(a) = arch[a]
      BY <3>1 DEF Placed, Values, Held
    <3>3. CASE i # k
      BY <1>1, <1>3, <1>7, <1>8, <3>1, <3>2, <3>3
    <3>4. CASE i = k
      <4>1. line(a) = line(p.addr)
        BY <1>1, <3>1, <3>4 DEF entry_of
      <4>2. CASE a[3] = b
        <5>1. written(a) = arch[a]
          BY <1>9, <3>2, <3>4, <4>1, <4>2
        <5>2. mem[a] = written(a)
          BY <1>3, <4>1, NothingUnwritten DEF IInv
        <5>3. fb'[k].data[a[3]] = mem[a]
          <6>1. a[1] = p.addr[1] /\ a[2] = p.addr[2]
            BY <4>1 DEF line
          <6> QED BY <1>5, <1>6, <4>2, <6>1
        <5> QED BY <1>3, <1>7, <3>4, <5>1, <5>2, <5>3
      <4>3. CASE a[3] # b
        <5>1. in_fb(k, a)' <=> in_fb(k, a)
          BY <1>9, <4>1, <4>3
        <5>2. fb'[k].data[a[3]] = fb[k].data[a[3]]
          BY <1>5, <1>6, <4>3
        <5> QED BY <1>3, <1>5, <1>7, <3>2, <3>4, <5>1, <5>2
      <4> QED BY <4>2, <4>3
    <3> QED BY <3>3, <3>4
  <2> QED BY <2>1 DEF Held
<1>17. Stored'
  BY <1>3, <1>7, <1>15 DEF Placed, Values, Stored
<1>18. Away'
  BY <1>3, <1>7, <1>15 DEF Placed, Values, Away
<1> QED BY <1>11, <1>12, <1>14, <1>16, <1>17, <1>18 DEF Placed, Values

(* A whole line laid over a word replaces it.                              *)
LEMMA WholeWord ==
  ASSUME NEW w, NEW d \in Datum PROVE updated(w, d, Lane) = d
BY DEF updated, Datum

(* A dirty line of the RAMs, or nothing, goes to memory.                   *)
LEMMA Evicts ==
  ASSUME IInv, Placed, NEW s \in Set, NEW c \in BOOLEAN, c => v_reg_valid[s],
         ff_write_mem_request = <<>>, UNCHANGED <<posted, mem, sb, rg_head>>,
         ff_write_mem_request' =
           IF c THEN <<written_back(ram[s].tag, s, ram[s].data)>> ELSE <<>>
  PROVE  /\ Outgoing'
         /\ \A a \in Address :
              /\ written(a)' = written(a) \/ written(a)' = arch[a]
              /\ in_ram(a) /\ a[2] = s /\ c => written(a)' = arch[a]
<1> PICK r : r = ram[s]
  OBVIOUS
<1>1. c => ff_write_mem_request' # <<>>
           /\ Head(ff_write_mem_request') = written_back(r.tag, s, r.data)
  <2>1. c => ff_write_mem_request' = <<written_back(r.tag, s, r.data)>>
    OBVIOUS
  <2> QED BY <2>1
<1>2. Outgoing'
  <2>1. ASSUME NEW q \in {ff_write_mem_request', posted}, q # <<>>
        PROVE  LET w == Head(q) IN
               /\ w.io <=> isIO(w.addr)
               /\ ~w.io => w.mask = Lane
               /\ w.io /\ ~sb_full => LET e == sb[1 - rg_head] IN
                    e.addr = w.addr /\ e.mask = w.mask /\ \A x \in Word : w.data[x] = e.data
    <3>1. CASE q = posted
      BY <2>1, <3>1 DEF Placed, Outgoing
    <3>2. CASE q = ff_write_mem_request'
      <4>1. c /\ Head(q) = written_back(r.tag, s, r.data)
        BY <1>1, <2>1, <3>2
      <4>2. r.tag \notin IoTag
        BY <4>1 DEF IInv, Single
      <4> QED BY <4>1, <4>2 DEF written_back, isIO
    <3> QED BY <2>1, <3>1, <3>2
  <2> QED BY <2>1 DEF Outgoing, isIO, sb_full
<1>3. ASSUME NEW a \in Address
      PROVE  /\ written(a)' = written(a) \/ written(a)' = arch[a]
             /\ in_ram(a) /\ a[2] = s /\ c => written(a)' = arch[a]
  <2>1. written(a) = under(posted, a, mem[a])
    BY DEF written, under
  <2>2. under(posted, a, mem[a])' = under(posted, a, mem[a])
    BY DEF under, line, updated
  <2>3. CASE c
    <3>1. Head(ff_write_mem_request') = [addr |-> <<r.tag, s, 0>>, io |-> FALSE,
                                         data |-> r.data, mask |-> Lane]
      BY <1>1, <2>3 DEF written_back
    <3>2. line(a) = line(<<r.tag, s, 0>>) <=> a[1] = r.tag /\ a[2] = s
      BY DEF line
    <3>3. CASE a[1] = r.tag /\ a[2] = s
      <4>1. in_ram(a)
        BY <2>3, <3>3 DEF in_ram
      <4>2. r.data[a[3]] = arch[a] /\ arch[a] \in Datum
        BY <3>3, <4>1, TypesOf DEF IInv, Regs, Placed, Values, Stored
      <4>3. written(a)' = updated(under(posted, a, mem[a]), r.data[a[3]], Lane)
        BY <1>1, <2>2, <2>3, <3>1, <3>2, <3>3 DEF written, under, line, updated
      <4> QED BY <4>2, <4>3, WholeWord
    <3>4. CASE ~(a[1] = r.tag /\ a[2] = s)
      <4>1. written(a)' = under(posted, a, mem[a])
        BY <1>1, <2>2, <2>3, <3>1, <3>2, <3>4 DEF written, under, line, updated
      <4> QED BY <2>1, <3>4, <4>1 DEF in_ram
    <3> QED BY <3>3, <3>4
  <2>4. CASE ~c
    <3>1. ff_write_mem_request' = <<>>
      BY <2>4
    <3> QED BY <2>1, <2>2, <2>4, <3>1 DEF written, under
  <2> QED BY <2>3, <2>4
<1> QED BY <1>2, <1>3

(* The head leaves the fill buffer: nobody else moves.                     *)
LEMMA HeadLeaves ==
  ASSUME Freed, UNCHANGED <<ff_pending_req, rg_fb_enables>>
  PROVE  /\ \A i \in FbIndex, a \in Address :
              i # rg_fbhead => (in_fb(i, a)' <=> in_fb(i, a)) /\ (i \in entry_of(a)' <=> i \in entry_of(a))
         /\ \A a \in Address : rg_fbhead \notin entry_of(a)'
<1>1. ASSUME NEW i \in FbIndex, NEW a \in Address, i # rg_fbhead
      PROVE  (in_fb(i, a)' <=> in_fb(i, a)) /\ (i \in entry_of(a)' <=> i \in entry_of(a))
  <2>1. fb'[i] = fb[i]
    BY <1>1 DEF Freed
  <2> QED BY <2>1 DEF in_fb, entry_of, line
<1>2. ASSUME NEW a \in Address PROVE rg_fbhead \notin entry_of(a)'
  <2>1. PICK h : h = rg_fbhead
    OBVIOUS
  <2>2. ~fb'[h].valid
    BY <2>1 DEF Freed
  <2>3. h \notin entry_of(a)'
    BY <2>2 DEF entry_of
  <2> QED BY <2>1, <2>3
<1> QED BY <1>1, <1>2

(* A release: the line goes to the RAMs, and the victim to memory.         *)
LEMMA PlacedRelease ==
  ASSUME Straight, IInv, Told, Placed, rl_release_from_fillbuffer PROVE Placed'
<1> PICK h : h = rg_fbhead
  OBVIOUS
<1> PICK s : s = release_set
  OBVIOUS
<1>1. /\ releasable /\ sb_empty /\ h \in FbIndex /\ fb[h].valid /\ fb[h].line_valid
      /\ rg_fence_set = 0 /\ ff_write_mem_request = <<>> /\ s \in Set
      /\ fb[h] \in Entry /\ fb[h].line \in Line /\ s = fb[h].line[2]
  <2>1. /\ releasable /\ sb_empty /\ h \in FbIndex /\ fb[h].valid /\ fb[h].line_valid /\ rg_fence_set = 0
    BY ReleaseFacts DEF Straight
  <2> QED BY <2>1, HeadEntry DEF IInv, releasable, release_set
<1>2. UNCHANGED <<fill, rg_fence_set, arch, rg_globaldirty, ff_pending_req, posted, mem, sb,
                  rg_head, rg_fbtail>>
  BY DEF rl_release_from_fillbuffer, core, fifos, modes, sbVars, bus
<1>3. CASE release_discard
  BY <1>1, <1>3 DEF release_discard, Told, InOrder, Calm
<1>4. CASE release_read
  <2>1. UNCHANGED <<fb, v_reg_valid, v_reg_dirty, ram, ff_write_mem_request>>
    BY <1>4 DEF release_read, rams
  <2> QED BY <1>2, <2>1, PlacedQuiet
<1>5. CASE release_write
  <2>1. /\ ~victim_dirty \/ rg_release_readphase
        /\ ff_write_mem_request' = IF rg_release_readphase
             THEN <<written_back(ram_out.tag, s, ram_out.data)>> ELSE <<>>
        /\ ram' = [ram EXCEPT ![s] = [tag |-> fb[h].line[1], data |-> fb[h].data]]
        /\ v_reg_valid' = [v_reg_valid EXCEPT ![s] = TRUE]
        /\ v_reg_dirty' = [v_reg_dirty EXCEPT ![s] = fb[h].dirty]
        /\ fb' = freed /\ rg_fbhead' = next_fb(h)
    BY <1>5 DEF release_write
  <2>2. Freed
    BY <1>2, <2>1, FreedEffects DEF IInv
  <2>3. /\ ram \in [Set -> Block] /\ v_reg_valid \in [Set -> BOOLEAN] /\ v_reg_dirty \in [Set -> BOOLEAN]
        /\ ram_out \in Block
    BY TypesOf DEF IInv, Typed, Contents, Regs
  <2>4. rg_release_readphase => ram_out = ram[s] /\ v_reg_valid[s]
    BY DEF IInv, Output, ReleaseBegun, ReleaseDue, victim_dirty
  <2>5. /\ ram'[s].tag = fb[h].line[1] /\ ram'[s].data = fb[h].data
        /\ v_reg_valid'[s] /\ v_reg_dirty'[s] = fb[h].dirty
        /\ \A t \in Set : t # s => ram'[t] = ram[t] /\ v_reg_valid'[t] = v_reg_valid[t]
                                   /\ v_reg_dirty'[t] = v_reg_dirty[t]
    BY <1>1, <2>1, <2>3
  <2>6. Beats'
    BY <1>2 DEF Placed, Beats, from_first, first_word, fill
  <2>7. Homes'
    BY <1>1, <1>2 DEF Homes, sb_empty
  <2>8. /\ Outgoing'
        /\ \A a \in Address :
             /\ written(a)' = written(a) \/ written(a)' = arch[a]
             /\ in_ram(a) /\ a[2] = s /\ rg_release_readphase => written(a)' = arch[a]
    <3>1. PICK c \in BOOLEAN : c = rg_release_readphase
      BY TypesOf DEF IInv, Regs
    <3>2. c => ram_out = ram[s] /\ v_reg_valid[s]
      BY <2>4, <3>1
    <3>3. ff_write_mem_request' = IF c THEN <<written_back(ram[s].tag, s, ram[s].data)>> ELSE <<>>
      BY <2>1, <3>1, <3>2
    <3> QED BY <1>1, <1>2, <3>1, <3>2, <3>3, Evicts
  <2>9. ASSUME NEW a \in Address
        PROVE  /\ written(a)' = written(a) \/ written(a)' = arch[a]
               /\ in_ram(a) /\ a[2] = s => written(a)' = arch[a]
    <3>1. in_ram(a) /\ a[2] = s /\ ~rg_release_readphase => written(a) = arch[a]
      BY <2>1 DEF Placed, Values, Stored, in_ram, victim_dirty
    <3> QED BY <2>8, <3>1
  <2>10. /\ \A i \in FbIndex, a \in Address :
              i # h => (in_fb(i, a)' <=> in_fb(i, a)) /\ (i \in entry_of(a)' <=> i \in entry_of(a))
                       /\ fb'[i] = fb[i]
         /\ \A a \in Address : h \notin entry_of(a)'
    BY <1>2, <2>2, HeadLeaves DEF fill, Freed
  <2>11. ASSUME NEW a \in Address
         PROVE  /\ a[2] \in Set /\ a[3] \in Word
                /\ a[2] # s => (in_ram(a)' <=> in_ram(a))
                /\ a[2] = s => (in_ram(a)' <=> h \in entry_of(a))
    <3>1. a[2] \in Set /\ a[3] \in Word
      BY DEF Address
    <3>2. a[2] # s => (in_ram(a)' <=> in_ram(a))
      BY <2>5, <3>1 DEF in_ram
    <3>3. fb[h].line = <<fb[h].line[1], fb[h].line[2]>>
      BY <1>1 DEF Line
    <3>4. a[2] = s => (in_ram(a)' <=> h \in entry_of(a))
      BY <1>1, <2>5, <3>3 DEF in_ram, entry_of, line
    <3> QED BY <3>1, <3>2, <3>4
  <2>12. ASSUME NEW a \in Address, h \in entry_of(a)
         PROVE  /\ fb[h].data[a[3]] = arch[a] /\ a[2] = s
                /\ fb[h].dirty \/ written(a) = arch[a]
    <3>1. fb[h].line = line(a)
      BY <2>12 DEF entry_of
    <3>2. in_fb(h, a)
      BY <1>1, <3>1 DEF in_fb
    <3> QED BY <1>1, <2>12, <3>1, <3>2 DEF Placed, Values, Held, line
  <2>13. Held'
    <3>1. ASSUME NEW a \in Address, NEW i \in entry_of(a)'
          PROVE  /\ in_fb(i, a)' => fb'[i].data[a[3]] = arch'[a]
                 /\ (in_fb(i, a)' /\ fb'[i].dirty) \/ written(a)' = arch'[a]
      <4>1. i \in FbIndex /\ i # h
        BY <2>10, <3>1 DEF entry_of, FbIndex
      <4>2. i \in entry_of(a) /\ fb'[i] = fb[i] /\ (in_fb(i, a)' <=> in_fb(i, a))
        BY <2>10, <3>1, <4>1
      <4>3. /\ in_fb(i, a) => fb[i].data[a[3]] = arch[a]
            /\ (in_fb(i, a) /\ fb[i].dirty) \/ written(a) = arch[a]
        BY <4>2 DEF Placed, Values, Held
      <4> QED BY <1>2, <2>9, <4>2, <4>3
    <3> QED BY <3>1 DEF Held
  <2>14. Stored'
    <3>1. ASSUME NEW a \in Address, in_ram(a)'
          PROVE  /\ ram'[a[2]].data[a[3]] = arch'[a]
                 /\ (v_reg_dirty'[a[2]] /\ a[2] >= rg_fence_set') \/ written(a)' = arch'[a]
      <4>1. CASE a[2] = s
        <5>1. h \in entry_of(a)
          BY <2>11, <3>1, <4>1
        <5>2. a[2] >= rg_fence_set'
          BY <1>1, <1>2, <4>1, Shape
        <5> QED BY <1>2, <2>5, <2>9, <2>12, <4>1, <5>1, <5>2
      <4>2. CASE a[2] # s
        <5>1. in_ram(a) /\ a[2] \in Set
          BY <2>11, <3>1, <4>2
        <5>2. /\ ram[a[2]].data[a[3]] = arch[a]
              /\ (v_reg_dirty[a[2]] /\ a[2] >= rg_fence_set) \/ written(a) = arch[a]
          BY <5>1 DEF Placed, Values, Stored
        <5> QED BY <1>2, <2>5, <2>9, <4>2, <5>1, <5>2
      <4> QED BY <4>1, <4>2
    <3> QED BY <3>1 DEF Stored
  <2>15. Away'
    <3>1. ASSUME NEW a \in Address, entry_of(a)' = {}, ~in_ram(a)' PROVE written(a)' = arch'[a]
      <4>1. h \notin entry_of(a)
        BY <2>11, <2>12, <3>1
      <4>2. entry_of(a) = {}
        <5>1. entry_of(a) \subseteq FbIndex
          BY DEF entry_of
        <5> QED BY <2>10, <3>1, <4>1, <5>1
      <4>3. CASE in_ram(a)
        BY <1>2, <2>9, <2>11, <3>1, <4>3
      <4>4. CASE ~in_ram(a)
        <5>1. written(a) = arch[a]
          BY <4>2, <4>4 DEF Placed, Values, Away
        <5> QED BY <1>2, <2>9, <5>1
      <4> QED BY <4>3, <4>4
    <3> QED BY <3>1 DEF Away
  <2>16. Dirt'
    <3>1. ASSUME NEW t \in Set, v_reg_valid'[t], v_reg_dirty'[t] PROVE rg_globaldirty
      BY <1>1, <2>5, <3>1 DEF Placed, Dirt
    <3>2. ASSUME NEW i \in FbIndex, fb'[i].valid, fb'[i].dirty PROVE rg_globaldirty
      BY <1>1, <2>2, <3>2 DEF Placed, Dirt, Freed
    <3> QED BY <1>2, <3>1, <3>2 DEF Dirt
  <2> QED BY <2>6, <2>7, <2>8, <2>13, <2>14, <2>15, <2>16 DEF Placed, Values
<1> QED BY <1>3, <1>4, <1>5 DEF rl_release_from_fillbuffer

(* A set of the fence: its dirty line goes to memory; with the last, every *)
(* word is there.                                                          *)
LEMMA FenceWrites ==
  ASSUME IInv, Placed, rl_fence_operation
  PROVE  /\ Placed'
         /\ fence_last => \A a \in Address : written(a)' = arch[a]
<1> PICK f : f = rg_fence_set
  OBVIOUS
<1> PICK c \in BOOLEAN : c <=> v_reg_dirty[f] /\ v_reg_valid[f]
  OBVIOUS
<1>1. /\ fb_empty /\ sb_empty /\ ff_write_mem_request = <<>> /\ can_fence
      /\ ff_write_mem_request' = IF c THEN <<written_back(ram_out.tag, f, ram_out.data)>> ELSE <<>>
      /\ UNCHANGED <<fb, fill, ram, arch, ff_pending_req, posted, mem, sb, rg_head>>
  BY DEF rl_fence_operation, can_fence, sbVars, bus
<1>2. ram_out = ram[f]
  BY <1>1, CheckFresh DEF CheckedOutputFresh
<1>3. /\ Outgoing'
      /\ \A a \in Address : /\ written(a)' = written(a) \/ written(a)' = arch[a]
                            /\ in_ram(a) /\ a[2] = f /\ c => written(a)' = arch[a]
  <2>1. f \in Set
    BY TypesOf DEF IInv, Regs
  <2>2. ff_write_mem_request' = IF c THEN <<written_back(ram[f].tag, f, ram[f].data)>> ELSE <<>>
    BY <1>1, <1>2
  <2> QED BY <1>1, <2>1, <2>2, Evicts
<1>4. Beats' /\ Homes'
  BY <1>1 DEF Placed, Beats, Homes, from_first, first_word, fill, sb_empty
<1>5. \A a \in Address : entry_of(a) = {} /\ entry_of(a)' = {}
  BY <1>1 DEF entry_of, fb_empty
<1>6. Held'
  BY <1>5 DEF Held
<1>7. ASSUME NEW a \in Address
      PROVE  /\ a[2] \in Set /\ f \in Set
             /\ ~in_ram(a) => written(a)' = arch[a]
             /\ in_ram(a) => /\ v_reg_valid[a[2]] /\ ram[a[2]].data[a[3]] = arch[a]
                             /\ (v_reg_dirty[a[2]] /\ a[2] > f) \/ written(a)' = arch[a]
  <2>1. a[2] \in Set /\ f \in Set
    BY TypesOf DEF Address, IInv, Regs
  <2>2. ASSUME ~in_ram(a) PROVE written(a)' = arch[a]
    BY <1>3, <1>5, <2>2 DEF Placed, Values, Away
  <2>3. ASSUME in_ram(a)
        PROVE  /\ v_reg_valid[a[2]] /\ ram[a[2]].data[a[3]] = arch[a]
               /\ (v_reg_dirty[a[2]] /\ a[2] > f) \/ written(a)' = arch[a]
    <3>1. /\ ram[a[2]].data[a[3]] = arch[a]
          /\ (v_reg_dirty[a[2]] /\ a[2] >= f) \/ written(a) = arch[a]
      BY <2>3 DEF Placed, Values, Stored
    <3>2. v_reg_valid[a[2]]
      BY <2>3 DEF in_ram
    <3>3. CASE a[2] = f /\ v_reg_dirty[f]
      BY <1>3, <2>3, <3>1, <3>2, <3>3
    <3>4. CASE ~(a[2] = f /\ v_reg_dirty[f])
      <4>1. a[2] >= f => a[2] > f \/ a[2] = f
        BY <2>1, Shape
      <4> QED BY <1>3, <3>1, <3>2, <3>4, <4>1
    <3> QED BY <3>3, <3>4
  <2> QED BY <2>1, <2>2, <2>3
<1>8. CASE ~fence_last
  <2>1. /\ rg_fence_set' = f + 1
        /\ UNCHANGED <<v_reg_valid, v_reg_dirty, rg_globaldirty>>
    BY <1>8 DEF rl_fence_operation
  <2>2. \A a \in Address : in_ram(a)' <=> in_ram(a)
    BY <1>1, <2>1 DEF in_ram
  <2>3. Stored'
    <3>1. ASSUME NEW a \in Address, in_ram(a)'
          PROVE  /\ ram'[a[2]].data[a[3]] = arch'[a]
                 /\ (v_reg_dirty'[a[2]] /\ a[2] >= rg_fence_set') \/ written(a)' = arch'[a]
      <4>1. in_ram(a)
        BY <2>2, <3>1
      <4>2. a[2] > f => a[2] >= f + 1
        BY <1>7, Shape
      <4> QED BY <1>1, <1>7, <2>1, <4>1, <4>2
    <3> QED BY <3>1 DEF Stored
  <2>4. Away'
    BY <1>1, <1>7, <2>2 DEF Away
  <2>5. Dirt'
    BY <1>1, <2>1 DEF Placed, Dirt
  <2> QED BY <1>3, <1>4, <1>6, <1>8, <2>3, <2>4, <2>5 DEF Placed, Values
<1>9. CASE fence_last
  <2>1. v_reg_valid' = [s \in Set |-> FALSE]
    BY <1>9 DEF rl_fence_operation
  <2>2. ASSUME NEW a \in Address PROVE written(a)' = arch[a] /\ ~in_ram(a)'
    <3>1. ASSUME in_ram(a), v_reg_dirty[a[2]], a[2] > f PROVE FALSE
      <4>1. CASE f = Cardinality(Set) - 1
        BY <1>7, <3>1, <4>1, Shape
      <4>2. CASE ~rg_globaldirty
        BY <1>7, <3>1, <4>2 DEF Placed, Dirt
      <4> QED BY <1>9, <4>1, <4>2 DEF fence_last
    <3>2. ~in_ram(a)'
      BY <1>7, <2>1 DEF in_ram
    <3> QED BY <1>7, <3>1, <3>2
  <2>3. Stored' /\ Away'
    BY <1>1, <2>2 DEF Stored, Away
  <2>4. Dirt'
    BY <1>1, <2>1 DEF Dirt, fb_empty
  <2> QED BY <1>3, <1>4, <1>6, <2>2, <2>3, <2>4 DEF Placed, Values
<1> QED BY <1>8, <1>9

(* A store changes no word of another address.                             *)
LEMMA LaidElsewhere ==
  ASSUME NEW w \in Datum, NEW e, NEW a, e.addr # a PROVE laid(w, e, a) = w
BY DEF laid, updated, Datum

(* What performing a store does to its entry of the fill buffer.           *)
LEMMA StoreWrites ==
  ASSUME Typed, NEW x \in FbIndex, NEW w \in Word, NEW u,
         fb' = [fb EXCEPT ![x].dirty = TRUE, ![x].data[w] = u]
  PROVE  /\ fb'[x].dirty
         /\ \A v \in Word : fb'[x].data[v] = IF v = w THEN u ELSE fb[x].data[v]
         /\ \A i \in FbIndex : /\ fb'[i].valid = fb[i].valid /\ fb'[i].line = fb[i].line
                               /\ fb'[i].line_valid = fb[i].line_valid
         /\ \A i \in FbIndex : i # x => fb'[i] = fb[i]
<1>1. fb \in [FbIndex -> Entry] /\ fb[x].data \in [Word -> Datum]
  <2>1. fb \in [FbIndex -> Entry]
    BY DEF Typed, Contents
  <2>2. fb[x] \in Entry
    BY <2>1
  <2> QED BY <2>1, <2>2 DEF Entry, Data
<1>2. \A i \in FbIndex : i # x => fb'[i] = fb[i]
  BY <1>1
<1>3. /\ fb'[x].dirty /\ fb'[x].valid = fb[x].valid /\ fb'[x].line = fb[x].line
      /\ fb'[x].line_valid = fb[x].line_valid
  BY <1>1 DEF Entry
<1>4. fb'[x].data = [fb[x].data EXCEPT ![w] = u]
  BY <1>1 DEF Entry
<1>5. \A v \in Word : fb'[x].data[v] = IF v = w THEN u ELSE fb[x].data[v]
  BY <1>1, <1>4
<1> QED BY <1>2, <1>3, <1>5

(* A store is performed: in the fill buffer, or on its way to its device.  *)
LEMMA PlacedCommit ==
  ASSUME IInv, Told, Placed, ma_perform_store PROVE Placed'
<1> PICK e : e = sb[rg_head]
  OBVIOUS
<1>1. /\ e.valid /\ e.io = isIO(e.addr) /\ ~(e.epoch # rg_epoch)
      /\ e \in Store /\ e.addr \in Address
      /\ rg_head' = 1 - rg_head /\ sb' = [sb EXCEPT ![rg_head].valid = FALSE]
      /\ \A a \in Address : arch'[a] = laid(arch[a], e, a)
  BY CommitsOldest DEF IInv, abandoned
<1>2. /\ UNCHANGED <<fill, v_reg_valid, v_reg_dirty, ram, rg_fence_set, ff_pending_req, posted, mem>>
      /\ ff_write_mem_request = <<>> /\ ~rg_store_initiated
  BY DEF ma_perform_store, mv_commit_store_ready, fifos, modes, rams, bus
<1>3. ~DeviceWrite(posted)
  BY <1>2 DEF IInv, Initiated
<1>4. /\ sb'[rg_head] = [e EXCEPT !.valid = FALSE] /\ sb'[1 - rg_head] = sb[1 - rg_head]
      /\ ~sb'[rg_head].valid /\ ~sb_full'
      /\ rg_head \in Slot /\ \A s \in Slot : s = rg_head \/ s = 1 - rg_head
      /\ 1 - (1 - rg_head) = rg_head
  BY <1>1, Ends DEF IInv, Store, sb_full
<1>5. ASSUME NEW a \in Address
      PROVE  arch'[a] = IF a = e.addr THEN updated(arch[a], e.data, e.mask) ELSE arch[a]
  <2>1. arch[a] \in Datum
    BY TypesOf DEF IInv, Regs
  <2>2. CASE a = e.addr
    BY <1>1, <2>2 DEF laid
  <2>3. CASE a # e.addr
    BY <1>1, <2>1, <2>3, LaidElsewhere
  <2> QED BY <2>2, <2>3
<1>6. Beats'
  BY <1>2 DEF Placed, Beats, from_first, first_word, fill
<1>7. \A s \in Slot : sb'[s].valid =>
        /\ sb[s].valid /\ sb'[s].addr = sb[s].addr /\ sb'[s].io = sb[s].io
        /\ sb'[s].fbindex = sb[s].fbindex
  BY <1>4
<1>8. CASE e.io
  <2> PICK w : w = [addr |-> e.addr, io |-> TRUE, mask |-> e.mask, data |-> [x \in Word |-> e.data]]
    OBVIOUS
  <2>1. /\ ff_write_mem_request' = <<w>> /\ UNCHANGED <<fb, rg_globaldirty>>
    BY <1>1, <1>8 DEF ma_perform_store, abandoned
  <2>2. ff_write_mem_request' # <<>> /\ Head(ff_write_mem_request') = w
    BY <2>1
  <2>3. \A i \in FbIndex, a \in Address : in_fb(i, a)' = in_fb(i, a)
    BY <1>2, <2>1, InFbSame DEF fill
  <2>4. Homes'
    BY <1>7, <2>3, HomesSame DEF Placed, IInv
  <2>5. Outgoing'
    <3>1. ASSUME NEW q \in {ff_write_mem_request', posted}, q # <<>>
          PROVE  LET v == Head(q) IN
                 /\ v.io <=> isIO(v.addr)
                 /\ ~v.io => v.mask = Lane
                 /\ v.io => LET o == sb'[rg_head] IN
                      o.addr = v.addr /\ o.mask = v.mask /\ \A x \in Word : v.data[x] = o.data
      <4>1. CASE q = posted
        BY <1>3, <3>1, <4>1 DEF Placed, Outgoing, DeviceWrite
      <4>2. CASE q = ff_write_mem_request'
        <5>1. sb'[rg_head].addr = e.addr /\ sb'[rg_head].mask = e.mask /\ sb'[rg_head].data = e.data
          BY <1>1, <1>4 DEF Store
        <5>2. /\ Head(q) = w /\ w.io /\ w.addr = e.addr /\ w.mask = e.mask
              /\ \A x \in Word : w.data[x] = e.data
          BY <2>2, <4>2
        <5>3. isIO(w.addr)
          BY <1>1, <1>8, <5>2
        <5> QED BY <5>1, <5>2, <5>3
      <4> QED BY <3>1, <4>1, <4>2
    <3> QED BY <1>1, <1>2, <1>4, <3>1 DEF Outgoing, isIO
  <2>6. \A a \in Address : a # e.addr => written(a)' = written(a)
    <3>1. ASSUME NEW a \in Address, a # e.addr PROVE written(a)' = written(a)
      <4>1. under(posted, a, mem[a])' = under(posted, a, mem[a])
        BY <1>2 DEF under, line, updated
      <4>2. written(a) = under(posted, a, mem[a])
        BY <1>2 DEF written, under
      <4>3. written(a)' = under(posted, a, mem[a])'
        BY <2>2, <3>1 DEF written, under, line, updated
      <4> QED BY <4>1, <4>2, <4>3
    <3> QED BY <3>1
  <2>7. written(e.addr)' = updated(written(e.addr), e.data, e.mask)
    <3> PICK a \in Address : a = e.addr
      BY <1>1
    <3>1. under(posted, a, mem[a])' = under(posted, a, mem[a])
      BY <1>2 DEF under, line, updated
    <3>2. written(a) = under(posted, a, mem[a])
      BY <1>2 DEF written, under
    <3>3. w.addr = a /\ w.io /\ w.data[a[3]] = e.data /\ w.mask = e.mask
      BY DEF Address
    <3>4. under(ff_write_mem_request, a, under(posted, a, mem[a]))'
            = updated(under(posted, a, mem[a])', e.data, e.mask)
      BY <2>2, <3>3 DEF under, line, updated
    <3>5. written(a)' = updated(written(a), e.data, e.mask)
      BY <3>1, <3>2, <3>4 DEF written
    <3> QED BY <3>5 DEF written, under, line
  <2>8. entry_of(e.addr) = {} /\ ~in_ram(e.addr)
    <3>1. ASSUME NEW i \in entry_of(e.addr) PROVE FALSE
      <4>1. entry_of(e.addr) \subseteq FbIndex /\ i \in FbIndex
        BY <3>1 DEF entry_of
      <4>2. fb[i].valid /\ fb[i].line = <<e.addr[1], e.addr[2]>>
        BY <3>1 DEF entry_of, line
      <4>3. fb[i].line[1] \in IoTag
        <5>1. isIO(e.addr)
          BY <1>1, <1>8
        <5>2. fb[i].line[1] = e.addr[1]
          BY <4>2
        <5> QED BY <5>1, <5>2 DEF isIO
      <4> QED BY <4>1, <4>2, <4>3 DEF IInv, Single
    <3>2. ~in_ram(e.addr)
      BY <1>1, <1>8 DEF in_ram, IInv, Single, isIO, Address
    <3> QED BY <3>1, <3>2
  <2>9. \A a \in Address : (in_ram(a)' <=> in_ram(a)) /\ entry_of(a)' = entry_of(a)
                           /\ entry_of(a) \subseteq FbIndex
    BY <1>2, <2>1 DEF in_ram, entry_of, line
  <2>10. Held'
    <3>1. ASSUME NEW a \in Address, NEW i \in entry_of(a)'
          PROVE  /\ in_fb(i, a)' => fb'[i].data[a[3]] = arch'[a]
                 /\ (in_fb(i, a)' /\ fb'[i].dirty) \/ written(a)' = arch'[a]
      <4>1. i \in entry_of(a) /\ i \in FbIndex /\ a # e.addr
        BY <2>8, <2>9
      <4>2. /\ in_fb(i, a) => fb[i].data[a[3]] = arch[a]
            /\ (in_fb(i, a) /\ fb[i].dirty) \/ written(a) = arch[a]
        BY <4>1 DEF Placed, Values, Held
      <4> QED BY <1>5, <2>1, <2>3, <2>6, <4>1, <4>2
    <3> QED BY <3>1 DEF Held
  <2>11. Stored'
    <3>1. ASSUME NEW a \in Address, in_ram(a)'
          PROVE  /\ ram'[a[2]].data[a[3]] = arch'[a]
                 /\ (v_reg_dirty'[a[2]] /\ a[2] >= rg_fence_set') \/ written(a)' = arch'[a]
      <4>1. in_ram(a) /\ a # e.addr
        BY <2>8, <2>9, <3>1
      <4> QED BY <1>2, <1>5, <2>6, <4>1 DEF Placed, Values, Stored
    <3> QED BY <3>1 DEF Stored
  <2>12. Away'
    <3>1. ASSUME NEW a \in Address, entry_of(a)' = {}, ~in_ram(a)' PROVE written(a)' = arch'[a]
      <4>1. written(a) = arch[a]
        BY <2>9, <3>1 DEF Placed, Values, Away
      <4>2. CASE a = e.addr
        BY <1>5, <2>7, <4>1, <4>2
      <4>3. CASE a # e.addr
        BY <1>5, <2>6, <4>1, <4>3
      <4> QED BY <4>2, <4>3
    <3> QED BY <3>1 DEF Away
  <2>13. Dirt'
    BY <1>2, <2>1 DEF Placed, Dirt
  <2> QED BY <1>6, <2>4, <2>5, <2>10, <2>11, <2>12, <2>13 DEF Placed, Values
<1>9. CASE ~e.io
  <2> PICK x : x = e.fbindex
    OBVIOUS
  <2> PICK b : b = e.addr[3]
    OBVIOUS
  <2>1. /\ fb' = [fb EXCEPT ![x].dirty = TRUE, ![x].data[b] = updated(@, e.data, e.mask)]
        /\ rg_globaldirty' = TRUE /\ UNCHANGED ff_write_mem_request
    BY <1>1, <1>9 DEF ma_perform_store, abandoned
  <2>2. x \in FbIndex /\ b \in Word /\ e.data \in Datum /\ e.mask \in SUBSET Lane
    BY <1>1 DEF Store, Address
  <2>3. /\ fb'[x].dirty
        /\ \A v \in Word : fb'[x].data[v] = IF v = b THEN updated(fb[x].data[b], e.data, e.mask) ELSE fb[x].data[v]
        /\ \A i \in FbIndex : /\ fb'[i].valid = fb[i].valid /\ fb'[i].line = fb[i].line
                              /\ fb'[i].line_valid = fb[i].line_valid
        /\ \A i \in FbIndex : i # x => fb'[i] = fb[i]
    <3>1. PICK u : u = updated(fb[x].data[b], e.data, e.mask)
      OBVIOUS
    <3>2. fb \in [FbIndex -> Entry]
      BY DEF IInv, Typed, Contents
    <3>3. fb' = [fb EXCEPT ![x].dirty = TRUE, ![x].data[b] = u]
      BY <2>1, <2>2, <3>1, <3>2 DEF Entry
    <3>4. Typed
      BY DEF IInv
    <3>5. /\ fb'[x].dirty
          /\ \A v \in Word : fb'[x].data[v] = IF v = b THEN u ELSE fb[x].data[v]
          /\ \A i \in FbIndex : /\ fb'[i].valid = fb[i].valid /\ fb'[i].line = fb[i].line
                                /\ fb'[i].line_valid = fb[i].line_valid
          /\ \A i \in FbIndex : i # x => fb'[i] = fb[i]
      BY ONLY <2>2, <3>3, <3>4, StoreWrites
    <3> QED BY <3>1, <3>5
  <2>4. \A i \in FbIndex, a \in Address : in_fb(i, a)' = in_fb(i, a)
    BY <1>2, <2>3, InFbSame DEF fill
  <2>5. Homes'
    BY <1>7, <2>4, HomesSame DEF Placed, IInv
  <2>6. Outgoing'
    BY <1>2, <1>3, <2>1 DEF Placed, Outgoing, DeviceWrite, isIO
  <2>7. in_fb(x, e.addr)
    BY <1>1, <1>4, <1>9 DEF Placed, Homes
  <2>8. \A a \in Address : written(a)' = written(a)
    BY <1>2, <2>1, WrittenSame
  <2>9. ASSUME NEW a \in Address
        PROVE  /\ in_ram(a)' <=> in_ram(a)
               /\ entry_of(a)' = entry_of(a) /\ entry_of(a) \subseteq FbIndex
               /\ in_ram(a) => a # e.addr
               /\ a = e.addr => entry_of(a) = {x}
    <3>1. in_ram(a)' <=> in_ram(a)
      BY <1>2 DEF in_ram
    <3>2. entry_of(a) \subseteq FbIndex /\ entry_of(a)' \subseteq FbIndex
      BY DEF entry_of, FbIndex
    <3>3. \A i \in FbIndex : i \in entry_of(a)' <=> i \in entry_of(a)
      BY <2>3 DEF entry_of, line
    <3>4. fb[x].valid /\ fb[x].line = line(e.addr)
      BY <2>7 DEF in_fb
    <3>5. in_ram(a) => a # e.addr
      BY <2>2, <3>4 DEF in_ram, IInv, Single, in_rams, line
    <3>6. a = e.addr => entry_of(a) = {x}
      BY <2>2, <3>4 DEF entry_of, IInv, Single
    <3> QED BY <3>1, <3>2, <3>3, <3>5, <3>6
  <2>10. Held'
    <3>1. ASSUME NEW a \in Address, NEW i \in entry_of(a)'
          PROVE  /\ in_fb(i, a)' => fb'[i].data[a[3]] = arch'[a]
                 /\ (in_fb(i, a)' /\ fb'[i].dirty) \/ written(a)' = arch'[a]
      <4>1. i \in entry_of(a) /\ i \in FbIndex /\ a[3] \in Word /\ fb[i].line = line(a)
        BY <2>9 DEF Address, entry_of
      <4>2. /\ in_fb(i, a) => fb[i].data[a[3]] = arch[a]
            /\ (in_fb(i, a) /\ fb[i].dirty) \/ written(a) = arch[a]
        BY <4>1 DEF Placed, Values, Held
      <4>3. CASE i # x
        <5>1. a # e.addr /\ fb'[i] = fb[i]
          BY <2>3, <2>9, <4>1, <4>3
        <5> QED BY <1>5, <2>4, <2>8, <4>1, <4>2, <5>1
      <4>4. CASE i = x /\ a = e.addr
        <5>1. fb'[i].data[a[3]] = updated(fb[i].data[a[3]], e.data, e.mask)
          BY <2>3, <4>1, <4>4
        <5>2. in_fb(i, a) /\ in_fb(i, a)'
          BY <2>4, <2>7, <4>1, <4>4
        <5> QED BY <1>5, <2>3, <4>2, <4>4, <5>1, <5>2
      <4>5. CASE i = x /\ a # e.addr
        <5>1. a[3] # b
          <6>1. line(a) = line(e.addr)
            BY <2>7, <4>1, <4>5 DEF in_fb
          <6> QED BY <1>1, <4>5, <6>1 DEF line, Address
        <5>2. fb'[i].data[a[3]] = fb[i].data[a[3]]
          BY <2>3, <4>1, <4>5, <5>1
        <5> QED BY <1>5, <2>3, <2>4, <2>8, <4>1, <4>2, <4>5, <5>2
      <4> QED BY <4>3, <4>4, <4>5
    <3> QED BY <3>1 DEF Held
  <2>11. Stored'
    BY <1>2, <1>5, <2>8, <2>9 DEF Placed, Values, Stored
  <2>12. Away'
    <3>1. ASSUME NEW a \in Address, entry_of(a)' = {}, ~in_ram(a)' PROVE written(a)' = arch'[a]
      <4>1. written(a) = arch[a] /\ a # e.addr
        BY <2>9, <3>1 DEF Placed, Values, Away
      <4> QED BY <1>5, <2>8, <4>1
    <3> QED BY <3>1 DEF Away
  <2>13. Dirt'
    BY <2>1 DEF Dirt
  <2> QED BY <1>6, <2>5, <2>6, <2>10, <2>11, <2>12, <2>13 DEF Placed, Values
<1> QED BY <1>8, <1>9

(* A write moves from the FIFO to the bus, and lands.                      *)
LEMMA PlacedBus ==
  ASSUME IInv, Placed, Bus PROVE Placed'
<1>1. UNCHANGED <<fb, fill, v_reg_valid, v_reg_dirty, ram, rg_fence_set, arch, rg_globaldirty,
                  ff_pending_req, sb, rg_head>>
  BY DEF Bus, BusTake, BusLand, core, fifos, modes, rams, sbVars
<1>2. CASE BusTake
  <2>1. posted' = ff_write_mem_request /\ ff_write_mem_request' = <<>> /\ posted = <<>> /\ mem' = mem
    BY <1>2 DEF BusTake
  <2>2. \A a \in Address : written(a)' = written(a)
    BY <2>1 DEF written, under, line, updated
  <2>3. Outgoing'
    BY <1>1, <2>1 DEF Placed, Outgoing, isIO, sb_full
  <2> QED BY <1>1, <2>2, <2>3, PlacedWrites
<1>3. CASE BusLand
  <2>1. posted' = <<>> /\ posted # <<>> /\ ff_write_mem_request' = ff_write_mem_request
        /\ DOMAIN mem = Address
    BY <1>3, TypesOf DEF BusLand, IInv, Regs
  <2>2. ASSUME NEW a \in Address PROVE mem'[a] = under(posted, a, mem[a])
    <3>1. mem'[a] = IF line(a) = line(Head(posted).addr) /\ (Head(posted).io => a = Head(posted).addr)
                    THEN updated(mem[a], Head(posted).data[a[3]], Head(posted).mask) ELSE mem[a]
      BY <1>3, <2>1 DEF BusLand
    <3> QED BY <2>1, <3>1 DEF under
  <2>3. ASSUME NEW a \in Address PROVE written(a)' = written(a)
    <3>1. written(a)' = under(ff_write_mem_request, a, mem'[a])
      BY <2>1 DEF written, under, line, updated
    <3> QED BY <2>2, <3>1 DEF written
  <2>4. Outgoing'
    BY <1>1, <2>1 DEF Placed, Outgoing, isIO, sb_full
  <2> QED BY <1>1, <2>3, <2>4, PlacedWrites
<1> QED BY <1>2, <1>3 DEF Bus

-----------------------------------------------------------------------------
(* Nothing is cached and nothing owed.                                     *)
LEMMA DataInit == Init => DataInv
<1> SUFFICES ASSUME Init PROVE DataInv
  OBVIOUS
<1>1. /\ pipe = <<>> /\ responses = <<>> /\ ff_core_request = <<>> /\ ff_pending_req = <<>>
      /\ ff_write_mem_request = <<>> /\ posted = <<>> /\ rg_store_initiated = FALSE
      /\ rg_sb_busy = FALSE /\ rg_head = 0 /\ rg_tail = 0 /\ rg_epoch = 0
      /\ sb = [i \in Slot |-> NoStore] /\ fb = [i \in FbIndex |-> NoEntry] /\ rg_fb_enables = {}
      /\ v_reg_valid = [s \in Set |-> FALSE] /\ v_reg_dirty = [s \in Set |-> FALSE]
      /\ \A a \in Address : mem[a] = Zero /\ arch[a] = Zero
  BY DEF Init, Address
<1>2. /\ DOMAIN responses = {} /\ DOMAIN pipe = {} /\ DOMAIN ff_core_request = {}
      /\ Len(responses) = 0
  BY <1>1
<1>3. /\ \A s \in Slot : ~sb[s].valid /\ sb[s].mask = {}
      /\ \A i \in FbIndex : ~fb[i].valid /\ ~fb[i].err
      /\ owed = {} /\ sb_empty /\ ~sb_full
  BY <1>1, <1>2 DEF NoStore, NoEntry, Slot, sb_empty, sb_full, owed
<1>4. InOrder
  BY <1>1, <1>2, <1>3 DEF InOrder, Calm, Aligned, Paired, Turns
<1>5. Seen
  BY <1>2 DEF Seen
<1>6. Settled
  <2>1. ASSUME NEW a \in Address PROVE laid_both(arch[a], rg_tail, a) = program(a)
    <3>1. program(a) = arch[a]
      BY <1>3 DEF program, before
    <3>2. arch[a] \in Datum
      BY <1>1, Words
    <3>3. \A w \in Datum : \A s \in Slot : laid(w, sb[s], a) = w
      BY <1>3 DEF laid, updated, Datum
    <3>4. rg_tail \in Slot /\ 1 - rg_tail \in Slot
      BY <1>1 DEF Slot
    <3> QED BY <3>1, <3>2, <3>3, <3>4 DEF laid_both
  <2> QED BY <2>1 DEF Settled
<1>7. \A a \in Address : entry_of(a) = {} /\ ~in_ram(a) /\ written(a) = arch[a]
  <2>1. ASSUME NEW a \in Address PROVE entry_of(a) = {} /\ ~in_ram(a) /\ written(a) = arch[a]
    <3>1. a[2] \in Set
      BY DEF Address
    <3> QED BY <1>1, <1>3, <3>1 DEF entry_of, in_ram, written, under
  <2> QED BY <2>1
<1>8. Values
  BY <1>7 DEF Values, Held, Stored, Away
<1>9. Beats /\ Homes /\ Outgoing /\ Dirt
  BY <1>1, <1>3 DEF Beats, Homes, Outgoing, Dirt
<1> QED BY <1>4, <1>5, <1>6, <1>8, <1>9 DEF DataInv, Placed

(* One case per rule: what the program is told, and where its words are.   *)
LEMMA ToldStep ==
  ASSUME Straight, IInv, DataInv, [Next]_vars PROVE Told'
<1>1. Typed /\ Counted /\ Initiated /\ Told /\ Values /\ Outgoing
  BY DEF IInv, DataInv, Told, Placed
<1>2. Typed' /\ Counted'
  BY TypedStep DEF Straight
<1>3. \A i \in FbIndex : ~fb[i].err
  BY DEF DataInv, InOrder, Calm
<1>4. CASE rl_response_to_core
  BY <1>1, <1>2, <1>4, ToldAnswer DEF Answers
<1>5. CASE rl_fillbuffer_check
  BY <1>1, <1>3, <1>5, ToldSame DEF rl_fillbuffer_check, core, fifos, sbVars
<1>6. CASE rl_send_memory_request
  <2>1. \A i \in FbIndex : ~fb'[i].err
    <3>1. CASE isIO(req.addr)
      BY <1>3, <1>6, <3>1 DEF rl_send_memory_request
    <3>2. CASE ~isIO(req.addr)
      <4>1. fb' = [fb EXCEPT ![rg_fbtail] = allocated(line(req.addr), Blank, FALSE, FALSE)]
        BY <1>6, <3>2 DEF rl_send_memory_request
      <4>2. fb'[rg_fbtail].err = FALSE /\ \A i \in FbIndex : i # rg_fbtail => fb'[i] = fb[i]
        BY <1>1, <4>1, AllocatedAt
      <4> QED BY <1>3, <4>2
    <3> QED BY <3>1, <3>2
  <2>2. UNCHANGED <<pipe, responses, ff_core_request, rg_epoch, rg_store_initiated, sb,
                    rg_head, rg_tail, rg_sb_busy, arch>>
    BY <1>6 DEF rl_send_memory_request, core, sbVars
  <2> QED BY <1>1, <2>1, <2>2, ToldSame
<1>7. CASE rl_perform_atomic
  BY <1>1, <1>2, <1>7, ToldAtomic
<1>8. CASE rl_fill_from_memory
  <2>1. \A i \in FbIndex : ~fb'[i].err
    <3>1. beat_bank \in Word
      BY <1>8, BeatIs DEF DataInv, Placed, rl_fill_from_memory
    <3>2. /\ ~fb'[ff_pending_req[1].fbindex].err
          /\ \A i \in FbIndex : i # ff_pending_req[1].fbindex => fb'[i] = fb[i]
      BY <1>8, <3>1, BeatWrites, FillEffects DEF Straight
    <3> QED BY <1>3, <3>2
  <2>2. UNCHANGED <<pipe, responses, ff_core_request, rg_epoch, rg_store_initiated, sb,
                    rg_head, rg_tail, rg_sb_busy, arch>>
    BY <1>8 DEF rl_fill_from_memory, core, sbVars
  <2> QED BY <1>1, <2>1, <2>2, ToldSame
<1>9. CASE rl_capture_io_response
  <2>1. CASE may_respond
    BY <1>1, <1>2, <1>9, <2>1, ToldAnswer DEF Answers
  <2>2. CASE ~may_respond
    <3>1. UNCHANGED <<pipe, responses, ff_core_request, rg_epoch, rg_store_initiated, sb,
                      rg_head, rg_tail, rg_sb_busy, arch, fb>>
      BY <1>9, <2>2 DEF rl_capture_io_response, core, sbVars
    <3> QED BY <1>1, <1>3, <3>1, ToldSame
  <2> QED BY <2>1, <2>2
<1>10. CASE rl_release_from_fillbuffer
  <2>1. UNCHANGED <<pipe, responses, ff_core_request, rg_epoch, rg_store_initiated, sb,
                    rg_head, rg_tail, rg_sb_busy, arch>>
    BY <1>10 DEF rl_release_from_fillbuffer, core, fifos, sbVars
  <2>2. \A i \in FbIndex : ~fb'[i].err
    <3>1. fb \in [FbIndex -> Entry] /\ rg_fbhead \in FbIndex
      BY <1>1, HeadEntry DEF Typed, Contents
    <3>2. fb' = fb \/ fb' = freed
      BY <1>10 DEF rl_release_from_fillbuffer, release_discard, release_read, release_write
    <3>3. CASE fb' = freed
      BY <1>3, <3>1, <3>3 DEF freed, Entry
    <3> QED BY <1>3, <3>2, <3>3
  <2> QED BY <1>1, <2>1, <2>2, ToldSame
<1>11. CASE rl_perform_replay
  BY <1>1, <1>3, <1>11, ToldSame DEF rl_perform_replay, core, fifos, sbVars
<1>12. CASE rl_fence_operation
  BY <1>1, <1>2, <1>12, ToldFence
<1>13. CASE RetireOther
  BY <1>1, <1>2, <1>13, ToldRetire
<1>14. CASE ma_perform_store
  BY <1>1, <1>2, <1>14, ToldCommit
<1>15. CASE BusTake
  BY <1>1, <1>3, <1>15, ToldSame DEF BusTake, core, fifos, sbVars
<1>16. CASE BusLand
  BY <1>1, <1>2, <1>16, ToldLand
<1>17. ~Flush
  BY DEF Flush, Straight
<1>18. ASSUME NEW r \in Menu, put_core_req(r) PROVE Told'
  BY <1>1, <1>2, <1>18, ToldPut
<1>19. CASE UNCHANGED vars
  BY <1>1, <1>3, <1>19, ToldSame DEF vars, core, fifos, sbVars
<1> QED BY <1>4, <1>5, <1>6, <1>7, <1>8, <1>9, <1>10, <1>11, <1>12, <1>13, <1>14, <1>15, <1>16,
           <1>17, <1>18, <1>19 DEF Next, Cache, Retire, Bus

LEMMA PlacedStep ==
  ASSUME Straight, IInv, DataInv, [Next]_vars PROVE Placed'
<1>1. Told /\ Placed
  BY DEF DataInv, Told
<1>2. CASE Answers
  BY <1>1, <1>2, PlacedAnswer
<1>3. CASE rl_send_memory_request
  BY <1>1, <1>3, PlacedSend DEF Straight
<1>4. CASE rl_perform_atomic
  BY <1>1, <1>4, PlacedAtomic
<1>5. CASE rl_fill_from_memory
  BY <1>1, <1>5, PlacedFill
<1>6. CASE rl_capture_io_response /\ ~may_respond
  BY <1>1, <1>6, PlacedDrop
<1>7. CASE rl_release_from_fillbuffer
  BY <1>1, <1>7, PlacedRelease
<1>8. CASE rl_fence_operation
  BY <1>1, <1>8, FenceWrites
<1>9. CASE ma_perform_store
  BY <1>1, <1>9, PlacedCommit
<1>10. CASE Bus
  BY <1>1, <1>10, PlacedBus
<1>11. CASE \/ rl_fillbuffer_check \/ rl_perform_replay \/ RetireOther \/ UNCHANGED vars
            \/ \E r \in Menu : put_core_req(r)
  <2>1. UNCHANGED <<fb, fill, v_reg_valid, v_reg_dirty, ram, rg_fence_set, arch, rg_globaldirty,
                    ff_pending_req, ff_write_mem_request, posted, mem, sb, rg_head>>
    BY <1>11 DEF rl_fillbuffer_check, rl_perform_replay, RetireOther, vars, put_core_req,
                 core, fifos, modes, rams, sbVars, bus
  <2> QED BY <1>1, <2>1, PlacedQuiet
<1>12. ~Flush
  BY DEF Flush, Straight
<1> QED BY <1>2, <1>3, <1>4, <1>5, <1>6, <1>7, <1>8, <1>9, <1>10, <1>11, <1>12
        DEF Next, Cache, Retire, Answers

(* The store buffer holds the answered stores in their order, each answer  *)
(* is the word its access finds, and each word is where the cache looks    *)
(* for it, while no path is abandoned.                                     *)
THEOREM DataInvariant == Straight => (Spec => []DataInv)
<1> SUFFICES ASSUME Straight PROVE Spec => []DataInv
  OBVIOUS
<1>1. Spec => []IInv
  BY Invariant DEF Straight
<1>2. Init => DataInv
  BY DataInit
<1>3. IInv /\ DataInv /\ [Next]_vars => DataInv'
  BY ToldStep, PlacedStep DEF DataInv, Told
<1> QED BY <1>1, <1>2, <1>3, PTL DEF Spec

(* Whatever is moved between the RAMs and the fill buffer, released,       *)
(* evicted, refetched or fenced, the newest copy of each word is the one   *)
(* the performed stores left.                                              *)
THEOREM StoresKept == Straight => (Spec => []NothingLost)
<1> SUFFICES ASSUME Straight PROVE Spec => []NothingLost
  OBVIOUS
<1>1. ASSUME IInv, DataInv PROVE NothingLost
  <2>1. ASSUME NEW a \in Address PROVE newest(a) = arch[a]
    <3>1. CASE \E i \in FbIndex : in_fb(i, a)
      <4>1. PICK i \in FbIndex : in_fb(i, a) /\ newest(a) = fb[i].data[a[3]]
        BY <3>1 DEF newest
      <4>2. i \in entry_of(a)
        BY <4>1 DEF in_fb, entry_of
      <4> QED BY <1>1, <4>1, <4>2 DEF DataInv, Placed, Values, Held
    <3>2. CASE ~(\E i \in FbIndex : in_fb(i, a)) /\ in_ram(a)
      BY <1>1, <3>2 DEF newest, DataInv, Placed, Values, Stored
    <3>3. CASE ~(\E i \in FbIndex : in_fb(i, a)) /\ ~in_ram(a)
      <4>1. newest(a) = written(a)
        BY <3>3 DEF newest
      <4>2. CASE entry_of(a) = {}
        BY <1>1, <3>3, <4>1, <4>2 DEF DataInv, Placed, Values, Away
      <4>3. ASSUME NEW i \in entry_of(a) PROVE written(a) = arch[a]
        <5>1. i \in FbIndex
          BY <4>3 DEF entry_of
        <5> QED BY <1>1, <3>3, <4>3, <5>1 DEF DataInv, Placed, Values, Held
      <4> QED BY <4>1, <4>2, <4>3
    <3> QED BY <3>1, <3>2, <3>3
  <2> QED BY <2>1 DEF NothingLost
<1>2. Spec => []IInv /\ []DataInv
  BY Invariant, DataInvariant DEF Straight
<1> QED BY <1>1, <1>2, PTL

(* A load or an atomic returns the word as the older accesses left it:     *)
(* forwarding from the store buffer, polling and replay together give no   *)
(* older and no foreign word (rl_response_to_core).                        *)
THEOREM LoadsRight == Straight => (Spec => []LoadsSeeStores)
<1> SUFFICES ASSUME Straight PROVE Spec => []LoadsSeeStores
  OBVIOUS
<1>1. ASSUME IInv, DataInv PROVE LoadsSeeStores
  <2> SUFFICES ASSUME responses # <<>>, op.access \in {"load", "atomic"}
               PROVE  answer.word = arch[op.addr]
    BY DEF LoadsSeeStores
  <2>1. 1 \in DOMAIN responses /\ op = pipe[1] /\ answer = responses[1]
        /\ \A k \in DOMAIN responses : k \in Nat /\ 1 <= k
        /\ owed \subseteq DOMAIN responses
    BY <1>1, Ops DEF IInv
  <2>2. answer.word = before(1, op.addr)
    BY <1>1, <2>1 DEF DataInv, Seen
  <2>3. \A j \in owed : j >= 1
    BY <2>1
  <2> QED BY <2>2, <2>3 DEF before
<1>2. Spec => []IInv /\ []DataInv
  BY Invariant, DataInvariant DEF Straight
<1> QED BY <1>1, <1>2, PTL

(* When the fence answers, memory and the writes on their way to it hold   *)
(* every performed store and nothing is cached, although rg_globaldirty    *)
(* lets it skip the sets behind (rl_fence_operation).                      *)
THEOREM FencesFlush == Straight => (Spec => FenceFlushes)
<1> SUFFICES ASSUME Straight PROVE Spec => FenceFlushes
  OBVIOUS
<1> DEFINE Flushed == /\ \A a \in Address : ~isIO(a) => (written(a))' = arch[a]
                      /\ \A l \in Line : ~v_reg_valid'[l[2]]
                      /\ \A i \in FbIndex : ~fb'[i].valid
<1>1. ASSUME IInv, DataInv, Next, fence_answers PROVE Flushed
  <2>1. rl_fence_operation /\ fence_last
    <3>1. ff_core_request # <<>> /\ ff_core_request \in Seq(Request) /\ req.access = "fence"
          /\ ff_core_request' = Tail(ff_core_request)
      BY <1>1 DEF fence_answers, IInv, Typed, Queues
    <3>2. ff_core_request' # ff_core_request
      BY <3>1, Queue
    <3>3. ~rl_response_to_core
      BY <3>1 DEF rl_response_to_core, can_respond, wr_fault, ram_hit, fb_hit, ram_checked, fb_checked, at_head
    <3>4. ~(rl_capture_io_response /\ may_respond)
      BY <1>1, <3>1, DeviceIsLast DEF at_head
    <3>5. ~(\E r \in Menu : put_core_req(r))
      <4>1. ASSUME NEW r \in Menu, put_core_req(r) PROVE FALSE
        <5>1. PICK q : ff_core_request' = Append(ff_core_request, q)
          BY <4>1 DEF put_core_req
        <5>2. Len(ff_core_request') < Len(ff_core_request) /\ Len(ff_core_request) \in Nat
          BY <3>1, Queue
        <5>3. Len(Append(ff_core_request, q)) = Len(ff_core_request) + 1
          BY <3>1
        <5> QED BY <5>1, <5>2, <5>3
      <4> QED BY <4>1
    <3>6. rl_fence_operation
      BY <1>1, <3>2, <3>3, <3>4, <3>5
         DEF Next, Cache, Retire, Bus, Flush, rl_fillbuffer_check, rl_send_memory_request,
             rl_perform_atomic, rl_fill_from_memory, rl_capture_io_response,
             rl_release_from_fillbuffer, rl_perform_replay, RetireOther, ma_perform_store,
             BusTake, BusLand, fifos
    <3> QED BY <3>2, <3>6 DEF rl_fence_operation
  <2>2. \A a \in Address : written(a)' = arch[a]
    BY <1>1, <2>1, FenceWrites DEF DataInv
  <2>3. \A s \in Set : ~v_reg_valid'[s]
    BY <2>1 DEF rl_fence_operation
  <2>4. \A i \in FbIndex : ~fb'[i].valid
    BY <2>1 DEF rl_fence_operation, can_fence, fb_empty
  <2> QED BY <2>2, <2>3, <2>4 DEF Line
<1>2. Spec => []IInv /\ []DataInv
  BY Invariant, DataInvariant DEF Straight
<1>3. IInv /\ DataInv /\ [Next]_vars => [fence_answers => Flushed]_vars
  BY <1>1
<1> QED BY <1>2, <1>3, PTL DEF Spec, FenceFlushes
=============================================================================
