----------------------------- MODULE SoCProofs -----------------------------
(***************************************************************************)
(* MemVerSoC keeps the contract of MVUSystem.                              *)
(*                                                                         *)
(* WritePath says where the words of a write-back are: at every moment     *)
(* memory, with the beats that wait for DRAM laid over it, is what the     *)
(* unit was told, with the beats of the line being sent laid over that.    *)
(* ReadPath and LinesApart say that the one read under way is at one       *)
(* place, and that a line is in the cache, being read, or on its way to    *)
(* memory.  With them a beat that is read is what the unit was told, and   *)
(* every step is one of MVUSystem or a stutter.  The steps need the        *)
(* invariant of MVUSystem (its memory pipe), and that invariant is kept    *)
(* because they are steps of MVUSystem: the two are proved together.       *)
(***************************************************************************)
EXTENDS MemVerSoC, GeometryProofs, SequenceTheorems, TLAPS
-----------------------------------------------------------------------------
(* The bursts between the bridge and DRAM, oldest first, and the beats of  *)
(* them that wait in wr_data: two, so of two bursts at most.               *)
Writing == write_slot # Invalid /\ ~write_slot.done
Bursts == IF Writing THEN Len(wr_addr) + 1 ELSE Len(wr_addr)
burst_addr(i) ==
  IF ~Writing THEN wr_addr[i].addr ELSE IF i = 1 THEN write_slot.addr ELSE wr_addr[i - 1].addr

IsLast(k) == Len(wr_data) >= k /\ wr_data[k].last
Lasts == (IF IsLast(1) THEN 1 ELSE 0) + (IF IsLast(2) THEN 1 ELSE 0)
burst_of(k) == IF k = 2 /\ IsLast(1) THEN 2 ELSE 1
offset_of(k) ==
  IF k = 2 /\ IsLast(1) THEN 0 ELSE (IF Writing THEN write_slot.beat ELSE 0) + (k - 1)
beat_addr(k) == burst_addr(burst_of(k)) + offset_of(k)

Sending == rg_burst_count # 0
Evicting == Head(ff_write_mem_request)

(* Every burst is complete in wr_data but the one the bridge is at, which  *)
(* is the youngest and the line at the head of ff_write_mem_request.       *)
Counted ==
  /\ Bursts = IF Sending THEN Lasts + 1 ELSE Lasts
  /\ wr_data # <<>> => (wr_data[Len(wr_data)].last <=> ~Sending)
Aligned ==
  IF Sending
  THEN /\ ff_write_mem_request # <<>> /\ Evicting.len > 0
       /\ wr_write_req = Evicting.addr
       /\ burst_addr(Bursts) = Evicting.addr
       /\ IF wr_data = <<>> THEN Writing /\ write_slot.beat = rg_burst_count
          ELSE offset_of(Len(wr_data)) + 1 = rg_burst_count
       /\ NotFull(ff_evict_req)
  ELSE wr_write_req = Invalid
Placed == \A k \in DOMAIN wr_data :
  /\ offset_of(k) \in Pos
  /\ beat_addr(k) \in Addr /\ line_of(beat_addr(k)) = line_of(burst_addr(burst_of(k)))

(* With the beats that wait laid over it, memory is what the unit was told *)
(* with the beats of the line being sent laid over that.                   *)
Over(k, a, w) == IF k \in DOMAIN wr_data /\ beat_addr(k) = a THEN wr_data[k].data ELSE w
landing(a) == Over(2, a, Over(1, a, dram[a]))
told(a) ==
  IF Sending /\ a \in Evicting.addr..Evicting.addr + rg_burst_count - 1
  THEN Evicting.data[a - Evicting.addr] ELSE written[a]
Lands == \A a \in Addr : landing(a) = told(a)

RequestOf(r) ==
  \/ /\ r.len = Arity - 1 /\ r.data \in EvictData
     /\ r.addr = line_base(line_of(r.addr))
  \/ /\ r.len = 0 /\ line_of(r.addr) \in IoLine
     /\ r.data = [k \in Pos |-> r.data[0]]
WriteTypes ==
  /\ ff_evict_req \in Seq(EvictReq)
  /\ ff_write_mem_request \in Seq(WriteReq) /\ Len(ff_write_mem_request) <= 1
  /\ \A r \in Entries(ff_write_mem_request) : RequestOf(r)
  /\ rg_burst_count \in Pos /\ wr_write_req \in Addr \cup {Invalid}
  /\ wr_addr \in Seq(Write) /\ Len(wr_addr) <= FifoDepth
  /\ wr_data \in Seq(Beat) /\ Len(wr_data) <= FifoDepth
  /\ wr_resp \in Seq({TRUE}) /\ write_slot \in WriteSlot \cup {Invalid}
  /\ dram \in [Addr -> Word] /\ written \in [Addr -> Word]
WritePath == WriteTypes /\ Counted /\ Aligned /\ Placed /\ Lands

-----------------------------------------------------------------------------
(* The one read under way is at one place.                                 *)
ReadPath ==
  /\ rg_read_line_req \in ReadReq \cup {Invalid}
  /\ rd_addr \in Seq(ReadReq) /\ Len(rd_addr) <= 1
  /\ burst \in Burst \cup {Invalid}
  /\ rd_addr # <<>> => rg_read_line_req = Invalid
  /\ burst # Invalid => rg_read_line_req = Invalid /\ rd_addr = <<>>

(* A line is in the cache, being read, or on its way to memory.            *)
LinesApart ==
  /\ \A j, k \in DOMAIN inflight :
       j # k => line_of(inflight[j].addr) # line_of(inflight[k].addr)
  /\ \A r \in Entries(inflight) : line_of(r.addr) \notin held \cup Unwritten
  /\ \A w \in Entries(ff_write_mem_request) :
       /\ w.len > 0 => line_of(w.addr) \notin held
       /\ is_protected(w.addr) => ~UnprotectedInFlight
IInv == WritePath /\ ReadPath /\ LinesApart
-----------------------------------------------------------------------------
(* A queue when its head is taken, and when an entry joins it.             *)
LEMMA TailShift ==
  ASSUME NEW S, NEW q \in Seq(S), q # <<>>
  PROVE /\ Tail(q) \in Seq(S) /\ Len(q) \in Nat /\ Len(q) >= 1
        /\ Len(Tail(q)) = Len(q) - 1 /\ Head(q) = q[1]
        /\ \A k \in 1..Len(Tail(q)) : Tail(q)[k] = q[k + 1]
<1>1. Len(q) \in Nat \ {0}
  BY EmptySeq
<1> QED
  BY <1>1

LEMMA AppendShift ==
  ASSUME NEW S, NEW q \in Seq(S), NEW x \in S
  PROVE /\ Append(q, x) \in Seq(S) /\ Len(q) \in Nat /\ Len(Append(q, x)) = Len(q) + 1
        /\ \A k \in 1..Len(q) : Append(q, x)[k] = q[k]
        /\ Append(q, x)[Len(q) + 1] = x
  OBVIOUS

(* A queue of two at most.                                                 *)
LEMMA QueueOfTwo ==
  ASSUME NEW S, NEW q \in Seq(S), Len(q) <= 2
  PROVE /\ Len(q) \in 0..2 /\ DOMAIN q = 1..Len(q)
        /\ (q = <<>>) <=> (Len(q) = 0)
        /\ \A k \in 1..Len(q) : q[k] \in S
<1>1. DOMAIN q = 1..Len(q) /\ Len(q) \in Nat
  BY LenProperties
<1>2. (q = <<>>) <=> (Len(q) = 0)
  BY EmptySeq
<1>3. \A k \in 1..Len(q) : q[k] \in S
  BY ElementOfSeq
<1> QED BY <1>1, <1>2, <1>3

LEMMA Waiting ==
  ASSUME WriteTypes
  PROVE /\ Len(wr_data) \in 0..2 /\ Len(wr_addr) \in 0..2
        /\ DOMAIN wr_data = 1..Len(wr_data) /\ DOMAIN wr_addr = 1..Len(wr_addr)
        /\ (wr_data = <<>>) <=> (Len(wr_data) = 0)
        /\ (wr_addr = <<>>) <=> (Len(wr_addr) = 0)
        /\ \A k \in 1..Len(wr_data) : wr_data[k] \in Beat
        /\ \A k \in 1..Len(wr_addr) : wr_addr[k] \in Write
<1>1. wr_data \in Seq(Beat) /\ wr_addr \in Seq(Write) /\ Len(wr_data) <= 2 /\ Len(wr_addr) <= 2
  BY DEF WriteTypes, FifoDepth
<1>2. /\ Len(wr_data) \in 0..2 /\ DOMAIN wr_data = 1..Len(wr_data)
      /\ (wr_data = <<>>) <=> (Len(wr_data) = 0)
      /\ \A k \in 1..Len(wr_data) : wr_data[k] \in Beat
  BY <1>1, QueueOfTwo
<1>3. /\ Len(wr_addr) \in 0..2 /\ DOMAIN wr_addr = 1..Len(wr_addr)
      /\ (wr_addr = <<>>) <=> (Len(wr_addr) = 0)
      /\ \A k \in 1..Len(wr_addr) : wr_addr[k] \in Write
  BY <1>1, QueueOfTwo
<1> QED BY <1>2, <1>3

(* Two bursts are under way at most, and each beat that waits is of one.   *)
LEMMA TwoBursts ==
  ASSUME WriteTypes, Counted
  PROVE /\ Lasts \in 0..2 /\ Bursts \in 0..2
        /\ \A k \in 1..Len(wr_data) : burst_of(k) \in 1..Bursts
        /\ wr_data # <<>> => Bursts = burst_of(Len(wr_data))
<1>1. /\ Len(wr_data) \in 0..2 /\ Len(wr_addr) \in 0..2
      /\ (wr_data = <<>>) <=> (Len(wr_data) = 0)
      /\ \A k \in 1..Len(wr_data) : wr_data[k] \in Beat
  BY Waiting
<1>2. Bursts \in Nat
  BY <1>1 DEF Bursts
<1>3. CASE Len(wr_data) = 0
  BY <1>1, <1>2, <1>3 DEF Counted, Lasts, IsLast
<1>4. CASE Len(wr_data) = 1
  BY <1>1, <1>2, <1>4 DEF Counted, Lasts, IsLast, burst_of, Beat
<1>5. CASE Len(wr_data) = 2
  BY <1>1, <1>2, <1>5 DEF Counted, Lasts, IsLast, burst_of, Beat
<1> QED BY <1>1, <1>3, <1>4, <1>5

(* The oldest beat reaches memory: the other is now the oldest, for the    *)
(* same word.                                                              *)
LEMMA BeatLands ==
  ASSUME WriteTypes, Counted, Aligned, Placed, Lands,
         wr_data # <<>>, wr_data' = Tail(wr_data),
         dram' = [dram EXCEPT ![beat_addr(1)] = wr_data[1].data],
         UNCHANGED <<ff_write_mem_request, ff_evict_req, rg_burst_count, wr_write_req, written>>,
         IF wr_data[1].last
         THEN /\ ~Writing' /\ Bursts' = Bursts - 1
              /\ \A i \in 1..Bursts-1 : burst_addr(i)' = burst_addr(i + 1)
         ELSE /\ Writing' /\ write_slot'.beat = offset_of(1) + 1 /\ Bursts' = Bursts
              /\ \A i \in 1..Bursts : burst_addr(i)' = burst_addr(i)
  PROVE Counted' /\ Aligned' /\ Placed' /\ Lands'
<1> DEFINE n == Len(wr_data)
           m == Len(wr_data)'
<1>1. /\ n \in 1..2 /\ DOMAIN wr_data = 1..n /\ \A k \in 1..n : wr_data[k] \in Beat
  BY Waiting
<1>2. wr_data \in Seq(Beat)
  BY DEF WriteTypes
<1>3. /\ m = n - 1 /\ \A k \in 1..m : wr_data'[k] = wr_data[k + 1]
      /\ wr_data' \in Seq(Beat)
  BY <1>2, TailShift
<1>4. DOMAIN wr_data' = 1..m /\ (wr_data' = <<>> <=> m = 0)
  BY <1>1, <1>3, QueueOfTwo
<1>5. Bursts \in 0..2 /\ \A k \in 1..n : burst_of(k) \in 1..Bursts
  BY TwoBursts
<1>6. /\ n = 2 => wr_data'[1] = wr_data[2] /\ DOMAIN wr_data' = {1}
      /\ n = 1 => wr_data' = <<>> /\ DOMAIN wr_data' = {}
  BY <1>1, <1>3, <1>4
<1>7. IsLast(1) <=> wr_data[1].last
  BY <1>1 DEF IsLast
<1>8. (IsLast(1)' <=> IsLast(2)) /\ ~IsLast(2)'
  BY <1>1, <1>3, <1>6 DEF IsLast, Beat
<1>9. n = 2 => /\ beat_addr(1)' = beat_addr(2)
               /\ offset_of(1)' = offset_of(2)
               /\ burst_addr(burst_of(1))' = burst_addr(burst_of(2))
  <2> SUFFICES ASSUME n = 2 PROVE /\ beat_addr(1)' = beat_addr(2)
               /\ offset_of(1)' = offset_of(2)
               /\ burst_addr(burst_of(1))' = burst_addr(burst_of(2))
    OBVIOUS
  <2>1. burst_of(1)' = 1
    BY DEF burst_of
  <2>2. CASE wr_data[1].last
    <3>1. burst_of(2) = 2 /\ offset_of(2) = 0
      BY <2>2, <1>7 DEF burst_of, offset_of
    <3>2. offset_of(1)' = 0
      BY <2>2 DEF offset_of
    <3>3. 1 \in 1..Bursts-1
      BY <3>1, <1>5
    <3>4. burst_addr(1)' = burst_addr(2)
      BY <3>3, <2>2
    <3> QED BY <3>1, <3>2, <3>4, <2>1 DEF beat_addr
  <2>3. CASE ~wr_data[1].last
    <3>1. burst_of(2) = 1 /\ burst_of(1) = 1 /\ 1 \in 1..Bursts
      BY <2>3, <1>7, <1>5 DEF burst_of
    <3>2. offset_of(1)' = write_slot'.beat /\ write_slot'.beat = offset_of(1) + 1
      <4>1. write_slot'.beat = offset_of(1) + 1 /\ Writing'
        BY <2>3
      <4>2. offset_of(1) \in Pos
        BY <1>1 DEF Placed
      <4> QED BY <4>1, <4>2, Shape DEF offset_of, Pos
    <3>3. offset_of(2) = offset_of(1) + 1
      BY <2>3, <1>7, <1>5 DEF offset_of, WriteTypes, Writing, WriteSlot
    <3>4. burst_addr(1)' = burst_addr(1)
      BY <3>1, <2>3
    <3> QED BY <3>1, <3>2, <3>3, <3>4, <2>1 DEF beat_addr
  <2> QED BY <2>2, <2>3
<1>10. Counted'
  <2>1. Lasts' = IF wr_data[1].last THEN Lasts - 1 ELSE Lasts
    BY <1>1, <1>7, <1>8 DEF Lasts, Beat
  <2>2. Bursts' = IF wr_data[1].last THEN Bursts - 1 ELSE Bursts
    OBVIOUS
  <2>3. Sending' = Sending
    BY DEF Sending
  <2>4. wr_data' # <<>> => wr_data'[Len(wr_data')] = wr_data[n]
    BY <1>1, <1>3, <1>6
  <2>5. wr_data[n].last <=> ~Sending
    BY DEF Counted
  <2>6. Lasts \in 0..2
    BY TwoBursts
  <2> QED BY <2>1, <2>2, <2>3, <2>4, <2>5, <2>6, <1>5 DEF Counted
<1>11. Aligned'
  <2>1. CASE ~Sending
    BY <2>1 DEF Sending, Aligned
  <2>2. CASE Sending
    <3>1. Sending'
      BY <2>2 DEF Sending
    <3>2. /\ ff_write_mem_request # <<>> /\ Evicting.len > 0
          /\ wr_write_req = Evicting.addr
          /\ burst_addr(Bursts) = Evicting.addr
          /\ NotFull(ff_evict_req)
          /\ offset_of(n) + 1 = rg_burst_count
      BY <2>2 DEF Aligned
    <3>3. ~wr_data[n].last /\ Bursts = burst_of(n) /\ Bursts \in 1..2
      BY <2>2, <1>1, <1>5, TwoBursts DEF Counted
    <3>4. burst_addr(Bursts)' = burst_addr(Bursts)
      <4>1. CASE wr_data[1].last
        <5>1. n = 2 BY <4>1, <3>3, <1>1
        <5>2. Bursts = 2 BY <5>1, <4>1, <3>3, <1>7 DEF burst_of
        <5>3. Bursts' = 1 /\ burst_addr(1)' = burst_addr(2) BY <5>2, <4>1
        <5> QED BY <5>2, <5>3
      <4>2. CASE ~wr_data[1].last
        BY <4>2, <3>3
      <4> QED BY <4>1, <4>2
    <3>5. IF wr_data' = <<>> THEN Writing' /\ write_slot'.beat = rg_burst_count
          ELSE offset_of(Len(wr_data))' + 1 = rg_burst_count
      <4>1. CASE n = 1
        BY <4>1, <1>6, <3>2, <3>3
      <4>2. CASE n = 2
        <5>1. Len(wr_data)' = 1 /\ wr_data' # <<>>
          BY <4>2, <1>3, <1>4
        <5>2. offset_of(Len(wr_data))' = offset_of(1)'
          BY <5>1 DEF offset_of
        <5> QED BY <4>2, <5>1, <5>2, <1>9, <3>2
      <4> QED BY <1>1, <4>1, <4>2
    <3> QED BY <3>1, <3>2, <3>4, <3>5 DEF Aligned, Evicting, NotFull
  <2> QED BY <2>1, <2>2
<1>12. Placed'
  BY <1>6, <1>9, <1>1 DEF Placed
<1>13. Lands'
  <2> SUFFICES ASSUME NEW a \in Addr PROVE landing(a)' = told(a)'
    BY DEF Lands
  <2>1. told(a)' = told(a)
    BY DEF told, Sending, Evicting
  <2>2. landing(a) = told(a)
    BY DEF Lands
  <2>3. dram \in [Addr -> Word]
    BY DEF WriteTypes
  <2>4. dram'[a] = Over(1, a, dram[a])
    BY <2>3, <1>1 DEF Over
  <2>5. landing(a)' = IF n = 2 /\ beat_addr(2) = a THEN wr_data[2].data ELSE dram'[a]
    BY <1>1, <1>6, <1>9 DEF landing, Over
  <2>6. landing(a) = IF n = 2 /\ beat_addr(2) = a THEN wr_data[2].data ELSE dram'[a]
    BY <1>1, <2>4 DEF landing, Over
  <2> QED BY <2>1, <2>2, <2>5, <2>6
<1> QED BY <1>10, <1>11, <1>12, <1>13

(* A beat joins those that wait, and is to land at the end of them.        *)
LEMMA BeatSent ==
  ASSUME WriteTypes, Counted, NEW x \in Beat, Len(wr_data) < 2, wr_data' = Append(wr_data, x),
         NEW n \in Nat, n = Len(wr_data) + 1, UNCHANGED <<write_slot, dram>>,
         \A i \in 1..Bursts : burst_addr(i)' = burst_addr(i)
  PROVE /\ n \in 1..2 /\ Len(wr_data)' = n /\ DOMAIN wr_data' = 1..n /\ wr_data'[n] = x
        /\ wr_data' \in Seq(Beat) /\ wr_data' # <<>>
        /\ \A k \in 1..n-1 : /\ wr_data'[k] = wr_data[k] /\ offset_of(k)' = offset_of(k)
                             /\ burst_of(k)' = burst_of(k) /\ beat_addr(k)' = beat_addr(k)
        /\ Lasts' = Lasts + (IF x.last THEN 1 ELSE 0)
        /\ burst_of(n)' = IF wr_data = <<>> \/ Sending THEN 1 ELSE 2
        /\ Writing' = Writing
        /\ \A a : landing(a)' = IF a = beat_addr(n)' THEN x.data ELSE landing(a)
<1>1. /\ Len(wr_data) \in 0..2 /\ DOMAIN wr_data = 1..Len(wr_data)
      /\ (wr_data = <<>>) <=> (Len(wr_data) = 0)
      /\ \A k \in 1..Len(wr_data) : wr_data[k] \in Beat
  BY Waiting
<1>2. wr_data \in Seq(Beat)
  BY DEF WriteTypes
<1>3. /\ n \in 1..2 /\ wr_data' \in Seq(Beat) /\ Len(wr_data') = n /\ wr_data'[n] = x
      /\ \A k \in 1..n-1 : wr_data'[k] = wr_data[k]
  BY <1>1, <1>2, AppendShift
<1>4. DOMAIN wr_data' = 1..n /\ wr_data' # <<>>
  BY <1>3, QueueOfTwo
<1>5. \A k \in 1..n-1 : burst_of(k) \in 1..Bursts
  BY TwoBursts
<1>6. Writing' = Writing
  BY DEF Writing
<1>7. n = 2 => /\ IsLast(1) <=> wr_data[1].last
               /\ wr_data[1].last <=> ~Sending
               /\ IsLast(1)' <=> wr_data[1].last
               /\ IsLast(2)' <=> x.last
               /\ ~IsLast(2)
               /\ wr_data # <<>>
  BY <1>1, <1>3, <1>4 DEF IsLast, Counted, Beat
<1>8. n = 1 => /\ ~IsLast(1) /\ ~IsLast(2) /\ ~IsLast(2)'
               /\ IsLast(1)' <=> x.last
               /\ wr_data = <<>>
  BY <1>1, <1>3, <1>4 DEF IsLast, Beat
<1>9. \A k \in 1..n-1 : /\ offset_of(k)' = offset_of(k) /\ burst_of(k)' = burst_of(k)
  BY <1>3, <1>6 DEF offset_of, burst_of
<1>10. \A k \in 1..n-1 : beat_addr(k)' = beat_addr(k)
  BY <1>5, <1>9 DEF beat_addr
<1>11. Lasts' = Lasts + (IF x.last THEN 1 ELSE 0)
  BY <1>7, <1>8, <1>3 DEF Lasts, Beat
<1>12. burst_of(n)' = IF wr_data = <<>> \/ Sending THEN 1 ELSE 2
  BY <1>7, <1>8, <1>3 DEF burst_of
<1>13. ASSUME NEW a PROVE landing(a)' = IF a = beat_addr(n)' THEN x.data ELSE landing(a)
  <2>1. CASE n = 1
    BY <2>1, <1>1, <1>3, <1>4 DEF landing, Over
  <2>2. CASE n = 2
    BY <2>2, <1>1, <1>3, <1>4, <1>10 DEF landing, Over
  <2> QED BY <1>3, <2>1, <2>2
<1> QED BY <1>3, <1>4, <1>6, <1>9, <1>10, <1>11, <1>12, <1>13
-----------------------------------------------------------------------------
(* The request at the head of the cache's write port.                      *)
LEMMA EvictingType ==
  ASSUME WriteTypes, ff_write_mem_request # <<>>
  PROVE /\ Evicting \in WriteReq /\ RequestOf(Evicting)
        /\ Evicting \in Entries(ff_write_mem_request)
        /\ Evicting.addr \in Addr /\ Evicting.data \in [Pos -> Word]
        /\ Evicting.len \in {0, Arity - 1}
        /\ [addr |-> Evicting.addr, data |-> Evicting.data] \in EvictReq
<1>1. ff_write_mem_request \in Seq(WriteReq) /\ Len(ff_write_mem_request) <= 2
  BY DEF WriteTypes
<1>2. Len(ff_write_mem_request) \in 1..2 /\ DOMAIN ff_write_mem_request = 1..Len(ff_write_mem_request)
  BY <1>1, QueueOfTwo
<1>3. Evicting = ff_write_mem_request[1] /\ ff_write_mem_request[1] \in WriteReq
  BY <1>1, <1>2, TailShift, QueueOfTwo DEF Evicting
<1>4. Evicting \in Entries(ff_write_mem_request)
  BY <1>2, <1>3 DEF Entries
<1>5. Evicting.addr \in Addr /\ Evicting.data \in [Pos -> Word] /\ Evicting.len \in {0, Arity - 1}
  BY <1>3 DEF WriteReq
<1>6. [addr |-> Evicting.addr, data |-> Evicting.data] \in EvictReq
  BY <1>5 DEF EvictReq
<1>7. RequestOf(Evicting)
  BY <1>4 DEF WriteTypes
<1> QED BY <1>3, <1>4, <1>5, <1>6, <1>7

(* The words of a line whose first word is an address of it.               *)
LEMMA WordsFrom ==
  ASSUME NEW a \in Addr, a = line_base(line_of(a)), NEW c \in Pos
  PROVE a + c \in Addr /\ line_of(a + c) = line_of(a) /\ (a + c) % Arity = c
  BY LineOfAddr, WordOfLine

LEMMA WordsOf ==
  ASSUME NEW a \in Addr, NEW b \in Addr, b = line_base(line_of(b)), line_of(a) = line_of(b)
  PROVE a = b + (a % Arity) /\ a % Arity \in Pos
<1>1. a \in Int /\ Arity \in Nat /\ Arity > 0
  BY Shape DEF Addr
<1>2. a % Arity \in 0..Arity-1 /\ a = Arity * (a \div Arity) + (a % Arity) /\ a \div Arity \in Int
  BY <1>1, Division
<1>3. b = (a \div Arity) * Arity
  BY DEF line_base, line_of
<1>4. (a \div Arity) * Arity = Arity * (a \div Arity)
  BY <1>1, <1>2
<1> QED BY <1>2, <1>3, <1>4 DEF Pos

(* The first beat leaves the bridge.                                       *)
LEMMA FirstBeat ==
  ASSUME WritePath, rl_handle_dmem_write_request
  PROVE WritePath'
<1> DEFINE r == Evicting
           x == [data |-> r.data[0], last |-> r.len = 0]
           aw == [addr |-> r.addr, len |-> r.len]
<1>1. WriteTypes /\ Counted /\ Aligned /\ Placed /\ Lands
  BY DEF WritePath
<1>2. /\ rg_burst_count = 0 /\ ff_write_mem_request # <<>> /\ NotFull(wr_addr) /\ NotFull(wr_data)
      /\ NotFull(ff_evict_req)
      /\ wr_addr' = Append(wr_addr, aw) /\ wr_data' = Append(wr_data, x)
      /\ UNCHANGED <<wr_resp, write_slot, dram>>
  BY DEF rl_handle_dmem_write_request, NotEmpty, unit_ready, shifted, Evicting, store
<1>3. \/ /\ r.len > 0 /\ rg_burst_count' = 1 /\ wr_write_req' = r.addr
         /\ UNCHANGED <<ff_write_mem_request, ff_evict_req, written>>
      \/ /\ r.len = 0 /\ ma_write_mem_req_deq(r) /\ UNCHANGED <<rg_burst_count, wr_write_req>>
  BY DEF rl_handle_dmem_write_request, Evicting
<1>4. /\ RequestOf(r) /\ r.addr \in Addr /\ r.data \in [Pos -> Word] /\ r.len \in {0, Arity - 1}
      /\ [addr |-> r.addr, data |-> r.data] \in EvictReq
  BY <1>1, <1>2, EvictingType
<1>5. 0 \in Pos /\ 1 \in Pos /\ Arity >= 2 /\ Arity \in Nat
  BY Shape DEF Pos
<1>6. x \in Beat /\ aw \in Write
  BY <1>4, <1>5 DEF Beat, Write
<1>7. ~Sending /\ wr_write_req = Invalid
  BY <1>1, <1>2 DEF Sending, Aligned
<1>8. /\ Len(wr_data) \in 0..1 /\ Len(wr_addr) \in 0..1
      /\ (wr_data = <<>>) <=> (Len(wr_data) = 0)
      /\ wr_addr \in Seq(Write) /\ ff_evict_req \in Seq(EvictReq)
      /\ \A k \in 1..Len(wr_data) : wr_data[k] \in Beat
  BY <1>1, <1>2, Waiting DEF NotFull, FifoDepth, WriteTypes
<1>9. PICK n \in 1..2 : n = Len(wr_data) + 1
  BY <1>8
<1>10. Bursts = n - 1
  BY <1>1, <1>7, <1>8, <1>9 DEF Counted, Lasts, IsLast, Beat
<1>11. /\ wr_addr' \in Seq(Write) /\ Len(wr_addr') = Len(wr_addr) + 1
       /\ wr_addr'[Len(wr_addr) + 1] = aw /\ \A k \in 1..Len(wr_addr) : wr_addr'[k] = wr_addr[k]
  BY <1>2, <1>6, <1>8, AppendShift
<1>12. Writing' = Writing
  BY <1>2 DEF Writing
<1>13. Bursts' = n /\ burst_addr(n)' = r.addr /\ \A i \in 1..Bursts : burst_addr(i)' = burst_addr(i)
  <2>1. CASE Writing
    <3>1. n = 2 /\ Len(wr_addr) = 0
      BY <2>1, <1>8, <1>9, <1>10 DEF Bursts
    <3> QED BY <3>1, <2>1, <1>2, <1>10, <1>11, <1>12 DEF Bursts, burst_addr
  <2>2. CASE ~Writing
    <3>1. Len(wr_addr) = n - 1
      BY <2>2, <1>8, <1>9, <1>10 DEF Bursts
    <3> QED BY <3>1, <2>2, <1>10, <1>11, <1>12 DEF Bursts, burst_addr
  <2> QED BY <2>1, <2>2
<1>14. /\ Len(wr_data)' = n /\ DOMAIN wr_data' = 1..n /\ wr_data'[n] = x
       /\ wr_data' \in Seq(Beat) /\ wr_data' # <<>>
       /\ \A k \in 1..n-1 : /\ wr_data'[k] = wr_data[k] /\ offset_of(k)' = offset_of(k)
                            /\ burst_of(k)' = burst_of(k) /\ beat_addr(k)' = beat_addr(k)
       /\ Lasts' = Lasts + (IF x.last THEN 1 ELSE 0)
       /\ burst_of(n)' = IF wr_data = <<>> \/ Sending THEN 1 ELSE 2
       /\ \A a : landing(a)' = IF a = beat_addr(n)' THEN x.data ELSE landing(a)
  <2>1. Len(wr_data) < 2 /\ n \in Nat /\ UNCHANGED <<write_slot, dram>>
    BY <1>2, <1>8
  <2> HIDE DEF x
  <2> QED BY <2>1, <1>1, <1>2, <1>6, <1>9, <1>13, BeatSent
<1>15. burst_of(n)' = n
  BY <1>7, <1>8, <1>9, <1>14
<1>16. offset_of(n)' = 0
  <2>1. CASE n = 1
    <3>1. ~Writing
      BY <2>1, <1>8, <1>10 DEF Bursts
    <3> QED BY <2>1, <3>1, <1>12 DEF offset_of
  <2>2. CASE n = 2
    <3>1. wr_data[1].last /\ Len(wr_data) = 1
      BY <1>1, <1>7, <1>8, <1>9, <2>2 DEF Counted
    <3>2. IsLast(1)'
      BY <3>1, <2>2, <1>14 DEF IsLast
    <3> QED BY <2>2, <3>2 DEF offset_of
  <2> QED BY <2>1, <2>2
<1>17. beat_addr(n)' = r.addr
  <2>1. beat_addr(n)' = burst_addr(n)' + 0
    BY <1>15, <1>16 DEF beat_addr
  <2> QED BY <2>1, <1>4, <1>13, Shape DEF Addr
<1>18. Placed'
  <2> SUFFICES ASSUME NEW k \in 1..n
               PROVE /\ offset_of(k)' \in Pos /\ beat_addr(k)' \in Addr
                     /\ line_of(beat_addr(k)') = line_of(burst_addr(burst_of(k))')
    BY <1>14 DEF Placed, line_of, Pos, Addr
  <2>1. CASE k = n
    <3>1. burst_addr(burst_of(k))' = r.addr
      BY <2>1, <1>13, <1>15
    <3> QED BY <2>1, <3>1, <1>4, <1>5, <1>16, <1>17
  <2>2. CASE k # n
    <3>1. k \in 1..n-1 /\ k \in DOMAIN wr_data /\ burst_of(k) \in 1..Bursts
      BY <2>2, <1>1, <1>9, Waiting, TwoBursts
    <3>2. burst_addr(burst_of(k))' = burst_addr(burst_of(k))
      BY <3>1, <1>13, <1>14
    <3> QED BY <3>1, <3>2, <1>1, <1>14 DEF Placed
  <2> QED BY <2>1, <2>2
<1>19. CASE r.len > 0
  <2>1. /\ rg_burst_count' = 1 /\ wr_write_req' = r.addr /\ Sending'
        /\ UNCHANGED <<ff_write_mem_request, ff_evict_req, written>> /\ Evicting' = r
        /\ ~x.last
    <3>0. r.len # 0
      BY <1>4, <1>5, <1>19
    <3>1. r.len # 0 /\ ~x.last
      BY <3>0
    <3>2. /\ rg_burst_count' = 1 /\ wr_write_req' = r.addr
          /\ UNCHANGED <<ff_write_mem_request, ff_evict_req, written>>
      BY <1>3, <3>1
    <3> QED BY <3>1, <3>2 DEF Sending, Evicting
  <2>2. WriteTypes'
    BY <2>1, <1>1, <1>2, <1>4, <1>5, <1>8, <1>11, <1>14 DEF WriteTypes, FifoDepth
  <2>3. Counted'
    BY <2>1, <1>1, <1>7, <1>10, <1>13, <1>14, TwoBursts DEF Counted
  <2>4. Aligned'
    <3>1. offset_of(Len(wr_data))' = offset_of(n)' /\ burst_addr(Bursts)' = burst_addr(n)'
      BY <1>13, <1>14 DEF offset_of, burst_addr
    <3> QED BY <2>1, <3>1, <1>2, <1>13, <1>14, <1>16, <1>19 DEF Aligned, NotFull
  <2>5. Lands'
    <3> SUFFICES ASSUME NEW a \in Addr PROVE landing(a)' = told(a)'
      BY DEF Lands
    <3>1. landing(a)' = IF a = r.addr THEN r.data[0] ELSE landing(a)
      BY <1>14, <1>17
    <3>2. landing(a) = written[a]
      BY <1>1, <1>7 DEF Lands, told
    <3>3. a \in Int /\ r.addr \in Int
      BY <1>4, Shape DEF Addr
    <3>4. told(a)' = IF a \in r.addr..r.addr + 1 - 1 THEN r.data[a - r.addr] ELSE written[a]
      BY <2>1 DEF told
    <3> QED BY <3>1, <3>2, <3>3, <3>4
  <2> QED BY <2>2, <2>3, <2>4, <2>5, <1>18 DEF WritePath
<1>20. CASE ~(r.len > 0)
  <2>1. /\ r.len = 0 /\ ff_write_mem_request' = <<>> /\ x.last /\ ~Sending'
        /\ ff_evict_req' = Append(ff_evict_req, [addr |-> r.addr, data |-> r.data])
        /\ written' = [a \in Addr |-> IF a = r.addr THEN r.data[0] ELSE written[a]]
        /\ UNCHANGED <<rg_burst_count, wr_write_req>>
    BY <1>3, <1>20, <1>7 DEF ma_write_mem_req_deq, Sending
  <2>2. WriteTypes'
    <3>1. ff_evict_req' \in Seq(EvictReq)
      BY <2>1, <1>4, <1>8, AppendShift
    <3>2. written' \in [Addr -> Word]
      BY <2>1, <1>1, <1>4, <1>5 DEF WriteTypes
    <3>3. ff_write_mem_request' \in Seq(WriteReq) /\ Len(ff_write_mem_request') <= 1
          /\ Entries(ff_write_mem_request') = {}
      BY <2>1 DEF Entries
    <3>4. (\A q \in Entries(ff_write_mem_request) : RequestOf(q))'
      BY <3>3 DEF Entries
    <3>5. Len(wr_addr') <= 2 /\ Len(wr_data') <= 2
      BY <1>8, <1>11, <1>14
    <3> QED BY <2>1, <3>1, <3>2, <3>3, <3>4, <3>5, <1>1, <1>2, <1>11, <1>14 DEF WriteTypes, FifoDepth
  <2>3. Counted'
    BY <2>1, <1>1, <1>7, <1>10, <1>13, <1>14, TwoBursts DEF Counted
  <2>4. Aligned'
    BY <2>1, <1>7 DEF Aligned
  <2>5. Lands'
    <3> SUFFICES ASSUME NEW a \in Addr PROVE landing(a)' = told(a)'
      BY DEF Lands
    <3>1. landing(a)' = IF a = r.addr THEN r.data[0] ELSE landing(a)
      BY <1>14, <1>17
    <3>2. landing(a) = written[a]
      BY <1>1, <1>7 DEF Lands, told
    <3>3. told(a)' = written'[a]
      BY <2>1 DEF told
    <3> QED BY <2>1, <3>1, <3>2, <3>3
  <2> QED BY <2>2, <2>3, <2>4, <2>5, <1>18 DEF WritePath
<1> QED BY <1>19, <1>20

(* A later beat leaves the bridge, the last one with the announcement.     *)
LEMMA LaterBeat ==
  ASSUME WritePath, rl_dmem_burst_write_data
  PROVE WritePath'
<1> DEFINE r == Evicting
           c == rg_burst_count
           x == [data |-> r.data[c], last |-> c = Arity - 1]
<1>1. WriteTypes /\ Counted /\ Aligned /\ Placed /\ Lands
  BY DEF WritePath
<1>2. /\ c # 0 /\ ff_write_mem_request # <<>> /\ NotFull(wr_data) /\ NotFull(ff_evict_req)
      /\ wr_data' = Append(wr_data, x)
      /\ UNCHANGED <<wr_addr, wr_resp, write_slot, dram>>
  BY DEF rl_dmem_burst_write_data, NotEmpty, unit_ready, shifted, Evicting, store
<1>3. \/ /\ c = Arity - 1 /\ rg_burst_count' = 0 /\ wr_write_req' = Invalid
         /\ ma_write_mem_req_deq(r)
      \/ /\ c # Arity - 1 /\ rg_burst_count' = c + 1
         /\ UNCHANGED <<wr_write_req, ff_write_mem_request, ff_evict_req, written>>
  BY DEF rl_dmem_burst_write_data, Evicting, burst_done
<1>4. /\ RequestOf(r) /\ r.addr \in Addr /\ r.data \in [Pos -> Word] /\ r.len \in {0, Arity - 1}
      /\ [addr |-> r.addr, data |-> r.data] \in EvictReq
  BY <1>1, <1>2, EvictingType
<1>5. c \in Pos /\ c \in Nat /\ Arity >= 2 /\ Arity \in Nat
  BY <1>1, Shape DEF Pos, WriteTypes
<1>6. x \in Beat /\ (x.last <=> c = Arity - 1)
  BY <1>4, <1>5 DEF Beat
<1>7. /\ Sending /\ r.len > 0 /\ wr_write_req = r.addr /\ burst_addr(Bursts) = r.addr
      /\ IF wr_data = <<>> THEN Writing /\ write_slot.beat = c
         ELSE offset_of(Len(wr_data)) + 1 = c
  BY <1>1, <1>2 DEF Sending, Aligned
<1>8. r.len = Arity - 1 /\ r.addr = line_base(line_of(r.addr))
  BY <1>4, <1>5, <1>7 DEF RequestOf
<1>9. /\ Len(wr_data) \in 0..1
      /\ (wr_data = <<>>) <=> (Len(wr_data) = 0)
      /\ ff_evict_req \in Seq(EvictReq)
      /\ \A k \in 1..Len(wr_data) : wr_data[k] \in Beat
  BY <1>1, <1>2, Waiting DEF NotFull, FifoDepth, WriteTypes
<1>10. PICK n \in 1..2 : n = Len(wr_data) + 1
  BY <1>9
<1>11. Bursts = 1 /\ Lasts = 0
  BY <1>1, <1>7, <1>9 DEF Counted, Lasts, IsLast, Beat
<1>12. Writing' = Writing /\ Bursts' = 1 /\ \A i \in 1..Bursts : burst_addr(i)' = burst_addr(i)
  BY <1>2, <1>11 DEF Writing, Bursts, burst_addr
<1>13. /\ Len(wr_data)' = n /\ DOMAIN wr_data' = 1..n /\ wr_data'[n] = x
       /\ wr_data' \in Seq(Beat) /\ wr_data' # <<>>
       /\ \A k \in 1..n-1 : /\ wr_data'[k] = wr_data[k] /\ offset_of(k)' = offset_of(k)
                            /\ burst_of(k)' = burst_of(k) /\ beat_addr(k)' = beat_addr(k)
       /\ Lasts' = Lasts + (IF x.last THEN 1 ELSE 0)
       /\ burst_of(n)' = IF wr_data = <<>> \/ Sending THEN 1 ELSE 2
       /\ \A a : landing(a)' = IF a = beat_addr(n)' THEN x.data ELSE landing(a)
  <2>1. Len(wr_data) < 2 /\ n \in Nat /\ UNCHANGED <<write_slot, dram>>
    BY <1>2, <1>9
  <2> HIDE DEF x
  <2> QED BY <2>1, <1>1, <1>2, <1>6, <1>10, <1>12, BeatSent
<1>14. burst_of(n)' = 1
  BY <1>7, <1>13
<1>15. offset_of(n)' = c
  <2>1. CASE n = 1
    BY <2>1, <1>5, <1>7, <1>9, <1>10, <1>12, <1>2 DEF offset_of
  <2>2. CASE n = 2
    <3>1. ~wr_data[1].last /\ Len(wr_data) = 1 /\ wr_data # <<>>
      BY <1>1, <1>7, <1>9, <1>10, <2>2 DEF Counted
    <3>2. ~IsLast(1)' /\ ~IsLast(1)
      BY <3>1, <2>2, <1>13 DEF IsLast
    <3>3. offset_of(1) + 1 = c
      BY <3>1, <1>7
    <3>4. (IF Writing THEN write_slot.beat ELSE 0) \in Nat
      BY <1>1 DEF Writing, WriteTypes, WriteSlot
    <3>5. offset_of(1) = (IF Writing THEN write_slot.beat ELSE 0)
      BY <3>4 DEF offset_of
    <3>6. offset_of(n)' = (IF Writing THEN write_slot.beat ELSE 0) + 1
      BY <2>2, <3>2, <1>12, <1>2 DEF offset_of
    <3> QED BY <3>3, <3>5, <3>6
  <2> QED BY <2>1, <2>2
<1>16. beat_addr(n)' = r.addr + c /\ burst_addr(1)' = r.addr
  BY <1>7, <1>11, <1>12, <1>14, <1>15 DEF beat_addr
<1>17. r.addr + c \in Addr /\ line_of(r.addr + c) = line_of(r.addr) /\ (r.addr + c) % Arity = c
  BY <1>4, <1>5, <1>8, WordsFrom
<1>18. Placed'
  <2> SUFFICES ASSUME NEW k \in 1..n
               PROVE /\ offset_of(k)' \in Pos /\ beat_addr(k)' \in Addr
                     /\ line_of(beat_addr(k)') = line_of(burst_addr(burst_of(k))')
    BY <1>13 DEF Placed, line_of, Pos, Addr
  <2>1. CASE k = n
    BY <2>1, <1>5, <1>14, <1>15, <1>16, <1>17
  <2>2. CASE k # n
    <3>1. k \in 1..n-1 /\ k \in DOMAIN wr_data /\ burst_of(k) \in 1..Bursts
      BY <2>2, <1>1, <1>10, Waiting, TwoBursts
    <3>2. burst_addr(burst_of(k))' = burst_addr(burst_of(k))
      BY <3>1, <1>12, <1>13
    <3> QED BY <3>1, <3>2, <1>1, <1>13 DEF Placed
  <2> QED BY <2>1, <2>2
<1>19. \A a \in Addr : /\ a \in Int /\ r.addr \in Int
                       /\ landing(a)' = IF a = r.addr + c THEN r.data[c] ELSE landing(a)
                       /\ landing(a) = IF a \in r.addr..r.addr + c - 1 THEN r.data[a - r.addr]
                                       ELSE written[a]
  <2> TAKE a \in Addr
  <2>1. a \in Int /\ r.addr \in Int
    BY <1>4, Shape DEF Addr
  <2>2. landing(a)' = IF a = r.addr + c THEN r.data[c] ELSE landing(a)
    BY <1>13, <1>16
  <2>3. landing(a) = told(a)
    BY <1>1 DEF Lands
  <2> QED BY <2>1, <2>2, <2>3, <1>7 DEF told
<1>20. CASE c # Arity - 1
  <2>1. /\ rg_burst_count' = c + 1 /\ Sending' /\ c + 1 \in Pos
        /\ UNCHANGED <<wr_write_req, ff_write_mem_request, ff_evict_req, written>>
        /\ Evicting' = r
    BY <1>3, <1>5, <1>20 DEF Sending, Evicting, Pos
  <2>2. WriteTypes'
    BY <2>1, <1>1, <1>2, <1>9, <1>10, <1>13 DEF WriteTypes, FifoDepth
  <2>3. Counted'
    BY <2>1, <1>6, <1>11, <1>12, <1>13, <1>20 DEF Counted
  <2>4. Aligned'
    <3>1. offset_of(Len(wr_data))' = c /\ burst_addr(Bursts)' = r.addr
      <4>1. offset_of(Len(wr_data))' = offset_of(n)'
        BY <1>13 DEF offset_of
      <4>2. burst_addr(Bursts)' = burst_addr(1)'
        BY <1>12 DEF burst_addr
      <4> QED BY <4>1, <4>2, <1>15, <1>16
    <3> QED BY <2>1, <3>1, <1>2, <1>7, <1>13 DEF Aligned, NotFull
  <2>5. Lands'
    <3> SUFFICES ASSUME NEW a \in Addr PROVE landing(a)' = told(a)'
      BY DEF Lands
    <3>1. told(a)' = IF a \in r.addr..r.addr + (c + 1) - 1 THEN r.data[a - r.addr] ELSE written[a]
      BY <2>1 DEF told
    <3>2. /\ a \in Int /\ r.addr \in Int
          /\ landing(a)' = IF a = r.addr + c THEN r.data[c] ELSE landing(a)
          /\ landing(a) = IF a \in r.addr..r.addr + c - 1 THEN r.data[a - r.addr] ELSE written[a]
      BY <1>19
    <3>3. (r.addr + c) - r.addr = c
      BY <3>2, <1>5
    <3>4. a \in r.addr..r.addr + (c + 1) - 1 <=> a = r.addr + c \/ a \in r.addr..r.addr + c - 1
      BY <3>2, <1>5
    <3>5. a = r.addr + c => a - r.addr = c /\ a \notin r.addr..r.addr + c - 1
      BY <3>2, <1>5
    <3> QED BY <3>1, <3>2, <3>4, <3>5
  <2> QED BY <2>2, <2>3, <2>4, <2>5, <1>18 DEF WritePath
<1>21. CASE c = Arity - 1
  <2>1. /\ rg_burst_count' = 0 /\ wr_write_req' = Invalid /\ ~Sending'
        /\ ff_write_mem_request' = <<>>
        /\ ff_evict_req' = Append(ff_evict_req, [addr |-> r.addr, data |-> r.data])
        /\ written' = [a \in Addr |-> IF line_of(a) = line_of(r.addr) THEN r.data[a % Arity]
                                      ELSE written[a]]
    BY <1>3, <1>5, <1>8, <1>21 DEF ma_write_mem_req_deq, Sending
  <2>2. WriteTypes'
    <3>1. ff_evict_req' \in Seq(EvictReq)
      BY <2>1, <1>4, <1>9, AppendShift
    <3>2. written' \in [Addr -> Word]
      <4>1. \A a \in Addr : a % Arity \in Pos
        BY Shape, Division DEF Addr, Pos
      <4> QED BY <4>1, <2>1, <1>1, <1>4 DEF WriteTypes
    <3>3. ff_write_mem_request' \in Seq(WriteReq) /\ Len(ff_write_mem_request') <= 1
          /\ Entries(ff_write_mem_request') = {}
      BY <2>1 DEF Entries
    <3>4. (\A q \in Entries(ff_write_mem_request) : RequestOf(q))'
      BY <3>3 DEF Entries
    <3>5. Len(wr_data') <= 2 /\ 0 \in Pos
      BY <1>5, <1>13 DEF Pos
    <3> QED BY <2>1, <3>1, <3>2, <3>3, <3>4, <3>5, <1>1, <1>2, <1>13 DEF WriteTypes, FifoDepth
  <2>3. Counted'
    BY <2>1, <1>6, <1>11, <1>12, <1>13, <1>21 DEF Counted
  <2>4. Aligned'
    BY <2>1 DEF Aligned
  <2>5. Lands'
    <3> SUFFICES ASSUME NEW a \in Addr PROVE landing(a)' = told(a)'
      BY DEF Lands
    <3>1. told(a)' = IF line_of(a) = line_of(r.addr) THEN r.data[a % Arity] ELSE written[a]
      BY <2>1 DEF told
    <3>2. /\ a \in Int /\ r.addr \in Int
          /\ landing(a)' = IF a = r.addr + c THEN r.data[c] ELSE landing(a)
          /\ landing(a) = IF a \in r.addr..r.addr + c - 1 THEN r.data[a - r.addr] ELSE written[a]
      BY <1>19
    <3>3. CASE line_of(a) = line_of(r.addr)
      <4>1. a = r.addr + (a % Arity) /\ a % Arity \in Pos
        BY <3>3, <1>4, <1>8, WordsOf
      <4>2. a - r.addr = a % Arity
        BY <4>1, <3>2, <1>5 DEF Pos
      <4>3. CASE a % Arity = c
        <5>1. a = r.addr + c
          BY <4>1, <4>3
        <5> QED BY <5>1, <4>3, <3>1, <3>2, <3>3
      <4>4. CASE a % Arity # c
        <5>1. a # r.addr + c /\ a \in r.addr..r.addr + c - 1
          BY <4>1, <4>2, <4>4, <3>2, <1>5, <1>21 DEF Pos
        <5> QED BY <5>1, <4>2, <3>1, <3>2, <3>3
      <4> QED BY <4>3, <4>4
    <3>4. CASE line_of(a) # line_of(r.addr)
      <4>1. ASSUME NEW k \in Pos PROVE a # r.addr + k
        BY <3>4, <1>4, <1>8, WordsFrom
      <4>2. a # r.addr + c
        BY <4>1, <1>5
      <4>3. a \notin r.addr..r.addr + c - 1
        <5> SUFFICES ASSUME a \in r.addr..r.addr + c - 1 PROVE FALSE
          OBVIOUS
        <5>1. a - r.addr \in Pos /\ a = r.addr + (a - r.addr)
          BY <3>2, <1>5 DEF Pos
        <5> QED BY <5>1, <4>1
      <4> QED BY <4>2, <4>3, <3>1, <3>2, <3>4
    <3> QED BY <3>3, <3>4
  <2> QED BY <2>2, <2>3, <2>4, <2>5, <1>18 DEF WritePath
<1> QED BY <1>20, <1>21

(* The fabric starts a burst.                                              *)
LEMMA BurstStarts ==
  ASSUME WritePath, rl_wr_xaction_master_to_slave
  PROVE WritePath'
<1> DEFINE w == wr_data[1]
           aw == wr_addr[1]
<1>1. WriteTypes /\ Counted /\ Aligned /\ Placed /\ Lands
  BY DEF WritePath
<1>2. /\ wr_data \in Seq(Beat) /\ wr_addr \in Seq(Write) /\ wr_data # <<>> /\ wr_addr # <<>>
      /\ write_slot = Invalid
  BY <1>1 DEF WriteTypes, rl_wr_xaction_master_to_slave, NotEmpty
<1>3. /\ Len(wr_data) \in 1..2 /\ Len(wr_addr) \in 1..2 /\ DOMAIN wr_data = 1..Len(wr_data)
      /\ w \in Beat /\ aw \in Write /\ Head(wr_data) = w /\ Head(wr_addr) = aw
  BY <1>1, <1>2, Waiting, TailShift
<1>4. /\ write_slot' = [addr |-> aw.addr, beat |-> 1, done |-> w.last]
      /\ dram' = [dram EXCEPT ![aw.addr] = w.data]
      /\ wr_addr' = Tail(wr_addr) /\ wr_data' = Tail(wr_data)
      /\ UNCHANGED <<ff_write_mem_request, ff_evict_req, rg_burst_count, wr_write_req, written, wr_resp>>
  BY <1>3 DEF rl_wr_xaction_master_to_slave, WriteWord, mvuVars, cacheFifos, cacheVars, bridge
<1>5. aw.addr \in Addr /\ w.data \in Word /\ w.last \in BOOLEAN /\ aw.addr \in Int
  BY <1>3, Shape DEF Write, Beat, Addr
<1>6. write_slot' \in WriteSlot /\ write_slot' # Invalid
  BY <1>4, <1>5, Shape, SoCAssumption DEF WriteSlot
<1>7. ~Writing /\ Bursts = Len(wr_addr) /\ (Writing' <=> ~w.last)
  BY <1>2, <1>4, <1>6 DEF Writing, Bursts
<1>8. /\ wr_addr' \in Seq(Write) /\ Len(wr_addr') = Len(wr_addr) - 1
      /\ \A k \in 1..Len(wr_addr') : wr_addr'[k] = wr_addr[k + 1]
  BY <1>2, <1>4, TailShift
<1>9. offset_of(1) = 0 /\ burst_of(1) = 1 /\ beat_addr(1) = aw.addr
  <2>1. offset_of(1) = 0 /\ burst_of(1) = 1
    BY <1>7 DEF offset_of, burst_of
  <2> QED BY <2>1, <1>5, <1>7 DEF beat_addr, burst_addr
<1>10. IF w.last
       THEN /\ ~Writing' /\ Bursts' = Bursts - 1
            /\ \A i \in 1..Bursts-1 : burst_addr(i)' = burst_addr(i + 1)
       ELSE /\ Writing' /\ write_slot'.beat = offset_of(1) + 1 /\ Bursts' = Bursts
            /\ \A i \in 1..Bursts : burst_addr(i)' = burst_addr(i)
  <2>1. CASE w.last
    BY <2>1, <1>3, <1>7, <1>8 DEF Bursts, burst_addr
  <2>2. CASE ~w.last
    <3>0. Writing' /\ write_slot'.beat = 1
      BY <2>2, <1>4, <1>7
    <3>1. Writing' /\ write_slot'.beat = offset_of(1) + 1 /\ Bursts' = Bursts
      <4>1. Bursts' = Len(wr_addr') + 1
        BY <3>0 DEF Bursts
      <4> QED BY <3>0, <4>1, <1>3, <1>7, <1>8, <1>9
    <3>2. ASSUME NEW i \in 1..Bursts PROVE burst_addr(i)' = burst_addr(i)
      <4>1. CASE i = 1
        BY <4>1, <3>1, <1>4, <1>7 DEF burst_addr
      <4>2. CASE i # 1
        <5>1. i - 1 \in 1..Len(wr_addr') /\ (i - 1) + 1 = i
          BY <4>2, <1>3, <1>7, <1>8
        <5>2. burst_addr(i)' = wr_addr'[i - 1].addr
          BY <4>2, <3>1 DEF burst_addr
        <5> QED BY <5>1, <5>2, <1>7, <1>8 DEF burst_addr
      <4> QED BY <4>1, <4>2
    <3> QED BY <2>2, <3>1, <3>2
  <2> QED BY <2>1, <2>2
<1>11. Counted' /\ Aligned' /\ Placed' /\ Lands'
  <2>1. dram' = [dram EXCEPT ![beat_addr(1)] = wr_data[1].data]
    BY <1>4, <1>9
  <2> QED BY <1>1, <1>2, <1>4, <1>10, <2>1, BeatLands
<1>12. WriteTypes'
  <2>1. wr_data' \in Seq(Beat) /\ Len(wr_data') = Len(wr_data) - 1
    BY <1>2, <1>4, TailShift
  <2>2. dram' \in [Addr -> Word]
    BY <1>1, <1>4, <1>5 DEF WriteTypes
  <2>3. Len(wr_data') <= 2 /\ Len(wr_addr') <= 2
    BY <2>1, <1>3, <1>8
  <2> QED BY <2>1, <2>2, <2>3, <1>1, <1>4, <1>6, <1>8 DEF WriteTypes, FifoDepth
<1> QED BY <1>11, <1>12 DEF WritePath

(* The fabric goes on with a burst.                                        *)
LEMMA BurstGoesOn ==
  ASSUME WritePath, rl_wr_xaction_master_to_slave_data
  PROVE WritePath'
<1> DEFINE w == wr_data[1]
<1>1. WriteTypes /\ Counted /\ Aligned /\ Placed /\ Lands
  BY DEF WritePath
<1>2. /\ wr_data \in Seq(Beat) /\ wr_data # <<>>
      /\ write_slot # Invalid /\ ~write_slot.done /\ write_slot \in WriteSlot
  BY <1>1 DEF WriteTypes, rl_wr_xaction_master_to_slave_data, NotEmpty
<1>3. /\ Len(wr_data) \in 1..2 /\ Len(wr_addr) \in 0..2 /\ DOMAIN wr_data = 1..Len(wr_data)
      /\ w \in Beat /\ Head(wr_data) = w
  BY <1>1, <1>2, Waiting, TailShift
<1>4. /\ write_slot' = [write_slot EXCEPT !.beat = @ + 1, !.done = w.last]
      /\ dram' = [dram EXCEPT ![write_slot.addr + write_slot.beat] = w.data]
      /\ wr_data' = Tail(wr_data)
      /\ UNCHANGED <<ff_write_mem_request, ff_evict_req, rg_burst_count, wr_write_req, written,
                     wr_addr, wr_resp>>
  BY <1>3 DEF rl_wr_xaction_master_to_slave_data, WriteWord, mvuVars, cacheFifos, cacheVars, bridge
<1>5. /\ write_slot.addr \in Addr /\ write_slot.beat \in 1..Arity /\ w.data \in Word
      /\ w.last \in BOOLEAN /\ Arity \in Nat
  BY <1>2, <1>3, Shape DEF WriteSlot, Beat
<1>6. Writing
  BY <1>2 DEF Writing
<1>7. offset_of(1) = write_slot.beat /\ burst_of(1) = 1
      /\ beat_addr(1) = write_slot.addr + write_slot.beat
  <2>1. offset_of(1) = write_slot.beat + (1 - 1) /\ burst_of(1) = 1
    BY <1>6 DEF offset_of, burst_of
  <2>2. offset_of(1) = write_slot.beat
    BY <2>1, <1>5
  <2> QED BY <2>1, <2>2, <1>6 DEF beat_addr, burst_addr
<1>8. beat_addr(1) \in Addr /\ write_slot.beat \in Pos
  BY <1>1, <1>3, <1>7 DEF Placed
<1>9. /\ write_slot' = [addr |-> write_slot.addr, beat |-> write_slot.beat + 1, done |-> w.last]
      /\ write_slot.beat + 1 \in 1..Arity
  <2>1. write_slot = [addr |-> write_slot.addr, beat |-> write_slot.beat, done |-> write_slot.done]
    BY <1>2 DEF WriteSlot
  <2>2. write_slot.beat + 1 \in 1..Arity
    BY <1>5, <1>8 DEF Pos
  <2>3. write_slot' = [write_slot EXCEPT !.beat = write_slot.beat + 1, !.done = w.last]
    BY <1>4
  <2> QED BY <2>1, <2>2, <2>3
<1>10. write_slot' \in WriteSlot /\ write_slot' # Invalid
  BY <1>5, <1>9, SoCAssumption DEF WriteSlot
<1>11. Writing' <=> ~w.last
  BY <1>9, <1>10 DEF Writing
<1>12. Bursts = Len(wr_addr) + 1 /\ Bursts \in Nat
  <2>1. Bursts = Len(wr_addr) + 1
    BY <1>6 DEF Bursts
  <2>2. Len(wr_addr) \in Nat
    BY <1>3
  <2> QED BY <2>1, <2>2
<1>13. IF w.last
       THEN /\ ~Writing' /\ Bursts' = Bursts - 1
            /\ \A i \in 1..Bursts-1 : burst_addr(i)' = burst_addr(i + 1)
       ELSE /\ Writing' /\ write_slot'.beat = offset_of(1) + 1 /\ Bursts' = Bursts
            /\ \A i \in 1..Bursts : burst_addr(i)' = burst_addr(i)
  <2>1. CASE w.last
    <3>1. ~Writing' /\ Bursts' = Bursts - 1
      BY <2>1, <1>3, <1>4, <1>11, <1>12 DEF Bursts
    <3>2. ASSUME NEW i \in 1..Bursts-1 PROVE burst_addr(i)' = burst_addr(i + 1)
      <4>1. i \in Nat /\ i + 1 # 1 /\ (i + 1) - 1 = i
        BY <1>12
      <4> QED BY <4>1, <3>1, <1>4, <1>6 DEF burst_addr
    <3> QED BY <2>1, <3>1, <3>2
  <2>2. CASE ~w.last
    BY <2>2, <1>3, <1>4, <1>6, <1>7, <1>9, <1>11, <1>12 DEF Bursts, burst_addr
  <2> QED BY <2>1, <2>2
<1>14. Counted' /\ Aligned' /\ Placed' /\ Lands'
  <2>1. dram' = [dram EXCEPT ![beat_addr(1)] = wr_data[1].data]
    BY <1>4, <1>7
  <2> QED BY <1>1, <1>2, <1>4, <1>13, <2>1, BeatLands
<1>15. WriteTypes'
  <2>1. wr_data' \in Seq(Beat) /\ Len(wr_data') = Len(wr_data) - 1
    BY <1>2, <1>4, TailShift
  <2>2. dram' \in [Addr -> Word]
    BY <1>1, <1>4, <1>5, <1>7, <1>8 DEF WriteTypes
  <2>3. Len(wr_data') <= 2
    BY <2>1, <1>3
  <2> QED BY <2>1, <2>2, <2>3, <1>1, <1>4, <1>10 DEF WriteTypes, FifoDepth
<1> QED BY <1>14, <1>15 DEF WritePath

(* What leaves the bursts and their beats where they are.                  *)
LEMMA WritesRest ==
  ASSUME WritePath, WriteTypes',
         UNCHANGED <<rg_burst_count, wr_write_req, wr_addr, wr_data, dram, written>>,
         Writing' = Writing, Writing => write_slot' = write_slot,
         Sending => ff_write_mem_request' = ff_write_mem_request,
         NotFull(ff_evict_req) => NotFull(ff_evict_req)'
  PROVE WritePath'
<1>1. Counted /\ Aligned /\ Placed /\ Lands
  BY DEF WritePath
<1>2. Bursts' = Bursts /\ \A i : burst_addr(i)' = burst_addr(i)
  BY DEF Bursts, burst_addr
<1>3. Sending' = Sending /\ Lasts' = Lasts
  BY DEF Sending, Lasts, IsLast
<1>4. \A k : /\ burst_of(k)' = burst_of(k) /\ offset_of(k)' = offset_of(k)
             /\ beat_addr(k)' = beat_addr(k)
  <2>1. IsLast(1)' = IsLast(1)
    BY DEF IsLast
  <2> QED BY <2>1, <1>2 DEF burst_of, offset_of, beat_addr
<1>5. Counted'
  BY <1>1, <1>2, <1>3 DEF Counted
<1>6. Aligned'
  <2>1. CASE Sending
    <3>1. offset_of(Len(wr_data))' = offset_of(Len(wr_data)) /\ burst_addr(Bursts)' = burst_addr(Bursts)
      <4>1. offset_of(Len(wr_data))' = offset_of(Len(wr_data))
        BY DEF offset_of, IsLast
      <4>2. burst_addr(Bursts)' = burst_addr(Bursts)
        BY <1>2 DEF burst_addr
      <4> QED BY <4>1, <4>2
    <3>2. Evicting' = Evicting /\ ff_write_mem_request' = ff_write_mem_request
      BY <2>1 DEF Evicting
    <3> QED BY <2>1, <3>1, <3>2, <1>1, <1>2, <1>3 DEF Aligned
  <2>2. CASE ~Sending
    BY <2>2, <1>1, <1>3 DEF Aligned
  <2> QED BY <2>1, <2>2
<1>7. Placed'
  <2> SUFFICES ASSUME NEW k \in DOMAIN wr_data
               PROVE /\ offset_of(k)' \in Pos /\ beat_addr(k)' \in Addr
                     /\ line_of(beat_addr(k)') = line_of(burst_addr(burst_of(k))')
    BY DEF Placed, line_of, Pos, Addr
  <2>1. burst_addr(burst_of(k))' = burst_addr(burst_of(k))
    BY <1>2, <1>4
  <2> QED BY <2>1, <1>1, <1>4 DEF Placed
<1>8. Lands'
  <2> SUFFICES ASSUME NEW a \in Addr PROVE landing(a)' = told(a)'
    BY DEF Lands
  <2>1. landing(a)' = landing(a)
    BY <1>4 DEF landing, Over
  <2>2. told(a)' = told(a)
    BY <1>3 DEF told, Evicting
  <2> QED BY <2>1, <2>2, <1>1 DEF Lands
<1> QED BY <1>5, <1>6, <1>7, <1>8 DEF WritePath

(* What the write path is made of.                                         *)
writePath == <<ff_write_mem_request, rg_burst_count, wr_write_req, wr_addr, wr_data, wr_resp,
               write_slot, dram, written>>

LEMMA WritesUnchanged ==
  ASSUME WritePath, UNCHANGED <<writePath, ff_evict_req>> PROVE WritePath'
<1>1. WriteTypes'
  BY DEF writePath, WritePath, WriteTypes, Entries
<1> QED BY <1>1, WritesRest DEF writePath, Writing, NotFull

(* A request enters the cache's write port.                                *)
LEMMA RequestWaits ==
  ASSUME WritePath, ff_write_mem_request = <<>>, NEW r \in WriteReq, RequestOf(r),
         ff_write_mem_request' = <<r>>,
         UNCHANGED <<ff_evict_req, rg_burst_count, wr_write_req, wr_addr, wr_data, wr_resp,
                     write_slot, dram, written>>
  PROVE WritePath'
<1>1. ~Sending
  BY DEF WritePath, Aligned
<1>2. /\ <<r>> \in Seq(WriteReq) /\ Len(<<r>>) <= 1
      /\ \A q \in {<<r>>[k] : k \in DOMAIN <<r>>} : q = r
  BY SMT
<1>3. WriteTypes'
  BY <1>2 DEF WritePath, WriteTypes, Entries
<1> QED BY <1>1, <1>3, WritesRest DEF Writing, NotFull

(* The rules of the unit see of the write path only ff_evict_req, and only *)
(* rl_start_update takes from it.                                          *)
LEMMA UnitLeavesEvictions ==
  ASSUME MVUReadRule \/ MVUWalkRule PROVE UNCHANGED ff_evict_req
<1> USE DEF cacheFifos
<1>1. CASE MVUReadRule
  BY <1>1 DEF MVUReadRule, rl_forward_request, rl_accumulate, rl_forward_unprotected,
              rl_forward_verified
<1>2. CASE rl_compute_l0_parent \/ rl_fetch_siblings \/ rl_collect_hcache_siblings
           \/ rl_wait_siblings \/ rl_compute_parent \/ rl_check_parent
  BY <1>2 DEF rl_compute_l0_parent, rl_fetch_siblings, rl_collect_hcache_siblings,
              rl_wait_siblings, rl_compute_parent, rl_check_parent
<1>3. CASE rl_update_node \/ rl_wait_update_ack \/ rl_propagate_up \/ rl_verify_root
           \/ rl_complete
  BY <1>3 DEF rl_update_node, rl_wait_update_ack, rl_propagate_up, rl_verify_root, rl_complete
<1> QED BY <1>1, <1>2, <1>3 DEF MVUWalkRule

LEMMA StartTakes ==
  ASSUME WritePath, UnitStep(rl_start_update) PROVE WritePath'
<1>1. /\ ff_evict_req # <<>> /\ ff_evict_req' = Tail(ff_evict_req) /\ UNCHANGED writePath
  BY DEF UnitStep, rl_start_update, NotEmpty, port, cacheVars, bridge, busWrite, store, writePath
<1>2. ff_evict_req' \in Seq(EvictReq) /\ (NotFull(ff_evict_req) => NotFull(ff_evict_req)')
  <2>1. ff_evict_req \in Seq(EvictReq)
    BY DEF WritePath, WriteTypes
  <2>2. /\ Tail(ff_evict_req) \in Seq(EvictReq) /\ Len(ff_evict_req) \in Nat
        /\ Len(Tail(ff_evict_req)) = Len(ff_evict_req) - 1
    BY <1>1, <2>1, TailShift
  <2> QED BY <1>1, <2>2 DEF NotFull, FifoDepth
<1>3. WriteTypes'
  BY <1>1, <1>2 DEF writePath, WritePath, WriteTypes, Entries
<1> QED BY <1>1, <1>2, <1>3, WritesRest DEF writePath, Writing

LEMMA InitWritePath == Init => WritePath
<1> SUFFICES ASSUME Init PROVE WritePath
  OBVIOUS
<1>1. /\ ff_evict_req = <<>> /\ ff_write_mem_request = <<>> /\ wr_write_req = Invalid
      /\ rg_burst_count = 0 /\ wr_addr = <<>> /\ wr_data = <<>> /\ wr_resp = <<>>
      /\ write_slot = Invalid
      /\ dram = [a \in Addr |-> Zero] /\ written = [a \in Addr |-> Zero]
  BY DEF Init, MVUInit
<1>2. WriteTypes
  <2>1. 0 \in Pos /\ Zero \in Word
    BY Shape, WordAssumption DEF Pos
  <2>2. Entries(<<>>) = {}
    BY DEF Entries
  <2> QED BY <1>1, <2>1, <2>2 DEF WriteTypes, FifoDepth
<1>3. Counted /\ Aligned
  BY <1>1 DEF Counted, Aligned, Bursts, Writing, Lasts, IsLast, Sending
<1>4. Placed
  BY <1>1 DEF Placed
<1>5. Lands
  BY <1>1 DEF Lands, landing, Over, told, Sending
<1> QED BY <1>2, <1>3, <1>4, <1>5 DEF WritePath

LEMMA StepWritePath == WritePath /\ [Next]_vars => WritePath'
<1> SUFFICES ASSUME WritePath, [Next]_vars PROVE WritePath'
  OBVIOUS
<1> USE DEF mvuVars, cacheFifos, port, cacheVars, bridge, busWrite, busRead, store, writePath
<1>1. CASE UnitStep(MVURule)
  <2>1. CASE UnitStep(rl_start_update)
    BY <2>1, StartTakes
  <2>2. CASE MVUReadRule \/ MVUWalkRule
    BY <1>1, <2>2, UnitLeavesEvictions, WritesUnchanged DEF UnitStep
  <2> QED BY <1>1, <2>1, <2>2 DEF UnitStep, MVURule
<1>2. CASE \E req \in ReadReq : CacheRead(req)
  BY <1>2, WritesUnchanged DEF CacheRead
<1>3. ASSUME NEW line \in Line, NEW d \in EvictData, CacheEvict(line, d) PROVE WritePath'
  <2> DEFINE r == [addr |-> line_base(line), len |-> Arity - 1, data |-> d]
  <2>1. line_base(line) \in Addr /\ line_of(line_base(line)) = line
    <3>1. 0 \in Pos /\ line_base(line) + 0 = line_base(line)
      BY Shape, LineCount DEF Pos, line_base
    <3> QED BY <3>1, WordOfLine
  <2>2. r \in WriteReq /\ RequestOf(r)
    BY <2>1, SoCAssumption DEF WriteReq, RequestOf
  <2>3. /\ ff_write_mem_request = <<>> /\ ff_write_mem_request' = <<r>>
        /\ UNCHANGED <<ff_evict_req, rg_burst_count, wr_write_req, wr_addr, wr_data, wr_resp,
                       write_slot, dram, written>>
    BY <1>3 DEF CacheEvict
  <2> QED BY <2>2, <2>3, RequestWaits
<1>4. CASE \E line \in Line : CacheDrop(line)
  BY <1>4, WritesUnchanged DEF CacheDrop
<1>5. ASSUME NEW a \in Addr, NEW w \in Word, IoStore(a, w) PROVE WritePath'
  <2> DEFINE r == [addr |-> a, len |-> 0, data |-> [k \in Pos |-> w]]
  <2>1. line_of(a) \in IoLine /\ 0 \in Pos
    BY <1>5, Shape DEF IoStore, Pos
  <2>2. r \in WriteReq /\ RequestOf(r)
    BY <2>1 DEF WriteReq, RequestOf
  <2>3. /\ ff_write_mem_request = <<>> /\ ff_write_mem_request' = <<r>>
        /\ UNCHANGED <<ff_evict_req, rg_burst_count, wr_write_req, wr_addr, wr_data, wr_resp,
                       write_slot, dram, written>>
    BY <1>5 DEF IoStore
  <2> QED BY <2>2, <2>3, RequestWaits
<1>6. CASE CacheTake
  BY <1>6, WritesUnchanged DEF CacheTake
<1>7. CASE ReadBridge
  BY <1>7, WritesUnchanged DEF ReadBridge, rl_handle_dmem_line_read_request, rl_handle_delayed_read
<1>8. CASE WriteBridge
  <2>1. CASE handle_dmem_line_write_resp
    <3>1. wr_resp \in Seq({TRUE}) /\ wr_resp # <<>> /\ wr_resp' = Tail(wr_resp)
      BY <2>1 DEF handle_dmem_line_write_resp, WritePath, WriteTypes, NotEmpty
    <3>2. wr_resp' \in Seq({TRUE})
      BY <3>1, TailShift
    <3>3. WriteTypes'
      BY <2>1, <3>2 DEF handle_dmem_line_write_resp, WritePath, WriteTypes, Entries
    <3> QED BY <2>1, <3>3, WritesRest DEF handle_dmem_line_write_resp, Writing, NotFull
  <2> QED BY <1>8, <2>1, FirstBeat, LaterBeat DEF WriteBridge
<1>9. CASE FabricWrite
  <2>1. CASE rl_wr_resp_slave_to_master
    <3>1. /\ write_slot # Invalid /\ write_slot.done /\ write_slot' = Invalid
          /\ wr_resp' = Append(wr_resp, TRUE)
      BY <2>1 DEF rl_wr_resp_slave_to_master
    <3>2. wr_resp' \in Seq({TRUE})
      BY <3>1, AppendShift DEF WritePath, WriteTypes
    <3>3. WriteTypes'
      BY <2>1, <3>1, <3>2 DEF rl_wr_resp_slave_to_master, WritePath, WriteTypes, Entries
    <3>4. Writing = FALSE /\ Writing' = FALSE
      BY <3>1 DEF Writing
    <3> QED BY <2>1, <3>3, <3>4, WritesRest DEF rl_wr_resp_slave_to_master, NotFull
  <2> QED BY <1>9, <2>1, BurstStarts, BurstGoesOn DEF FabricWrite
<1>10. CASE FabricRead
  BY <1>10, WritesUnchanged
  DEF FabricRead, rl_rd_xaction_master_to_slave, rl_rd_resp_slave_to_master
<1>11. CASE TreeRead
  BY <1>11, WritesUnchanged DEF TreeRead
<1>12. CASE TreeWrite
  BY <1>12, WritesUnchanged DEF TreeWrite
<1>13. CASE UNCHANGED vars
  BY <1>13, WritesUnchanged DEF vars
<1> QED BY <1>1, <1>2, <1>3, <1>4, <1>5, <1>6, <1>7, <1>8, <1>9, <1>10, <1>11, <1>12, <1>13
        DEF Next, Cache

(* Whatever the unit, the cache and the bus do, and without any ordering   *)
(* of reads and write-backs: no beat of a write-back is lost, doubled or   *)
(* written to another line, and the bridge begins a line only when the     *)
(* queue of the unit has room for it.                                      *)
THEOREM WritePathInvariant == Spec => []WritePath
  BY InitWritePath, StepWritePath, PTL DEF Spec

(* A write burst that holds the slot of DRAM never waits for the unit: if  *)
(* its next beat is not there yet, the bridge is sending it and has room   *)
(* for the announcement.                                                   *)
THEOREM BurstsGoOn == Spec => []BurstNeverWaits
<1>1. WritePath => BurstNeverWaits
  <2> SUFFICES ASSUME WritePath, Writing, wr_data = <<>> PROVE NotFull(ff_evict_req)
    BY DEF BurstNeverWaits, Writing, NotEmpty
  <2>1. Lasts = 0 /\ Bursts # 0
    <3>1. Len(wr_data) = 0 /\ Len(wr_addr) \in 0..2
      BY Waiting DEF WritePath
    <3> QED BY <3>1 DEF Lasts, IsLast, Bursts
  <2>2. Sending
    BY <2>1 DEF WritePath, Counted
  <2> QED BY <2>2 DEF WritePath, Aligned
<1> QED BY <1>1, WritePathInvariant, PTL

-----------------------------------------------------------------------------
(* MVUSystem with its proofs, as Contract instantiates it.  (The boot of   *)
(* MVUTrustProofs is not used: its two parameters get any values.)         *)
System == INSTANCE MVUTrustProofs WITH
  OrderLine <- OrderTree, MaxFaults <- 0, MaxErrors <- 0, Together <- FALSE,
  faults <- 0, errors <- 0, data <- written, burst <- read_under_way,
  held <- held_or_leaving, CoreWaits <- TRUE, rg_init_count <- 0

(* The rules of the unit are the same rules in both.                       *)
LEMMA UnitRules == MVURule => System!MVURule
  BY DEF Rotate, System!Rotate, ReadReq, System!ReadReq, ZeroGroup, System!ZeroGroup, NoResp,
         System!NoResp, FifoDepth, System!FifoDepth, NotFull, System!NotFull,
         NotEmpty, System!NotEmpty, cacheFifos, System!cacheFifos, memFifos,
         System!memFifos, treeFifos, System!treeFifos, config, System!config, session,
         System!session, cursor, System!cursor, group, System!group, hashes,
         System!hashes, buffers, System!buffers, mvuRegs, System!mvuRegs, mvuVars,
         System!mvuVars, get_hash, System!get_hash, get_hash_or_zero,
         System!get_hash_or_zero, set_hash, System!set_hash, group_of,
         System!group_of, at_root, System!at_root, pending_after,
         System!pending_after, last_sibling, System!last_sibling, merged,
         System!merged, mismatch, System!mismatch, poisoned, System!poisoned,
         unverified, System!unverified, update_done, System!update_done, read_done,
         System!read_done, MVUReadRule, System!MVUReadRule, MVUWalkRule,
         System!MVUWalkRule, MVURule, System!MVURule, Levels, System!Levels, Pos,
         System!Pos, ProtectedLimit, System!ProtectedLimit, Addr, System!Addr,
         is_protected, System!is_protected, addr_to_leaf_index,
         System!addr_to_leaf_index, child_position, System!child_position,
         parent_index, System!parent_index, sibling_group_base,
         System!sibling_group_base, child_index, System!child_index, is_hw_level,
         System!is_hw_level, Slots, System!Slots, NodesOf, System!NodesOf, HwNode,
         System!HwNode, MemNode, System!MemNode, line_of, System!line_of, line_base,
         System!line_base, Line, System!Line, ProtectedLine, System!ProtectedLine,
         rl_start_update, System!rl_start_update, rl_forward_request,
         System!rl_forward_request, rl_accumulate, System!rl_accumulate,
         rl_compute_l0_parent, System!rl_compute_l0_parent, rl_fetch_siblings,
         System!rl_fetch_siblings, rl_collect_hcache_siblings,
         System!rl_collect_hcache_siblings, rl_wait_siblings, System!rl_wait_siblings,
         rl_compute_parent, System!rl_compute_parent, rl_check_parent,
         System!rl_check_parent, rl_update_node, System!rl_update_node,
         rl_wait_update_ack, System!rl_wait_update_ack, rl_propagate_up,
         System!rl_propagate_up, rl_verify_root, System!rl_verify_root, rl_complete,
         System!rl_complete, rl_forward_unprotected, System!rl_forward_unprotected,
         rl_forward_verified, System!rl_forward_verified

LEMMA ContractRules == System!MVURule => Contract!MVURule
  BY DEF Contract!Rotate, System!Rotate, Contract!ReadReq, System!ReadReq, Contract!ZeroGroup,
         System!ZeroGroup, Contract!NoResp, System!NoResp, Contract!FifoDepth,
         System!FifoDepth, Contract!NotFull, System!NotFull, Contract!NotEmpty,
         System!NotEmpty, Contract!cacheFifos, System!cacheFifos, Contract!memFifos,
         System!memFifos, Contract!treeFifos, System!treeFifos, Contract!config,
         System!config, Contract!session, System!session, Contract!cursor,
         System!cursor, Contract!group, System!group, Contract!hashes, System!hashes,
         Contract!buffers, System!buffers, Contract!mvuRegs, System!mvuRegs,
         Contract!mvuVars, System!mvuVars, Contract!get_hash, System!get_hash,
         Contract!get_hash_or_zero, System!get_hash_or_zero, Contract!set_hash,
         System!set_hash, Contract!group_of, System!group_of, Contract!at_root,
         System!at_root, Contract!pending_after, System!pending_after,
         Contract!last_sibling, System!last_sibling, Contract!merged, System!merged,
         Contract!mismatch, System!mismatch, Contract!poisoned, System!poisoned,
         Contract!unverified, System!unverified, Contract!update_done,
         System!update_done, Contract!read_done, System!read_done,
         Contract!MVUReadRule, System!MVUReadRule, Contract!MVUWalkRule,
         System!MVUWalkRule, Contract!MVURule, System!MVURule, Contract!Levels,
         System!Levels, Contract!Pos, System!Pos, Contract!ProtectedLimit,
         System!ProtectedLimit, Contract!Addr, System!Addr, Contract!is_protected,
         System!is_protected, Contract!addr_to_leaf_index, System!addr_to_leaf_index,
         Contract!child_position, System!child_position, Contract!parent_index,
         System!parent_index, Contract!sibling_group_base, System!sibling_group_base,
         Contract!child_index, System!child_index, Contract!is_hw_level,
         System!is_hw_level, Contract!Slots, System!Slots, Contract!NodesOf,
         System!NodesOf, Contract!HwNode, System!HwNode, Contract!MemNode,
         System!MemNode, Contract!line_of, System!line_of, Contract!line_base,
         System!line_base, Contract!Line, System!Line, Contract!ProtectedLine,
         System!ProtectedLine, Contract!rl_start_update, System!rl_start_update,
         Contract!rl_forward_request, System!rl_forward_request,
         Contract!rl_accumulate, System!rl_accumulate, Contract!rl_compute_l0_parent,
         System!rl_compute_l0_parent, Contract!rl_fetch_siblings,
         System!rl_fetch_siblings, Contract!rl_collect_hcache_siblings,
         System!rl_collect_hcache_siblings, Contract!rl_wait_siblings,
         System!rl_wait_siblings, Contract!rl_compute_parent,
         System!rl_compute_parent, Contract!rl_check_parent, System!rl_check_parent,
         Contract!rl_update_node, System!rl_update_node, Contract!rl_wait_update_ack,
         System!rl_wait_update_ack, Contract!rl_propagate_up, System!rl_propagate_up,
         Contract!rl_verify_root, System!rl_verify_root, Contract!rl_complete,
         System!rl_complete, Contract!rl_forward_unprotected,
         System!rl_forward_unprotected, Contract!rl_forward_verified,
         System!rl_forward_verified

(* The same words for the same things.                                     *)
LEMMA SameTerms ==
  /\ System!Pos = Pos /\ System!Addr = Addr /\ System!Line = Line
  /\ System!ProtectedLine = ProtectedLine /\ System!ReadReq = ReadReq
  /\ System!EvictReq = EvictReq
  /\ \A q : /\ System!Entries(q) = Entries(q)
            /\ System!NotFull(q) <=> NotFull(q)
            /\ System!NotEmpty(q) <=> NotEmpty(q)
  /\ \A a : /\ System!line_of(a) = line_of(a) /\ System!line_base(a) = line_base(a)
            /\ System!is_protected(a) <=> is_protected(a)
  /\ \A r, k : System!wrap(r, k) = wrap(r, k)
  /\ System!Unfolded = Announced
  /\ System!UnprotectedInFlight <=> UnprotectedInFlight
<1>1. /\ System!Pos = Pos /\ System!Addr = Addr /\ System!Line = Line
      /\ System!ReadReq = ReadReq /\ System!EvictReq = EvictReq
  BY DEF System!Pos, Pos, System!Addr, Addr, System!ProtectedLimit, ProtectedLimit,
         System!Line, Line, System!ReadReq, ReadReq, System!EvictReq, EvictReq
<1>2. \A q : /\ System!Entries(q) = Entries(q)
             /\ System!NotFull(q) <=> NotFull(q)
             /\ System!NotEmpty(q) <=> NotEmpty(q)
  BY DEF System!Entries, Entries, System!NotFull, NotFull, System!FifoDepth, FifoDepth,
         System!NotEmpty, NotEmpty
<1>3. \A a : /\ System!line_of(a) = line_of(a) /\ System!line_base(a) = line_base(a)
             /\ System!is_protected(a) <=> is_protected(a)
  BY DEF System!line_of, line_of, System!line_base, line_base, System!is_protected,
         is_protected, System!ProtectedLimit, ProtectedLimit
<1>4. System!ProtectedLine = ProtectedLine
  BY <1>1, <1>3 DEF System!ProtectedLine, ProtectedLine
<1>5. \A r, k : System!wrap(r, k) = wrap(r, k)
  BY <1>3 DEF System!wrap, wrap
<1>6. System!Unfolded = Announced
  BY <1>2, <1>3 DEF System!Unfolded, Announced, System!leaf_line, leaf_line
<1>7. System!UnprotectedInFlight <=> UnprotectedInFlight
  BY <1>2, <1>3 DEF System!UnprotectedInFlight, UnprotectedInFlight
<1> QED BY <1>1, <1>2, <1>3, <1>4, <1>5, <1>6, <1>7

(* What the modules instantiated assume of their constants holds of those  *)
(* they are given here; their theorems are cited with it.                  *)
LEMMA SystemAssumptions ==
  /\ Zero \in Word
  /\ \A g \in [System!Pos -> Word] : Hash(g) \in Word
  /\ Hash([k \in System!Pos |-> Zero]) = Zero
  /\ \A g \in [System!Pos -> Word], o \in System!Pos : Hash(System!Rotate(g, o)) = Hash(g)
  /\ \A g \in [System!Pos -> Word], k \in System!Pos, w \in Word :
       w # g[k] => Hash([g EXCEPT ![k] = w]) # Hash(g)
  /\ Invalid \notin Word /\ Invalid \notin System!ReadReq
  /\ EvictData \subseteq [System!Pos -> Word]
  /\ MaxOutstanding \in Nat \ {0} /\ 0 \in Nat /\ FALSE \in BOOLEAN /\ TRUE \in BOOLEAN
  /\ OrderTree \in BOOLEAN /\ OrderIO \in BOOLEAN
  /\ IoLine \subseteq System!Line \ System!ProtectedLine
  /\ Invalid \notin [req : System!ReadReq, beat : System!Pos]
<1>1. \A g \in [Pos -> Word], o \in Pos : System!Rotate(g, o) = Rotate(g, o)
  BY DEF System!Rotate, Rotate, System!Pos, Pos
<1>2. \A g \in [System!Pos -> Word], o \in System!Pos : Hash(System!Rotate(g, o)) = Hash(g)
  BY <1>1, SameTerms, HashRotate
<1> QED BY <1>2, SameTerms, SoCAssumption, WordAssumption, HashZero, HashOneWord,
           InvalidAssumption
    DEF Burst

(* Facts of MVUSystemProofs and MVUTrustProofs used below.                 *)
LEMMA PendingTold ==
  ASSUME System!IInv, rg_pending_req # Invalid
  PROVE rg_pending_req \in Entries(inflight)
<1>1. rg_pending_req \in System!Entries(inflight)
  BY System!PendingInFlight, SystemAssumptions, GeometryAssumption
<1> QED BY <1>1, SameTerms

LEMMA SystemStep ==
  ASSUME OrderIO, System!IInv, [System!Next]_(System!vars)
  PROVE System!IInv'
BY System!StepIInv, SystemAssumptions, GeometryAssumption

(* The read under way is where ReadPath has it.                            *)
LEMMA ReadUnderWay ==
  ASSUME ReadPath
  PROVE /\ read_under_way = Invalid <=>
             burst = Invalid /\ rd_addr = <<>> /\ rg_read_line_req = Invalid
        /\ rd_addr # <<>> => /\ read_under_way = [req |-> Head(rd_addr), beat |-> 0]
                             /\ Head(rd_addr) \in ReadReq /\ Tail(rd_addr) = <<>>
        /\ rg_read_line_req # Invalid => read_under_way = [req |-> rg_read_line_req, beat |-> 0]
        /\ read_under_way \in Burst \cup {Invalid}
<1>1. /\ rg_read_line_req \in ReadReq \cup {Invalid}
      /\ rd_addr \in Seq(ReadReq) /\ Len(rd_addr) <= 1
      /\ burst \in Burst \cup {Invalid}
      /\ rd_addr # <<>> => rg_read_line_req = Invalid
      /\ burst # Invalid => rg_read_line_req = Invalid /\ rd_addr = <<>>
  BY DEF ReadPath
<1>2. rd_addr # <<>> => Head(rd_addr) \in ReadReq /\ Tail(rd_addr) = <<>>
  <2> SUFFICES ASSUME rd_addr # <<>> PROVE Head(rd_addr) \in ReadReq /\ Tail(rd_addr) = <<>>
    OBVIOUS
  <2>1. /\ Tail(rd_addr) \in Seq(ReadReq) /\ Len(rd_addr) \in Nat /\ Len(rd_addr) >= 1
        /\ Len(Tail(rd_addr)) = Len(rd_addr) - 1 /\ Head(rd_addr) = rd_addr[1]
    BY <1>1, TailShift
  <2>2. Len(Tail(rd_addr)) = 0 /\ 1 \in 1..Len(rd_addr)
    BY <1>1, <2>1
  <2> QED BY <1>1, <2>1, <2>2, EmptySeq, ElementOfSeq
<1>3. \A r \in ReadReq : [req |-> r, beat |-> 0] \in Burst /\ [req |-> r, beat |-> 0] # Invalid
  BY Shape, SoCAssumption DEF Burst, Pos
<1> QED BY <1>1, <1>2, <1>3 DEF read_under_way

(* What MVUSystem does not see.                                            *)
LEMMA HeldRests == UNCHANGED <<held, ff_write_mem_request>> => UNCHANGED held_or_leaving
  BY DEF held_or_leaving, Entries

LEMMA ReadRests == UNCHANGED <<burst, rd_addr, rg_read_line_req>> => UNCHANGED read_under_way
  BY DEF read_under_way

LEMMA SystemRests ==
  UNCHANGED <<mvuVars, tree, inflight, got, written, read_under_way, held_or_leaving>> =>
    UNCHANGED System!vars
<1> USE DEF cacheFifos, memFifos, treeFifos, config, session, cursor, group, hashes, buffers,
            mvuRegs, mvuVars, System!cacheFifos, System!memFifos, System!treeFifos,
            System!config, System!session, System!cursor, System!group, System!hashes,
            System!buffers, System!mvuRegs, System!mvuVars
<1> QED BY DEF System!vars, System!memVars, System!cacheVars

(* The rules of the unit.                                                  *)
LEMMA UnitSeen == UnitStep(MVURule) => System!Next
<1> SUFFICES ASSUME UnitStep(MVURule) PROVE System!Next
  OBVIOUS
<1>1. System!MVURule
  BY UnitRules DEF UnitStep
<1>2. UNCHANGED <<held_or_leaving, read_under_way, written, tree, inflight, got>>
  BY HeldRests, ReadRests DEF UnitStep, port, cacheVars, bridge, busRead, store
<1> QED BY <1>1, <1>2 DEF System!Next, System!Unit, System!memVars, System!cacheVars

(* The request at the head of the write port is the only one there.        *)
LEMMA LeavingIs ==
  ASSUME WriteTypes
  PROVE held_or_leaving =
          IF ff_write_mem_request # <<>> /\ Evicting.len > 0 THEN held \cup {line_of(Evicting.addr)}
          ELSE held
<1>1. ff_write_mem_request \in Seq(WriteReq) /\ Len(ff_write_mem_request) <= 1
  BY DEF WriteTypes
<1>2. CASE ff_write_mem_request = <<>>
  BY <1>2 DEF held_or_leaving, Entries
<1>3. CASE ff_write_mem_request # <<>>
  <2>1. /\ Len(ff_write_mem_request) = 1 /\ DOMAIN ff_write_mem_request = 1..1
        /\ Evicting = ff_write_mem_request[1]
    <3>1. /\ Len(ff_write_mem_request) \in 0..2
          /\ DOMAIN ff_write_mem_request = 1..Len(ff_write_mem_request)
          /\ (ff_write_mem_request = <<>>) <=> (Len(ff_write_mem_request) = 0)
      BY <1>1, QueueOfTwo
    <3>2. Len(ff_write_mem_request) = 1
      BY <1>1, <1>3, <3>1
    <3>3. Head(ff_write_mem_request) = ff_write_mem_request[1]
      BY <1>1, <1>3, TailShift
    <3> QED BY <3>1, <3>2, <3>3 DEF Evicting
  <2>2. Entries(ff_write_mem_request) = {Evicting}
    BY <2>1 DEF Entries
  <2> QED BY <1>3, <2>2 DEF held_or_leaving
<1> QED BY <1>2, <1>3

-----------------------------------------------------------------------------
(* The cache's steps, as MVUSystem sees them.                              *)
LEMMA ReadSeen ==
  ASSUME IInv, OrderWrite, NEW req \in ReadReq, CacheRead(req)
  PROVE System!Next
<1> USE DEF memFifos, treeFifos, config, session, cursor, group, hashes, buffers, mvuRegs,
            System!memFifos, System!treeFifos, System!config, System!session,
            System!cursor, System!group, System!hashes, System!buffers, System!mvuRegs
<1>1. line_of(req.addr) \notin held_or_leaving
  BY DEF CacheRead, held_or_leaving, Unwritten
<1>2. UNCHANGED <<held_or_leaving, read_under_way, written, tree>>
  BY HeldRests, ReadRests DEF CacheRead, bridge, busRead, store
<1>3. System!CacheRead(req)
  <2>1. Announced \subseteq Unfolded
    BY DEF Unfolded
  <2> QED BY <1>1, <1>2, <2>1, SameTerms DEF CacheRead, System!CacheRead, System!memVars
<1> QED BY <1>3, SameTerms DEF System!Next, System!Environment

LEMMA EvictUnseen ==
  ASSUME IInv, NEW line \in Line, NEW d \in EvictData, CacheEvict(line, d)
  PROVE UNCHANGED System!vars
<1>1. /\ line \in held /\ ff_write_mem_request = <<>> /\ held' = held \ {line}
      /\ ff_write_mem_request' = <<[addr |-> line_base(line), len |-> Arity - 1, data |-> d]>>
      /\ UNCHANGED <<mvuVars, inflight, got, read_under_way, tree, written>>
  BY ReadRests DEF CacheEvict, bridge, busRead, store
<1>2. held_or_leaving = held
  BY <1>1 DEF held_or_leaving, Entries
<1>3. held_or_leaving' = held' \cup {line_of(line_base(line))}
  <2> DEFINE r == [addr |-> line_base(line), len |-> Arity - 1, data |-> d]
  <2>1. Entries(ff_write_mem_request)' = {r}
    BY <1>1 DEF Entries
  <2>2. r.len > 0 /\ r.addr = line_base(line)
    BY Shape
  <2> HIDE DEF r
  <2> QED BY <2>1, <2>2 DEF held_or_leaving
<1>4. line_of(line_base(line)) = line
  <2>1. 0 \in Pos /\ line_base(line) + 0 = line_base(line)
    BY Shape, LineCount DEF Pos, line_base
  <2> QED BY <2>1, WordOfLine
<1> QED BY <1>1, <1>2, <1>3, <1>4, SystemRests

LEMMA DropSeen ==
  ASSUME IInv, NEW line \in Line, CacheDrop(line)
  PROVE System!Next
<1>1. /\ line \in held /\ held' = held \ {line} /\ ff_write_mem_request' = ff_write_mem_request
      /\ UNCHANGED <<mvuVars, inflight, got, read_under_way, tree, written>>
  BY ReadRests DEF CacheDrop, bridge, busRead, store
<1>2. held_or_leaving' = held_or_leaving \ {line}
  <2>1. \A w \in Entries(ff_write_mem_request) : w.len > 0 => line_of(w.addr) # line
    BY <1>1 DEF IInv, LinesApart
  <2> QED BY <1>1, <2>1 DEF held_or_leaving, Entries
<1>3. line \in held_or_leaving
  BY <1>1 DEF held_or_leaving
<1>4. System!CacheDrop(line)
  <2> USE DEF cacheFifos, memFifos, treeFifos, config, session, cursor, group, hashes, buffers,
              mvuRegs, mvuVars, System!cacheFifos, System!memFifos, System!treeFifos,
              System!config, System!session, System!cursor, System!group, System!hashes,
              System!buffers, System!mvuRegs, System!mvuVars
  <2> QED BY <1>1, <1>2, <1>3 DEF System!CacheDrop, System!memVars
<1> QED BY <1>4, SameTerms DEF System!Next, System!Environment

LEMMA StoreUnseen ==
  ASSUME IInv, NEW a \in Addr, NEW w \in Word, IoStore(a, w)
  PROVE UNCHANGED System!vars
<1> DEFINE r == [addr |-> a, len |-> 0, data |-> [k \in Pos |-> w]]
<1>1. /\ ff_write_mem_request = <<>> /\ held' = held /\ ff_write_mem_request' = <<r>>
      /\ UNCHANGED <<mvuVars, inflight, got, read_under_way, tree, written>>
  BY ReadRests DEF IoStore, bridge, busRead, store
<1>2. held_or_leaving = held
  BY <1>1 DEF held_or_leaving, Entries
<1>3. held_or_leaving' = held'
  <2>1. Entries(ff_write_mem_request)' = {r}
    BY <1>1 DEF Entries
  <2>2. ~(r.len > 0)
    OBVIOUS
  <2> HIDE DEF r
  <2> QED BY <2>1, <2>2 DEF held_or_leaving
<1> QED BY <1>1, <1>2, <1>3, SystemRests

LEMMA TakeSeen ==
  ASSUME IInv, CacheTake
  PROVE System!Next
<1> USE DEF memFifos, treeFifos, config, session, cursor, group, hashes, buffers, mvuRegs,
            System!memFifos, System!treeFifos, System!config, System!session,
            System!cursor, System!group, System!hashes, System!buffers, System!mvuRegs
<1>1. /\ UNCHANGED <<read_under_way, written, tree, ff_write_mem_request>>
  BY ReadRests DEF CacheTake, bridge, busRead, store
<1> DEFINE resp == Head(ff_resp_to_cache)
           req == Head(inflight)
<1>2. IF resp.last
      THEN held_or_leaving' = IF line_of(req.addr) \in IoLine \/ resp.err THEN held_or_leaving
                              ELSE held_or_leaving \cup {line_of(req.addr)}
      ELSE held_or_leaving' = held_or_leaving
  <2>1. CASE resp.last
    <3>1. held' = IF line_of(req.addr) \in IoLine \/ resp.err THEN held
                  ELSE held \cup {line_of(req.addr)}
      BY <2>1 DEF CacheTake
    <3> QED BY <2>1, <3>1, <1>1 DEF held_or_leaving, Entries
  <2>2. CASE ~resp.last
    BY <2>2, <1>1 DEF CacheTake, held_or_leaving, Entries
  <2> QED BY <2>1, <2>2
<1>3. System!CacheTake
  <2>1. CASE resp.last
    BY <2>1, <1>1, <1>2, SameTerms DEF CacheTake, System!CacheTake, System!memVars
  <2>2. CASE ~resp.last
    BY <2>2, <1>1, <1>2, SameTerms DEF CacheTake, System!CacheTake, System!memVars
  <2> QED BY <2>1, <2>2
<1> QED BY <1>3 DEF System!Next, System!Environment

-----------------------------------------------------------------------------
(* The steps of the bridge, the fabric and DRAM, as MVUSystem sees them.   *)
LEMMA NothingUnderWay ==
  ASSUME System!IInv, ff_req_to_mem # <<>>
  PROVE read_under_way = Invalid /\ Head(ff_req_to_mem) \in ReadReq /\ Len(ff_req_to_mem) = 1
<1>1. System!MemPipe /\ System!TypeOK
  BY DEF System!IInv, System!Transfer
<1>2. System!PipeAsked
  BY <1>1 DEF System!MemPipe, System!PipeIdle, System!PipeBurst, System!PipeDrain
<1>3. read_under_way = Invalid /\ ff_req_to_mem = <<rg_pending_req>>
      /\ rg_pending_req # Invalid
  BY <1>2 DEF System!PipeAsked, System!Awaiting
<1>4. rg_pending_req \in ReadReq
  BY <1>1, <1>3, SameTerms DEF System!TypeOK, System!MVUTypeOK
<1> QED BY <1>3, <1>4

LEMMA RequestSeen ==
  ASSUME IInv, System!IInv, rl_handle_dmem_line_read_request
  PROVE System!Next
<1> USE DEF cacheFifos, treeFifos, config, session, cursor, group, hashes, buffers, mvuRegs,
            System!cacheFifos, System!treeFifos, System!config, System!session,
            System!cursor, System!group, System!hashes, System!buffers, System!mvuRegs
<1> DEFINE req == Head(ff_req_to_mem)
<1>1. ff_req_to_mem # <<>>
  BY DEF rl_handle_dmem_line_read_request, NotEmpty
<1>2. read_under_way = Invalid /\ req \in ReadReq /\ req # Invalid
  BY <1>1, NothingUnderWay, InvalidAssumption
<1>3. burst = Invalid /\ rd_addr = <<>> /\ rg_read_line_req = Invalid
  BY <1>2, ReadUnderWay DEF IInv
<1>4. read_under_way' = [req |-> req, beat |-> 0]
  <2>1. CASE being_written(req.addr)
    <3>1. rg_read_line_req' = req /\ rd_addr' = <<>> /\ burst' = Invalid
      BY <2>1, <1>3 DEF rl_handle_dmem_line_read_request
    <3> QED BY <3>1, <1>2 DEF read_under_way
  <2>2. CASE ~being_written(req.addr)
    <3>1. rd_addr' = Append(rd_addr, req) /\ burst' = Invalid
      BY <2>2, <1>3 DEF rl_handle_dmem_line_read_request
    <3>2. rd_addr' = <<req>>
      BY <3>1, <1>3
    <3> QED BY <3>1, <3>2 DEF read_under_way
  <2> QED BY <2>1, <2>2
<1>5. UNCHANGED <<held_or_leaving, written, tree, inflight, got>>
      /\ ff_req_to_mem' = Tail(ff_req_to_mem)
  BY HeldRests DEF rl_handle_dmem_line_read_request, cacheVars, store
<1>6. System!MemAccept
  BY <1>1, <1>2, <1>4, <1>5, SameTerms
  DEF System!MemAccept, System!cacheVars, rl_handle_dmem_line_read_request, NotEmpty
<1> QED BY <1>6 DEF System!Next, System!Environment

LEMMA DelayedUnseen ==
  ASSUME IInv, rl_handle_delayed_read
  PROVE UNCHANGED System!vars
<1>1. rd_addr = <<>> /\ burst = Invalid /\ read_under_way = [req |-> rg_read_line_req, beat |-> 0]
  BY ReadUnderWay DEF rl_handle_delayed_read, IInv, ReadPath
<1>2. rd_addr' = <<rg_read_line_req>> /\ burst' = Invalid
  BY <1>1 DEF rl_handle_delayed_read
<1>3. read_under_way' = read_under_way
  BY <1>1, <1>2 DEF read_under_way
<1> QED BY <1>3, HeldRests, SystemRests DEF rl_handle_delayed_read, cacheVars, store

LEMMA StartUnseen ==
  ASSUME IInv, rl_rd_xaction_master_to_slave
  PROVE UNCHANGED System!vars
<1>1. rd_addr # <<>> /\ burst' = [req |-> Head(rd_addr), beat |-> 0]
  BY DEF rl_rd_xaction_master_to_slave, NotEmpty
<1>2. read_under_way = [req |-> Head(rd_addr), beat |-> 0] /\ Head(rd_addr) \in ReadReq
  BY <1>1, ReadUnderWay DEF IInv
<1>3. burst' # Invalid
  BY <1>1, <1>2, Shape, SoCAssumption DEF Burst, Pos
<1>4. read_under_way' = read_under_way
  BY <1>1, <1>2, <1>3 DEF read_under_way
<1> QED BY <1>4, HeldRests, SystemRests DEF rl_rd_xaction_master_to_slave, cacheVars, store

(* A word of a line no write of which is under way is what the unit was    *)
(* told.                                                                   *)
LEMMA ToldIsThere ==
  ASSUME WritePath, NEW a \in Addr, line_of(a) \notin Unwritten
  PROVE dram[a] = written[a]
<1>1. WriteTypes /\ Counted /\ Aligned /\ Placed /\ Lands
  BY DEF WritePath
<1>2. ASSUME NEW i \in 1..Bursts PROVE line_of(burst_addr(i)) \in Unwritten
  <2>0. Len(wr_addr) \in 0..2 /\ DOMAIN wr_addr = 1..Len(wr_addr)
    BY <1>1, Waiting
  <2>1. CASE Writing /\ i = 1
    BY <2>1 DEF Writing, burst_addr, Unwritten
  <2>2. CASE Writing /\ i # 1
    <3>1. i - 1 \in DOMAIN wr_addr
      BY <2>0, <2>2 DEF Bursts
    <3>2. wr_addr[i - 1] \in Entries(wr_addr) /\ burst_addr(i) = wr_addr[i - 1].addr
      BY <2>2, <3>1 DEF Entries, burst_addr
    <3> QED BY <3>2 DEF Unwritten
  <2>3. CASE ~Writing
    <3>1. i \in DOMAIN wr_addr
      BY <2>0, <2>3 DEF Bursts
    <3>2. wr_addr[i] \in Entries(wr_addr) /\ burst_addr(i) = wr_addr[i].addr
      BY <2>3, <3>1 DEF Entries, burst_addr
    <3> QED BY <3>2 DEF Unwritten
  <2> QED BY <2>1, <2>2, <2>3
<1>3. ASSUME NEW k \in DOMAIN wr_data PROVE beat_addr(k) # a
  <2>1. line_of(beat_addr(k)) = line_of(burst_addr(burst_of(k)))
    BY <1>1 DEF Placed
  <2>2. burst_of(k) \in 1..Bursts
    BY <1>1, TwoBursts, Waiting
  <2> QED BY <2>1, <2>2, <1>2
<1>4. landing(a) = dram[a]
  BY <1>3 DEF landing, Over
<1>5. told(a) = written[a]
  <2> SUFFICES ASSUME Sending, a \in Evicting.addr..Evicting.addr + rg_burst_count - 1 PROVE FALSE
    BY DEF told
  <2>1. /\ ff_write_mem_request # <<>> /\ Evicting.len > 0
    BY <1>1 DEF Aligned
  <2>2. /\ Evicting \in Entries(ff_write_mem_request) /\ RequestOf(Evicting)
        /\ Evicting.addr \in Addr /\ Evicting.len \in {0, Arity - 1}
    BY <1>1, <2>1, EvictingType
  <2>3. Evicting.addr = line_base(line_of(Evicting.addr))
    BY <2>1, <2>2, Shape DEF RequestOf
  <2>4. a - Evicting.addr \in Pos /\ a = Evicting.addr + (a - Evicting.addr)
    <3>1. rg_burst_count \in 0..Arity-1 /\ a \in Int /\ Evicting.addr \in Int
      BY <1>1, <2>2, Shape DEF WriteTypes, Pos, Addr
    <3> QED BY <3>1, Shape DEF Pos
  <2>5. line_of(a) = line_of(Evicting.addr)
    <3> DEFINE c == a - Evicting.addr
    <3>1. c \in Pos /\ a = Evicting.addr + c
      BY <2>4
    <3> HIDE DEF c
    <3> QED BY <3>1, <2>2, <2>3, WordsFrom
  <2> QED BY <2>2, <2>5 DEF Unwritten
<1> QED BY <1>1, <1>4, <1>5 DEF Lands

(* A burst under way answers the pending read and has not gone past its    *)
(* end.                                                                    *)
LEMMA BeatUnderWay ==
  ASSUME ReadPath, System!IInv, burst # Invalid
  PROVE /\ burst \in Burst /\ rd_addr = <<>> /\ rg_read_line_req = Invalid
        /\ read_under_way = burst /\ burst.req \in Entries(inflight)
        /\ burst.beat # burst.req.len =>
             [burst EXCEPT !.beat = @ + 1] \in Burst /\ [burst EXCEPT !.beat = @ + 1] # Invalid
<1>1. burst \in Burst /\ rd_addr = <<>> /\ rg_read_line_req = Invalid /\ read_under_way = burst
  BY DEF ReadPath, read_under_way
<1>2. System!PipeBurst
  BY <1>1 DEF System!IInv, System!Transfer, System!MemPipe, System!PipeIdle, System!PipeAsked,
              System!PipeDrain
<1>3. burst.req = rg_pending_req /\ burst.beat <= burst.req.len /\ rg_pending_req # Invalid
  BY <1>1, <1>2 DEF System!PipeBurst, System!Awaiting
<1>4. burst.req \in Entries(inflight)
  BY <1>3, PendingTold
<1>5. ASSUME burst.beat # burst.req.len PROVE [burst EXCEPT !.beat = @ + 1] \in Burst
  <2>1. burst.req \in ReadReq /\ burst.beat \in Pos /\ burst.req.len \in {0, Arity - 1}
    BY <1>1 DEF Burst, ReadReq
  <2>2. burst.beat + 1 \in Pos
    BY <1>3, <1>5, <2>1, Shape DEF Pos
  <2> QED BY <1>1, <2>2 DEF Burst
<1> QED BY <1>1, <1>4, <1>5, SoCAssumption

LEMMA BeatSeen ==
  ASSUME IInv, System!IInv, rl_rd_resp_slave_to_master
  PROVE System!Next
<1> USE DEF cacheFifos, treeFifos, config, session, cursor, group, hashes, buffers, mvuRegs,
            System!cacheFifos, System!treeFifos, System!config, System!session,
            System!cursor, System!group, System!hashes, System!buffers, System!mvuRegs
<1> DEFINE last == burst.beat = burst.req.len
           a == wrap(burst.req, burst.beat)
<1>1. /\ burst # Invalid /\ burst \in Burst /\ rd_addr = <<>> /\ rg_read_line_req = Invalid
      /\ read_under_way = burst /\ burst.req \in Entries(inflight)
      /\ ~last => [burst EXCEPT !.beat = @ + 1] # Invalid
  BY BeatUnderWay DEF rl_rd_resp_slave_to_master, IInv
<1>5. line_of(burst.req.addr) \notin Unwritten
  BY <1>1 DEF IInv, LinesApart
<1>6. burst.req \in ReadReq /\ burst.beat \in Pos /\ burst.req.addr \in Addr
      /\ burst.req.len \in {0, Arity - 1}
  BY <1>1 DEF Burst, ReadReq
<1>7. a \in Addr /\ line_of(a) = line_of(burst.req.addr)
  <2> DEFINE p == ((burst.req.addr % Arity) + burst.beat) % Arity
  <2>1. p \in Pos
    <3>1. (burst.req.addr % Arity) + burst.beat \in Int /\ Arity \in Nat /\ Arity > 0
      BY <1>6, Shape, Division DEF Pos, Addr
    <3> HIDE DEF p
    <3> QED BY <3>1, Division DEF p, Pos
  <2>2. a = line_base(line_of(burst.req.addr)) + p
    BY DEF wrap
  <2>3. line_of(burst.req.addr) \in Line
    BY <1>6, LineOfAddr
  <2> HIDE DEF p
  <2> QED BY <2>1, <2>2, <2>3, WordOfLine
<1>8. dram[a] = written[a]
  BY <1>5, <1>7, ToldIsThere DEF IInv
<1>9. /\ NotFull(ff_resp_from_mem)
      /\ ff_resp_from_mem' = Append(ff_resp_from_mem, [data |-> dram[a], last |-> last, err |-> FALSE])
      /\ burst' = IF last THEN Invalid ELSE [burst EXCEPT !.beat = @ + 1]
      /\ UNCHANGED <<rd_addr, rg_read_line_req, written, tree, inflight, got, held,
                     ff_write_mem_request>>
  BY DEF rl_rd_resp_slave_to_master, bridge, cacheVars, store
<1>10. read_under_way' = IF last THEN Invalid ELSE [burst EXCEPT !.beat = @ + 1]
  <2>1. CASE last
    BY <2>1, <1>1, <1>9 DEF read_under_way
  <2>2. CASE ~last
    BY <2>2, <1>1, <1>9 DEF read_under_way
  <2> QED BY <2>1, <2>2
<1>11. UNCHANGED held_or_leaving
  BY <1>9, HeldRests
<1>12. System!MemBeat
  <2>1. System!wrap(burst.req, burst.beat) = a
    BY SameTerms
  <2> HIDE DEF a
  <2> QED BY <2>1, <1>1, <1>8, <1>9, <1>10, <1>11, SameTerms
      DEF System!MemBeat, System!cacheVars, rl_rd_resp_slave_to_master
<1> QED BY <1>12 DEF System!Next, System!Environment

-----------------------------------------------------------------------------
(* The write-back, as MVUSystem sees it: a line leaves the cache, and      *)
(* memory has it, with the last beat of its burst.                         *)
LEMMA WriteRequestSeen ==
  ASSUME IInv, rl_handle_dmem_write_request
  PROVE [System!Next]_(System!vars)
<1> USE DEF memFifos, treeFifos, config, session, cursor, group, hashes, buffers, mvuRegs,
            System!memFifos, System!treeFifos, System!config, System!session,
            System!cursor, System!group, System!hashes, System!buffers, System!mvuRegs
<1> DEFINE req == Evicting
           w == req.data[0]
<1>1. /\ ff_write_mem_request # <<>> /\ NotFull(ff_evict_req)
      /\ UNCHANGED <<held, inflight, got, tree, read_under_way>>
  BY ReadRests DEF rl_handle_dmem_write_request, NotEmpty, unit_ready, busRead, store
<1>2. WriteTypes
  BY DEF IInv, WritePath
<1>3. /\ req \in WriteReq /\ RequestOf(req) /\ req \in Entries(ff_write_mem_request)
      /\ req.addr \in Addr /\ req.data \in [Pos -> Word] /\ req.len \in {0, Arity - 1}
  BY <1>1, <1>2, EvictingType
<1>4. CASE req.len > 0
  <2>1. UNCHANGED <<ff_write_mem_request, ff_evict_req, written>>
    BY <1>4 DEF rl_handle_dmem_write_request, Evicting
  <2>2. UNCHANGED <<held_or_leaving, mvuVars>>
    BY <1>1, <2>1, HeldRests DEF rl_handle_dmem_write_request, mvuVars, cacheFifos
  <2> QED BY <1>1, <2>1, <2>2, SystemRests
<1>5. CASE req.len = 0
  <2>1. ma_write_mem_req_deq(req)
    BY <1>5 DEF rl_handle_dmem_write_request, Evicting
  <2>2. line_of(req.addr) \in IoLine /\ req.data = [k \in Pos |-> w] /\ w \in Word
    <3>1. 0 \in Pos /\ Arity - 1 # 0
      BY Shape DEF Pos
    <3> QED BY <1>3, <1>5, <3>1 DEF RequestOf
  <2>3. \A r \in Entries(inflight) : line_of(r.addr) # line_of(req.addr)
    BY <1>3 DEF IInv, LinesApart, Unwritten
  <2>4. written' = [written EXCEPT ![req.addr] = w]
    <3>1. written' = [a \in Addr |-> IF a = req.addr THEN w ELSE written[a]]
      BY <2>1, <1>5 DEF ma_write_mem_req_deq
    <3>2. written \in [Addr -> Word]
      BY <1>2 DEF WriteTypes
    <3> HIDE DEF req, w
    <3> QED BY <3>1, <3>2
  <2>5. ff_evict_req' = Append(ff_evict_req, [addr |-> req.addr, data |-> [k \in Pos |-> w]])
    BY <2>1, <2>2 DEF ma_write_mem_req_deq
  <2>6. UNCHANGED held_or_leaving
    <3>1. held_or_leaving = held
      BY <1>2, <1>5, LeavingIs
    <3>2. held_or_leaving' = held'
      BY <2>1 DEF ma_write_mem_req_deq, held_or_leaving, Entries
    <3> QED BY <1>1, <3>1, <3>2
  <2>7. UNCHANGED <<ff_req_from_cache, ff_resp_to_cache, memFifos, treeFifos, mvuRegs>>
    BY DEF rl_handle_dmem_write_request
  <2>8. System!IoStore(req.addr, w)
    <3> HIDE DEF req, w
    <3> QED BY <1>1, <2>2, <2>3, <2>4, <2>5, <2>6, <2>7, SameTerms DEF System!IoStore
  <2>9. \E a \in System!Addr, x \in Word : System!IoStore(a, x)
    BY <1>3, <2>2, <2>8, SameTerms
  <2> QED BY <2>9 DEF System!Next, System!Environment
<1> QED BY <1>3, <1>4, <1>5, Shape

LEMMA BurstWordSeen ==
  ASSUME IInv, rl_dmem_burst_write_data
  PROVE [System!Next]_(System!vars)
<1> USE DEF memFifos, treeFifos, config, session, cursor, group, hashes, buffers, mvuRegs,
            System!memFifos, System!treeFifos, System!config, System!session,
            System!cursor, System!group, System!hashes, System!buffers, System!mvuRegs
<1> DEFINE req == Evicting
           line == line_of(req.addr)
           last == rg_burst_count = Arity - 1
<1>1. /\ ff_write_mem_request # <<>> /\ NotFull(ff_evict_req) /\ Sending
      /\ UNCHANGED <<held, inflight, got, tree, read_under_way>>
  BY ReadRests
  DEF rl_dmem_burst_write_data, NotEmpty, unit_ready, busRead, store, Sending
<1>2. WriteTypes /\ Aligned
  BY DEF IInv, WritePath
<1>3. /\ req \in WriteReq /\ RequestOf(req) /\ req \in Entries(ff_write_mem_request)
      /\ req.addr \in Addr /\ req.data \in [Pos -> Word] /\ req.len \in {0, Arity - 1}
  BY <1>1, <1>2, EvictingType
<1>4. req.len > 0 /\ req.len # 0 /\ req.data \in EvictData /\ req.addr = line_base(line)
  <2>1. req.len > 0
    BY <1>1, <1>2 DEF Aligned
  <2> QED BY <2>1, <1>3, Shape DEF RequestOf
<1>5. line \in Line
  BY <1>3, LineOfAddr
<1>6. CASE ~last
  <2>1. UNCHANGED <<ff_write_mem_request, ff_evict_req, written>>
    BY <1>6 DEF rl_dmem_burst_write_data
  <2>2. UNCHANGED <<held_or_leaving, mvuVars>>
    BY <1>1, <2>1, HeldRests DEF rl_dmem_burst_write_data, mvuVars, cacheFifos
  <2> QED BY <1>1, <2>1, <2>2, SystemRests
<1>7. CASE last
  <2>1. ma_write_mem_req_deq(req)
    BY <1>7 DEF rl_dmem_burst_write_data, Evicting
  <2>2. line \in held_or_leaving /\ held_or_leaving' = held_or_leaving \ {line}
    <3>1. held_or_leaving = held \cup {line}
      BY <1>1, <1>2, <1>4, LeavingIs
    <3>2. held_or_leaving' = held'
      BY <2>1 DEF ma_write_mem_req_deq, held_or_leaving, Entries
    <3>3. line \notin held
      BY <1>3, <1>4 DEF IInv, LinesApart
    <3> QED BY <1>1, <3>1, <3>2, <3>3
  <2>3. line \in ProtectedLine => ~UnprotectedInFlight
    <3>1. is_protected(req.addr) <=> line \in ProtectedLine
      BY <1>3, ProtectedWord
    <3> QED BY <1>3, <3>1 DEF IInv, LinesApart
  <2>4. written' = [a \in Addr |-> IF line_of(a) = line THEN req.data[a % Arity] ELSE written[a]]
    BY <2>1, <1>4 DEF ma_write_mem_req_deq
  <2>5. ff_evict_req' = Append(ff_evict_req, [addr |-> line_base(line), data |-> req.data])
    BY <2>1, <1>4 DEF ma_write_mem_req_deq
  <2>6. UNCHANGED <<ff_req_from_cache, ff_resp_to_cache, memFifos, treeFifos, mvuRegs>>
    BY DEF rl_dmem_burst_write_data
  <2>7. System!CacheEvict(line, req.data)
    <3> HIDE DEF req, line
    <3> QED BY <1>1, <2>2, <2>3, <2>4, <2>5, <2>6, SameTerms DEF System!CacheEvict
  <2>8. \E l \in System!Line, d \in EvictData : System!CacheEvict(l, d)
    BY <1>4, <1>5, <2>7, SameTerms
  <2> QED BY <2>8 DEF System!Next, System!Environment
<1> QED BY <1>6, <1>7

(* The bus and DRAM at work on a write-back.                               *)
LEMMA BusUnseen ==
  ASSUME handle_dmem_line_write_resp \/ FabricWrite
  PROVE UNCHANGED System!vars
<1>1. UNCHANGED <<mvuVars, tree, inflight, got, written, held, ff_write_mem_request, burst,
                  rd_addr, rg_read_line_req>>
  BY DEF handle_dmem_line_write_resp, FabricWrite, rl_wr_xaction_master_to_slave,
         rl_wr_xaction_master_to_slave_data, rl_wr_resp_slave_to_master, WriteWord, cacheVars,
         bridge, busRead, store
<1> QED BY <1>1, HeldRests, ReadRests, SystemRests

LEMMA TreeReadSeen ==
  ASSUME TreeRead
  PROVE System!Next
<1> USE DEF cacheFifos, memFifos, config, session, cursor, group, hashes, buffers, mvuRegs,
            System!cacheFifos, System!memFifos, System!config, System!session,
            System!cursor, System!group, System!hashes, System!buffers, System!mvuRegs
<1>1. UNCHANGED <<held_or_leaving, read_under_way, written, tree, inflight, got>>
  BY HeldRests, ReadRests DEF TreeRead, port, cacheVars, bridge, busRead, store
<1>2. System!TreeRead
  BY <1>1, SameTerms DEF TreeRead, System!TreeRead, System!memVars, System!cacheVars
<1> QED BY <1>2 DEF System!Next, System!Environment

LEMMA TreeWriteSeen ==
  ASSUME TreeWrite
  PROVE System!Next
<1> USE DEF cacheFifos, memFifos, config, session, cursor, group, hashes, buffers, mvuRegs,
            System!cacheFifos, System!memFifos, System!config, System!session,
            System!cursor, System!group, System!hashes, System!buffers, System!mvuRegs
<1>1. UNCHANGED <<held_or_leaving, read_under_way, written, inflight, got>>
  BY HeldRests, ReadRests DEF TreeWrite, cacheVars, bridge, busRead
<1>2. System!TreeWrite
  BY <1>1, SameTerms DEF TreeWrite, System!TreeWrite, System!cacheVars
<1> QED BY <1>2 DEF System!Next, System!Environment

LEMMA NextSeen ==
  ASSUME OrderWrite, IInv, System!IInv, [Next]_vars
  PROVE [System!Next]_(System!vars)
<1>1. CASE UnitStep(MVURule)
  BY <1>1, UnitSeen
<1>2. CASE Cache
  BY <1>2, ReadSeen, EvictUnseen, DropSeen, StoreUnseen, TakeSeen DEF Cache
<1>3. CASE ReadBridge
  BY <1>3, RequestSeen, DelayedUnseen DEF ReadBridge
<1>4. CASE WriteBridge
  BY <1>4, WriteRequestSeen, BurstWordSeen, BusUnseen DEF WriteBridge
<1>5. CASE FabricWrite
  BY <1>5, BusUnseen
<1>6. CASE FabricRead
  BY <1>6, StartUnseen, BeatSeen DEF FabricRead
<1>7. CASE TreeRead \/ TreeWrite
  BY <1>7, TreeReadSeen, TreeWriteSeen
<1>8. CASE UNCHANGED vars
  BY <1>8, HeldRests, ReadRests, SystemRests DEF vars, port, cacheVars, bridge, busRead, store
<1> QED BY <1>1, <1>2, <1>3, <1>4, <1>5, <1>6, <1>7, <1>8 DEF Next

-----------------------------------------------------------------------------
(* The read path and the lines apart, step by step.                        *)
LEMMA StepReadPath ==
  ASSUME IInv, System!IInv, [Next]_vars
  PROVE ReadPath'
<1>1. /\ rg_read_line_req \in ReadReq \cup {Invalid}
      /\ rd_addr \in Seq(ReadReq) /\ Len(rd_addr) <= 1
      /\ burst \in Burst \cup {Invalid}
      /\ rd_addr # <<>> => rg_read_line_req = Invalid
      /\ burst # Invalid => rg_read_line_req = Invalid /\ rd_addr = <<>>
  BY DEF IInv, ReadPath
<1>2. \A r \in ReadReq : <<r>> \in Seq(ReadReq) /\ Len(<<r>>) = 1 /\ <<r>> # <<>>
  OBVIOUS
<1>3. CASE rl_handle_dmem_line_read_request
  <2> DEFINE req == Head(ff_req_to_mem)
  <2>1. read_under_way = Invalid /\ req \in ReadReq
    BY <1>3, NothingUnderWay DEF rl_handle_dmem_line_read_request, NotEmpty
  <2>2. burst = Invalid /\ rd_addr = <<>> /\ rg_read_line_req = Invalid
    BY <2>1, ReadUnderWay DEF IInv
  <2>3. /\ burst' = Invalid
        /\ \/ rg_read_line_req' = req /\ rd_addr' = <<>>
           \/ rg_read_line_req' = Invalid /\ rd_addr' = <<req>>
    BY <1>3, <2>2 DEF rl_handle_dmem_line_read_request
  <2> HIDE DEF req
  <2>4. CASE rg_read_line_req' = req /\ rd_addr' = <<>>
    <3>1. rd_addr' \in Seq(ReadReq) /\ Len(rd_addr') <= 1
      BY <1>1, <2>2, <2>4
    <3> QED BY <2>1, <2>3, <2>4, <3>1 DEF ReadPath
  <2>5. CASE rg_read_line_req' = Invalid /\ rd_addr' = <<req>>
    BY <1>2, <2>1, <2>3, <2>5 DEF ReadPath
  <2> QED BY <2>3, <2>4, <2>5
<1>4. CASE rl_handle_delayed_read
  <2>1. rd_addr = <<>> /\ burst = Invalid /\ rg_read_line_req \in ReadReq
    BY <1>1, <1>4 DEF rl_handle_delayed_read
  <2>2. burst' = Invalid /\ rg_read_line_req' = Invalid /\ rd_addr' = <<rg_read_line_req>>
    BY <1>4, <2>1 DEF rl_handle_delayed_read
  <2> QED BY <1>2, <2>1, <2>2 DEF ReadPath
<1>5. CASE rl_rd_xaction_master_to_slave
  <2>1. rd_addr # <<>> /\ Head(rd_addr) \in ReadReq /\ Tail(rd_addr) = <<>>
    BY <1>5, ReadUnderWay DEF IInv, rl_rd_xaction_master_to_slave, NotEmpty
  <2>2. [req |-> Head(rd_addr), beat |-> 0] \in Burst
    BY <2>1, Shape DEF Burst, Pos
  <2>3. /\ burst' = [req |-> Head(rd_addr), beat |-> 0] /\ rd_addr' = <<>>
        /\ rg_read_line_req' = Invalid
    BY <1>1, <1>5, <2>1 DEF rl_rd_xaction_master_to_slave, bridge
  <2> QED BY <2>2, <2>3 DEF ReadPath
<1>6. CASE rl_rd_resp_slave_to_master
  <2>1. /\ burst # Invalid /\ rg_read_line_req' = Invalid /\ rd_addr' = <<>>
        /\ burst' = IF burst.beat = burst.req.len THEN Invalid ELSE [burst EXCEPT !.beat = @ + 1]
    BY <1>1, <1>6 DEF rl_rd_resp_slave_to_master, bridge
  <2>2. burst' \in Burst \cup {Invalid}
    BY <2>1, BeatUnderWay DEF IInv
  <2> QED BY <2>1, <2>2 DEF ReadPath
<1>7. CASE UNCHANGED <<rg_read_line_req, rd_addr, burst>>
  BY <1>1, <1>7 DEF ReadPath
<1> QED
  <2> USE DEF port, cacheVars, bridge, busRead, store
  <2>1. CASE UnitStep(MVURule)
    BY <1>7, <2>1 DEF UnitStep
  <2>2. CASE Cache
    BY <1>7, <2>2 DEF Cache, CacheRead, CacheEvict, CacheDrop, IoStore, CacheTake
  <2>3. CASE ReadBridge
    BY <1>3, <1>4, <2>3 DEF ReadBridge
  <2>4. CASE WriteBridge
    BY <1>7, <2>4 DEF WriteBridge, rl_handle_dmem_write_request, rl_dmem_burst_write_data,
                      handle_dmem_line_write_resp
  <2>5. CASE FabricWrite
    BY <1>7, <2>5 DEF FabricWrite, rl_wr_xaction_master_to_slave,
                      rl_wr_xaction_master_to_slave_data, rl_wr_resp_slave_to_master
  <2>6. CASE FabricRead
    BY <1>5, <1>6, <2>6 DEF FabricRead
  <2>7. CASE TreeRead \/ TreeWrite \/ UNCHANGED vars
    BY <1>7, <2>7 DEF TreeRead, TreeWrite, vars
  <2> QED BY <2>1, <2>2, <2>3, <2>4, <2>5, <2>6, <2>7 DEF Next

LEMMA EntriesOfTail ==
  ASSUME NEW S, NEW q \in Seq(S), q # <<>>
  PROVE /\ Head(q) \in Entries(q) /\ Entries(Tail(q)) \subseteq Entries(q)
        /\ \A k \in DOMAIN Tail(q) : k + 1 \in DOMAIN q /\ Tail(q)[k] = q[k + 1]
<1>1. /\ Tail(q) \in Seq(S) /\ Len(q) \in Nat /\ Len(q) >= 1
      /\ Len(Tail(q)) = Len(q) - 1 /\ Head(q) = q[1]
      /\ \A k \in 1..Len(Tail(q)) : Tail(q)[k] = q[k + 1]
  BY TailShift
<1>2. DOMAIN q = 1..Len(q) /\ DOMAIN Tail(q) = 1..Len(Tail(q))
  BY <1>1, LenProperties
<1>3. \A k \in DOMAIN Tail(q) : k + 1 \in DOMAIN q /\ Tail(q)[k] = q[k + 1]
  BY <1>1, <1>2
<1> QED BY <1>1, <1>2, <1>3 DEF Entries

LEMMA EntriesOfAppend ==
  ASSUME NEW S, NEW q \in Seq(S), NEW x \in S
  PROVE /\ Entries(Append(q, x)) = Entries(q) \cup {x}
        /\ \A k \in DOMAIN Append(q, x) :
             \/ k \in DOMAIN q /\ Append(q, x)[k] = q[k]
             \/ k = Len(q) + 1 /\ Append(q, x)[k] = x
<1>1. /\ Append(q, x) \in Seq(S) /\ Len(q) \in Nat /\ Len(Append(q, x)) = Len(q) + 1
      /\ \A k \in 1..Len(q) : Append(q, x)[k] = q[k]
      /\ Append(q, x)[Len(q) + 1] = x
  BY AppendShift
<1>2. DOMAIN q = 1..Len(q) /\ DOMAIN Append(q, x) = 1..Len(Append(q, x))
  BY <1>1, LenProperties
<1>3. DOMAIN Append(q, x) = DOMAIN q \cup {Len(q) + 1}
  BY <1>1, <1>2
<1> QED BY <1>1, <1>2, <1>3 DEF Entries

(* A step after which the cache holds no more, reads no more and writes    *)
(* no more.                                                                *)
LEMMA LinesRest ==
  ASSUME LinesApart, inflight' = inflight, held' \subseteq held,
         Unwritten' \subseteq Unwritten,
         Entries(ff_write_mem_request)' \subseteq Entries(ff_write_mem_request)
  PROVE LinesApart'
<1>1. \A r \in Entries(inflight)' : line_of(r.addr) \notin (held \cup Unwritten)'
  BY DEF LinesApart, Entries
<1>2. UnprotectedInFlight' = UnprotectedInFlight
  BY DEF UnprotectedInFlight, Entries
<1>3. \A w \in Entries(ff_write_mem_request)' :
        /\ w.len > 0 => line_of(w.addr) \notin held'
        /\ is_protected(w.addr) => ~UnprotectedInFlight'
  BY <1>2 DEF LinesApart
<1> QED BY <1>1, <1>3 DEF LinesApart

(* A line that leaves the cache side is not one that is read.              *)
LEMMA LineLeaves ==
  ASSUME WriteTypes, LinesApart, inflight' = inflight, held' \subseteq held,
         ff_write_mem_request = <<>>, NEW r, ff_write_mem_request' = <<r>>,
         r.len > 0 => line_of(r.addr) \notin held',
         \A q \in Entries(inflight) : line_of(q.addr) # line_of(r.addr),
         is_protected(r.addr) => ~UnprotectedInFlight,
         UNCHANGED <<wr_addr, write_slot>>
  PROVE LinesApart'
<1>1. Entries(ff_write_mem_request)' = {r}
  BY DEF Entries
<1>2. Unwritten' \subseteq Unwritten \cup {line_of(r.addr)}
  BY <1>1 DEF Unwritten, Entries
<1>3. \A q \in Entries(inflight)' : line_of(q.addr) \notin (held \cup Unwritten)'
  BY <1>2 DEF LinesApart, Entries
<1>4. UnprotectedInFlight' = UnprotectedInFlight
  BY DEF UnprotectedInFlight, Entries
<1> QED BY <1>1, <1>3, <1>4 DEF LinesApart

LEMMA ReadApart ==
  ASSUME IInv, inflight \in Seq(ReadReq), OrderWrite, OrderIO, NEW req \in ReadReq, CacheRead(req)
  PROVE LinesApart'
<1>1. /\ inflight' = Append(inflight, req)
      /\ line_of(req.addr) \notin held /\ line_of(req.addr) \notin Unwritten
      /\ \A r \in Entries(inflight) : line_of(r.addr) # line_of(req.addr)
      /\ ~is_protected(req.addr) => Unfolded = {}
      /\ UNCHANGED <<held, ff_write_mem_request, wr_addr, write_slot>>
  BY DEF CacheRead, busWrite
<1>2. /\ Entries(inflight)' = Entries(inflight) \cup {req}
      /\ \A k \in DOMAIN inflight' :
           \/ k \in DOMAIN inflight /\ inflight'[k] = inflight[k]
           \/ k = Len(inflight) + 1 /\ inflight'[k] = req
  BY <1>1, EntriesOfAppend
<1>3. UNCHANGED <<Unwritten, Entries(ff_write_mem_request)>>
  BY <1>1 DEF Unwritten, Entries
<1>4. \A j, k \in DOMAIN inflight' : j # k => line_of(inflight'[j].addr) # line_of(inflight'[k].addr)
  BY <1>1, <1>2 DEF IInv, LinesApart, Entries
<1>5. \A r \in Entries(inflight)' : line_of(r.addr) \notin (held \cup Unwritten)'
  BY <1>1, <1>2, <1>3 DEF IInv, LinesApart
<1>6. ASSUME NEW w \in Entries(ff_write_mem_request), is_protected(w.addr)
      PROVE ~UnprotectedInFlight'
  <2>1. ~UnprotectedInFlight
    BY <1>6 DEF IInv, LinesApart
  <2>2. line_of(w.addr) \in Unwritten \cap ProtectedLine
    <3>1. w.addr \in Addr
      <4>1. PICK k \in DOMAIN ff_write_mem_request : w = ff_write_mem_request[k]
        BY DEF Entries
      <4>2. w \in WriteReq
        BY <4>1, LenProperties, ElementOfSeq DEF IInv, WritePath, WriteTypes
      <4> QED BY <4>2 DEF WriteReq
    <3> QED BY <1>6, <3>1, ProtectedWord DEF Unwritten
  <2>3. is_protected(req.addr)
    BY <1>1, <2>2 DEF Unfolded
  <2> QED BY <1>2, <2>1, <2>3 DEF UnprotectedInFlight
<1>7. \A w \in Entries(ff_write_mem_request)' :
        /\ w.len > 0 => line_of(w.addr) \notin held'
        /\ is_protected(w.addr) => ~UnprotectedInFlight'
  BY <1>1, <1>3, <1>6 DEF IInv, LinesApart
<1> QED BY <1>4, <1>5, <1>7 DEF LinesApart

LEMMA TakeApart ==
  ASSUME IInv, inflight \in Seq(ReadReq), CacheTake
  PROVE LinesApart'
<1> DEFINE resp == Head(ff_resp_to_cache)
           req == Head(inflight)
<1>1. UNCHANGED <<ff_write_mem_request, wr_addr, write_slot>>
  BY DEF CacheTake, busWrite
<1>2. UNCHANGED <<Unwritten, Entries(ff_write_mem_request)>>
  BY <1>1 DEF Unwritten, Entries
<1>3. CASE ~resp.last
  BY <1>2, <1>3, LinesRest DEF CacheTake, IInv
<1>4. CASE resp.last
  <2>1. /\ inflight # <<>> /\ inflight' = Tail(inflight)
        /\ held' \subseteq held \cup {line_of(req.addr)}
    BY <1>4 DEF CacheTake
  <2>2. /\ req \in Entries(inflight) /\ Entries(inflight)' \subseteq Entries(inflight)
        /\ \A k \in DOMAIN inflight' : k + 1 \in DOMAIN inflight /\ inflight'[k] = inflight[k + 1]
    BY <2>1, EntriesOfTail
  <2>3. DOMAIN inflight = 1..Len(inflight) /\ DOMAIN inflight' \subseteq Nat \ {0} /\ req = inflight[1]
        /\ 1 \in DOMAIN inflight
    <3>1. /\ Tail(inflight) \in Seq(ReadReq) /\ Len(inflight) \in Nat /\ Len(inflight) >= 1
          /\ Head(inflight) = inflight[1]
      BY <2>1, TailShift
    <3> QED BY <2>1, <3>1, LenProperties
  <2>4. \A j, k \in DOMAIN inflight' :
          j # k => line_of(inflight'[j].addr) # line_of(inflight'[k].addr)
    <3> TAKE j, k \in DOMAIN inflight'
    <3> HAVE j # k
    <3>1. j + 1 # k + 1 /\ j + 1 \in DOMAIN inflight /\ k + 1 \in DOMAIN inflight
      BY <2>2, <2>3
    <3> QED BY <2>2, <3>1 DEF IInv, LinesApart
  <2>5. ASSUME NEW r \in Entries(inflight)'
        PROVE line_of(r.addr) \notin (held \cup Unwritten)'
    <3>1. PICK k \in DOMAIN inflight' : r = inflight'[k]
      BY <2>5 DEF Entries
    <3>2. k + 1 # 1 /\ r = inflight[k + 1] /\ k + 1 \in DOMAIN inflight
      BY <2>2, <2>3, <3>1
    <3>3. line_of(r.addr) # line_of(req.addr)
      BY <2>3, <3>2 DEF IInv, LinesApart
    <3>4. line_of(r.addr) \notin held \cup Unwritten
      BY <2>2 DEF IInv, LinesApart
    <3> QED BY <1>2, <2>1, <3>3, <3>4
  <2>6. UnprotectedInFlight' => UnprotectedInFlight
    BY <2>2 DEF UnprotectedInFlight
  <2>7. \A w \in Entries(ff_write_mem_request)' :
          /\ w.len > 0 => line_of(w.addr) \notin held'
          /\ is_protected(w.addr) => ~UnprotectedInFlight'
    <3>1. line_of(req.addr) \notin Unwritten
      BY <2>2 DEF IInv, LinesApart
    <3>2. \A w \in Entries(ff_write_mem_request) : line_of(w.addr) # line_of(req.addr)
      BY <3>1 DEF Unwritten
    <3> QED BY <1>2, <2>1, <2>6, <3>2 DEF IInv, LinesApart
  <2> QED BY <2>4, <2>5, <2>7 DEF LinesApart
<1> QED BY <1>3, <1>4

(* A write-back on its way stays under way until DRAM has it.              *)
LEMMA WritesOnlyEnd ==
  ASSUME WritePath, WriteBridge \/ FabricWrite
  PROVE /\ Unwritten' \subseteq Unwritten
        /\ Entries(ff_write_mem_request)' \subseteq Entries(ff_write_mem_request)
<1>1. wr_addr \in Seq(Write) /\ ff_write_mem_request \in Seq(WriteReq)
  BY DEF WritePath, WriteTypes
<1>2. CASE rl_handle_dmem_write_request
  <2> DEFINE x == [addr |-> Evicting.addr, len |-> Evicting.len]
  <2>1. /\ ff_write_mem_request # <<>> /\ wr_addr' = Append(wr_addr, x)
        /\ ff_write_mem_request' = ff_write_mem_request \/ ff_write_mem_request' = <<>>
        /\ write_slot' = write_slot
    BY <1>2 DEF rl_handle_dmem_write_request, ma_write_mem_req_deq, NotEmpty, Evicting
  <2>2. Evicting \in Entries(ff_write_mem_request) /\ x \in Write /\ x.addr = Evicting.addr
    BY <2>1, EvictingType DEF WritePath, Write
  <2>3. Entries(wr_addr)' = Entries(wr_addr) \cup {x}
    BY <1>1, <2>1, <2>2, EntriesOfAppend
  <2>4. Entries(ff_write_mem_request)' \subseteq Entries(ff_write_mem_request)
    BY <2>1 DEF Entries
  <2> HIDE DEF x
  <2> QED BY <2>1, <2>2, <2>3, <2>4 DEF Unwritten
<1>3. CASE rl_dmem_burst_write_data
  <2>1. /\ ff_write_mem_request' = ff_write_mem_request \/ ff_write_mem_request' = <<>>
        /\ UNCHANGED <<write_slot, wr_addr>>
    BY <1>3 DEF rl_dmem_burst_write_data, ma_write_mem_req_deq
  <2>2. Entries(ff_write_mem_request)' \subseteq Entries(ff_write_mem_request)
        /\ Entries(wr_addr)' = Entries(wr_addr)
    BY <2>1 DEF Entries
  <2> QED BY <2>1, <2>2 DEF Unwritten
<1>4. CASE handle_dmem_line_write_resp
  BY <1>4 DEF handle_dmem_line_write_resp, cacheVars, Unwritten, Entries
<1>5. CASE rl_wr_xaction_master_to_slave
  <2> DEFINE aw == Head(wr_addr)
  <2>1. /\ wr_addr # <<>> /\ wr_addr' = Tail(wr_addr) /\ write_slot = Invalid
        /\ write_slot'.addr = aw.addr /\ UNCHANGED ff_write_mem_request
    BY <1>5 DEF rl_wr_xaction_master_to_slave, NotEmpty, cacheVars
  <2>2. aw \in Entries(wr_addr) /\ Entries(wr_addr)' \subseteq Entries(wr_addr)
    BY <1>1, <2>1, EntriesOfTail
  <2>3. Entries(ff_write_mem_request)' = Entries(ff_write_mem_request)
    BY <2>1 DEF Entries
  <2> HIDE DEF aw
  <2> QED BY <2>1, <2>2, <2>3 DEF Unwritten
<1>6. CASE rl_wr_xaction_master_to_slave_data
  <2>1. /\ write_slot # Invalid /\ UNCHANGED <<wr_addr, ff_write_mem_request>>
        /\ write_slot' = [write_slot EXCEPT !.beat = @ + 1, !.done = Head(wr_data).last]
    BY <1>6 DEF rl_wr_xaction_master_to_slave_data, cacheVars
  <2>2. write_slot'.addr = write_slot.addr
    BY <2>1 DEF WritePath, WriteTypes, WriteSlot
  <2> QED BY <2>1, <2>2 DEF Unwritten, Entries
<1>7. CASE rl_wr_resp_slave_to_master
  BY <1>7 DEF rl_wr_resp_slave_to_master, cacheVars, Unwritten, Entries
<1> QED BY <1>2, <1>3, <1>4, <1>5, <1>6, <1>7 DEF WriteBridge, FabricWrite

LEMMA StepLinesApart ==
  ASSUME OrderWrite, OrderIO, IInv, inflight \in Seq(ReadReq), [Next]_vars
  PROVE LinesApart'
<1>1. WritePath /\ WriteTypes /\ LinesApart
  BY DEF IInv, WritePath
<1>2. CASE UNCHANGED <<held, inflight, ff_write_mem_request, wr_addr, write_slot>>
  BY <1>1, <1>2, LinesRest DEF Unwritten, Entries
<1>3. ASSUME NEW line \in Line, NEW d \in EvictData, CacheEvict(line, d) PROVE LinesApart'
  <2> DEFINE r == [addr |-> line_base(line), len |-> Arity - 1, data |-> d]
  <2>1. line_base(line) \in Addr /\ line_of(line_base(line)) = line
    <3>1. 0 \in Pos /\ line_base(line) + 0 = line_base(line)
      BY Shape, LineCount DEF Pos, line_base
    <3> QED BY <3>1, WordOfLine
  <2>2. /\ line \in held /\ ff_write_mem_request = <<>> /\ held' = held \ {line}
        /\ (line \in ProtectedLine => ~UnprotectedInFlight) /\ inflight' = inflight
        /\ ff_write_mem_request' = <<r>> /\ UNCHANGED <<wr_addr, write_slot>>
    BY <1>3 DEF CacheEvict, busWrite
  <2>3. \A q \in Entries(inflight) : line_of(q.addr) # line
    BY <1>1, <2>2 DEF LinesApart
  <2>4. r.addr = line_base(line) /\ (is_protected(r.addr) => line \in ProtectedLine)
    BY <2>1, ProtectedWord
  <2> HIDE DEF r
  <2> QED BY <1>1, <2>1, <2>2, <2>3, <2>4, LineLeaves
<1>4. ASSUME NEW line \in Line, CacheDrop(line) PROVE LinesApart'
  BY <1>1, <1>4, LinesRest DEF CacheDrop, busWrite, Unwritten, Entries
<1>5. ASSUME NEW a \in Addr, NEW w \in Word, IoStore(a, w) PROVE LinesApart'
  <2> DEFINE r == [addr |-> a, len |-> 0, data |-> [k \in Pos |-> w]]
  <2>1. /\ line_of(a) \in IoLine /\ ff_write_mem_request = <<>>
        /\ \A q \in Entries(inflight) : line_of(q.addr) # line_of(a)
        /\ ff_write_mem_request' = <<r>> /\ UNCHANGED <<held, inflight, wr_addr, write_slot>>
    BY <1>5 DEF IoStore, busWrite
  <2>2. r.addr = a /\ r.len = 0 /\ ~is_protected(a)
    BY <2>1, ProtectedWord, SoCAssumption
  <2> HIDE DEF r
  <2> QED BY <1>1, <2>1, <2>2, LineLeaves
<1>6. CASE WriteBridge \/ FabricWrite
  <2>1. UNCHANGED <<held, inflight>>
    BY <1>6 DEF WriteBridge, FabricWrite, rl_handle_dmem_write_request, rl_dmem_burst_write_data,
      handle_dmem_line_write_resp, rl_wr_xaction_master_to_slave,
      rl_wr_xaction_master_to_slave_data, rl_wr_resp_slave_to_master, cacheVars
  <2> QED BY <1>1, <1>6, <2>1, WritesOnlyEnd, LinesRest
<1> QED
  <2> USE DEF port, cacheVars, busWrite
  <2>1. CASE UnitStep(MVURule)
    BY <1>2, <2>1 DEF UnitStep
  <2>2. CASE Cache
    BY <1>3, <1>4, <1>5, <2>2, ReadApart, TakeApart DEF Cache
  <2>3. CASE ReadBridge
    BY <1>2, <2>3 DEF ReadBridge, rl_handle_dmem_line_read_request, rl_handle_delayed_read
  <2>4. CASE FabricRead
    BY <1>2, <2>4 DEF FabricRead, rl_rd_xaction_master_to_slave, rl_rd_resp_slave_to_master
  <2>5. CASE TreeRead \/ TreeWrite \/ UNCHANGED vars
    BY <1>2, <2>5 DEF TreeRead, TreeWrite, vars
  <2> QED BY <1>6, <2>1, <2>2, <2>3, <2>4, <2>5 DEF Next

-----------------------------------------------------------------------------
(* Init.                                                                   *)
LEMMA InitIInv == Init => IInv
<1> SUFFICES ASSUME Init PROVE IInv
  OBVIOUS
<1>1. /\ held = {} /\ inflight = <<>> /\ ff_write_mem_request = <<>>
      /\ rg_read_line_req = Invalid /\ rd_addr = <<>> /\ burst = Invalid
  BY DEF Init
<1>2. ReadPath
  BY <1>1 DEF ReadPath
<1>3. LinesApart
  BY <1>1 DEF LinesApart, Entries
<1> QED BY <1>2, <1>3, InitWritePath DEF IInv

LEMMA SameNodes == System!HwNode = HwNode /\ System!MemNode = MemNode
<1>1. \A l : System!Slots(l) = Slots(l)
  BY DEF System!Slots, Slots
<1>2. System!HwNode = HwNode
  BY <1>1 DEF System!HwNode, HwNode
<1>3. System!MemNode = MemNode
  BY <1>1 DEF System!MemNode, MemNode
<1> QED BY <1>2, <1>3

LEMMA InitSeen == Init => System!Init
<1> SUFFICES ASSUME Init PROVE System!Init
  OBVIOUS
<1>1. System!ZeroGroup = ZeroGroup /\ System!NoResp = NoResp
  BY SameTerms DEF System!ZeroGroup, ZeroGroup, System!NoResp, NoResp
<1>2. System!MVUInit
  BY <1>1, SameTerms, SameNodes DEF Init, MVUInit, System!MVUInit
<1>3. read_under_way = Invalid /\ held_or_leaving = {}
  BY DEF Init, read_under_way, held_or_leaving, Entries
<1> QED BY <1>2, <1>3, SameTerms, SameNodes DEF Init, System!Init

-----------------------------------------------------------------------------
(* Contract, the instance that states the property, and System, the one    *)
(* that brings the proofs, are the same specification.                     *)
LEMMA ContractTerms ==
  /\ Contract!Pos = System!Pos /\ Contract!Addr = System!Addr /\ Contract!Line = System!Line
  /\ Contract!ProtectedLine = System!ProtectedLine /\ Contract!ReadReq = System!ReadReq
  /\ Contract!HwNode = System!HwNode /\ Contract!MemNode = System!MemNode
  /\ Contract!ZeroGroup = System!ZeroGroup /\ Contract!NoResp = System!NoResp
  /\ \A q : /\ Contract!Entries(q) = System!Entries(q)
            /\ Contract!NotFull(q) <=> System!NotFull(q)
            /\ Contract!NotEmpty(q) <=> System!NotEmpty(q)
  /\ \A a : /\ Contract!line_of(a) = System!line_of(a)
            /\ Contract!line_base(a) = System!line_base(a)
            /\ Contract!is_protected(a) <=> System!is_protected(a)
  /\ \A r, k : Contract!wrap(r, k) = System!wrap(r, k)
  /\ Contract!Unfolded = System!Unfolded
  /\ Contract!UnprotectedInFlight <=> System!UnprotectedInFlight
<1>1. /\ Contract!Pos = System!Pos /\ Contract!Addr = System!Addr /\ Contract!Line = System!Line
      /\ Contract!ReadReq = System!ReadReq
      /\ Contract!ZeroGroup = System!ZeroGroup /\ Contract!NoResp = System!NoResp
  BY DEF Contract!Pos, System!Pos, Contract!Addr, System!Addr, Contract!ProtectedLimit,
         System!ProtectedLimit, Contract!Line, System!Line, Contract!ReadReq, System!ReadReq,
         Contract!ZeroGroup, System!ZeroGroup, Contract!NoResp, System!NoResp
<1>2. \A q : /\ Contract!Entries(q) = System!Entries(q)
             /\ Contract!NotFull(q) <=> System!NotFull(q)
             /\ Contract!NotEmpty(q) <=> System!NotEmpty(q)
  BY DEF Contract!Entries, System!Entries, Contract!NotFull, System!NotFull,
         Contract!FifoDepth, System!FifoDepth, Contract!NotEmpty, System!NotEmpty
<1>3. \A a : /\ Contract!line_of(a) = System!line_of(a)
             /\ Contract!line_base(a) = System!line_base(a)
             /\ Contract!is_protected(a) <=> System!is_protected(a)
  BY DEF Contract!line_of, System!line_of, Contract!line_base, System!line_base,
         Contract!is_protected, System!is_protected, Contract!ProtectedLimit,
         System!ProtectedLimit
<1>4. Contract!ProtectedLine = System!ProtectedLine
  BY <1>1, <1>3 DEF Contract!ProtectedLine, System!ProtectedLine
<1>5. \A r, k : Contract!wrap(r, k) = System!wrap(r, k)
  BY <1>3 DEF Contract!wrap, System!wrap
<1>6. Contract!Unfolded = System!Unfolded
  BY <1>2, <1>3 DEF Contract!Unfolded, System!Unfolded, Contract!leaf_line, System!leaf_line
<1>7. Contract!UnprotectedInFlight <=> System!UnprotectedInFlight
  BY <1>2, <1>3 DEF Contract!UnprotectedInFlight, System!UnprotectedInFlight
<1>8. \A l : Contract!Slots(l) = System!Slots(l)
  BY DEF Contract!Slots, System!Slots
<1>9. Contract!HwNode = System!HwNode /\ Contract!MemNode = System!MemNode
  BY <1>8 DEF Contract!HwNode, System!HwNode, Contract!MemNode, System!MemNode
<1> QED BY <1>1, <1>2, <1>3, <1>4, <1>5, <1>6, <1>7, <1>9

LEMMA ContractStarts == System!Init => Contract!Init
  BY ContractTerms DEF System!Init, System!MVUInit, Contract!Init, Contract!MVUInit

LEMMA ContractRests == UNCHANGED System!vars => UNCHANGED Contract!vars
BY DEF Contract!vars, System!vars, Contract!memVars, System!memVars, Contract!cacheVars,
       System!cacheVars, Contract!mvuVars, System!mvuVars, Contract!mvuRegs, System!mvuRegs,
       Contract!cacheFifos, System!cacheFifos, Contract!memFifos, System!memFifos,
       Contract!treeFifos, System!treeFifos, Contract!config, System!config,
       Contract!session, System!session, Contract!cursor, System!cursor, Contract!group,
       System!group, Contract!hashes, System!hashes, Contract!buffers, System!buffers

(* Nothing is corrupted and no access fails: MaxFaults and MaxErrors are 0.*)
LEMMA ContractSteps == System!Next => Contract!Next
<1> SUFFICES ASSUME System!Next PROVE Contract!Next
  OBVIOUS
<1> USE DEF Contract!memVars, System!memVars, Contract!cacheVars, System!cacheVars,
       Contract!mvuVars, System!mvuVars, Contract!mvuRegs, System!mvuRegs,
       Contract!cacheFifos, System!cacheFifos, Contract!memFifos, System!memFifos,
       Contract!treeFifos, System!treeFifos, Contract!config, System!config,
       Contract!session, System!session, Contract!cursor, System!cursor, Contract!group,
       System!group, Contract!hashes, System!hashes, Contract!buffers, System!buffers
<1>1. CASE System!Unit
  BY <1>1, ContractRules DEF System!Unit, Contract!Unit, Contract!Next
<1>2. ASSUME NEW req \in System!ReadReq, System!CacheRead(req) PROVE Contract!CacheRead(req)
  BY <1>2, ContractTerms DEF System!CacheRead, Contract!CacheRead
<1>3. ASSUME NEW line \in System!Line, NEW d \in EvictData, System!CacheEvict(line, d)
      PROVE Contract!CacheEvict(line, d)
  BY <1>3, ContractTerms DEF System!CacheEvict, Contract!CacheEvict
<1>4. ASSUME NEW line \in System!Line, System!CacheDrop(line) PROVE Contract!CacheDrop(line)
  BY <1>4 DEF System!CacheDrop, Contract!CacheDrop
<1>5. ASSUME NEW a \in System!Addr, NEW w \in Word, System!IoStore(a, w)
      PROVE Contract!IoStore(a, w)
  BY <1>5, ContractTerms DEF System!IoStore, Contract!IoStore
<1>6. System!CacheTake => Contract!CacheTake
  BY ContractTerms DEF System!CacheTake, Contract!CacheTake
<1>7. System!MemAccept => Contract!MemAccept
  BY ContractTerms DEF System!MemAccept, Contract!MemAccept
<1>8. System!MemBeat => Contract!MemBeat
  BY ContractTerms DEF System!MemBeat, Contract!MemBeat
<1>9. System!TreeRead => Contract!TreeRead
  BY ContractTerms DEF System!TreeRead, Contract!TreeRead
<1>10. System!TreeWrite => Contract!TreeWrite
  BY ContractTerms DEF System!TreeWrite, Contract!TreeWrite
<1>11. /\ \A a \in System!Addr, w \in Word : ~System!FaultData(a, w)
       /\ \A n \in System!MemNode, w \in Word : ~System!FaultNode(n, w)
       /\ \A junk : ~System!BeatFails(junk) /\ ~System!GroupReadFails(junk)
       /\ ~System!NodeWriteFails
  BY DEF System!FaultData, System!FaultNode, System!BeatFails, System!GroupReadFails,
         System!NodeWriteFails, System!BusError
<1>12. CASE System!Environment
  BY <1>2, <1>3, <1>4, <1>5, <1>6, <1>7, <1>8, <1>9, <1>10, <1>11, <1>12, ContractTerms
  DEF System!Environment, Contract!Environment, Contract!Next
<1> QED BY <1>1, <1>12 DEF System!Next

-----------------------------------------------------------------------------
(* The invariant of the bus and that of MVUSystem, which hold together.    *)
LEMMA SystemStarts == System!Init => System!IInv
BY System!InitIInv, SystemAssumptions, GeometryAssumption

LEMMA StepTogether ==
  ASSUME OrderWrite, OrderIO, IInv, System!IInv, [Next]_vars
  PROVE IInv' /\ System!IInv' /\ [System!Next]_(System!vars)
<1>1. [System!Next]_(System!vars)
  BY NextSeen
<1>2. System!IInv'
  BY <1>1, SystemStep
<1>3. inflight \in Seq(ReadReq)
  BY SameTerms DEF System!IInv, System!TypeOK
<1>4. WritePath'
  BY StepWritePath DEF IInv
<1> QED BY <1>1, <1>2, <1>3, <1>4, StepReadPath, StepLinesApart DEF IInv

(* What arrives in memory, where the read under way is and which lines are *)
(* apart, with the invariant of the unit and its environment.              *)
THEOREM Invariant == OrderWrite /\ OrderIO => (Spec => [](IInv /\ System!IInv))
<1> SUFFICES ASSUME OrderWrite, OrderIO PROVE Spec => [](IInv /\ System!IInv)
  OBVIOUS
<1>1. Init => IInv /\ System!IInv
  BY InitIInv, InitSeen, SystemStarts
<1>2. (IInv /\ System!IInv) /\ [Next]_vars => (IInv /\ System!IInv)'
  BY StepTogether
<1> QED BY <1>1, <1>2, PTL DEF Spec

LEMMA SystemKept == OrderWrite /\ OrderIO => (Spec => System!Spec)
<1> SUFFICES ASSUME OrderWrite, OrderIO PROVE Spec => System!Spec
  OBVIOUS
<1>1. (IInv /\ System!IInv) /\ [Next]_vars => [System!Next]_(System!vars)
  BY StepTogether
<1> QED BY <1>1, InitSeen, Invariant, PTL DEF Spec, System!Spec

(* A write-back that goes out beat by beat and is announced to the unit    *)
(* with its last beat, reads the bridge delays, and the slots of DRAM that *)
(* the cache shares with tree memory show the unit the environment of      *)
(* MVUSystem, when the cache side orders reads and write-backs.            *)
THEOREM ContractImplementation == OrderWrite /\ OrderIO => (Spec => ContractKept)
<1> SUFFICES ASSUME OrderWrite, OrderIO PROVE Spec => ContractKept
  OBVIOUS
<1>1. [System!Next]_(System!vars) => [Contract!Next]_(Contract!vars)
  BY ContractSteps, ContractRests
<1> QED BY <1>1, ContractStarts, SystemKept, PTL
        DEF ContractKept, Contract!Spec, System!Spec

(* So the promises of the unit hold of the system: memory nobody corrupted *)
(* never raises the error, and a beat of a read is the word the unit was   *)
(* last told of, at its place in the wrap burst and with its mark.         *)
THEOREM NeverAFault ==
  OrderWrite /\ OrderTree /\ OrderIO => (Spec => []ReadsNeverFault)
<1> SUFFICES ASSUME OrderWrite, OrderTree, OrderIO PROVE Spec => []ReadsNeverFault
  OBVIOUS
<1>1. System!NoFalseAlarm => ReadsNeverFault
  BY SameTerms DEF System!NoFalseAlarm, System!Honest, ReadsNeverFault
<1>2. System!Spec => []System!NoFalseAlarm
  BY System!NeverFalseAlarm, SystemAssumptions, GeometryAssumption
<1> QED BY <1>1, <1>2, SystemKept, PTL

(* The beat the cache takes next, in the terms of this system.             *)
DeliveredTrue ==
  ff_resp_to_cache # <<>> =>
    LET resp == Head(ff_resp_to_cache) IN
    /\ inflight # <<>>
    /\ resp.last = (got = Head(inflight).len)
    /\ ~resp.err /\ resp.data = written[wrap(Head(inflight), got)]

(* A write-back that was sent and not yet announced is not read, so a read *)
(* never finds a line half written.                                        *)
THEOREM ReadsAreTrue ==
  OrderWrite /\ OrderTree /\ OrderIO => (Spec => []DeliveredTrue)
<1> SUFFICES ASSUME OrderWrite, OrderTree, OrderIO PROVE Spec => []DeliveredTrue
  OBVIOUS
<1>1. ASSUME System!DeliveredCorrect, System!NoFalseAlarm, System!IInv PROVE DeliveredTrue
  <2> SUFFICES ASSUME ff_resp_to_cache # <<>>
               PROVE LET resp == Head(ff_resp_to_cache) IN
                     /\ inflight # <<>>
                     /\ resp.last = (got = Head(inflight).len)
                     /\ ~resp.err /\ resp.data = written[wrap(Head(inflight), got)]
    BY DEF DeliveredTrue
  <2>1. ff_resp_to_cache \in Seq(System!ReadResp)
    BY <1>1 DEF System!IInv, System!TypeOK, System!MVUTypeOK
  <2>2. Head(ff_resp_to_cache) \in Entries(ff_resp_to_cache)
    BY <2>1, EntriesOfTail
  <2>3. ~Head(ff_resp_to_cache).err
    BY <1>1, <2>2, SameTerms DEF System!NoFalseAlarm, System!Honest
  <2> QED BY <1>1, <2>3, SameTerms DEF System!DeliveredCorrect
<1>2. System!Spec => []System!NoFalseAlarm
  BY System!NeverFalseAlarm, SystemAssumptions, GeometryAssumption
<1>3. System!OneFault
  BY DEF System!OneFault
<1>4. System!Spec => []System!DeliveredCorrect
  BY <1>3, System!ReadsTrue, SystemAssumptions, GeometryAssumption
<1> QED BY <1>1, <1>2, <1>4, SystemKept, Invariant, PTL

(* No register, queue or word of memory leaves its range; the bridge never *)
(* counts past the line, a burst never past its end.                       *)
THEOREM TypeCorrect == OrderWrite /\ OrderIO => (Spec => []TypeOK)
<1> SUFFICES ASSUME OrderWrite, OrderIO PROVE Spec => []TypeOK
  OBVIOUS
<1>1. ASSUME IInv, System!IInv PROVE TypeOK
  <2>1. System!TypeOK /\ WriteTypes /\ ReadPath
    BY <1>1 DEF IInv, System!IInv, WritePath
  <2>2. MVUTypeOK
    <3>1. /\ System!ReadResp = ReadResp /\ System!TreeNodeReq = TreeNodeReq
          /\ System!TreeNodeWrite = TreeNodeWrite /\ System!VerifyState = VerifyState
          /\ System!Levels = Levels
      BY DEF System!ReadResp, ReadResp, System!TreeNodeReq, TreeNodeReq, System!TreeNodeWrite,
             TreeNodeWrite, System!VerifyState, VerifyState, System!Levels, Levels
    <3> QED BY <2>1, <3>1, SameTerms, SameNodes DEF System!TypeOK, System!MVUTypeOK, MVUTypeOK,
          System!FifoDepth, FifoDepth
  <2>3. held \subseteq Line /\ inflight \in Seq(ReadReq) /\ got \in Pos /\ tree \in [MemNode -> Word]
    BY <2>1, SameTerms, SameNodes DEF System!TypeOK, held_or_leaving
  <2> QED BY <2>1, <2>2, <2>3 DEF TypeOK, WriteTypes, ReadPath
<1> QED BY <1>1, Invariant, PTL
=============================================================================
