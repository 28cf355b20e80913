-------------------------- MODULE MVUTrustProofs --------------------------
(***************************************************************************)
(* MVUTrustInv holds, one part after the other on top of IInv: Delivery,   *)
(* Lines and Beats (whatever fires next, the beats that wait for the cache *)
(* are those of the oldest reads, in order and complete, the beats of a    *)
(* line agree on err, and what is read or evicted is what the cache        *)
(* wrote), then Tree (the tree speaks for what the cache wrote).  With     *)
(* them the promises of the unit: lines poisoned whole, no false alarm,    *)
(* and what the cache is given without err is what it wrote.               *)
(*                                                                         *)
(* Then the boot (MVUBoot): a core that leaves the protected region alone  *)
(* until tree memory is initialized never meets what memory held at        *)
(* power-up.  Until then the unit only passes unprotected reads, and from  *)
(* then on memory and tree are those of a system that started with zeros,  *)
(* so the invariants above take over.                                      *)
(***************************************************************************)
EXTENDS MVUTrustInv, MVUBoot, MVUSystemProofs

USE DEF cacheFifos, memFifos, treeFifos, config, session, cursor, group, hashes,
        buffers, mvuRegs, mvuVars, memVars, cacheVars, vars

(* Where the queued beats belong when one more is queued.                  *)
LEMMA PlaceAppend ==
  ASSUME ff_resp_to_cache \in Seq(ReadResp), Len(ff_resp_to_cache) < 2,
         NEW x \in ReadResp, ff_resp_to_cache' = Append(ff_resp_to_cache, x),
         got' = got
  PROVE  /\ \A k \in DOMAIN ff_resp_to_cache : PlaceOf(k)' = PlaceOf(k)
         /\ \A k : k = Len(ff_resp_to_cache) + 1 => PlaceOf(k)' = NextPlace
         /\ NextPlace' = After(NextPlace, x)
<1> DEFINE q == ff_resp_to_cache
<1>1. Len(q) \in {0, 1} /\ Len(q') = Len(q) + 1 /\ DOMAIN q = 1..Len(q)
  <2>1. Len(q) \in Nat /\ DOMAIN q = 1..Len(q)
    BY LenProperties
  <2>2. Len(q') = Len(q) + 1
    BY AppendShift
  <2> QED BY <2>1, <2>2
<1>2. q'[Len(q) + 1] = x /\ \A k \in 1..Len(q) : q'[k] = q[k]
  BY AppendShift
<1>3. q = <<>> <=> Len(q) = 0
  BY EmptySeq
<1>4. q' # <<>>
  BY <1>1
<1>5. FirstPlace' = FirstPlace
  BY DEF FirstPlace
<1>6. CASE Len(q) = 0
  <2>1. q'[1] = x /\ Len(q') = 1
    BY <1>1, <1>2, <1>6
  <2>2. NextPlace = FirstPlace
    BY <1>3, <1>6 DEF NextPlace
  <2>3. NextPlace' = SecondPlace' /\ SecondPlace' = After(FirstPlace, x)
    BY <1>4, <1>5, <2>1 DEF NextPlace, SecondPlace, After
  <2>4. PlaceOf(1)' = FirstPlace
    BY <1>5 DEF PlaceOf
  <2>5. \A k \in DOMAIN q : PlaceOf(k)' = PlaceOf(k)
    BY <1>1, <1>6
  <2>6. \A k : k = Len(q) + 1 => PlaceOf(k)' = NextPlace
    BY <1>6, <2>2, <2>4
  <2> QED BY <2>2, <2>3, <2>5, <2>6
<1>7. CASE Len(q) = 1
  <2>1. q'[1] = q[1] /\ q'[2] = x /\ Len(q') = 2
    BY <1>1, <1>2, <1>7
  <2>2. NextPlace = SecondPlace
    BY <1>3, <1>7 DEF NextPlace
  <2>3. SecondPlace' = SecondPlace
    BY <1>5, <2>1 DEF SecondPlace, After
  <2>4. NextPlace' = After(SecondPlace, x)
    BY <1>4, <2>1, <2>3 DEF NextPlace, After
  <2>5. PlaceOf(1)' = PlaceOf(1) /\ PlaceOf(2)' = SecondPlace
    BY <1>5, <2>3 DEF PlaceOf
  <2>6. \A k \in DOMAIN q : PlaceOf(k)' = PlaceOf(k)
    BY <1>1, <1>7, <2>5
  <2>7. \A k : k = Len(q) + 1 => PlaceOf(k)' = NextPlace
    BY <1>7, <2>2, <2>5
  <2> QED BY <2>2, <2>4, <2>6, <2>7
<1> QED
  BY <1>1, <1>6, <1>7

(* And when the cache takes the first: after a last beat the second read   *)
(* becomes the first.                                                      *)
Shifted(place, taken) ==
  IF taken.last THEN [read |-> place.read - 1, beat |-> place.beat] ELSE place
LEMMA PlaceTake ==
  ASSUME ff_resp_to_cache \in Seq(ReadResp), ff_resp_to_cache # <<>>,
         Len(ff_resp_to_cache) <= 2, got \in Nat,
         ff_resp_to_cache' = Tail(ff_resp_to_cache),
         got' = IF Head(ff_resp_to_cache).last THEN 0 ELSE got + 1
  PROVE  /\ \A k \in DOMAIN ff_resp_to_cache' :
              PlaceOf(k)' = Shifted(PlaceOf(k + 1), Head(ff_resp_to_cache))
         /\ NextPlace' = Shifted(NextPlace, Head(ff_resp_to_cache))
<1> DEFINE q == ff_resp_to_cache
           x == Head(ff_resp_to_cache)
<1>1. /\ Len(q) \in {1, 2} /\ q[1] = x /\ q' \in Seq(ReadResp) /\ Len(q') = Len(q) - 1
      /\ \A k \in 1..Len(q') : q'[k] = q[k + 1]
  <2>1. /\ Len(q) \in Nat /\ Len(q) >= 1 /\ q[1] = x /\ q' \in Seq(ReadResp)
        /\ Len(q') = Len(q) - 1
    BY TailShift
  <2>2. \A k \in 1..Len(q') : q'[k] = q[k + 1]
    BY TailShift
  <2> QED BY <2>1, <2>2
<1>2. DOMAIN q' = 1..Len(q')
  BY <1>1, LenProperties
<1>3. q' = <<>> <=> Len(q') = 0
  BY <1>1, EmptySeq
<1>4. FirstPlace' = Shifted(SecondPlace, x)
  BY <1>1 DEF FirstPlace, SecondPlace, After, Shifted
<1>5. CASE Len(q) = 1
  <2>1. q' = <<>> /\ DOMAIN q' = {}
    BY <1>1, <1>2, <1>3, <1>5
  <2>2. NextPlace = SecondPlace /\ NextPlace' = FirstPlace'
    BY <1>5, <2>1 DEF NextPlace
  <2> QED BY <1>4, <2>1, <2>2
<1>6. CASE Len(q) = 2
  <2>1. Len(q') = 1 /\ q' # <<>> /\ DOMAIN q' = {1} /\ q'[1] = q[2]
    <3>1. Len(q') = 1 /\ q'[1] = q[1 + 1]
      <4> DEFINE n == Len(q')
      <4>1. n = 1 BY <1>1, <1>6
      <4> HIDE DEF n
      <4>2. 1 \in 1..n BY <4>1
      <4> HIDE DEF q
      <4> QED BY <1>1, <4>1, <4>2 DEF n
    <3>2. DOMAIN q' = 1..1 /\ q' # <<>>
      BY <1>2, <1>3, <3>1
    <3> QED BY <3>1, <3>2
  <2>2. NextPlace = After(SecondPlace, q[2]) /\ NextPlace' = SecondPlace'
    BY <1>6, <2>1 DEF NextPlace
  <2>3. SecondPlace' = After(Shifted(SecondPlace, x), q[2])
    BY <1>4, <2>1 DEF SecondPlace, After
  <2>4. After(Shifted(SecondPlace, x), q[2]) = Shifted(After(SecondPlace, q[2]), x)
    BY <1>1 DEF SecondPlace, FirstPlace, After, Shifted
  <2>5. PlaceOf(1)' = FirstPlace' /\ PlaceOf(1 + 1) = SecondPlace
    BY DEF PlaceOf
  <2> QED BY <1>4, <2>1, <2>2, <2>3, <2>4, <2>5
<1> QED
  BY <1>1, <1>5, <1>6

(* Places are numbers, and a beat is never marked last in the middle of    *)
(* what has been sent.                                                     *)
LEMMA PlaceNat ==
  ASSUME got \in Nat
  PROVE  /\ FirstPlace.read = 1 /\ FirstPlace.beat = got
         /\ SecondPlace.read \in 1..2 /\ SecondPlace.beat \in Nat
         /\ \A k : PlaceOf(k).read \in 1..2 /\ PlaceOf(k).beat \in Nat
         /\ NextPlace.read \in Nat /\ NextPlace.beat \in Nat
<1>1. FirstPlace.read = 1 /\ FirstPlace.beat = got
  BY DEF FirstPlace
<1>2. SecondPlace.read \in 1..2 /\ SecondPlace.beat \in Nat
  BY <1>1 DEF SecondPlace, After
<1>3. NextPlace.read \in Nat /\ NextPlace.beat \in Nat
  BY <1>1, <1>2 DEF NextPlace, After
<1> QED
  BY <1>1, <1>2, <1>3 DEF PlaceOf

LEMMA QueuedLineComplete ==
  ASSUME ff_resp_to_cache \in Seq(ReadResp), Len(ff_resp_to_cache) <= 2, got \in Nat,
         NextPlace.beat = 0
  PROVE  \A k \in DOMAIN ff_resp_to_cache :
           k = Len(ff_resp_to_cache) => ff_resp_to_cache[k].last
<1> DEFINE q == ff_resp_to_cache
<1>1. Len(q) \in 0..2 /\ DOMAIN q = 1..Len(q) /\ (q = <<>> <=> Len(q) = 0)
  <2>1. Len(q) \in Nat /\ DOMAIN q = 1..Len(q)
    BY LenProperties
  <2> QED BY <2>1, EmptySeq
<1>2. CASE Len(q) = 1
  <2>1. NextPlace = After(FirstPlace, q[1])
    BY <1>1, <1>2 DEF NextPlace, SecondPlace
  <2> QED BY <1>1, <1>2, <2>1, PlaceNat DEF After
<1>3. CASE Len(q) = 2
  <2>1. NextPlace = After(SecondPlace, q[2])
    BY <1>1, <1>3 DEF NextPlace
  <2> QED BY <1>1, <1>3, <2>1, PlaceNat DEF After
<1> QED
  BY <1>1, <1>2, <1>3
-----------------------------------------------------------------------------
(* What Sent depends on.                                                   *)
LEMMA SentFrame ==
  ASSUME UNCHANGED <<rg_state, rg_forward_beat, rg_pending_req, rg_from_protected,
                     ff_resp_from_mem, burst>>
  PROVE  Sent' = Sent
  BY DEF Sent, Drawn

(* A verification, an update and an idle unit have sent nothing.           *)
NothingSent == rg_state # "FORWARD_TO_CACHE" /\ (rg_from_protected \/ rg_pending_req = Invalid)
LEMMA SentNothing == ASSUME NothingSent PROVE Sent = 0
  BY DEF NothingSent, Sent

(* An unprotected read is pending only while the unit is idle.             *)
LEMMA UnprotectedIdle ==
  ASSUME IInv, rg_pending_req # Invalid, ~rg_from_protected
  PROVE  rg_state = "IDLE"
<1>1. TypeOK /\ Session
  BY DEF IInv, Control
<1>2. rg_from_protected \in BOOLEAN /\ rg_is_update \in BOOLEAN
  BY <1>1 DEF TypeOK, MVUTypeOK
<1> QED
  BY <1>1, <1>2 DEF Session, Resting

(* The rules that queue no beat for the cache keep the place in the read.  *)
LEMMA SentUnit ==
  ASSUME IInv, Unit, ~rl_forward_unprotected, ~rl_forward_verified
  PROVE  Sent' = Sent /\ UNCHANGED <<ff_resp_to_cache, inflight, got, errors>>
<1>1. TypeOK /\ Session /\ Buffered /\ MemPipe
  BY DEF IInv, Control, Transfer
<1>2. rg_from_protected \in BOOLEAN /\ rg_is_update \in BOOLEAN
  BY <1>1 DEF TypeOK, MVUTypeOK
<1>3. UNCHANGED <<inflight, got, errors>>
  BY DEF Unit
<1>4. ASSUME UnitStep(rl_start_update) PROVE Sent' = Sent /\ UNCHANGED ff_resp_to_cache
  <2> rl_start_update /\ UNCHANGED burst BY <1>4 DEF UnitStep
  <2>1. UNCHANGED <<ff_resp_to_cache, ff_resp_from_mem, rg_pending_req, rg_from_protected,
                    rg_forward_beat>>
    BY DEF rl_start_update
  <2>2. CASE is_protected(Head(ff_evict_req).addr)
    <3>1. rg_pending_req = Invalid
      BY <2>2, UpdateStartsAlone
    <3>2. rg_state # "FORWARD_TO_CACHE" /\ rg_state' # "FORWARD_TO_CACHE"
      BY DEF rl_start_update
    <3> QED BY <2>1, <3>1, <3>2 DEF Sent
  <2>3. CASE ~is_protected(Head(ff_evict_req).addr)
    <3>1. UNCHANGED rg_state
      BY <2>3 DEF rl_start_update
    <3> QED BY <2>1, <3>1, SentFrame
  <2> QED BY <2>2, <2>3
<1>5. ASSUME UnitStep(rl_forward_request) PROVE Sent' = Sent /\ UNCHANGED ff_resp_to_cache
  <2>1. /\ rg_state = "IDLE" /\ rg_pending_req = Invalid
        /\ rg_state' \in {"IDLE", "ACCUMULATING"}
        /\ UNCHANGED <<ff_resp_to_cache, ff_resp_from_mem, burst>>
    BY <1>5 DEF rl_forward_request, UnitStep
  <2>2. burst = Invalid /\ ff_resp_from_mem = <<>>
    BY <1>1, <2>1 DEF MemPipe, PipeIdle, PipeAsked, PipeBurst, PipeDrain, Awaiting
  <2>3. Drawn' = 0
    BY <2>1, <2>2 DEF Drawn
  <2> QED BY <2>1, <2>3 DEF Sent
<1>6. ASSUME UnitStep(rl_accumulate) PROVE Sent' = Sent /\ UNCHANGED ff_resp_to_cache
  <2>1. /\ rg_state = "ACCUMULATING" /\ rg_from_protected
        /\ rg_state' \in {"ACCUMULATING", "COMPUTE_L0_PARENT"}
        /\ UNCHANGED <<ff_resp_to_cache, rg_from_protected>>
    BY <1>6, AccumulateEffect
  <2> QED BY <2>1 DEF Sent
<1>7. ASSUME \/ UnitStep(rl_compute_l0_parent) \/ UnitStep(rl_fetch_siblings)
             \/ UnitStep(rl_collect_hcache_siblings) \/ UnitStep(rl_wait_siblings)
             \/ UnitStep(rl_compute_parent) \/ UnitStep(rl_check_parent)
             \/ UnitStep(rl_update_node) \/ UnitStep(rl_wait_update_ack)
             \/ UnitStep(rl_propagate_up) \/ UnitStep(rl_verify_root)
      PROVE Sent' = Sent /\ UNCHANGED ff_resp_to_cache
  <2>1. /\ UNCHANGED <<ff_resp_to_cache, session>>
        /\ rg_state \notin {"IDLE", "ACCUMULATING", "FORWARD_TO_CACHE"}
        /\ rg_state' \notin {"IDLE", "ACCUMULATING", "FORWARD_TO_CACHE"}
    BY <1>7, WalkRuleFrame
  <2>2. NothingSent
    BY <1>1, <1>2, <2>1 DEF NothingSent, Session, Resting
  <2>3. NothingSent'
    BY <2>1, <2>2 DEF NothingSent
  <2> QED BY <2>1, <2>2, <2>3 DEF NothingSent, Sent
<1>8. ASSUME UnitStep(rl_complete) PROVE Sent' = Sent /\ UNCHANGED ff_resp_to_cache
  <2>1. /\ UNCHANGED <<ff_resp_to_cache, buffers>>
        /\ rg_state = "COMPLETE" /\ rg_pending_req' = Invalid
        /\ rg_state' = IF rg_is_update THEN "IDLE" ELSE "FORWARD_TO_CACHE"
    BY <1>8, CompleteFrame
  <2>2. NothingSent /\ rg_forward_beat = 0
    BY <1>1, <1>2, <2>1 DEF NothingSent, Session, Resting, Buffered
  <2> QED BY <2>1, <2>2 DEF NothingSent, Sent
<1> QED
  BY UnitSteps, <1>3, <1>4, <1>5, <1>6, <1>7, <1>8 DEF UnitStep

(* A beat that arrives from memory has not been sent.                      *)
LEMMA DrawnArrives ==
  ASSUME IInv, burst # Invalid,
         NEW resp \in ReadResp, ff_resp_from_mem' = Append(ff_resp_from_mem, resp),
         burst' = IF burst.beat = burst.req.len THEN Invalid ELSE [burst EXCEPT !.beat = @ + 1],
         UNCHANGED rg_pending_req
  PROVE  Drawn' = Drawn
<1> DEFINE q == ff_resp_from_mem
<1>1. TypeOK /\ MemPipe
  BY DEF IInv, Transfer
<1>2. PipeBurst
  BY <1>1 DEF MemPipe, PipeIdle, PipeAsked, PipeDrain
<1>3. burst \in [req : ReadReq, beat : Pos] /\ q \in Seq(ReadResp) /\ burst.req = rg_pending_req
  BY <1>1, <1>2 DEF TypeOK, MVUTypeOK, PipeBurst
<1>4. Len(q') = Len(q) + 1 /\ Len(q) \in Nat /\ q' # <<>>
  <2>1. Len(q') = Len(q) + 1 /\ Len(q) \in Nat
    BY <1>3, AppendShift
  <2> QED BY <2>1, <1>3
<1>5. burst.beat \in Int /\ burst.req.len \in Int
  BY <1>3, Shape DEF Pos, ReadReq
<1>6. CASE burst.beat = burst.req.len
  BY <1>3, <1>4, <1>5, <1>6 DEF Drawn
<1>7. CASE burst.beat # burst.req.len
  <2>1. burst' = [burst EXCEPT !.beat = @ + 1]
    BY <1>7
  <2>2. burst'.beat = burst.beat + 1 /\ burst'.req = burst.req
    BY <1>3, <2>1
  <2>3. burst' # Invalid
    <3>1. burst.beat + 1 \in Pos
      <4>1. burst.beat <= burst.req.len /\ burst.req.len <= Arity - 1 /\ burst.beat >= 0
        BY <1>2, <1>3, Shape DEF PipeBurst, ReadReq, Pos
      <4> QED BY <1>5, <1>7, <4>1, Shape DEF Pos
    <3> QED BY <1>3, <2>1, <3>1, InvalidApart
  <2> QED BY <1>4, <1>5, <2>2, <2>3 DEF Drawn
<1> QED
  BY <1>6, <1>7

(* The surroundings send nothing.                                          *)
LEMMA SentEnvironment ==
  ASSUME IInv, Environment
  PROVE  Sent' = Sent
<1>1. TypeOK /\ MemPipe
  BY DEF IInv, Transfer
<1>2. UNCHANGED mvuRegs
  BY EnvironmentFrame
<1>3. ASSUME Drawn' = Drawn PROVE Sent' = Sent
  BY <1>2, <1>3 DEF Sent
<1>4. CASE MemAccept
  <2>1. /\ burst = Invalid /\ ff_req_to_mem # <<>> /\ UNCHANGED ff_resp_from_mem
        /\ burst' = [req |-> Head(ff_req_to_mem), beat |-> 0]
    BY <1>4 DEF MemAccept, NotEmpty
  <2>2. PipeAsked
    BY <1>1, <2>1 DEF MemPipe, PipeIdle, PipeBurst, PipeDrain
  <2>3. Head(ff_req_to_mem) \in ReadReq /\ ff_resp_from_mem = <<>>
    BY <1>1, <2>2 DEF PipeAsked, Awaiting, TypeOK, MVUTypeOK
  <2>4. burst' # Invalid
    <3>1. 0 \in Pos BY Shape DEF Pos
    <3> QED BY <2>1, <2>3, <3>1, InvalidApart
  <2>5. Drawn' = 0 - Len(ff_resp_from_mem) /\ Drawn = 0
    BY <2>1, <2>3, <2>4 DEF Drawn
  <2>6. Len(ff_resp_from_mem) = 0
    BY <2>3
  <2> QED BY <1>3, <2>5, <2>6
<1>5. CASE MemBeat
  <2> DEFINE resp == [data |-> data[wrap(burst.req, burst.beat)],
                      last |-> burst.beat = burst.req.len, err |-> FALSE]
  <2>1. /\ burst # Invalid /\ ff_resp_from_mem' = Append(ff_resp_from_mem, resp)
        /\ burst' = IF burst.beat = burst.req.len THEN Invalid
                    ELSE [burst EXCEPT !.beat = @ + 1]
        /\ UNCHANGED rg_pending_req
    BY <1>5 DEF MemBeat
  <2>2. resp \in ReadResp
    <3>1. burst.req \in ReadReq /\ burst.beat \in Nat
      BY <1>1, <2>1, Shape DEF TypeOK, Pos
    <3>2. wrap(burst.req, burst.beat) \in Addr
      BY <3>1, WrapIsAddr
    <3>3. data[wrap(burst.req, burst.beat)] \in Word
      BY <1>1, <3>2 DEF TypeOK
    <3> QED BY <3>3 DEF ReadResp
  <2> HIDE DEF resp
  <2> QED BY <1>3, <2>1, <2>2, DrawnArrives
<1>6. ASSUME NEW junk \in Word, BeatFails(junk) PROVE Sent' = Sent
  <2> DEFINE resp == [data |-> junk, last |-> burst.beat = burst.req.len, err |-> TRUE]
  <2>1. /\ burst # Invalid /\ ff_resp_from_mem' = Append(ff_resp_from_mem, resp)
        /\ burst' = IF burst.beat = burst.req.len THEN Invalid
                    ELSE [burst EXCEPT !.beat = @ + 1]
        /\ UNCHANGED rg_pending_req
    BY <1>6 DEF BeatFails
  <2>2. resp \in ReadResp
    BY DEF ReadResp
  <2> HIDE DEF resp
  <2> QED BY <1>3, <2>1, <2>2, DrawnArrives
<1>7. ASSUME UNCHANGED <<ff_resp_from_mem, burst>> PROVE Sent' = Sent
  BY <1>2, <1>7, SentFrame
<1>8. \A req \in ReadReq : CacheRead(req) => UNCHANGED <<ff_resp_from_mem, burst>>
  BY DEF CacheRead
<1>9. \A line \in Line, d \in EvictData :
        CacheEvict(line, d) => UNCHANGED <<ff_resp_from_mem, burst>>
  BY DEF CacheEvict
<1>10. \A line \in Line : CacheDrop(line) => UNCHANGED <<ff_resp_from_mem, burst>>
  BY DEF CacheDrop
<1>11. \A a \in Addr, w \in Word :
         IoStore(a, w) \/ FaultData(a, w) => UNCHANGED <<ff_resp_from_mem, burst>>
  BY DEF IoStore, FaultData
<1>12. CacheTake \/ TreeRead \/ TreeWrite => UNCHANGED <<ff_resp_from_mem, burst>>
  BY DEF CacheTake, TreeRead, TreeWrite
<1>13. \A m \in MemNode, w \in Word : FaultNode(m, w) => UNCHANGED <<ff_resp_from_mem, burst>>
  BY DEF FaultNode
<1>14. (\E junk \in [Pos -> Word] : GroupReadFails(junk)) \/ NodeWriteFails
         => UNCHANGED <<ff_resp_from_mem, burst>>
  BY DEF GroupReadFails, NodeWriteFails
<1> QED
  BY <1>4, <1>5, <1>6, <1>7, <1>8, <1>9, <1>10, <1>11, <1>12, <1>13, <1>14 DEF Environment
-----------------------------------------------------------------------------
(* The read the unit works on is in flight.                                *)
LEMMA ActiveRead ==
  ASSUME IInv, Active
  PROVE  /\ Answered \in Nat /\ Answered + 1 \in DOMAIN inflight
         /\ inflight[Answered + 1] \in ReadReq
<1>1. TypeOK /\ InFlight
  BY DEF IInv, Transfer
<1>2. Answered \in Nat /\ Taken = Answered + 1
  BY LastBeatsNat DEF Answered, Taken
<1>3. Len(inflight) = Taken + Len(ff_req_from_cache)
  BY <1>1 DEF InFlight, Tracks
<1>4. Len(ff_req_from_cache) \in Nat /\ inflight \in Seq(ReadReq)
  BY <1>1 DEF TypeOK, MVUTypeOK
<1>5. DOMAIN inflight = 1..Len(inflight) /\ Len(inflight) \in Nat
  BY <1>4, LenProperties
<1> HIDE DEF Taken, Answered
<1>6. Answered + 1 \in DOMAIN inflight
  BY <1>2, <1>3, <1>4, <1>5
<1> QED
  BY <1>2, <1>4, <1>6

(* A step that moves no beat and no read.                                  *)
LEMMA InOrderFrame ==
  ASSUME InOrder, UNCHANGED <<ff_resp_to_cache, inflight, got>>, Sent' = Sent,
         rg_state' = "FORWARD_TO_CACHE" =>
           rg_state = "FORWARD_TO_CACHE" \/ inflight[Answered + 1].len = Arity - 1
  PROVE  InOrder'
<1>1. UNCHANGED <<FirstPlace, SecondPlace, NextPlace>>
  BY DEF FirstPlace, SecondPlace, NextPlace, After
<1>2. Answered' = Answered
  BY DEF Answered, LastBeats, IsLast
<1>3. \A k : PlaceOf(k)' = PlaceOf(k)
  BY <1>1 DEF PlaceOf
<1> QED
  BY <1>1, <1>2, <1>3 DEF InOrder, LastWhere

(* A beat goes to the cache at its place in the read.                      *)
LEMMA InOrderSend ==
  ASSUME IInv, InOrder, NEW x \in ReadResp, NotFull(ff_resp_to_cache), Active,
         ff_resp_to_cache' = Append(ff_resp_to_cache, x), UNCHANGED <<inflight, got>>,
         x.last <=> Sent = inflight[Answered + 1].len,
         Sent' = IF x.last THEN 0 ELSE Sent + 1,
         rg_state' = "FORWARD_TO_CACHE" => rg_state = "FORWARD_TO_CACHE" /\ ~x.last
  PROVE  InOrder'
<1> DEFINE q == ff_resp_to_cache
<1>1. q \in Seq(ReadResp) /\ Len(q) < 2
  BY DEF IInv, TypeOK, MVUTypeOK, NotFull, FifoDepth
<1>2. Answered' = Answered + (IF x.last THEN 1 ELSE 0)
  BY <1>1, LastBeatsAppend DEF Answered
<1>3. Answered \in Nat /\ Answered + 1 \in DOMAIN inflight
  BY ActiveRead
<1>4. NextPlace = [read |-> Answered + 1, beat |-> Sent]
  BY DEF InOrder
<1>5. /\ \A k \in DOMAIN q : PlaceOf(k)' = PlaceOf(k)
      /\ \A k : k = Len(q) + 1 => PlaceOf(k)' = NextPlace
      /\ NextPlace' = After(NextPlace, x)
  BY <1>1, PlaceAppend
<1> HIDE DEF Answered, Sent
<1>6. NextPlace' = [read |-> Answered' + 1, beat |-> Sent']
  BY <1>2, <1>3, <1>4, <1>5 DEF After
<1>7. /\ Len(q) \in Nat /\ DOMAIN q = 1..Len(q) /\ DOMAIN q' = 1..(Len(q) + 1)
      /\ q'[Len(q) + 1] = x /\ \A k \in DOMAIN q : q'[k] = q[k]
  <2>1. /\ Len(q) \in Nat /\ Len(q') = Len(q) + 1 /\ q' \in Seq(ReadResp)
        /\ q'[Len(q) + 1] = x /\ \A k \in 1..Len(q) : q'[k] = q[k]
    BY <1>1, AppendShift
  <2>2. DOMAIN q = 1..Len(q) /\ DOMAIN q' = 1..Len(q')
    BY <1>1, <2>1, LenProperties
  <2> QED BY <2>1, <2>2
<1>8. ASSUME NEW k \in DOMAIN q'
      PROVE  PlaceOf(k)'.read \in DOMAIN inflight /\ LastWhere(k)'
  <2>1. CASE k \in DOMAIN q
    <3>1. PlaceOf(k).read \in DOMAIN inflight /\ LastWhere(k)
      BY <2>1 DEF InOrder
    <3> QED BY <1>5, <1>7, <2>1, <3>1 DEF LastWhere
  <2>2. CASE k = Len(q) + 1
    <3>1. PlaceOf(k)' = [read |-> Answered + 1, beat |-> Sent] /\ q'[k] = x
      BY <1>4, <1>5, <1>7, <2>2
    <3>2. PlaceOf(k)'.read = Answered + 1 /\ PlaceOf(k)'.beat = Sent
      BY <3>1
    <3> QED BY <1>3, <3>1, <3>2 DEF LastWhere
  <2> QED BY <1>7, <2>1, <2>2
<1>9. rg_state' = "FORWARD_TO_CACHE" => Answered' = Answered
  BY <1>2, <1>3
<1> QED
  BY <1>6, <1>8, <1>9 DEF InOrder

(* A beat passes the unit as it comes.                                     *)
LEMMA InOrderUnprotected ==
  ASSUME IInv, InOrder, UnitStep(rl_forward_unprotected) PROVE InOrder'
<1> DEFINE q == ff_resp_from_mem
           x == Head(q)
<1>1. TypeOK /\ MemPipe /\ InFlight
  BY DEF IInv, Transfer
<1>2. /\ q # <<>> /\ rg_pending_req # Invalid /\ ~rg_from_protected
      /\ NotFull(ff_resp_to_cache) /\ ff_resp_to_cache' = Append(ff_resp_to_cache, x)
      /\ q' = Tail(q) /\ rg_pending_req' = pending_after(x)
      /\ UNCHANGED <<inflight, got, burst, rg_from_protected, rg_state>>
  BY DEF rl_forward_unprotected, unverified, NotEmpty, UnitStep
<1>3. rg_state = "IDLE" /\ rg_from_protected = FALSE
  BY <1>1, <1>2, UnprotectedIdle DEF TypeOK, MVUTypeOK
<1>4. q \in Seq(ReadResp)
  BY <1>1 DEF TypeOK, MVUTypeOK
<1>5. /\ Len(q) \in Nat /\ Len(q) >= 1 /\ Len(q') = Len(q) - 1 /\ x = q[1] /\ DOMAIN q = 1..Len(q)
      /\ q' \in Seq(ReadResp)
  <2>1. Len(q) \in Nat /\ Len(q) >= 1 /\ Len(q') = Len(q) - 1 /\ x = q[1] /\ q' \in Seq(ReadResp)
    BY <1>2, <1>4, TailShift
  <2> QED BY <1>4, <2>1, LenProperties
<1>6. 1 \in DOMAIN q /\ x \in ReadResp /\ (q' = <<>> <=> Len(q') = 0)
  BY <1>2, <1>4, <1>5, EmptySeq
<1>7. Active /\ inflight[Answered + 1] = rg_pending_req
  BY <1>1, <1>2 DEF Active, InFlight
<1>8. rg_pending_req \in ReadReq /\ rg_pending_req.len \in Int
  BY <1>1, <1>2, Shape DEF TypeOK, MVUTypeOK, ReadReq
<1>9. Sent = Drawn
  BY <1>2, <1>3 DEF Sent
<1>10. PipeBurst \/ PipeDrain
  BY <1>1, <1>2 DEF MemPipe, PipeIdle, PipeAsked
<1> HIDE DEF x, q
<1>11. CASE PipeBurst
  <2>1. ~x.last
    BY <1>5, <1>6, <1>11 DEF PipeBurst, NoneLast, q
  <2>2. /\ burst # Invalid /\ burst.req = rg_pending_req /\ burst.beat <= burst.req.len
        /\ burst.beat \in Int
    BY <1>1, <1>11, Shape DEF PipeBurst, TypeOK, Pos
  <2>3. Drawn = burst.beat - Len(q) /\ Drawn' = burst.beat - Len(q')
    BY <1>2, <2>2 DEF Drawn, q
  <2>4. rg_pending_req' = rg_pending_req
    BY <1>2, <2>1 DEF pending_after
  <2>5. Sent' = Drawn'
    BY <1>2, <1>3, <2>4 DEF Sent
  <2>6. Sent' = Sent + 1 /\ Sent # inflight[Answered + 1].len
    BY <1>5, <1>7, <1>8, <1>9, <2>2, <2>3, <2>5
  <2> QED BY <1>2, <1>3, <1>6, <1>7, <2>1, <2>6, InOrderSend
<1>12. CASE PipeDrain
  <2>1. x.last <=> Len(q) = 1
    BY <1>5, <1>6, <1>12 DEF PipeDrain, q
  <2>2. burst = Invalid
    BY <1>12 DEF PipeDrain
  <2>3. Drawn = rg_pending_req.len + 1 - Len(q)
    BY <1>2, <2>2 DEF Drawn, q
  <2>4. x.last <=> Sent = inflight[Answered + 1].len
    BY <1>5, <1>7, <1>8, <1>9, <2>1, <2>3
  <2>5. CASE x.last
    <3>1. rg_pending_req' = Invalid
      BY <1>2, <2>5 DEF pending_after
    <3>2. Sent' = 0
      BY <1>2, <1>3, <3>1 DEF Sent
    <3> QED BY <1>2, <1>3, <1>6, <1>7, <2>4, <2>5, <3>2, InOrderSend
  <2>6. CASE ~x.last
    <3>1. rg_pending_req' = rg_pending_req
      BY <1>2, <2>6 DEF pending_after
    <3>2. q' # <<>>
      BY <1>5, <1>6, <2>1, <2>6
    <3>3. Drawn' = rg_pending_req.len + 1 - Len(q')
      BY <1>2, <2>2, <3>1, <3>2 DEF Drawn, q
    <3>4. Sent' = Drawn'
      BY <1>2, <1>3, <3>1 DEF Sent
    <3>5. Sent' = Sent + 1
      BY <1>5, <1>8, <1>9, <2>3, <3>3, <3>4
    <3> QED BY <1>2, <1>3, <1>6, <1>7, <2>4, <2>6, <3>5, InOrderSend
  <2> QED BY <2>5, <2>6
<1> QED
  BY <1>10, <1>11, <1>12

(* A beat of the verified line goes to the cache.                          *)
LEMMA ForwardEffect ==
  ASSUME IInv, UnitStep(rl_forward_verified)
  PROVE  LET f == rg_forward_beat
             resp == rg_buffered_responses[f]
         IN /\ rg_state = "FORWARD_TO_CACHE" /\ NotFull(ff_resp_to_cache)
            /\ f \in Pos /\ resp \in ReadResp /\ (resp.last <=> f = Arity - 1)
            /\ poisoned(resp) \in ReadResp /\ poisoned(resp).last = resp.last
            /\ ff_resp_to_cache' = Append(ff_resp_to_cache, poisoned(resp))
            /\ rg_state' = IF resp.last THEN "IDLE" ELSE "FORWARD_TO_CACHE"
            /\ rg_mvu_error' = IF resp.last THEN FALSE ELSE rg_mvu_error
            /\ f' = IF resp.last THEN 0 ELSE f + 1
            /\ UNCHANGED <<inflight, got, rg_buffered_responses, memFifos, burst, errors>>
<1> DEFINE f == rg_forward_beat
           resp == rg_buffered_responses[f]
<1>1. TypeOK /\ Buffered /\ Session
  BY DEF IInv, Control, Transfer
<1>2. /\ rg_state = "FORWARD_TO_CACHE" /\ NotFull(ff_resp_to_cache)
      /\ ff_resp_to_cache' = Append(ff_resp_to_cache, poisoned(resp))
      /\ f' = IF resp.last THEN 0 ELSE (f + 1) % 16
      /\ UNCHANGED <<inflight, got, rg_buffered_responses, memFifos, burst, errors>>
  BY DEF rl_forward_verified, UnitStep
<1>3. ~rg_is_update /\ f \in Pos
  BY <1>1, <1>2 DEF Session, Resting, Buffered
<1>4. resp \in ReadResp /\ rg_mvu_error \in BOOLEAN
  BY <1>1, <1>3 DEF TypeOK, MVUTypeOK
<1>5. resp.last <=> f = Arity - 1
  BY <1>1, <1>2, <1>3 DEF Buffered
<1>6. poisoned(resp) \in ReadResp /\ poisoned(resp).last = resp.last
  BY <1>4 DEF poisoned, ReadResp
<1>7. /\ rg_state' = IF resp.last THEN "IDLE" ELSE "FORWARD_TO_CACHE"
      /\ rg_mvu_error' = IF resp.last THEN FALSE ELSE rg_mvu_error
  <2>1. CASE resp.last
    BY <2>1 DEF rl_forward_verified, UnitStep
  <2>2. CASE ~resp.last
    BY <1>2, <2>2 DEF rl_forward_verified, UnitStep
  <2> QED BY <2>1, <2>2
<1>8. ~resp.last => (f + 1) % 16 = f + 1
  <2>1. ~resp.last => f + 1 \in 0..15
    BY <1>3, <1>5, Shape DEF Pos
  <2>2. \A n \in 0..15 : n % 16 = n
    OBVIOUS
  <2> QED BY <2>1, <2>2
<1> QED
  BY <1>2, <1>3, <1>4, <1>5, <1>6, <1>7, <1>8

LEMMA InOrderVerified ==
  ASSUME IInv, InOrder, UnitStep(rl_forward_verified) PROVE InOrder'
<1> DEFINE f == rg_forward_beat
           resp == rg_buffered_responses[f]
           x == poisoned(resp)
<1>1. /\ rg_state = "FORWARD_TO_CACHE" /\ NotFull(ff_resp_to_cache) /\ x \in ReadResp
      /\ x.last <=> f = Arity - 1
      /\ ff_resp_to_cache' = Append(ff_resp_to_cache, x)
      /\ rg_state' = IF x.last THEN "IDLE" ELSE "FORWARD_TO_CACHE"
      /\ f' = IF x.last THEN 0 ELSE f + 1
      /\ UNCHANGED <<inflight, got>>
  BY ForwardEffect
<1>2. Active /\ Sent = f /\ inflight[Answered + 1].len = Arity - 1
  BY <1>1 DEF Active, Sent, InOrder
<1>3. rg_pending_req' = Invalid
  BY <1>1 DEF IInv, Control, Session, rl_forward_verified, UnitStep
<1>4. Sent' = IF x.last THEN 0 ELSE f + 1
  BY <1>1, <1>3 DEF Sent
<1> HIDE DEF x, resp
<1> QED
  BY <1>1, <1>2, <1>4, InOrderSend

(* Every rule of the unit keeps the order.                                 *)
LEMMA InOrderUnit ==
  ASSUME IInv, InOrder, Unit PROVE InOrder'
<1>1. CASE rl_forward_unprotected
  BY <1>1, InOrderUnprotected DEF Unit, UnitStep
<1>2. CASE rl_forward_verified
  BY <1>2, InOrderVerified DEF Unit, UnitStep
<1>3. CASE ~rl_forward_unprotected /\ ~rl_forward_verified
  <2>1. Sent' = Sent /\ UNCHANGED <<ff_resp_to_cache, inflight, got>>
    BY <1>3, SentUnit
  <2>2. ASSUME rg_state' = "FORWARD_TO_CACHE", rg_state # "FORWARD_TO_CACHE"
        PROVE  inflight[Answered + 1].len = Arity - 1
    <3>1. UnitStep(rl_complete)
      <4>1. ~UnitStep(rl_start_update)
        BY <2>2 DEF rl_start_update, UnitStep
      <4>2. ~UnitStep(rl_forward_request)
        BY <2>2 DEF rl_forward_request, UnitStep
      <4>3. ~UnitStep(rl_accumulate)
        BY <2>2 DEF rl_accumulate, UnitStep
      <4> QED BY <1>3, <2>2, <4>1, <4>2, <4>3, UnitSteps, WalkRuleFrame DEF UnitStep
    <3>2. rg_state = "COMPLETE" /\ ~rg_is_update
      BY <2>2, <3>1, CompleteFrame
    <3>3. rg_from_protected /\ rg_pending_req # Invalid /\ is_protected(rg_pending_req.addr)
      BY <3>2, InvalidApart DEF IInv, Control, Session, Resting
    <3>4. rg_pending_req.len = Arity - 1 /\ inflight[Answered + 1] = rg_pending_req
      BY <3>3, PendingInFlight DEF IInv, Transfer, InFlight
    <3> QED BY <3>4
  <2> QED BY <2>1, <2>2, InOrderFrame
<1> QED
  BY <1>1, <1>2, <1>3

(* What CacheTake does, with the number of beats it has received exact.    *)
LEMMA TakeEffect ==
  ASSUME IInv, InOrder, CacheTake
  PROVE  LET x == Head(ff_resp_to_cache) IN
         /\ ff_resp_to_cache # <<>> /\ ff_resp_to_cache' = Tail(ff_resp_to_cache)
         /\ x = ff_resp_to_cache[1] /\ 1 \in DOMAIN ff_resp_to_cache
         /\ inflight # <<>> /\ inflight' = IF x.last THEN Tail(inflight) ELSE inflight
         /\ inflight[1] \in ReadReq /\ (x.last <=> got = inflight[1].len)
         /\ got' = IF x.last THEN 0 ELSE got + 1
         /\ ~x.last => got + 1 <= inflight[1].len
         /\ Answered = Answered' + (IF x.last THEN 1 ELSE 0)
<1> DEFINE q == ff_resp_to_cache
           x == Head(q)
<1>1. TypeOK /\ InFlight
  BY DEF IInv, Transfer
<1>2. /\ q # <<>> /\ q' = Tail(q) /\ inflight # <<>>
      /\ inflight' = IF x.last THEN Tail(inflight) ELSE inflight
      /\ got' = IF x.last THEN 0 ELSE (got + 1) % Arity
  BY DEF CacheTake, NotEmpty
<1>3. q \in Seq(ReadResp) /\ Len(q) <= 2 /\ inflight \in Seq(ReadReq) /\ got \in Pos
  BY <1>1 DEF TypeOK, MVUTypeOK, InFlight, FifoDepth
<1>4. x = q[1] /\ 1 \in DOMAIN q
  <2>1. x = q[1] /\ Len(q) \in Nat /\ Len(q) >= 1
    BY <1>2, <1>3, TailShift
  <2>2. DOMAIN q = 1..Len(q)
    BY <1>3, LenProperties
  <2> QED BY <2>1, <2>2
<1>5. inflight[1] \in ReadReq
  BY <1>2, <1>3
<1>6. PlaceOf(1) = FirstPlace /\ FirstPlace.read = 1 /\ FirstPlace.beat = got
  BY DEF PlaceOf, FirstPlace
<1>7. x.last <=> got = inflight[1].len
  BY <1>4, <1>6 DEF InOrder, LastWhere
<1>8. /\ got \in Int /\ 0 <= got /\ Arity \in Int /\ Arity >= 2
      /\ inflight[1].len \in {0, Arity - 1}
      /\ got > 0 => got <= inflight[1].len
  BY <1>3, <1>5, Shape DEF InOrder, Pos, ReadReq
<1>9. ~x.last => got + 1 <= inflight[1].len /\ got + 1 \in Pos
  BY <1>7, <1>8 DEF Pos
<1>10. ~x.last => (got + 1) % Arity = got + 1
  <2>1. \A n \in Pos : n % Arity = n
    <3>1. SUFFICES ASSUME NEW n \in Pos PROVE n % Arity = n
      OBVIOUS
    <3>2. n \in Int /\ 0 <= n /\ n < Arity /\ Arity \in Nat /\ Arity > 0
      BY Shape DEF Pos
    <3>3. (Arity * 0 + n) % Arity = n
      BY <3>2, DivisionUnique
    <3>4. Arity * 0 + n = n
      BY <3>2
    <3> QED BY <3>3, <3>4
  <2> QED BY <1>9, <2>1
<1>11. Answered = Answered' + (IF x.last THEN 1 ELSE 0)
  BY <1>2, <1>3, LastBeatsTake DEF Answered
<1> QED
  BY <1>2, <1>4, <1>5, <1>7, <1>9, <1>10, <1>11

(* The reads and places the queued beats belong to, after the first left.  *)
LEMMA PlaceTaken ==
  ASSUME IInv, InOrder, CacheTake
  PROVE  /\ \A k \in DOMAIN ff_resp_to_cache' :
              /\ k + 1 \in DOMAIN ff_resp_to_cache
              /\ ff_resp_to_cache'[k] = ff_resp_to_cache[k + 1]
              /\ PlaceOf(k)'.read \in DOMAIN inflight'
              /\ inflight'[PlaceOf(k)'.read] = inflight[PlaceOf(k + 1).read]
              /\ PlaceOf(k)'.beat = PlaceOf(k + 1).beat
         /\ NextPlace' = Shifted(NextPlace, Head(ff_resp_to_cache))
         /\ Active => inflight'[Answered' + 1] = inflight[Answered + 1]
<1> DEFINE q == ff_resp_to_cache
           x == Head(q)
<1>1. /\ q # <<>> /\ q' = Tail(q) /\ x = q[1]
      /\ inflight # <<>> /\ inflight' = IF x.last THEN Tail(inflight) ELSE inflight
      /\ got' = IF x.last THEN 0 ELSE got + 1
      /\ Answered = Answered' + (IF x.last THEN 1 ELSE 0)
  BY TakeEffect
<1>2. q \in Seq(ReadResp) /\ Len(q) <= 2 /\ inflight \in Seq(ReadReq) /\ got \in Nat
  BY Shape DEF IInv, Transfer, TypeOK, MVUTypeOK, InFlight, FifoDepth, Pos
<1>3. /\ \A k \in DOMAIN q' : PlaceOf(k)' = Shifted(PlaceOf(k + 1), x)
      /\ NextPlace' = Shifted(NextPlace, x)
  BY <1>1, <1>2, PlaceTake
<1>4. Answered' \in Nat /\ Answered \in Nat
  BY LastBeatsNat DEF Answered
<1> HIDE DEF Answered
<1>5. \A k \in DOMAIN q' : k \in Nat /\ k >= 1 /\ k + 1 \in DOMAIN q /\ q'[k] = q[k + 1]
  <2>1. /\ q' \in Seq(ReadResp) /\ Len(q') = Len(q) - 1 /\ Len(q) \in Nat
        /\ \A k \in 1..Len(q') : q'[k] = q[k + 1]
    BY <1>1, <1>2, TailShift
  <2>2. DOMAIN q = 1..Len(q) /\ DOMAIN q' = 1..Len(q')
    BY <1>2, <2>1, LenProperties
  <2> QED BY <2>1, <2>2
<1>6. /\ Len(inflight) \in Nat /\ DOMAIN inflight = 1..Len(inflight)
      /\ DOMAIN Tail(inflight) = 1..(Len(inflight) - 1)
      /\ \A j \in 1..(Len(inflight) - 1) : Tail(inflight)[j] = inflight[j + 1]
  <2>1. /\ Tail(inflight) \in Seq(ReadReq) /\ Len(inflight) \in Nat
        /\ Len(Tail(inflight)) = Len(inflight) - 1
        /\ \A j \in 1..Len(Tail(inflight)) : Tail(inflight)[j] = inflight[j + 1]
    BY <1>1, <1>2, TailShift
  <2>2. DOMAIN inflight = 1..Len(inflight) /\ DOMAIN Tail(inflight) = 1..Len(Tail(inflight))
    BY <1>2, <2>1, LenProperties
  <2> QED BY <2>1, <2>2
<1>7. ASSUME NEW k \in DOMAIN q'
      PROVE  /\ PlaceOf(k)'.read \in DOMAIN inflight'
             /\ inflight'[PlaceOf(k)'.read] = inflight[PlaceOf(k + 1).read]
             /\ PlaceOf(k)'.beat = PlaceOf(k + 1).beat
  <2> DEFINE p == PlaceOf(k + 1)
  <2>1. k + 1 \in DOMAIN q
    BY <1>5
  <2>2. p.read \in DOMAIN inflight
    BY <2>1 DEF InOrder
  <2>3. PlaceOf(k)' = Shifted(p, x)
    BY <1>3
  <2>4. p = SecondPlace
    BY <1>5 DEF PlaceOf
  <2>5. CASE x.last
    <3>1. p.read = 2
      BY <1>1, <2>4, <2>5 DEF SecondPlace, After, FirstPlace
    <3>2. PlaceOf(k)'.read = 1 /\ PlaceOf(k)'.beat = p.beat
      BY <2>3, <2>5, <3>1 DEF Shifted
    <3>3. 1 \in 1..(Len(inflight) - 1)
      BY <1>6, <2>2, <3>1
    <3>4. 1 \in DOMAIN inflight' /\ inflight'[1] = inflight[1 + 1]
      BY <1>1, <1>6, <2>5, <3>3
    <3> QED BY <3>1, <3>2, <3>4
  <2>6. CASE ~x.last
    <3>1. PlaceOf(k)' = p /\ inflight' = inflight
      BY <1>1, <2>3, <2>6 DEF Shifted
    <3> QED BY <2>2, <3>1
  <2> QED BY <2>5, <2>6
<1>8. ASSUME Active PROVE inflight'[Answered' + 1] = inflight[Answered + 1]
  <2>1. Answered + 1 \in DOMAIN inflight
    BY <1>8, ActiveRead
  <2>2. CASE x.last
    <3>1. Answered' + 1 = Answered /\ Answered \in 1..(Len(inflight) - 1)
      <4>1. Answered = Answered' + 1
        BY <1>1, <2>2
      <4>2. Answered + 1 \in 1..Len(inflight)
        BY <1>6, <2>1, Zenon
      <4>3. Len(inflight) \in Nat
        BY <1>6
      <4>4. \A a, b, n \in Nat :
              a = b + 1 /\ a + 1 \in 1..n => b + 1 = a /\ a \in 1..(n - 1)
        OBVIOUS
      <4> QED BY <1>4, <4>1, <4>2, <4>3, <4>4, Zenon
    <3>2. inflight'[Answered] = inflight[Answered + 1]
      BY <1>1, <1>6, <2>2, <3>1
    <3> QED BY <3>1, <3>2
  <2>3. CASE ~x.last
    BY <1>1, <1>4, <2>3
  <2> QED BY <2>2, <2>3
<1> QED
  BY <1>3, <1>5, <1>7, <1>8

LEMMA InOrderTake ==
  ASSUME IInv, InOrder, CacheTake PROVE InOrder'
<1> DEFINE q == ff_resp_to_cache
           x == Head(q)
<1>1. /\ q # <<>> /\ q' = Tail(q) /\ x = q[1]
      /\ inflight # <<>> /\ inflight' = IF x.last THEN Tail(inflight) ELSE inflight
      /\ got' = IF x.last THEN 0 ELSE got + 1
      /\ ~x.last => got + 1 <= inflight[1].len
      /\ Answered = Answered' + (IF x.last THEN 1 ELSE 0)
  BY TakeEffect
<1>2. q \in Seq(ReadResp) /\ Len(q) <= 2 /\ inflight \in Seq(ReadReq) /\ got \in Nat
  BY Shape DEF IInv, Transfer, TypeOK, MVUTypeOK, InFlight, FifoDepth, Pos
<1>3. NextPlace' = Shifted(NextPlace, x)
  BY PlaceTaken
<1>4. Sent' = Sent /\ UNCHANGED <<rg_state, rg_pending_req>>
  BY SentEnvironment, EnvironmentFrame DEF Environment
<1>5. NextPlace = [read |-> Answered + 1, beat |-> Sent]
  BY DEF InOrder
<1>6. Answered' \in Nat /\ Answered \in Nat
  BY LastBeatsNat DEF Answered
<1> HIDE DEF Answered, Sent
<1>7. NextPlace' = [read |-> Answered' + 1, beat |-> Sent']
  BY <1>1, <1>3, <1>4, <1>5, <1>6 DEF Shifted
<1>8. ASSUME NEW k \in DOMAIN q'
      PROVE  PlaceOf(k)'.read \in DOMAIN inflight' /\ LastWhere(k)'
  <2> DEFINE p == PlaceOf(k + 1)
  <2>1. /\ k + 1 \in DOMAIN q /\ q'[k] = q[k + 1] /\ PlaceOf(k)'.read \in DOMAIN inflight'
        /\ inflight'[PlaceOf(k)'.read] = inflight[p.read] /\ PlaceOf(k)'.beat = p.beat
    BY PlaceTaken
  <2>2. q[k + 1].last <=> p.beat = inflight[p.read].len
    BY <2>1 DEF InOrder, LastWhere
  <2> QED BY <2>1, <2>2 DEF LastWhere
<1>9. got' > 0 => inflight' # <<>> /\ got' <= inflight'[1].len
  BY <1>1, <1>2
<1>10. rg_state' = "FORWARD_TO_CACHE" => inflight'[Answered' + 1].len = Arity - 1
  BY <1>4, PlaceTaken DEF InOrder, Active
<1> QED
  BY <1>7, <1>8, <1>9, <1>10 DEF InOrder

(* A read is issued behind those in flight.                                *)
LEMMA InOrderIssue ==
  ASSUME IInv, InOrder, NEW req \in ReadReq, CacheRead(req) PROVE InOrder'
<1>1. inflight \in Seq(ReadReq)
  BY DEF IInv, TypeOK
<1>2. inflight' = Append(inflight, req) /\ UNCHANGED <<ff_resp_to_cache, got, mvuRegs>>
  BY DEF CacheRead
<1>3. Sent' = Sent
  BY SentEnvironment DEF Environment
<1>4. /\ \A k \in DOMAIN inflight : k \in DOMAIN inflight' /\ inflight'[k] = inflight[k]
      /\ inflight' # <<>> /\ (inflight # <<>> => 1 \in DOMAIN inflight)
  <2>1. /\ inflight' \in Seq(ReadReq) /\ Len(inflight') = Len(inflight) + 1
        /\ Len(inflight) \in Nat
        /\ \A k \in 1..Len(inflight) : inflight'[k] = inflight[k]
    BY <1>1, <1>2, AppendShift
  <2>2. DOMAIN inflight = 1..Len(inflight) /\ DOMAIN inflight' = 1..Len(inflight')
    BY <1>1, <2>1, LenProperties
  <2>3. inflight = <<>> <=> Len(inflight) = 0
    BY <1>1, EmptySeq
  <2>4. inflight' # <<>>
    BY <2>1, EmptySeq
  <2> QED BY <2>1, <2>2, <2>3, <2>4
<1>5. UNCHANGED <<FirstPlace, SecondPlace, NextPlace>>
  BY <1>2 DEF FirstPlace, SecondPlace, NextPlace, After
<1>6. Answered' = Answered
  BY <1>2 DEF Answered, LastBeats, IsLast
<1>7. \A k : PlaceOf(k)' = PlaceOf(k)
  BY <1>5 DEF PlaceOf
<1>8. \A k \in DOMAIN ff_resp_to_cache : PlaceOf(k)'.read \in DOMAIN inflight' /\ LastWhere(k)'
  BY <1>2, <1>4, <1>7 DEF InOrder, LastWhere
<1>9. rg_state' = "FORWARD_TO_CACHE" => inflight'[Answered' + 1].len = Arity - 1
  BY <1>2, <1>4, <1>6, ActiveRead DEF InOrder, Active
<1>10. got' > 0 => inflight' # <<>> /\ got' <= inflight'[1].len
  BY <1>2, <1>4 DEF InOrder
<1> QED
  BY <1>2, <1>3, <1>5, <1>6, <1>8, <1>9, <1>10 DEF InOrder

LEMMA InOrderEnvironment ==
  ASSUME IInv, InOrder, Environment PROVE InOrder'
<1>1. Sent' = Sent /\ UNCHANGED mvuRegs
  BY SentEnvironment, EnvironmentFrame
<1>2. ASSUME UNCHANGED <<ff_resp_to_cache, inflight, got>> PROVE InOrder'
  BY <1>1, <1>2, InOrderFrame
<1>3. \A line \in Line, d \in EvictData :
        CacheEvict(line, d) => UNCHANGED <<ff_resp_to_cache, inflight, got>>
  BY DEF CacheEvict
<1>4. \A line \in Line : CacheDrop(line) => UNCHANGED <<ff_resp_to_cache, inflight, got>>
  BY DEF CacheDrop
<1>5. \A a \in Addr, w \in Word :
        IoStore(a, w) \/ FaultData(a, w) => UNCHANGED <<ff_resp_to_cache, inflight, got>>
  BY DEF IoStore, FaultData
<1>6. MemAccept \/ MemBeat \/ TreeRead \/ TreeWrite
        => UNCHANGED <<ff_resp_to_cache, inflight, got>>
  BY DEF MemAccept, MemBeat, TreeRead, TreeWrite
<1>7. \A m \in MemNode, w \in Word :
        FaultNode(m, w) => UNCHANGED <<ff_resp_to_cache, inflight, got>>
  BY DEF FaultNode
<1>8. (\E junk \in Word : BeatFails(junk))
        \/ (\E junk \in [Pos -> Word] : GroupReadFails(junk)) \/ NodeWriteFails
          => UNCHANGED <<ff_resp_to_cache, inflight, got>>
  BY DEF BeatFails, GroupReadFails, NodeWriteFails
<1> QED
  BY <1>2, <1>3, <1>4, <1>5, <1>6, <1>7, <1>8, InOrderTake, InOrderIssue DEF Environment
-----------------------------------------------------------------------------
(* A step that queues no beat: the verdict only changes between lines.     *)
LEMMA ErrsAgreeFrame ==
  ASSUME IInv, InOrder, ErrsAgree, UNCHANGED <<ff_resp_to_cache, errors>>,
         errors = 0 => \A k \in DOMAIN ff_resp_from_mem' : ~ff_resp_from_mem'[k].err,
         errors = 0 => \A k \in Pos : ~rg_buffered_responses'[k].err,
         Verdict' = Verdict \/ Sent = 0
  PROVE  ErrsAgree'
<1> DEFINE q == ff_resp_to_cache
<1>1. SUFFICES ASSUME errors = 0, NEW k \in DOMAIN q, ~q[k].last
               PROVE  q[k].err = IF k = Len(q) THEN Verdict' ELSE q[k + 1].err
  BY DEF ErrsAgree
<1>2. q[k].err = IF k = Len(q) THEN Verdict ELSE q[k + 1].err
  BY <1>1 DEF ErrsAgree
<1>3. ASSUME Sent = 0 PROVE k # Len(q)
  <2>1. NextPlace.beat = 0
    BY <1>3 DEF InOrder
  <2>2. q \in Seq(ReadResp) /\ Len(q) <= 2 /\ got \in Nat
    BY Shape DEF IInv, Transfer, InFlight, FifoDepth, TypeOK, MVUTypeOK, Pos
  <2> QED BY <1>1, <2>1, <2>2, QueuedLineComplete
<1> QED
  BY <1>2, <1>3

(* A step that queues a beat with the err of its line.                     *)
LEMMA ErrsAgreeSend ==
  ASSUME IInv, ErrsAgree, NEW x \in ReadResp,
         ff_resp_to_cache' = Append(ff_resp_to_cache, x), UNCHANGED errors,
         errors = 0 => \A k \in DOMAIN ff_resp_from_mem' : ~ff_resp_from_mem'[k].err,
         errors = 0 => \A k \in Pos : ~rg_buffered_responses'[k].err,
         errors = 0 => x.err = Verdict,
         ~x.last => Verdict' = Verdict
  PROVE  ErrsAgree'
<1> DEFINE q == ff_resp_to_cache
<1>1. q \in Seq(ReadResp)
  BY DEF IInv, TypeOK, MVUTypeOK
<1>2. /\ Len(q) \in Nat /\ DOMAIN q = 1..Len(q) /\ DOMAIN q' = 1..(Len(q) + 1)
      /\ Len(q') = Len(q) + 1 /\ q'[Len(q) + 1] = x /\ \A k \in 1..Len(q) : q'[k] = q[k]
  <2>1. /\ Len(q) \in Nat /\ Len(q') = Len(q) + 1 /\ q' \in Seq(ReadResp)
        /\ q'[Len(q) + 1] = x /\ \A k \in 1..Len(q) : q'[k] = q[k]
    BY <1>1, AppendShift
  <2>2. DOMAIN q = 1..Len(q) /\ DOMAIN q' = 1..Len(q')
    BY <1>1, <2>1, LenProperties
  <2> QED BY <2>1, <2>2
<1>3. SUFFICES ASSUME errors = 0, NEW k \in 1..(Len(q) + 1), ~q'[k].last
               PROVE  q'[k].err = IF k = Len(q') THEN Verdict' ELSE q'[k + 1].err
  BY <1>2 DEF ErrsAgree
<1>4. CASE k = Len(q) + 1
  BY <1>2, <1>3, <1>4
<1>5. CASE k \in 1..Len(q)
  <2>1. ~q[k].last /\ q'[k] = q[k] /\ k \in DOMAIN q
    BY <1>2, <1>3, <1>5
  <2>2. q[k].err = IF k = Len(q) THEN Verdict ELSE q[k + 1].err
    BY <1>3, <2>1 DEF ErrsAgree
  <2>3. CASE k = Len(q)
    BY <1>2, <1>3, <2>1, <2>2, <2>3
  <2>4. CASE k # Len(q)
    <3>1. k + 1 \in 1..Len(q)
      <4>1. \A n \in Nat : \A j \in 1..n : j # n => j + 1 \in 1..n
        OBVIOUS
      <4> QED BY <1>2, <1>5, <2>4, <4>1, Zenon
    <3>2. q'[k + 1] = q[k + 1] /\ k # Len(q')
      BY <1>2, <1>5, <3>1
    <3> QED BY <2>1, <2>2, <2>4, <3>2
  <2> QED BY <2>3, <2>4
<1> QED
  BY <1>2, <1>4, <1>5

(* Every rule of the unit keeps the beats of a line in agreement.          *)
LEMMA ErrsAgreeUnit ==
  ASSUME IInv, InOrder, ErrsAgree, Unit PROVE ErrsAgree'
<1>1. TypeOK /\ Session /\ Buffered
  BY DEF IInv, Control, Transfer
<1>2. UNCHANGED errors
  BY DEF Unit
<1>3. ff_resp_from_mem \in Seq(ReadResp) /\ rg_buffered_responses \in [Pos -> ReadResp]
  BY <1>1 DEF TypeOK, MVUTypeOK
<1>4. /\ errors = 0 => \A k \in DOMAIN ff_resp_from_mem : ~ff_resp_from_mem[k].err
      /\ errors = 0 => \A k \in Pos : ~rg_buffered_responses[k].err
  BY DEF ErrsAgree
<1>5. ASSUME ff_resp_from_mem # <<>>
      PROVE  errors = 0 => /\ ~Head(ff_resp_from_mem).err
                           /\ \A k \in DOMAIN Tail(ff_resp_from_mem) :
                                ~Tail(ff_resp_from_mem)[k].err
  <2> DEFINE q == ff_resp_from_mem
  <2>1. /\ Tail(q) \in Seq(ReadResp) /\ Len(q) \in Nat /\ Len(q) >= 1
        /\ Len(Tail(q)) = Len(q) - 1 /\ Head(q) = q[1]
        /\ \A k \in 1..Len(Tail(q)) : Tail(q)[k] = q[k + 1]
    BY <1>3, <1>5, TailShift
  <2>2. DOMAIN q = 1..Len(q) /\ DOMAIN Tail(q) = 1..Len(Tail(q))
    BY <1>3, <2>1, LenProperties
  <2> QED BY <1>4, <2>1, <2>2
<1>6. CASE UnitStep(rl_forward_unprotected)
  <2> DEFINE x == Head(ff_resp_from_mem)
  <2>1. /\ ff_resp_from_mem # <<>> /\ rg_pending_req # Invalid /\ ~rg_from_protected
        /\ ff_resp_from_mem' = Tail(ff_resp_from_mem)
        /\ ff_resp_to_cache' = Append(ff_resp_to_cache, x)
        /\ UNCHANGED <<rg_state, rg_mvu_error, rg_buffered_responses>>
    BY <1>6 DEF rl_forward_unprotected, unverified, NotEmpty, UnitStep
  <2>2. x \in ReadResp /\ x.err \in BOOLEAN
    <3>1. x \in ReadResp
      BY <1>3, <2>1
    <3> HIDE DEF x
    <3> QED BY <3>1 DEF ReadResp
  <2>3. rg_state # "FORWARD_TO_CACHE"
    BY <2>1, UnprotectedIdle
  <2>4. Verdict = FALSE /\ Verdict' = FALSE
    BY <2>1, <2>3 DEF Verdict
  <2>5. errors = 0 => x.err = Verdict
    BY <1>5, <2>1, <2>2, <2>4
  <2> HIDE DEF x
  <2> QED BY <1>2, <1>4, <1>5, <2>1, <2>2, <2>4, <2>5, ErrsAgreeSend
<1>7. CASE UnitStep(rl_forward_verified)
  <2> DEFINE resp == rg_buffered_responses[rg_forward_beat]
             x == poisoned(resp)
  <2>1. /\ rg_state = "FORWARD_TO_CACHE" /\ rg_forward_beat \in Pos /\ resp \in ReadResp
        /\ x \in ReadResp /\ x.last = resp.last
        /\ ff_resp_to_cache' = Append(ff_resp_to_cache, x)
        /\ rg_state' = IF resp.last THEN "IDLE" ELSE "FORWARD_TO_CACHE"
        /\ rg_mvu_error' = IF resp.last THEN FALSE ELSE rg_mvu_error
        /\ UNCHANGED <<rg_buffered_responses, memFifos>>
    BY <1>7, ForwardEffect
  <2>2. rg_mvu_error \in BOOLEAN /\ resp.err \in BOOLEAN
    BY <1>1, <2>1 DEF TypeOK, MVUTypeOK, ReadResp
  <2>3. Verdict = rg_mvu_error /\ (~x.last => Verdict' = Verdict)
    BY <2>1, <2>2 DEF Verdict
  <2>4. errors = 0 => x.err = Verdict
    BY <1>4, <2>1, <2>2, <2>3 DEF poisoned
  <2> HIDE DEF x, resp
  <2> QED BY <1>2, <1>4, <2>1, <2>3, <2>4, ErrsAgreeSend
<1>8. CASE ~rl_forward_unprotected /\ ~rl_forward_verified
  <2>1. UNCHANGED <<ff_resp_to_cache, errors>>
    BY <1>8, SentUnit
  <2>2. Verdict' = Verdict \/ Sent = 0
    <3>1. CASE UnitStep(rl_start_update)
      BY <3>1 DEF rl_start_update, UnitStep, Verdict
    <3>2. CASE UnitStep(rl_forward_request)
      BY <3>2 DEF rl_forward_request, UnitStep, Verdict
    <3>3. CASE UnitStep(rl_accumulate)
      BY <3>3 DEF rl_accumulate, UnitStep, Verdict
    <3>4. CASE UnitStep(rl_complete)
      <4>1. NothingSent
        BY <1>1, <3>4, CompleteFrame DEF NothingSent, Session, Resting
      <4> QED BY <4>1, SentNothing
    <3> QED BY <1>8, <3>1, <3>2, <3>3, <3>4, UnitSteps, WalkRuleFrame, SMTT(30)
         DEF Verdict, UnitStep, Unit
  <2>3. \/ UNCHANGED <<ff_resp_from_mem, rg_buffered_responses>>
        \/ UnitStep(rl_forward_request) \/ UnitStep(rl_accumulate)
    <3>1. CASE UnitStep(rl_start_update)
      BY <3>1 DEF rl_start_update, UnitStep
    <3>2. CASE UnitStep(rl_complete)
      BY <3>2, CompleteFrame
    <3> QED BY <1>8, <3>1, <3>2, UnitSteps, WalkRuleFrame DEF Unit, UnitStep
  <2>4. CASE UNCHANGED <<ff_resp_from_mem, rg_buffered_responses>>
    BY <1>4, <2>1, <2>2, <2>4, ErrsAgreeFrame
  <2>5. CASE UnitStep(rl_forward_request)
    <3>1. /\ UNCHANGED ff_resp_from_mem
          /\ \/ UNCHANGED rg_buffered_responses
             \/ rg_buffered_responses' = [k \in Pos |-> NoResp]
      BY <2>5 DEF rl_forward_request, UnitStep
    <3>2. errors = 0 => \A k \in Pos : ~rg_buffered_responses'[k].err
      BY <1>4, <3>1 DEF NoResp
    <3> QED BY <1>4, <2>1, <2>2, <3>1, <3>2, ErrsAgreeFrame
  <2>6. CASE UnitStep(rl_accumulate)
    <3>1. /\ ff_resp_from_mem # <<>> /\ ff_resp_from_mem' = Tail(ff_resp_from_mem)
          /\ rg_buffered_responses' =
               [rg_buffered_responses EXCEPT ![rg_beat_count] = Head(ff_resp_from_mem)]
      BY <2>6, AccumulateEffect
    <3>2. errors = 0 => \A k \in Pos : ~rg_buffered_responses'[k].err
      BY <1>3, <1>4, <1>5, <3>1
    <3> QED BY <1>5, <2>1, <2>2, <3>1, <3>2, ErrsAgreeFrame
  <2> QED BY <2>3, <2>4, <2>5, <2>6
<1> QED
  BY <1>6, <1>7, <1>8 DEF Unit, UnitStep

(* So does everything around the unit: only the bus fails a beat.          *)
LEMMA ErrsAgreeEnvironment ==
  ASSUME IInv, InOrder, ErrsAgree, Environment PROVE ErrsAgree'
<1>1. UNCHANGED mvuRegs /\ UNCHANGED Verdict /\ UNCHANGED rg_buffered_responses
  BY EnvironmentFrame DEF Verdict
<1>2. /\ errors = 0 => \A k \in DOMAIN ff_resp_from_mem : ~ff_resp_from_mem[k].err
      /\ errors = 0 => \A k \in Pos : ~rg_buffered_responses[k].err
  BY DEF ErrsAgree
<1>3. ASSUME UNCHANGED <<ff_resp_to_cache, ff_resp_from_mem, errors>> PROVE ErrsAgree'
  BY <1>1, <1>2, <1>3, ErrsAgreeFrame
<1>4. ASSUME BusError PROVE ErrsAgree'
  <2>1. errors' = errors + 1 /\ errors \in 0..MaxErrors
    BY <1>4 DEF BusError, IInv, TypeOK
  <2>2. errors' # 0
    BY <2>1, SystemAssumption
  <2> QED BY <2>2 DEF ErrsAgree
<1>5. CASE MemBeat
  <2> DEFINE q == ff_resp_from_mem
             resp == [data |-> data[wrap(burst.req, burst.beat)],
                      last |-> burst.beat = burst.req.len, err |-> FALSE]
  <2>1. q' = Append(q, resp) /\ ~resp.err /\ UNCHANGED <<ff_resp_to_cache, errors>>
    BY <1>5 DEF MemBeat
  <2>2. q \in Seq(ReadResp)
    BY DEF IInv, TypeOK, MVUTypeOK
  <2> HIDE DEF resp
  <2>3. /\ Len(q) \in Nat /\ DOMAIN q = 1..Len(q) /\ DOMAIN q' = 1..(Len(q) + 1)
        /\ q'[Len(q) + 1] = resp /\ \A k \in 1..Len(q) : q'[k] = q[k]
    BY <2>1, <2>2
  <2>4. errors = 0 => \A k \in DOMAIN q' : ~q'[k].err
    BY <1>2, <2>1, <2>3
  <2> QED BY <1>1, <1>2, <2>1, <2>4, ErrsAgreeFrame
<1>6. CASE CacheTake
  <2> DEFINE q == ff_resp_to_cache
  <2>1. q # <<>> /\ q' = Tail(q) /\ UNCHANGED <<ff_resp_from_mem, errors>>
    BY <1>6 DEF CacheTake, NotEmpty
  <2>2. q \in Seq(ReadResp)
    BY DEF IInv, TypeOK, MVUTypeOK
  <2>3. /\ Len(q') = Len(q) - 1 /\ Len(q) \in Nat
        /\ DOMAIN q = 1..Len(q) /\ DOMAIN q' = 1..Len(q')
        /\ \A k \in 1..Len(q') : q'[k] = q[k + 1]
    <3>1. /\ q' \in Seq(ReadResp) /\ Len(q') = Len(q) - 1 /\ Len(q) \in Nat
          /\ \A k \in 1..Len(q') : q'[k] = q[k + 1]
      BY <2>1, <2>2, TailShift
    <3>2. DOMAIN q = 1..Len(q) /\ DOMAIN q' = 1..Len(q')
      BY <2>2, <3>1, LenProperties
    <3> QED BY <3>1, <3>2
  <2>4. ASSUME errors = 0, NEW k \in 1..Len(q'), ~q'[k].last
        PROVE  q'[k].err = IF k = Len(q') THEN Verdict ELSE q'[k + 1].err
    <3> DEFINE j == k + 1
    <3>1. j \in DOMAIN q /\ ~q[j].last /\ q'[k].err = q[j].err
      BY <2>3, <2>4
    <3>2. q[j].err = IF j = Len(q) THEN Verdict ELSE q[j + 1].err
      BY <2>4, <3>1 DEF ErrsAgree
    <3>3. j = Len(q) <=> k = Len(q')
      BY <2>3
    <3>4. k # Len(q') => q'[k + 1] = q[j + 1]
      BY <2>3
    <3> QED BY <3>1, <3>2, <3>3, <3>4
  <2> QED BY <1>1, <1>2, <2>1, <2>3, <2>4 DEF ErrsAgree
<1>7. \A req \in ReadReq :
        CacheRead(req) => UNCHANGED <<ff_resp_to_cache, ff_resp_from_mem, errors>>
  BY DEF CacheRead
<1>8. \A line \in Line, d \in EvictData :
        CacheEvict(line, d) => UNCHANGED <<ff_resp_to_cache, ff_resp_from_mem, errors>>
  BY DEF CacheEvict
<1>9. \A line \in Line :
        CacheDrop(line) => UNCHANGED <<ff_resp_to_cache, ff_resp_from_mem, errors>>
  BY DEF CacheDrop
<1>10. \A a \in Addr, w \in Word :
         IoStore(a, w) \/ FaultData(a, w)
           => UNCHANGED <<ff_resp_to_cache, ff_resp_from_mem, errors>>
  BY DEF IoStore, FaultData
<1>11. MemAccept \/ TreeRead \/ TreeWrite
         => UNCHANGED <<ff_resp_to_cache, ff_resp_from_mem, errors>>
  BY DEF MemAccept, TreeRead, TreeWrite
<1>12. \A m \in MemNode, w \in Word :
         FaultNode(m, w) => UNCHANGED <<ff_resp_to_cache, ff_resp_from_mem, errors>>
  BY DEF FaultNode
<1>13. (\E junk \in Word : BeatFails(junk))
         \/ (\E junk \in [Pos -> Word] : GroupReadFails(junk)) \/ NodeWriteFails => BusError
  BY DEF BeatFails, GroupReadFails, NodeWriteFails
<1> QED
  BY <1>3, <1>4, <1>5, <1>6, <1>7, <1>8, <1>9, <1>10, <1>11, <1>12, <1>13 DEF Environment
-----------------------------------------------------------------------------
LEMMA StartDelivery == Starting => Delivery
<1> SUFFICES ASSUME Starting PROVE Delivery
  OBVIOUS
<1>1. /\ ff_resp_to_cache = <<>> /\ ff_resp_from_mem = <<>> /\ burst = Invalid /\ got = 0
      /\ rg_state = "IDLE" /\ rg_pending_req = Invalid
      /\ rg_buffered_responses = [k \in Pos |-> NoResp]
  BY DEF Starting, MVUInit
<1>2. NextPlace = [read |-> 1, beat |-> 0] /\ Sent = 0
  BY <1>1 DEF NextPlace, FirstPlace, Sent
<1>3. Answered = 0
  BY <1>1 DEF Answered, LastBeats, IsLast
<1>4. DOMAIN ff_resp_to_cache = {} /\ DOMAIN ff_resp_from_mem = {}
  BY <1>1
<1>5. InOrder
  BY <1>1, <1>2, <1>3, <1>4 DEF InOrder
<1>6. ErrsAgree
  BY <1>1, <1>4 DEF ErrsAgree, NoResp
<1> QED
  BY <1>5, <1>6 DEF Delivery

(* Delivery is inductive on top of IInv.                                   *)
LEMMA StepDelivery == IInv /\ Delivery /\ [Next]_vars => Delivery'
<1> SUFFICES ASSUME IInv, Delivery, [Next]_vars PROVE Delivery'
  OBVIOUS
<1>1. InOrder /\ ErrsAgree
  BY DEF Delivery
<1>2. CASE Next
  BY <1>1, <1>2, InOrderUnit, InOrderEnvironment, ErrsAgreeUnit, ErrsAgreeEnvironment
  DEF Next, Delivery
<1>3. CASE UNCHANGED vars
  <2>1. Sent' = Sent
    BY <1>3, SentFrame
  <2>2. InOrder'
    BY <1>1, <1>3, <2>1, InOrderFrame
  <2>3. ErrsAgree'
    BY <1>1, <1>3 DEF ErrsAgree, Verdict
  <2> QED BY <2>2, <2>3 DEF Delivery
<1> QED
  BY <1>2, <1>3

(* The beats that wait for the cache are always those of the oldest reads, *)
(* each at its place and each line complete, and the beats of a line agree *)
(* on err: rl_forward_unprotected, which passes beats in any state of the  *)
(* verification, never slips one into a line rl_forward_verified sends.    *)
THEOREM DeliveryInvariant == OrderIO => (Spec => []Delivery)
<1> SUFFICES ASSUME OrderIO PROVE Spec => []Delivery
  OBVIOUS
<1>1. Init => Delivery
  BY StartDelivery DEF Init, Starting
<1>2. IInv /\ Delivery /\ [Next]_vars => Delivery'
  BY StepDelivery
<1>3. Spec => []IInv
  BY Invariant
<1> QED
  BY <1>1, <1>2, <1>3, PTL DEF Spec

(* A line the unit refuses is poisoned as a whole: poisoned() sets err on  *)
(* every beat, and rg_mvu_error is cleared with the last one, not before.  *)
THEOREM LinesPoisonedWhole == OrderIO => (Spec => []PoisonedWhole)
<1> SUFFICES ASSUME OrderIO PROVE Spec => []PoisonedWhole
  OBVIOUS
<1>1. IInv /\ Delivery => PoisonedWhole
  <2> SUFFICES ASSUME IInv, Delivery, errors = 0, Len(ff_resp_to_cache) = 2,
                      ~ff_resp_to_cache[1].last
               PROVE  ff_resp_to_cache[1].err = ff_resp_to_cache[2].err
    BY DEF PoisonedWhole
  <2>1. ff_resp_to_cache \in Seq(ReadResp)
    BY DEF IInv, TypeOK, MVUTypeOK
  <2>2. 1 \in DOMAIN ff_resp_to_cache
    BY <2>1
  <2>3. ff_resp_to_cache[1].err = ff_resp_to_cache[1 + 1].err
    BY <2>2 DEF Delivery, ErrsAgree
  <2> QED BY <2>3
<1>2. Spec => []IInv
  BY Invariant
<1>3. Spec => []Delivery
  BY DeliveryInvariant
<1> QED
  BY <1>1, <1>2, <1>3, PTL

-----------------------------------------------------------------------------
(* Lines and Beats.  With the orderings OrderLine and OrderIO a line is in *)
(* the cache, being read, or on its way into the tree, and in only one of  *)
(* these; what is on its way is what the cache wrote, and so is what a     *)
(* beat holds unless it says err or its word was corrupted.                *)

(* Elements of the eviction queue when one enters or the first leaves.     *)
LEMMA EvictAppend ==
  ASSUME ff_evict_req \in Seq(EvictReq), NEW e \in EvictReq,
         ff_evict_req' = Append(ff_evict_req, e)
  PROVE  /\ \A k \in DOMAIN ff_evict_req :
              k \in DOMAIN ff_evict_req' /\ ff_evict_req'[k] = ff_evict_req[k]
         /\ \A k \in DOMAIN ff_evict_req' :
              k \in DOMAIN ff_evict_req \/ (k = Len(ff_evict_req) + 1 /\ ff_evict_req'[k] = e)
         /\ Len(ff_evict_req) + 1 \in DOMAIN ff_evict_req'
         /\ ff_evict_req'[Len(ff_evict_req) + 1] = e
<1> DEFINE q == ff_evict_req
<1>1. /\ q' \in Seq(EvictReq) /\ Len(q) \in Nat /\ Len(q') = Len(q) + 1
      /\ \A k \in 1..Len(q) : q'[k] = q[k]
      /\ q'[Len(q) + 1] = e
  BY AppendShift
<1>2. DOMAIN q = 1..Len(q) /\ DOMAIN q' = 1..Len(q')
  BY <1>1, LenProperties
<1> QED
  BY <1>1, <1>2

LEMMA EvictTail ==
  ASSUME ff_evict_req \in Seq(EvictReq), ff_evict_req # <<>>,
         ff_evict_req' = Tail(ff_evict_req)
  PROVE  /\ 1 \in DOMAIN ff_evict_req /\ Head(ff_evict_req) = ff_evict_req[1]
         /\ Head(ff_evict_req) \in EvictReq
         /\ \A k \in DOMAIN ff_evict_req' :
              k + 1 \in DOMAIN ff_evict_req /\ k + 1 # 1 /\ k \in Nat
                /\ ff_evict_req'[k] = ff_evict_req[k + 1]
         /\ \A k \in DOMAIN ff_evict_req :
              k # 1 => k - 1 \in DOMAIN ff_evict_req' /\ ff_evict_req'[k - 1] = ff_evict_req[k]
<1> DEFINE q == ff_evict_req
<1>1. /\ q' \in Seq(EvictReq) /\ Len(q) \in Nat /\ Len(q) >= 1 /\ Len(q') = Len(q) - 1
      /\ Head(q) = q[1] /\ \A k \in 1..Len(q') : q'[k] = q[k + 1]
  BY TailShift
<1>2. DOMAIN q = 1..Len(q) /\ DOMAIN q' = 1..Len(q')
  BY <1>1, LenProperties
<1>3. Head(q) \in EvictReq
  BY <1>1, <1>2
<1>4. ASSUME NEW k \in DOMAIN q, k # 1 PROVE k - 1 \in DOMAIN q' /\ q'[k - 1] = q[k]
  <2>1. k - 1 \in 1..Len(q') /\ (k - 1) + 1 = k
    BY <1>1, <1>2, <1>4
  <2> QED BY <1>1, <1>2, <2>1
<1> QED
  BY <1>1, <1>2, <1>3, <1>4

(* What Unfolded holds, by the places in the queue.                        *)
LEMMA UnfoldedIs ==
  /\ Unfolded = {EvictLine(k) : k \in ProtectedEvict}
                   \cup (IF rg_is_update THEN {leaf_line} ELSE {})
  /\ Unfolded' = {EvictLine(k)' : k \in ProtectedEvict'}
                    \cup (IF rg_is_update' THEN {leaf_line'} ELSE {})
  BY DEF Unfolded, EvictLine, ProtectedEvict, Entries

(* The line an update starts with.                                         *)
LEMMA LeafLineOf ==
  ASSUME NEW a \in Addr PROVE line_of(ProtectedBase + addr_to_leaf_index(a)) = line_of(a)
<1>1. ProtectedBase \in Int /\ a \in Int
  BY GeometryAssumption, Shape DEF Addr
<1>2. ProtectedBase + (a - ProtectedBase) = a
  BY <1>1
<1> QED BY <1>2 DEF addr_to_leaf_index

(* The start of a line is in the line.                                     *)
LEMMA BaseOfLine ==
  ASSUME NEW line \in Line
  PROVE  line_base(line) \in Addr /\ line_of(line_base(line)) = line
<1>1. 0 \in Pos BY Shape DEF Pos
<1>2. line_base(line) + 0 \in Addr /\ line_of(line_base(line) + 0) = line
  BY <1>1, WordOfLine
<1>3. line_base(line) \in Int
  <2>1. line \in Int BY LineCount
  <2> QED BY <2>1, Shape DEF line_base
<1>4. line_base(line) + 0 = line_base(line)
  BY <1>3
<1> QED BY <1>2, <1>4
-----------------------------------------------------------------------------
(* OnePlace, when lines only leave the cache or the tree's backlog.        *)
LEMMA OnePlaceShrink ==
  ASSUME OnePlace, UNCHANGED <<inflight, ff_evict_req>>, held' \subseteq held,
         rg_is_update' => rg_is_update /\ UNCHANGED rg_base_leaf_index
  PROVE  OnePlace'
<1>1. Unfolded' \subseteq Unfolded
  BY DEF Unfolded, Entries, leaf_line
<1>2. ReadLines' = ReadLines
  BY DEF ReadLines, Entries
<1>3. ProtectedEvict' = ProtectedEvict /\ \A k : EvictLine(k)' = EvictLine(k)
  BY DEF ProtectedEvict, EvictLine
<1>4. rg_is_update' => leaf_line' = leaf_line
  BY DEF leaf_line
<1> QED
  BY <1>1, <1>2, <1>3, <1>4 DEF OnePlace

LEMMA EvictsWrittenFrame ==
  ASSUME EvictsWritten, UNCHANGED <<ff_evict_req, written>>,
         rg_is_update' => rg_is_update /\ UNCHANGED <<rg_base_leaf_index, rg_leaves>>
  PROVE  EvictsWritten'
<1>1. ProtectedEvict' = ProtectedEvict /\ \A k : EvictLine(k)' = EvictLine(k)
  BY DEF ProtectedEvict, EvictLine
<1>2. rg_is_update' => leaf_line' = leaf_line
  BY DEF leaf_line
<1>3. \A line : line_data(written, line)' = line_data(written, line)
  BY DEF line_data
<1> QED
  BY <1>1, <1>2, <1>3 DEF EvictsWritten, line_data

(* A node the HCache holds stays held: set_hash stores a word.             *)
LEMMA WatchedNode ==
  ASSUME NEW a \in Addr, is_protected(a)
  PROVE  <<MinHwLevel, ancestor(addr_to_leaf_index(a))[MinHwLevel]>> \in HwNode
<1>1. MinHwLevel \in 0..Height /\ MinHwLevel \in 1..Height /\ MinHwLevel \in MinHwLevel..Height
  BY Shape
<1>2. ancestor(addr_to_leaf_index(a))[MinHwLevel] \in NodesOf(MinHwLevel)
  BY <1>1, LeafIndexIsNode, AncestorIsNode
<1> QED
  BY <1>1, <1>2, NodeInSlots, HwNodeHas

LEMMA NodesStayHeld ==
  ASSUME IInv, Unit
  PROVE  \A n \in HwNode : rf_nodes[n] # Invalid => rf_nodes'[n] # Invalid
<1>1. TypeOK
  BY DEF IInv
<1>2. rf_nodes \in [HwNode -> Word \cup {Invalid}] /\ rg_my_node_hash \in Word /\ Invalid \notin Word
  BY <1>1, InvalidAssumption DEF TypeOK, MVUTypeOK
<1>3. \/ UNCHANGED rf_nodes
      \/ set_hash(rg_current_level, rg_current_index, rg_my_node_hash)
  <2>1. CASE UnitStep(rl_check_parent)
    BY <2>1 DEF UnitStep, rl_check_parent
  <2>2. CASE UnitStep(rl_update_node)
    BY <2>2 DEF UnitStep, rl_update_node
  <2>3. CASE \/ UnitStep(rl_start_update) \/ UnitStep(rl_forward_request)
             \/ UnitStep(rl_accumulate) \/ UnitStep(rl_forward_unprotected)
             \/ UnitStep(rl_forward_verified)
    BY <2>3 DEF UnitStep, rl_start_update, rl_forward_request, rl_accumulate,
                rl_forward_unprotected, rl_forward_verified
  <2>4. CASE \/ UnitStep(rl_compute_l0_parent) \/ UnitStep(rl_fetch_siblings)
             \/ UnitStep(rl_collect_hcache_siblings) \/ UnitStep(rl_wait_siblings)
             \/ UnitStep(rl_compute_parent)
    BY <2>4 DEF UnitStep, rl_compute_l0_parent, rl_fetch_siblings,
                rl_collect_hcache_siblings, rl_wait_siblings, rl_compute_parent
  <2>5. CASE \/ UnitStep(rl_wait_update_ack) \/ UnitStep(rl_propagate_up)
             \/ UnitStep(rl_verify_root) \/ UnitStep(rl_complete)
    BY <2>5 DEF UnitStep, rl_wait_update_ack, rl_propagate_up, rl_verify_root, rl_complete
  <2> QED BY <2>1, <2>2, <2>3, <2>4, <2>5, UnitSteps
<1> QED
  BY <1>2, <1>3 DEF set_hash

LEMMA WatchedStays ==
  ASSUME IInv, \A n \in HwNode : rf_nodes[n] # Invalid => rf_nodes'[n] # Invalid,
         NEW a \in Addr, is_protected(a), watched(a)
  PROVE  watched(a)'
  BY WatchedNode DEF watched, get_hash

(* FaultsWatched, when no word is newly corrupted.                         *)
LEMMA FaultsWatchedFrame ==
  ASSUME IInv, FaultsWatched, UNCHANGED <<faults, errors>>, Tampered' \subseteq Tampered,
         \A n \in HwNode : rf_nodes[n] # Invalid => rf_nodes'[n] # Invalid
  PROVE  FaultsWatched'
<1>1. \A a \in Tampered : watched(a)'
  BY WatchedStays DEF FaultsWatched, Tampered
<1> QED
  BY <1>1 DEF FaultsWatched, OneFault
-----------------------------------------------------------------------------
(* rl_start_update moves the oldest eviction from the queue to the unit.   *)
LEMMA LinesStartUpdate ==
  ASSUME IInv, Lines, UnitStep(rl_start_update) PROVE Lines' /\ Unfolded' = Unfolded
<1> DEFINE q == ff_evict_req
           h == Head(q)
<1>1. TypeOK /\ Session /\ OnePlace /\ EvictsWritten /\ FaultsWatched
  BY DEF IInv, Control, Lines
<1>2. rg_is_update \in BOOLEAN /\ q \in Seq(EvictReq)
  BY <1>1 DEF TypeOK, MVUTypeOK
<1>3. /\ q # <<>> /\ q' = Tail(q) /\ rg_state = "IDLE"
      /\ UNCHANGED <<held, inflight, data, written, faults, errors, rf_nodes>>
  BY DEF rl_start_update, NotEmpty, UnitStep
<1>4. ~rg_is_update
  BY <1>1, <1>3 DEF Session, Resting
<1>5. /\ 1 \in DOMAIN q /\ h = q[1] /\ h \in EvictReq
      /\ \A k \in DOMAIN q' :
           k + 1 \in DOMAIN q /\ k + 1 # 1 /\ k \in Nat /\ q'[k] = q[k + 1]
      /\ \A k \in DOMAIN q : k # 1 => k - 1 \in DOMAIN q' /\ q'[k - 1] = q[k]
  BY <1>2, <1>3, EvictTail
<1>6. \A k \in DOMAIN q' : EvictLine(k)' = EvictLine(k + 1) /\ (k \in ProtectedEvict' <=> k + 1 \in ProtectedEvict)
  BY <1>5 DEF EvictLine, ProtectedEvict
<1>7. ReadLines' = ReadLines
  BY <1>3 DEF ReadLines, Entries
<1>8. FaultsWatched'
  <2>1. Tampered' = Tampered BY <1>3 DEF Tampered
  <2> QED BY <1>1, <1>3, <2>1, FaultsWatchedFrame
<1>9. ProtectedEvict' \subseteq DOMAIN q' /\ ProtectedEvict \subseteq DOMAIN q
  BY DEF ProtectedEvict
<1>10. \A j, k \in ProtectedEvict' : EvictLine(j)' = EvictLine(k)' => j = k
  <2> SUFFICES ASSUME NEW j \in ProtectedEvict', NEW k \in ProtectedEvict', EvictLine(j)' = EvictLine(k)'
               PROVE  j = k
    OBVIOUS
  <2>1. j + 1 \in ProtectedEvict /\ k + 1 \in ProtectedEvict /\ EvictLine(j + 1) = EvictLine(k + 1)
        /\ j \in Nat /\ k \in Nat
    BY <1>5, <1>6, <1>9
  <2>2. j + 1 = k + 1
    BY <1>1, <2>1 DEF OnePlace
  <2> QED BY <2>1, <2>2
<1>11. \A k \in ProtectedEvict' :
         /\ ff_evict_req'[k].addr = line_base(EvictLine(k)')
         /\ ff_evict_req'[k].data = line_data(written, EvictLine(k)')
  BY <1>1, <1>5, <1>6, <1>9 DEF EvictsWritten
<1>12. \A line : line_data(written, line)' = line_data(written, line)
  BY <1>3 DEF line_data
<1>13. \A j \in ProtectedEvict : j # 1 => j - 1 \in ProtectedEvict' /\ EvictLine(j) = EvictLine(j - 1)'
  <2> SUFFICES ASSUME NEW j \in ProtectedEvict, j # 1
               PROVE  j - 1 \in ProtectedEvict' /\ EvictLine(j) = EvictLine(j - 1)'
    OBVIOUS
  <2>1. j - 1 \in DOMAIN q' /\ q'[j - 1] = q[j]
    BY <1>5, <1>9
  <2> QED BY <2>1 DEF ProtectedEvict, EvictLine
<1>14. CASE is_protected(h.addr)
  <2>1. /\ rg_is_update' = TRUE /\ rg_base_leaf_index' = addr_to_leaf_index(h.addr)
        /\ rg_leaves' = h.data
    BY <1>1, <1>14 DEF rl_start_update, Session, UnitStep
  <2>2. h.addr \in Addr
    BY <1>5 DEF EvictReq
  <2>3. 1 \in ProtectedEvict /\ EvictLine(1) = line_of(h.addr)
    BY <1>5, <1>14 DEF ProtectedEvict, EvictLine
  <2>4. leaf_line' = EvictLine(1)
    BY <2>1, <2>2, <2>3, LeafLineOf DEF leaf_line
  <2>5. Unfolded' = Unfolded
    <3>1. Unfolded' = {EvictLine(k)' : k \in ProtectedEvict'} \cup {leaf_line'}
      BY <2>1, UnfoldedIs
    <3>2. \A k \in ProtectedEvict' : EvictLine(k)' \in {EvictLine(j) : j \in ProtectedEvict}
      BY <1>6, <1>9
    <3>3. \A j \in ProtectedEvict :
            EvictLine(j) \in {EvictLine(k)' : k \in ProtectedEvict'} \cup {leaf_line'}
      BY <1>13, <2>4
    <3>4. Unfolded = {EvictLine(j) : j \in ProtectedEvict}
      BY <1>4, UnfoldedIs
    <3> QED BY <2>3, <2>4, <3>1, <3>2, <3>3, <3>4
  <2>6. \A k \in ProtectedEvict' : EvictLine(k)' # leaf_line'
    <3> SUFFICES ASSUME NEW k \in ProtectedEvict', EvictLine(k)' = leaf_line' PROVE FALSE
      OBVIOUS
    <3>1. k + 1 \in ProtectedEvict /\ EvictLine(k + 1) = EvictLine(1) /\ k + 1 # 1
      BY <1>5, <1>6, <1>9, <2>4
    <3> QED BY <1>1, <2>3, <3>1 DEF OnePlace
  <2>7. OnePlace'
    BY <1>1, <1>3, <1>7, <1>10, <2>5, <2>6 DEF OnePlace
  <2>8. /\ h.addr = line_base(leaf_line') /\ rg_leaves' = line_data(written, leaf_line')
        /\ leaf_line' \in ProtectedLine
    <3>1. h.addr = line_base(EvictLine(1)) /\ h.data = line_data(written, EvictLine(1))
      BY <1>1, <1>5, <2>3 DEF EvictsWritten
    <3> QED BY <1>14, <2>1, <2>2, <2>3, <2>4, <3>1, ProtectedWord
  <2>9. EvictsWritten'
    BY <1>11, <1>12, <2>1, <2>8 DEF EvictsWritten
  <2> QED BY <1>8, <2>5, <2>7, <2>9 DEF Lines
<1>15. CASE ~is_protected(h.addr)
  <2>1. UNCHANGED <<rg_is_update, rg_base_leaf_index>>
    BY <1>15 DEF rl_start_update, UnitStep
  <2>2. Unfolded' = Unfolded
    <3>1. Unfolded' = {EvictLine(k)' : k \in ProtectedEvict'}
      BY <1>4, <2>1, UnfoldedIs
    <3>2. \A k \in ProtectedEvict' : EvictLine(k)' \in {EvictLine(j) : j \in ProtectedEvict}
      BY <1>6, <1>9
    <3>3. 1 \notin ProtectedEvict
      BY <1>5, <1>15 DEF ProtectedEvict
    <3>4. \A j \in ProtectedEvict : EvictLine(j) \in {EvictLine(k)' : k \in ProtectedEvict'}
      BY <1>13, <3>3
    <3>5. Unfolded = {EvictLine(j) : j \in ProtectedEvict}
      BY <1>4, UnfoldedIs
    <3> QED BY <3>1, <3>2, <3>4, <3>5
  <2>3. OnePlace'
    BY <1>1, <1>3, <1>4, <1>7, <1>10, <2>1, <2>2 DEF OnePlace
  <2>4. EvictsWritten'
    BY <1>4, <1>11, <1>12, <2>1 DEF EvictsWritten
  <2> QED BY <1>8, <2>2, <2>3, <2>4 DEF Lines
<1> QED BY <1>14, <1>15

(* Every other rule of the unit leaves the lines where they are; only      *)
(* rl_complete takes one out of the backlog.                               *)
LEMMA LinesUnit ==
  ASSUME IInv, Lines, Unit PROVE Lines'
<1>1. TypeOK /\ Session /\ OnePlace /\ EvictsWritten /\ FaultsWatched
  BY DEF IInv, Control, Lines
<1>2. rg_is_update \in BOOLEAN
  BY <1>1 DEF TypeOK, MVUTypeOK
<1>3. UNCHANGED <<data, written, faults, errors, held, inflight>>
  BY DEF Unit
<1>4. FaultsWatched'
  <2>1. Tampered' = Tampered BY <1>3 DEF Tampered
  <2> QED BY <1>1, <1>3, <2>1, NodesStayHeld, FaultsWatchedFrame
<1>5. ASSUME UNCHANGED ff_evict_req,
             rg_is_update' => rg_is_update /\ UNCHANGED <<rg_base_leaf_index, rg_leaves>>
      PROVE  Lines'
  BY <1>1, <1>3, <1>4, <1>5, OnePlaceShrink, EvictsWrittenFrame DEF Lines
<1>6. CASE UnitStep(rl_forward_request)
  <2>1. UNCHANGED ff_evict_req /\ rg_state = "IDLE"
    BY <1>6 DEF rl_forward_request, UnitStep
  <2>2. ~rg_is_update'
    BY <1>1, <1>2, <1>6, <2>1 DEF rl_forward_request, UnitStep, Session, Resting
  <2> QED BY <1>5, <2>1, <2>2
<1>7. CASE UnitStep(rl_accumulate)
  <2>1. UNCHANGED <<ff_evict_req, rg_is_update>> /\ rg_state = "ACCUMULATING"
    BY <1>7, AccumulateEffect
  <2>2. ~rg_is_update
    BY <1>1, <1>2, <2>1 DEF Session, Resting, ReadOnly
  <2> QED BY <1>5, <2>1, <2>2
<1>8. CASE UnitStep(rl_forward_unprotected) \/ UnitStep(rl_forward_verified)
  <2>1. UNCHANGED <<ff_evict_req, rg_is_update, rg_base_leaf_index, rg_leaves>>
    BY <1>8 DEF rl_forward_unprotected, rl_forward_verified, UnitStep
  <2> QED BY <1>5, <2>1
<1>9. CASE \/ UnitStep(rl_compute_l0_parent) \/ UnitStep(rl_fetch_siblings)
           \/ UnitStep(rl_collect_hcache_siblings) \/ UnitStep(rl_wait_siblings)
           \/ UnitStep(rl_compute_parent) \/ UnitStep(rl_check_parent)
           \/ UnitStep(rl_update_node) \/ UnitStep(rl_wait_update_ack)
           \/ UnitStep(rl_propagate_up) \/ UnitStep(rl_verify_root)
  <2>1. UNCHANGED <<ff_evict_req, rg_is_update, rg_base_leaf_index, rg_leaves>>
    BY <1>9, WalkRuleFrame
  <2> QED BY <1>5, <2>1
<1>10. CASE UnitStep(rl_complete)
  <2>1. UNCHANGED ff_evict_req /\ rg_is_update' = FALSE
    BY <1>10, CompleteFrame
  <2> QED BY <1>5, <2>1
<1> QED
  BY UnitSteps, <1>6, <1>7, <1>8, <1>9, <1>10, LinesStartUpdate
-----------------------------------------------------------------------------
(* The cache starts to read a line that is nowhere else.                   *)
LEMMA OnePlaceRead ==
  ASSUME IInv, OrderLine, OnePlace, NEW req \in ReadReq, CacheRead(req) PROVE OnePlace'
<1>1. TypeOK
  BY DEF IInv
<1>2. /\ line_of(req.addr) \notin held /\ line_of(req.addr) \notin Unfolded
      /\ \A r \in Entries(inflight) : line_of(r.addr) # line_of(req.addr)
      /\ inflight' = Append(inflight, req)
      /\ UNCHANGED <<ff_evict_req, mvuRegs, memVars, held, written, faults, errors>>
  BY DEF CacheRead
<1>4. inflight \in Seq(ReadReq)
  BY <1>1 DEF TypeOK
<1>5. /\ DOMAIN inflight = 1..Len(inflight) /\ DOMAIN inflight' = 1..(Len(inflight) + 1)
      /\ Len(inflight) \in Nat /\ inflight'[Len(inflight) + 1] = req
      /\ \A k \in 1..Len(inflight) : inflight'[k] = inflight[k]
  BY <1>2, <1>4
<1>6. Unfolded' = Unfolded
  BY <1>2, UnfoldedFrame
<1>7. ReadLines' = ReadLines \cup {line_of(req.addr)}
  <2>1. Entries(Append(inflight, req)) = Entries(inflight) \cup {req}
    BY <1>4, EntriesAppend
  <2>2. Entries(inflight)' = Entries(inflight) \cup {req}
    BY <1>2, <2>1 DEF Entries
  <2> QED BY <2>2 DEF ReadLines
<1>8. ASSUME NEW j \in DOMAIN inflight', NEW k \in DOMAIN inflight',
             line_of(inflight'[j].addr) = line_of(inflight'[k].addr)
      PROVE  j = k
  <2>1. \A i \in 1..Len(inflight) : line_of(inflight[i].addr) # line_of(req.addr)
    BY <1>2, <1>5 DEF Entries
  <2>2. \A i \in DOMAIN inflight' : i \in 1..Len(inflight) \/ i = Len(inflight) + 1
    BY <1>5
  <2>3. CASE j \in 1..Len(inflight) /\ k \in 1..Len(inflight)
    BY <1>1, <1>5, <1>8, <2>3 DEF OnePlace
  <2> QED BY <1>5, <1>8, <2>1, <2>2, <2>3
<1>9. ProtectedEvict' = ProtectedEvict /\ (\A k : EvictLine(k)' = EvictLine(k))
      /\ leaf_line' = leaf_line
  BY <1>2 DEF ProtectedEvict, EvictLine, leaf_line
<1> QED
  BY <1>1, <1>2, <1>6, <1>7, <1>8, <1>9 DEF OnePlace

LEMMA LinesRead ==
  ASSUME IInv, OrderLine, Lines, NEW req \in ReadReq, CacheRead(req) PROVE Lines'
<1>1. UNCHANGED <<mvuRegs, ff_evict_req, data, written, faults, errors>>
  BY DEF CacheRead
<1>2. Tampered' = Tampered
  BY <1>1 DEF Tampered
<1> QED
  BY <1>1, <1>2, OnePlaceRead, EvictsWrittenFrame, FaultsWatchedFrame DEF Lines

(* What an eviction and an uncached store write: the words of one line.    *)
LEMMA LineDataKept ==
  ASSUME NEW line \in Line, NEW other \in Line, line # other,
         \A a \in Addr : line_of(a) # line => written'[a] = written[a]
  PROVE  line_data(written', other) = line_data(written, other)
<1>1. \A k \in Pos : written'[line_base(other) + k] = written[line_base(other) + k]
  BY WordOfLine
<1> QED BY <1>1 DEF line_data

(* A dirty line moves from the cache to the tree's backlog.                *)
LEMMA LinesEvict ==
  ASSUME IInv, Lines, NEW line \in Line, NEW d \in EvictData, CacheEvict(line, d)
  PROVE  /\ Lines' /\ Tampered' \subseteq Tampered
         /\ \A a \in Addr : line_of(a) # line =>
              data'[a] = data[a] /\ written'[a] = written[a]
         /\ line \notin Unfolded /\ line \notin ReadLines
         /\ Unfolded' = IF line \in ProtectedLine THEN Unfolded \cup {line} ELSE Unfolded
<1> DEFINE e == [addr |-> line_base(line), data |-> d]
           n == Len(ff_evict_req) + 1
<1>1. TypeOK /\ OnePlace /\ EvictsWritten /\ FaultsWatched
  BY DEF IInv, Lines
<1>2. /\ line \in held /\ held' = held \ {line}
      /\ data' = [a \in Addr |-> IF line_of(a) = line THEN d[a % Arity] ELSE data[a]]
      /\ written' = [a \in Addr |-> IF line_of(a) = line THEN d[a % Arity] ELSE written[a]]
      /\ ff_evict_req' = Append(ff_evict_req, e)
      /\ UNCHANGED <<mvuRegs, inflight, faults, errors>>
  BY DEF CacheEvict
<1>3. d \in [Pos -> Word]
  BY SystemAssumption
<1>4. line_base(line) \in Addr /\ line_of(line_base(line)) = line
  BY BaseOfLine
<1>5. e \in EvictReq /\ ff_evict_req \in Seq(EvictReq)
  BY <1>1, <1>3, <1>4 DEF EvictReq, TypeOK, MVUTypeOK
<1>6. is_protected(e.addr) <=> line \in ProtectedLine
  BY <1>4, ProtectedWord
<1>7. e.addr = line_base(line) /\ e.data = d
  OBVIOUS
<1> HIDE DEF e
<1>8. /\ \A k \in DOMAIN ff_evict_req :
           k \in DOMAIN ff_evict_req' /\ ff_evict_req'[k] = ff_evict_req[k]
      /\ \A k \in DOMAIN ff_evict_req' :
           k \in DOMAIN ff_evict_req \/ (k = n /\ ff_evict_req'[k] = e)
      /\ n \in DOMAIN ff_evict_req' /\ ff_evict_req'[n] = e
  BY <1>2, <1>5, EvictAppend
<1> HIDE DEF n
<1>9. line \notin Unfolded /\ line \notin ReadLines
  BY <1>1, <1>2 DEF OnePlace
<1>10. \A a \in Addr : line_of(a) # line => data'[a] = data[a] /\ written'[a] = written[a]
  BY <1>2
<1>11. Tampered' \subseteq Tampered
  BY <1>2 DEF Tampered
<1>12. FaultsWatched'
  BY <1>1, <1>2, <1>11, FaultsWatchedFrame
<1>13. /\ ReadLines' = ReadLines /\ leaf_line' = leaf_line
       /\ UNCHANGED <<rg_is_update, rg_base_leaf_index, rg_leaves>>
  BY <1>2 DEF ReadLines, Entries, leaf_line
<1>14. \A k \in ProtectedEvict : k \in ProtectedEvict' /\ EvictLine(k)' = EvictLine(k)
  BY <1>8 DEF ProtectedEvict, EvictLine
<1>15. \A k \in ProtectedEvict' :
         \/ k \in ProtectedEvict
         \/ k = n /\ line \in ProtectedLine /\ EvictLine(k)' = line /\ ff_evict_req'[k] = e
  BY <1>4, <1>6, <1>7, <1>8 DEF ProtectedEvict, EvictLine
<1>16. line \in ProtectedLine =>
         \A k : k = n => k \in ProtectedEvict' /\ EvictLine(k)' = line
  BY <1>4, <1>6, <1>7, <1>8 DEF ProtectedEvict, EvictLine
<1>17. Unfolded' = IF line \in ProtectedLine THEN Unfolded \cup {line} ELSE Unfolded
  BY <1>13, <1>14, <1>15, <1>16, UnfoldedIs
<1>18. \A k \in ProtectedEvict : EvictLine(k) \in Unfolded /\ EvictLine(k) # line
  BY <1>9, UnfoldedIs
<1>19. rg_is_update => leaf_line \in Unfolded /\ leaf_line # line
  BY <1>9, UnfoldedIs
<1>20. OnePlace'
  <2>1. held' \cap ReadLines' = {} /\ Unfolded' \cap (held' \cup ReadLines') = {}
    BY <1>1, <1>2, <1>9, <1>13, <1>17 DEF OnePlace
  <2>2. \A j, k \in ProtectedEvict' : EvictLine(j)' = EvictLine(k)' => j = k
    BY <1>1, <1>14, <1>15, <1>18 DEF OnePlace
  <2>3. rg_is_update' => \A k \in ProtectedEvict' : EvictLine(k)' # leaf_line'
    BY <1>1, <1>13, <1>14, <1>15, <1>19 DEF OnePlace
  <2> QED BY <1>1, <1>2, <2>1, <2>2, <2>3 DEF OnePlace
<1>21. EvictsWritten'
  <2>1. \A k \in ProtectedEvict : EvictLine(k) \in Line
    <3>1. \A k \in DOMAIN ff_evict_req : ff_evict_req[k] \in EvictReq
      BY <1>5
    <3> QED BY <3>1, LineOfAddr DEF ProtectedEvict, EvictLine, EvictReq
  <2>2. \A k \in ProtectedEvict :
          line_data(written, EvictLine(k))' = line_data(written, EvictLine(k))
    <3> TAKE k \in ProtectedEvict
    <3> DEFINE other == EvictLine(k)
    <3>1. other \in Line /\ line # other BY <1>18, <2>1
    <3>2. \A x \in Line : line # x => line_data(written', x) = line_data(written, x)
      BY <1>10, WordOfLine DEF line_data
    <3>3. line_data(written', other) = line_data(written, other)
      BY <3>1, <3>2
    <3>4. EvictLine(k)' = other
      BY <1>14
    <3> QED BY <3>3, <3>4 DEF line_data
  <2>3. line_data(written', line) = d
    <3>1. \A k \in Pos : written'[line_base(line) + k] = d[k]
      BY <1>2, WordOfLine
    <3> QED BY <1>3, <3>1 DEF line_data
  <2>4. \A k \in ProtectedEvict' :
          /\ ff_evict_req'[k].addr = line_base(EvictLine(k)')
          /\ ff_evict_req'[k].data = line_data(written', EvictLine(k)')
    <3> TAKE k \in ProtectedEvict'
    <3>1. CASE k \in ProtectedEvict
      <4>1. ff_evict_req'[k] = ff_evict_req[k]
        BY <1>8, <3>1 DEF ProtectedEvict
      <4> QED BY <1>1, <1>14, <2>2, <3>1, <4>1 DEF EvictsWritten, line_data
    <3>2. CASE k \notin ProtectedEvict
      BY <1>7, <1>15, <2>3, <3>2
    <3> QED BY <3>1, <3>2
  <2>5. rg_is_update => line_data(written', leaf_line) = line_data(written, leaf_line)
    <3>1. rg_is_update => leaf_line \in Line
      BY <1>1 DEF EvictsWritten, ProtectedLine
    <3>2. \A x \in Line : line # x => line_data(written', x) = line_data(written, x)
      BY <1>10, WordOfLine DEF line_data
    <3> QED BY <1>19, <3>1, <3>2
  <2> QED BY <1>1, <1>13, <2>4, <2>5 DEF EvictsWritten, line_data
<1> QED
  BY <1>9, <1>10, <1>11, <1>12, <1>17, <1>20, <1>21 DEF Lines

(* A store to an uncached word touches no line of the tree.                *)
LEMMA LinesIoStore ==
  ASSUME IInv, Lines, NEW a \in Addr, NEW w \in Word, IoStore(a, w)
  PROVE  /\ Lines' /\ Tampered' \subseteq Tampered
         /\ line_of(a) \notin ProtectedLine /\ line_of(a) \notin ReadLines
         /\ \A b \in Addr : line_of(b) # line_of(a) =>
              data'[b] = data[b] /\ written'[b] = written[b]
         /\ Unfolded' = Unfolded
<1> DEFINE e == [addr |-> a, data |-> [k \in Pos |-> w]]
           n == Len(ff_evict_req) + 1
<1>1. TypeOK /\ OnePlace /\ EvictsWritten /\ FaultsWatched
  BY DEF IInv, Lines
<1>2. /\ line_of(a) \in IoLine
      /\ \A r \in Entries(inflight) : line_of(r.addr) # line_of(a)
      /\ data' = [data EXCEPT ![a] = w] /\ written' = [written EXCEPT ![a] = w]
      /\ ff_evict_req' = Append(ff_evict_req, e)
      /\ UNCHANGED <<mvuRegs, held, inflight, faults, errors>>
  BY DEF IoStore
<1>3. line_of(a) \notin ProtectedLine /\ line_of(a) \notin ReadLines /\ ~is_protected(a)
  BY <1>2, SystemAssumption, ProtectedWord DEF ReadLines
<1>4. e \in EvictReq /\ ff_evict_req \in Seq(EvictReq) /\ e.addr = a
  BY <1>1 DEF EvictReq, TypeOK, MVUTypeOK
<1> HIDE DEF e
<1>5. /\ \A k \in DOMAIN ff_evict_req :
           k \in DOMAIN ff_evict_req' /\ ff_evict_req'[k] = ff_evict_req[k]
      /\ \A k \in DOMAIN ff_evict_req' :
           k \in DOMAIN ff_evict_req \/ (k = n /\ ff_evict_req'[k] = e)
  BY <1>2, <1>4, EvictAppend
<1> HIDE DEF n
<1>6. ProtectedEvict' = ProtectedEvict /\ \A k \in ProtectedEvict : EvictLine(k)' = EvictLine(k)
  BY <1>3, <1>4, <1>5 DEF ProtectedEvict, EvictLine
<1>7. data \in [Addr -> Word] /\ written \in [Addr -> Word]
  BY <1>1 DEF TypeOK
<1>8. \A b \in Addr : line_of(b) # line_of(a) =>
        data'[b] = data[b] /\ written'[b] = written[b]
  BY <1>2, <1>7
<1>9. Tampered' \subseteq Tampered
  BY <1>2, <1>7 DEF Tampered
<1>10. FaultsWatched'
  BY <1>1, <1>2, <1>9, FaultsWatchedFrame
<1>11. ReadLines' = ReadLines /\ leaf_line' = leaf_line
  BY <1>2 DEF ReadLines, Entries, leaf_line
<1>12. Unfolded' = Unfolded
  BY <1>2, <1>6, <1>11, UnfoldedIs
<1>13. OnePlace'
  BY <1>1, <1>2, <1>6, <1>11, <1>12 DEF OnePlace
<1>14. \A x \in ProtectedLine : line_data(written', x) = line_data(written, x)
  <2>1. \A x \in Line : line_of(a) # x => line_data(written', x) = line_data(written, x)
    BY <1>8, WordOfLine DEF line_data
  <2> QED BY <1>3, <2>1 DEF ProtectedLine
<1>15. \A k \in ProtectedEvict : EvictLine(k) \in ProtectedLine /\ ff_evict_req'[k] = ff_evict_req[k]
  <2>1. \A k \in DOMAIN ff_evict_req : ff_evict_req[k] \in EvictReq
    BY <1>4
  <2>2. \A k \in DOMAIN ff_evict_req : ff_evict_req[k].addr \in Addr
    BY <2>1 DEF EvictReq
  <2> QED BY <1>5, <2>2, ProtectedWord DEF ProtectedEvict, EvictLine
<1>16. EvictsWritten'
  <2>1. \A k \in ProtectedEvict' :
          /\ ff_evict_req'[k].addr = line_base(EvictLine(k)')
          /\ ff_evict_req'[k].data = line_data(written', EvictLine(k)')
    BY <1>1, <1>6, <1>14, <1>15 DEF EvictsWritten
  <2>2. rg_is_update' =>
          /\ rg_base_leaf_index' = addr_to_leaf_index(line_base(leaf_line'))
          /\ leaf_line' \in ProtectedLine /\ rg_leaves' = line_data(written', leaf_line')
    BY <1>1, <1>2, <1>11, <1>14 DEF EvictsWritten
  <2> QED BY <2>1, <2>2 DEF EvictsWritten, line_data
<1> QED
  BY <1>3, <1>8, <1>9, <1>10, <1>12, <1>13, <1>16 DEF Lines

(* The last beat of a read brings its line into the cache, or drops it.    *)
LEMMA OnePlaceTake ==
  ASSUME IInv, OnePlace, CacheTake PROVE OnePlace'
<1> DEFINE q == inflight
<1>1. TypeOK
  BY DEF IInv
<1>2. /\ q # <<>> /\ UNCHANGED <<mvuRegs, ff_evict_req, data, written, faults, errors>>
      /\ \/ UNCHANGED <<inflight, held>>
         \/ /\ q' = Tail(q)
            /\ held' \subseteq held \cup {line_of(Head(q).addr)}
  BY DEF CacheTake
<1>4. Unfolded' = Unfolded
  BY <1>2, UnfoldedFrame
<1>5. ProtectedEvict' = ProtectedEvict /\ (\A k : EvictLine(k)' = EvictLine(k))
      /\ leaf_line' = leaf_line
  BY <1>2 DEF ProtectedEvict, EvictLine, leaf_line
<1>6. CASE UNCHANGED <<inflight, held>>
  BY <1>1, <1>2, <1>6, OnePlaceShrink
<1>7. CASE q' = Tail(q) /\ held' \subseteq held \cup {line_of(Head(q).addr)}
  <2> DEFINE first == line_of(Head(q).addr)
  <2>1. q \in Seq(ReadReq)
    BY <1>1 DEF TypeOK
  <2>2. /\ DOMAIN q = 1..Len(q) /\ DOMAIN q' = 1..Len(q') /\ Len(q) \in Nat /\ Len(q) >= 1
        /\ Len(q') = Len(q) - 1 /\ Head(q) = q[1] /\ \A k \in 1..Len(q') : q'[k] = q[k + 1]
    <3>1. /\ q' \in Seq(ReadReq) /\ Len(q) \in Nat /\ Len(q) >= 1
          /\ Len(q') = Len(q) - 1 /\ Head(q) = q[1] /\ \A k \in 1..Len(q') : q'[k] = q[k + 1]
      BY <1>2, <1>7, <2>1, TailShift
    <3>2. DOMAIN q = 1..Len(q) /\ DOMAIN q' = 1..Len(q')
      BY <2>1, <3>1, LenProperties
    <3> QED BY <3>1, <3>2
  <2>3. \A k \in DOMAIN q' :
          k + 1 \in DOMAIN q /\ k + 1 # 1 /\ k \in Nat /\ q'[k] = q[k + 1]
    BY <2>2
  <2>4. 1 \in DOMAIN q /\ first = line_of(q[1].addr) /\ first \in ReadLines
    BY <2>2 DEF ReadLines, Entries
  <2> HIDE DEF first
  <2>5. \A j, k \in DOMAIN q' : line_of(q'[j].addr) = line_of(q'[k].addr) => j = k
    <3> SUFFICES ASSUME NEW j \in DOMAIN q', NEW k \in DOMAIN q',
                        line_of(q'[j].addr) = line_of(q'[k].addr)
                 PROVE  j = k
      OBVIOUS
    <3>1. j + 1 = k + 1
      BY <1>1, <2>3 DEF OnePlace
    <3>2. j \in Nat /\ k \in Nat
      BY <2>3
    <3> QED BY <3>1, <3>2
  <2>6. ReadLines' \subseteq ReadLines /\ first \notin ReadLines'
    <3>1. ReadLines = {line_of(q[k].addr) : k \in DOMAIN q}
      BY DEF ReadLines, Entries
    <3>2. ReadLines' = {line_of(q'[k].addr) : k \in DOMAIN q'}
      BY DEF ReadLines, Entries
    <3>3. \A k \in DOMAIN q' : line_of(q'[k].addr) # first
      BY <1>1, <2>3, <2>4 DEF OnePlace
    <3> QED BY <2>3, <3>1, <3>2, <3>3
  <2>7. held' \subseteq held \cup {first}
    BY <1>7 DEF first
  <2>8. held' \cap ReadLines' = {} /\ Unfolded' \cap (held' \cup ReadLines') = {}
    BY <1>1, <1>4, <2>4, <2>6, <2>7 DEF OnePlace
  <2> QED
    BY <1>1, <1>2, <1>5, <2>5, <2>8 DEF OnePlace
<1> QED
  BY <1>2, <1>6, <1>7

LEMMA LinesTake ==
  ASSUME IInv, Lines, CacheTake PROVE Lines'
<1>1. UNCHANGED <<mvuRegs, ff_evict_req, data, written, faults, errors>>
  BY DEF CacheTake
<1>2. Tampered' = Tampered
  BY <1>1 DEF Tampered
<1> QED
  BY <1>1, <1>2, OnePlaceTake, EvictsWrittenFrame, FaultsWatchedFrame DEF Lines

(* A corruption hits a watched word, and at most one of them (OneFault).   *)
LEMMA LinesFaultData ==
  ASSUME IInv, Lines, NEW a \in Addr, NEW w \in Word, FaultData(a, w)
  PROVE  /\ Lines' /\ Tampered \ Tampered' \subseteq {a}
         /\ OneFault => Tampered = {} /\ Tampered' \subseteq {a} /\ faults = 0 /\ errors = 0
<1>1. TypeOK /\ OnePlace /\ EvictsWritten /\ FaultsWatched
  BY DEF IInv, Lines
<1>2. /\ faults < MaxFaults /\ (Together \/ errors = 0)
      /\ is_protected(a) /\ watched(a) /\ w # data[a]
      /\ data' = [data EXCEPT ![a] = w] /\ faults' = faults + 1
      /\ UNCHANGED <<mvuVars, cacheVars, errors>>
  BY DEF FaultData
<1>3. data \in [Addr -> Word] /\ faults \in 0..MaxFaults /\ MaxFaults \in Nat
  BY <1>1, SystemAssumption DEF TypeOK
<1>4. Tampered' \subseteq Tampered \cup {a} /\ Tampered \ Tampered' \subseteq {a}
  BY <1>2, <1>3 DEF Tampered
<1>5. OneFault => Tampered = {} /\ Tampered' \subseteq {a} /\ faults = 0 /\ errors = 0
  <2>1. OneFault => faults = 0 /\ errors = 0
    BY <1>2, <1>3 DEF OneFault
  <2> QED BY <1>1, <1>4, <2>1 DEF FaultsWatched
<1>6. OnePlace' /\ EvictsWritten'
  BY <1>1, <1>2, OnePlaceShrink, EvictsWrittenFrame
<1>7. FaultsWatched'
  <2>1. faults' # 0 /\ OneFault' = OneFault
    BY <1>2, <1>3 DEF OneFault
  <2>2. \A b \in Addr : watched(b)' = watched(b)
    BY <1>2 DEF watched, get_hash
  <2>3. \A b \in Tampered' : is_protected(b) /\ watched(b)'
    <3>1. \A b \in Tampered' : b \in Addr BY DEF Tampered
    <3> QED BY <1>1, <1>2, <1>4, <2>2, <3>1 DEF FaultsWatched
  <2> QED BY <1>2, <1>5, <2>1, <2>3 DEF FaultsWatched
<1> QED
  BY <1>4, <1>5, <1>6, <1>7 DEF Lines

LEMMA LinesEnvironment ==
  ASSUME IInv, OrderLine, Lines, Environment PROVE Lines'
<1>1. TypeOK /\ OnePlace /\ EvictsWritten /\ FaultsWatched
  BY DEF IInv, Lines
<1>2. UNCHANGED mvuRegs
  BY EnvironmentFrame
<1>3. ASSUME UNCHANGED <<ff_evict_req, inflight>>, held' \subseteq held,
             UNCHANGED <<data, written>>, FaultsWatched'
      PROVE  Lines'
  BY <1>1, <1>2, <1>3, OnePlaceShrink, EvictsWrittenFrame DEF Lines
<1>4. ASSUME UNCHANGED <<data, written, faults, errors>> PROVE FaultsWatched'
  <2>1. Tampered' = Tampered BY <1>4 DEF Tampered
  <2> QED BY <1>1, <1>2, <1>4, <2>1, FaultsWatchedFrame
<1>5. ASSUME NEW line \in Line, CacheDrop(line) PROVE Lines'
  BY <1>3, <1>4, <1>5 DEF CacheDrop
<1>6. ASSUME MemAccept \/ MemBeat \/ TreeRead \/ TreeWrite PROVE Lines'
  <2>1. UNCHANGED <<ff_evict_req, cacheVars, data, faults, errors>>
    BY <1>6 DEF MemAccept, MemBeat, TreeRead, TreeWrite
  <2> QED BY <1>3, <1>4, <2>1
<1>7. ASSUME BusError, UNCHANGED <<ff_evict_req, cacheVars, data>> PROVE Lines'
  <2>1. OneFault => faults = 0
    BY <1>7 DEF BusError, OneFault
  <2>2. Tampered' = Tampered /\ UNCHANGED faults
    BY <1>7 DEF Tampered, BusError
  <2>3. \A a : watched(a)' = watched(a)
    BY <1>2 DEF watched, get_hash
  <2>4. FaultsWatched'
    BY <1>1, <2>1, <2>2, <2>3 DEF FaultsWatched, OneFault
  <2> QED BY <1>3, <1>7, <2>4
<1>8. ASSUME NEW m \in MemNode, NEW w \in Word, FaultNode(m, w) PROVE Lines'
  <2>1. /\ faults' = faults + 1 /\ (Together \/ errors = 0)
        /\ UNCHANGED <<ff_evict_req, cacheVars, data, errors>>
    BY <1>8 DEF FaultNode
  <2>2. faults' # 0
    BY <1>1, <2>1, SystemAssumption DEF TypeOK
  <2>3. Tampered' = Tampered /\ \A a : watched(a)' = watched(a)
    BY <1>2, <2>1 DEF Tampered, watched, get_hash
  <2>4. FaultsWatched'
    BY <1>1, <2>1, <2>2, <2>3 DEF FaultsWatched, OneFault
  <2> QED BY <1>3, <2>1, <2>4
<1>9. (\E junk \in Word : BeatFails(junk))
        \/ (\E junk \in [Pos -> Word] : GroupReadFails(junk)) \/ NodeWriteFails
          => BusError /\ UNCHANGED <<ff_evict_req, cacheVars, data>>
  BY DEF BeatFails, GroupReadFails, NodeWriteFails
<1> QED
  BY <1>5, <1>6, <1>7, <1>8, <1>9, LinesRead, LinesEvict, LinesIoStore, LinesTake, LinesFaultData
  DEF Environment

(* At first no line is anywhere, and nothing is corrupted.                 *)
LEMMA InitLines == Init => Lines
<1> SUFFICES ASSUME Init PROVE Lines
  OBVIOUS
<1>1. /\ ff_evict_req = <<>> /\ inflight = <<>> /\ held = {} /\ ~rg_is_update
      /\ data = [a \in Addr |-> Zero] /\ written = [a \in Addr |-> Zero]
      /\ faults = 0 /\ errors = 0
  BY DEF Init, MVUInit
<1>2. ProtectedEvict = {} /\ Unfolded = {} /\ Tampered = {} /\ DOMAIN inflight = {}
  BY <1>1 DEF ProtectedEvict, Unfolded, Entries, Tampered
<1> QED
  BY <1>1, <1>2 DEF Lines, OnePlace, EvictsWritten, FaultsWatched

(* Lines is inductive on top of IInv, for a cache side held to OrderLine.  *)
LEMMA StepLines == OrderLine /\ IInv /\ Lines /\ [Next]_vars => Lines'
<1> SUFFICES ASSUME OrderLine, IInv, Lines, [Next]_vars PROVE Lines'
  OBVIOUS
<1>1. CASE Next
  BY <1>1, LinesUnit, LinesEnvironment DEF Next
<1>2. CASE UNCHANGED vars
  <2>1. Tampered' = Tampered
    BY <1>2 DEF Tampered
  <2>2. FaultsWatched'
    BY <1>2, <2>1, FaultsWatchedFrame DEF Lines
  <2> QED BY <1>2, <2>2, OnePlaceShrink, EvictsWrittenFrame DEF Lines
<1> QED BY <1>1, <1>2
-----------------------------------------------------------------------------
(* A wrap burst stays in the line it starts in.                            *)
LEMMA WrapLine ==
  ASSUME NEW req \in ReadReq, NEW k \in Int
  PROVE  wrap(req, k) \in Addr /\ line_of(wrap(req, k)) = line_of(req.addr)
<1>1. line_of(req.addr) \in Line
  BY LineOfAddr DEF ReadReq
<1>2. req.addr \in Int
  BY Shape DEF ReadReq, Addr
<1>3. (((req.addr % Arity) + k) % Arity) \in Pos
  <2>1. req.addr % Arity \in Int
    BY <1>2, Shape, Division
  <2> QED BY <2>1, Shape, Division DEF Pos
<1> QED
  BY <1>1, <1>3, WordOfLine DEF wrap

(* The words of the lines being read are neither written nor restored.     *)
ReadWordsKept ==
  \A a \in Addr : line_of(a) \in ReadLines =>
    written'[a] = written[a] /\ (a \in Tampered => a \in Tampered')

LEMMA PromisedBefore ==
  ASSUME IInv, Next PROVE Promised' => Promised
<1>1. faults \in Nat /\ errors \in Nat
  BY SystemAssumption DEF IInv, TypeOK
<1>2. OneFault' = OneFault
  BY DEF OneFault
<1>3. /\ faults' \in {faults, faults + 1}
      /\ errors' \in {errors, errors + 1}
  <2>1. Unit => UNCHANGED <<faults, errors>>
    BY DEF Unit
  <2>2. \A req \in ReadReq : CacheRead(req) => UNCHANGED <<faults, errors>>
    BY DEF CacheRead
  <2>3. \A line \in Line, d \in EvictData : CacheEvict(line, d) => UNCHANGED <<faults, errors>>
    BY DEF CacheEvict
  <2>4. \A line \in Line : CacheDrop(line) => UNCHANGED <<faults, errors>>
    BY DEF CacheDrop
  <2>5. \A a \in Addr, w \in Word : IoStore(a, w) => UNCHANGED <<faults, errors>>
    BY DEF IoStore
  <2>6. CacheTake \/ MemAccept \/ MemBeat \/ TreeRead \/ TreeWrite => UNCHANGED <<faults, errors>>
    BY DEF CacheTake, MemAccept, MemBeat, TreeRead, TreeWrite
  <2>7. \A a \in Addr, w \in Word : FaultData(a, w) => faults' = faults + 1 /\ UNCHANGED errors
    BY DEF FaultData
  <2>8. \A n \in MemNode, w \in Word : FaultNode(n, w) => faults' = faults + 1 /\ UNCHANGED errors
    BY DEF FaultNode
  <2>9. (\E junk \in Word : BeatFails(junk))
        \/ (\E junk \in [Pos -> Word] : GroupReadFails(junk)) \/ NodeWriteFails
          => UNCHANGED faults /\ errors' = errors + 1
    BY DEF BeatFails, GroupReadFails, NodeWriteFails, BusError
  <2> QED BY <2>1, <2>2, <2>3, <2>4, <2>5, <2>6, <2>7, <2>8, <2>9 DEF Next, Environment
<1> QED
  BY <1>1, <1>2, <1>3 DEF Promised, Honest

LEMMA ReadWordsStay ==
  ASSUME IInv, Lines, Next, Promised' PROVE ReadWordsKept
<1>1. ASSUME UNCHANGED <<data, written>> PROVE ReadWordsKept
  BY <1>1 DEF ReadWordsKept, Tampered
<1>2. Unit => UNCHANGED <<data, written>>
  BY DEF Unit
<1>3. ASSUME NEW line \in Line, line \notin ReadLines,
             \A a \in Addr : line_of(a) # line => data'[a] = data[a] /\ written'[a] = written[a]
      PROVE  ReadWordsKept
  BY <1>3 DEF ReadWordsKept, Tampered
<1>4. ASSUME NEW line \in Line, NEW d \in EvictData, CacheEvict(line, d) PROVE ReadWordsKept
  <2>1. /\ line \notin ReadLines
        /\ \A a \in Addr : line_of(a) # line => data'[a] = data[a] /\ written'[a] = written[a]
    BY <1>4, LinesEvict
  <2> QED BY <1>3, <2>1
<1>5. ASSUME NEW a \in Addr, NEW w \in Word, IoStore(a, w) PROVE ReadWordsKept
  <2>1. /\ line_of(a) \notin ReadLines
        /\ \A b \in Addr : line_of(b) # line_of(a) =>
             data'[b] = data[b] /\ written'[b] = written[b]
    BY <1>5, LinesIoStore
  <2>2. line_of(a) \in Line
    BY LineOfAddr
  <2> QED BY <1>3, <2>1, <2>2
<1>6. ASSUME NEW a \in Addr, NEW w \in Word, FaultData(a, w) PROVE ReadWordsKept
  <2>1. faults' # 0 /\ UNCHANGED written
    BY <1>6, SystemAssumption DEF FaultData, IInv, TypeOK
  <2>2. OneFault
    BY <2>1 DEF Promised, Honest, OneFault
  <2>3. Tampered = {}
    BY <1>6, <2>2, LinesFaultData
  <2> QED BY <2>1, <2>3 DEF ReadWordsKept
<1>7. \A req \in ReadReq : CacheRead(req) => UNCHANGED <<data, written>>
  BY DEF CacheRead
<1>8. \A line \in Line : CacheDrop(line) => UNCHANGED <<data, written>>
  BY DEF CacheDrop
<1>9. CacheTake \/ MemAccept \/ MemBeat \/ TreeRead \/ TreeWrite => UNCHANGED <<data, written>>
  BY DEF CacheTake, MemAccept, MemBeat, TreeRead, TreeWrite
<1>10. \A n \in MemNode, w \in Word : FaultNode(n, w) => UNCHANGED <<data, written>>
  BY DEF FaultNode
<1>11. (\E junk \in Word : BeatFails(junk))
         \/ (\E junk \in [Pos -> Word] : GroupReadFails(junk)) \/ NodeWriteFails
           => UNCHANGED <<data, written>>
  BY DEF BeatFails, GroupReadFails, NodeWriteFails
<1> QED
  BY <1>1, <1>2, <1>4, <1>5, <1>6, <1>7, <1>8, <1>9, <1>10, <1>11 DEF Next, Environment

(* The reads whose beats are under way are in flight.                      *)
LEMMA ReadsInFlight ==
  ASSUME IInv, InOrder
  PROVE  /\ rg_pending_req # Invalid =>
              rg_pending_req \in ReadReq /\ line_of(rg_pending_req.addr) \in ReadLines
         /\ Active => /\ inflight[Answered + 1] \in ReadReq
                      /\ line_of(inflight[Answered + 1].addr) \in ReadLines
         /\ \A k \in DOMAIN ff_resp_to_cache :
              LET p == PlaceOf(k) IN
              /\ p.read \in DOMAIN inflight /\ inflight[p.read] \in ReadReq /\ p.beat \in Nat
              /\ line_of(inflight[p.read].addr) \in ReadLines
<1>1. inflight \in Seq(ReadReq) /\ got \in Nat
  BY Shape DEF IInv, TypeOK, Pos
<1>2. \A j \in DOMAIN inflight : inflight[j] \in ReadReq /\ line_of(inflight[j].addr) \in ReadLines
  BY <1>1 DEF ReadLines, Entries
<1>3. ASSUME rg_pending_req # Invalid
      PROVE  rg_pending_req \in ReadReq /\ line_of(rg_pending_req.addr) \in ReadLines
  BY <1>3, PendingInFlight DEF ReadLines, IInv, TypeOK, MVUTypeOK
<1>4. Active => Answered + 1 \in DOMAIN inflight
  BY ActiveRead
<1>5. \A k \in DOMAIN ff_resp_to_cache :
        PlaceOf(k).read \in DOMAIN inflight /\ PlaceOf(k).beat \in Nat
  BY <1>1, PlaceNat DEF InOrder
<1> QED
  BY <1>2, <1>3, <1>4, <1>5

LEMMA DrawnInt ==
  ASSUME IInv, ff_resp_from_mem # <<>> PROVE Drawn \in Int /\ rg_pending_req # Invalid
<1>1. TypeOK /\ MemPipe
  BY DEF IInv, Transfer
<1>2. rg_pending_req \in ReadReq /\ rg_pending_req # Invalid
  BY <1>1 DEF MemPipe, PipeIdle, PipeAsked, PipeBurst, PipeDrain, Awaiting, TypeOK, MVUTypeOK
<1>3. rg_pending_req.len \in Int
  BY <1>2, Shape DEF ReadReq
<1>4. Len(ff_resp_from_mem) \in Nat
  BY <1>1, LenProperties DEF TypeOK, MVUTypeOK
<1>5. burst # Invalid => burst.beat \in Int
  BY <1>1, Shape DEF TypeOK, Pos
<1> QED
  BY <1>2, <1>3, <1>4, <1>5 DEF Drawn
-----------------------------------------------------------------------------
(* What Beats says of a beat, after a step.                                *)
FaithfulNext(resp, req, k) == resp.err \/ resp.data = written'[wrap(req, k)]
PlausibleNext(resp, req, k) == FaithfulNext(resp, req, k) \/ wrap(req, k) \in Tampered'

LEMMA BeatsNext ==
  /\ BeatsArriving' <=>
       \A j \in DOMAIN ff_resp_from_mem' :
         PlausibleNext(ff_resp_from_mem'[j], rg_pending_req', Drawn' + j - 1)
  /\ BeatsCollected' <=>
       (rg_from_protected' =>
          \A k \in Pos : (rg_state' = "ACCUMULATING" => k < rg_beat_count') =>
            /\ PlausibleNext(rg_buffered_responses'[k], rg_pending_req', k)
            /\ rg_leaves'[k] = rg_buffered_responses'[k].data)
  /\ BeatsCleared' <=>
       ((rg_state' = "FORWARD_TO_CACHE" /\ ~rg_mvu_error') =>
          \A k \in Pos : FaithfulNext(rg_buffered_responses'[k], inflight'[Answered' + 1], k))
  /\ BeatsQueued' <=>
       \A k \in DOMAIN ff_resp_to_cache' :
         FaithfulNext(ff_resp_to_cache'[k], inflight'[PlaceOf(k)'.read], PlaceOf(k)'.beat)
<1> QED
  BY DEF BeatsArriving, BeatsCollected, BeatsCleared, BeatsQueued, Plausible, Faithful,
         PlausibleNext, FaithfulNext

LEMMA BeatKept ==
  ASSUME ReadWordsKept, NEW req \in ReadReq, line_of(req.addr) \in ReadLines,
         NEW k \in Int, NEW resp
  PROVE  /\ Faithful(resp, req, k) => FaithfulNext(resp, req, k)
         /\ Plausible(resp, req, k) => PlausibleNext(resp, req, k)
<1>1. wrap(req, k) \in Addr /\ line_of(wrap(req, k)) \in ReadLines
  BY WrapLine
<1> QED
  BY <1>1 DEF ReadWordsKept, Faithful, Plausible, FaithfulNext, PlausibleNext

(* The beats there are keep their contents through every step.             *)
LEMMA ArrivingKept ==
  ASSUME IInv, InOrder, BeatsArriving, ReadWordsKept
  PROVE  \A j \in DOMAIN ff_resp_from_mem :
           PlausibleNext(ff_resp_from_mem[j], rg_pending_req, Drawn + j - 1)
<1> SUFFICES ASSUME NEW j \in DOMAIN ff_resp_from_mem
             PROVE  PlausibleNext(ff_resp_from_mem[j], rg_pending_req, Drawn + j - 1)
  OBVIOUS
<1>1. ff_resp_from_mem \in Seq(ReadResp)
  BY DEF IInv, TypeOK, MVUTypeOK
<1>2. j \in Int /\ ff_resp_from_mem # <<>>
  <2>1. DOMAIN ff_resp_from_mem = 1..Len(ff_resp_from_mem) /\ Len(ff_resp_from_mem) \in Nat
    BY <1>1, LenProperties
  <2>2. ff_resp_from_mem = <<>> => Len(ff_resp_from_mem) = 0
    OBVIOUS
  <2> QED BY <2>1, <2>2
<1>3. Drawn \in Int /\ rg_pending_req # Invalid
  BY <1>2, DrawnInt
<1>4. Drawn + j - 1 \in Int
  BY <1>2, <1>3
<1>5. rg_pending_req \in ReadReq /\ line_of(rg_pending_req.addr) \in ReadLines
  BY <1>3, ReadsInFlight
<1> QED
  BY <1>4, <1>5, BeatKept DEF BeatsArriving

LEMMA CollectedKept ==
  ASSUME IInv, InOrder, BeatsCollected, ReadWordsKept, rg_from_protected
  PROVE  \A k \in Pos : (rg_state = "ACCUMULATING" => k < rg_beat_count) =>
           /\ PlausibleNext(rg_buffered_responses[k], rg_pending_req, k)
           /\ rg_leaves[k] = rg_buffered_responses[k].data
<1>1. rg_pending_req # Invalid
  BY InvalidApart DEF IInv, Control, Session
<1>2. rg_pending_req \in ReadReq /\ line_of(rg_pending_req.addr) \in ReadLines
  BY <1>1, ReadsInFlight
<1>3. \A k \in Pos : k \in Int
  BY DEF Pos
<1> QED
  BY <1>2, <1>3, BeatKept DEF BeatsCollected

LEMMA ClearedKept ==
  ASSUME IInv, InOrder, BeatsCleared, ReadWordsKept,
         rg_state = "FORWARD_TO_CACHE", ~rg_mvu_error
  PROVE  \A k \in Pos : FaithfulNext(rg_buffered_responses[k], inflight[Answered + 1], k)
<1>1. inflight[Answered + 1] \in ReadReq /\ line_of(inflight[Answered + 1].addr) \in ReadLines
  BY ReadsInFlight DEF Active
<1>2. \A k \in Pos : k \in Int
  BY DEF Pos
<1> QED
  BY <1>1, <1>2, BeatKept DEF BeatsCleared

LEMMA QueuedKept ==
  ASSUME IInv, InOrder, BeatsQueued, ReadWordsKept
  PROVE  \A k \in DOMAIN ff_resp_to_cache :
           FaithfulNext(ff_resp_to_cache[k], inflight[PlaceOf(k).read], PlaceOf(k).beat)
<1> SUFFICES ASSUME NEW k \in DOMAIN ff_resp_to_cache
             PROVE  FaithfulNext(ff_resp_to_cache[k], inflight[PlaceOf(k).read], PlaceOf(k).beat)
  OBVIOUS
<1>1. /\ inflight[PlaceOf(k).read] \in ReadReq /\ PlaceOf(k).beat \in Int
      /\ line_of(inflight[PlaceOf(k).read].addr) \in ReadLines
  BY ReadsInFlight
<1> QED
  BY <1>1, BeatKept DEF BeatsQueued
-----------------------------------------------------------------------------
(* Each part of Beats, when a step leaves alone what it is about.          *)
LEMMA ArrivingFrame ==
  ASSUME IInv, InOrder, BeatsArriving, ReadWordsKept,
         UNCHANGED <<ff_resp_from_mem, rg_pending_req, burst>>
  PROVE  BeatsArriving'
<1>1. Drawn' = Drawn
  BY DEF Drawn
<1> QED
  BY <1>1, ArrivingKept, BeatsNext

LEMMA CollectedFrame ==
  ASSUME IInv, InOrder, BeatsCollected, ReadWordsKept,
         UNCHANGED <<rg_from_protected, rg_pending_req, rg_beat_count, rg_leaves,
                     rg_buffered_responses>>,
         rg_state = "ACCUMULATING" => rg_state' = "ACCUMULATING"
  PROVE  BeatsCollected'
BY CollectedKept, BeatsNext

LEMMA ClearedFrame ==
  ASSUME IInv, InOrder, BeatsCleared, ReadWordsKept,
         UNCHANGED <<rg_mvu_error, rg_buffered_responses, ff_resp_to_cache>>,
         rg_state' = "FORWARD_TO_CACHE" => rg_state = "FORWARD_TO_CACHE",
         \A j \in DOMAIN inflight : inflight'[j] = inflight[j]
  PROVE  BeatsCleared'
<1>1. Answered' = Answered
  BY DEF Answered, LastBeats, IsLast
<1>2. rg_state = "FORWARD_TO_CACHE" => inflight'[Answered + 1] = inflight[Answered + 1]
  BY ActiveRead DEF Active
<1> QED
  BY <1>1, <1>2, ClearedKept, BeatsNext

LEMMA QueuedFrame ==
  ASSUME IInv, InOrder, BeatsQueued, ReadWordsKept, UNCHANGED <<ff_resp_to_cache, got>>,
         \A j \in DOMAIN inflight : inflight'[j] = inflight[j]
  PROVE  BeatsQueued'
<1>1. \A k : PlaceOf(k)' = PlaceOf(k)
  BY DEF PlaceOf, FirstPlace, SecondPlace, After
<1>2. \A k \in DOMAIN ff_resp_to_cache :
        inflight'[PlaceOf(k).read] = inflight[PlaceOf(k).read]
  BY ReadsInFlight
<1> QED
  BY <1>1, <1>2, QueuedKept, BeatsNext

(* A beat goes to the cache as the next word of the read it belongs to.    *)
LEMMA QueuedSend ==
  ASSUME IInv, InOrder, BeatsQueued, ReadWordsKept, NEW x \in ReadResp,
         NotFull(ff_resp_to_cache), UNCHANGED <<inflight, got>>,
         ff_resp_to_cache' = Append(ff_resp_to_cache, x),
         FaithfulNext(x, inflight[Answered + 1], Sent)
  PROVE  BeatsQueued'
<1> DEFINE q == ff_resp_to_cache
<1>1. q \in Seq(ReadResp) /\ Len(q) < 2
  BY DEF IInv, TypeOK, MVUTypeOK, NotFull, FifoDepth
<1>2. /\ \A k \in DOMAIN q : PlaceOf(k)' = PlaceOf(k)
      /\ \A k : k = Len(q) + 1 => PlaceOf(k)' = NextPlace
  BY <1>1, PlaceAppend
<1>3. /\ \A k \in 1..Len(q) : q'[k] = q[k]
      /\ q'[Len(q) + 1] = x /\ DOMAIN q = 1..Len(q) /\ DOMAIN q' = 1..(Len(q) + 1)
      /\ Len(q) \in Nat
  <2>1. /\ q' \in Seq(ReadResp) /\ Len(q) \in Nat /\ Len(q') = Len(q) + 1
        /\ \A k \in 1..Len(q) : q'[k] = q[k]
        /\ q'[Len(q) + 1] = x
    BY <1>1, AppendShift
  <2> QED BY <1>1, <2>1, LenProperties
<1>4. NextPlace.read = Answered + 1 /\ NextPlace.beat = Sent
  BY DEF InOrder
<1>5. ASSUME NEW k \in DOMAIN q'
      PROVE  FaithfulNext(q'[k], inflight[PlaceOf(k)'.read], PlaceOf(k)'.beat)
  <2>1. CASE k \in DOMAIN q
    BY <1>2, <1>3, <2>1, QueuedKept
  <2>2. CASE k = Len(q) + 1
    BY <1>2, <1>3, <1>4, <2>2
  <2> QED BY <1>3, <1>5, <2>1, <2>2
<1> QED
  BY <1>5, BeatsNext
-----------------------------------------------------------------------------
(* A beat arrives at the place the burst has reached.                      *)
LEMMA ArrivingBeat ==
  ASSUME IInv, InOrder, BeatsArriving, ReadWordsKept, burst # Invalid,
         NEW resp \in ReadResp, ff_resp_from_mem' = Append(ff_resp_from_mem, resp),
         burst' = IF burst.beat = burst.req.len THEN Invalid ELSE [burst EXCEPT !.beat = @ + 1],
         UNCHANGED rg_pending_req,
         PlausibleNext(resp, burst.req, burst.beat)
  PROVE  BeatsArriving'
<1> DEFINE q == ff_resp_from_mem
<1>1. Drawn' = Drawn
  BY DrawnArrives
<1>2. TypeOK /\ MemPipe
  BY DEF IInv, Transfer
<1>3. PipeBurst
  BY <1>2 DEF MemPipe, PipeIdle, PipeAsked, PipeDrain
<1>4. burst.req = rg_pending_req /\ burst.beat \in Int /\ q \in Seq(ReadResp)
  <2>1. burst \in [req : ReadReq, beat : Pos] /\ q \in Seq(ReadResp)
    BY <1>2 DEF TypeOK, MVUTypeOK
  <2> QED BY <1>3, <2>1 DEF PipeBurst, Pos
<1>5. /\ \A k \in 1..Len(q) : q'[k] = q[k]
      /\ q'[Len(q) + 1] = resp /\ DOMAIN q = 1..Len(q) /\ DOMAIN q' = 1..(Len(q) + 1)
      /\ Len(q) \in Nat
  <2>1. /\ q' \in Seq(ReadResp) /\ Len(q) \in Nat /\ Len(q') = Len(q) + 1
        /\ \A k \in 1..Len(q) : q'[k] = q[k]
        /\ q'[Len(q) + 1] = resp
    BY <1>4, AppendShift
  <2> QED BY <1>4, <2>1, LenProperties
<1>6. Drawn + (Len(q) + 1) - 1 = burst.beat
  <2>1. Drawn = burst.beat - Len(q)
    BY DEF Drawn
  <2> QED BY <1>4, <1>5, <2>1
<1>7. ASSUME NEW j \in DOMAIN q' PROVE PlausibleNext(q'[j], rg_pending_req, Drawn + j - 1)
  <2>1. CASE j \in DOMAIN q
    BY <1>5, <2>1, ArrivingKept
  <2>2. CASE j = Len(q) + 1
    BY <1>4, <1>5, <1>6, <2>2
  <2> QED BY <1>5, <1>7, <2>1, <2>2
<1> QED
  BY <1>1, <1>7, BeatsNext

LEMMA BeatsMemBeat ==
  ASSUME IInv, InOrder, Beats, Promised, ReadWordsKept, MemBeat PROVE Beats'
<1> DEFINE resp == [data |-> data[wrap(burst.req, burst.beat)],
                    last |-> burst.beat = burst.req.len, err |-> FALSE]
<1>1. /\ burst # Invalid /\ ff_resp_from_mem' = Append(ff_resp_from_mem, resp)
      /\ burst' = IF burst.beat = burst.req.len THEN Invalid
                  ELSE [burst EXCEPT !.beat = @ + 1]
      /\ UNCHANGED <<ff_resp_to_cache, mvuRegs, cacheVars, data>>
  BY DEF MemBeat
<1>2. wrap(burst.req, burst.beat) \in Addr
  <2>1. burst.req \in ReadReq /\ burst.beat \in Nat
    BY <1>1, Shape DEF IInv, TypeOK, Pos
  <2> QED BY <2>1, WrapIsAddr
<1>3. resp \in ReadResp
  <2>1. data[wrap(burst.req, burst.beat)] \in Word
    BY <1>2 DEF IInv, TypeOK
  <2> QED BY <2>1 DEF ReadResp
<1>4. PlausibleNext(resp, burst.req, burst.beat)
  BY <1>1, <1>2 DEF PlausibleNext, FaithfulNext, Tampered
<1> HIDE DEF resp
<1>5. BeatsArriving' /\ BeatsCollected' /\ BeatsCleared' /\ BeatsQueued'
  BY <1>1, <1>3, <1>4, ArrivingBeat, CollectedFrame, ClearedFrame, QueuedFrame DEF Beats
<1> QED
  BY <1>5 DEF Beats

LEMMA BeatsBeatFails ==
  ASSUME IInv, InOrder, Beats, Promised, ReadWordsKept, NEW junk \in Word, BeatFails(junk)
  PROVE  Beats'
<1> DEFINE resp == [data |-> junk, last |-> burst.beat = burst.req.len, err |-> TRUE]
<1>1. /\ burst # Invalid /\ ff_resp_from_mem' = Append(ff_resp_from_mem, resp)
      /\ burst' = IF burst.beat = burst.req.len THEN Invalid
                  ELSE [burst EXCEPT !.beat = @ + 1]
      /\ UNCHANGED <<ff_resp_to_cache, mvuRegs, cacheVars, data>>
  BY DEF BeatFails
<1>2. resp \in ReadResp
  BY DEF ReadResp
<1>3. PlausibleNext(resp, burst.req, burst.beat)
  BY DEF PlausibleNext, FaithfulNext
<1> HIDE DEF resp
<1>4. BeatsArriving' /\ BeatsCollected' /\ BeatsCleared' /\ BeatsQueued'
  BY <1>1, <1>2, <1>3, ArrivingBeat, CollectedFrame, ClearedFrame, QueuedFrame DEF Beats
<1> QED
  BY <1>4 DEF Beats

(* The memory takes the request: nothing has been drawn.                   *)
LEMMA BeatsAccept ==
  ASSUME IInv, InOrder, Beats, Promised, ReadWordsKept, MemAccept PROVE Beats'
<1>1. /\ burst = Invalid /\ ff_req_to_mem # <<>>
      /\ UNCHANGED <<ff_resp_from_mem, ff_resp_to_cache, mvuRegs, cacheVars>>
  BY DEF MemAccept, NotEmpty
<1>2. ff_resp_from_mem = <<>>
  <2>1. MemPipe
    BY DEF IInv, Transfer
  <2> QED BY <1>1, <2>1 DEF MemPipe, PipeIdle, PipeAsked, PipeBurst, PipeDrain
<1>3. BeatsArriving'
  <2>1. DOMAIN ff_resp_from_mem' = {}
    BY <1>1, <1>2
  <2> QED BY <2>1, BeatsNext
<1>4. BeatsCollected' /\ BeatsCleared' /\ BeatsQueued'
  BY <1>1, CollectedFrame, ClearedFrame, QueuedFrame DEF Beats
<1> QED
  BY <1>3, <1>4 DEF Beats

(* The cache takes a beat: the others keep their reads.                    *)
LEMMA BeatsTake ==
  ASSUME IInv, InOrder, Beats, Promised, ReadWordsKept, CacheTake PROVE Beats'
<1>1. UNCHANGED <<ff_resp_from_mem, mvuRegs, burst>>
  BY DEF CacheTake
<1>2. BeatsArriving' /\ BeatsCollected'
  BY <1>1, ArrivingFrame, CollectedFrame DEF Beats
<1>3. BeatsCleared'
  <2>1. rg_state = "FORWARD_TO_CACHE" => inflight'[Answered' + 1] = inflight[Answered + 1]
    BY PlaceTaken DEF Active
  <2> QED BY <1>1, <2>1, ClearedKept, BeatsNext DEF Beats
<1>4. BeatsQueued'
  BY PlaceTaken, QueuedKept, BeatsNext DEF Beats
<1> QED
  BY <1>2, <1>3, <1>4 DEF Beats

LEMMA BeatsEnvironment ==
  ASSUME IInv, InOrder, Beats, Promised, ReadWordsKept, Environment PROVE Beats'
<1>1. UNCHANGED mvuRegs
  BY EnvironmentFrame
<1>2. ASSUME UNCHANGED <<ff_resp_from_mem, ff_resp_to_cache, burst, got>>,
             \A j \in DOMAIN inflight : inflight'[j] = inflight[j]
      PROVE  Beats'
  <2>1. BeatsArriving' /\ BeatsCollected' /\ BeatsCleared' /\ BeatsQueued'
    BY <1>1, <1>2, ArrivingFrame, CollectedFrame, ClearedFrame, QueuedFrame DEF Beats
  <2> QED BY <2>1 DEF Beats
<1>3. ASSUME NEW req \in ReadReq, CacheRead(req) PROVE Beats'
  <2>1. /\ UNCHANGED <<ff_resp_from_mem, ff_resp_to_cache, burst, got>>
        /\ inflight' = Append(inflight, req)
    BY <1>3 DEF CacheRead
  <2>2. inflight \in Seq(ReadReq)
    BY DEF IInv, TypeOK
  <2>3. \A j \in DOMAIN inflight : inflight'[j] = inflight[j]
    <3>1. /\ DOMAIN inflight = 1..Len(inflight)
          /\ \A k \in 1..Len(inflight) : inflight'[k] = inflight[k]
      BY <2>1, <2>2, AppendShift, LenProperties
    <3> QED BY <3>1
  <2> QED BY <1>2, <2>1, <2>3
<1>4. ASSUME UNCHANGED <<ff_resp_from_mem, ff_resp_to_cache, burst, got, inflight>> PROVE Beats'
  BY <1>2, <1>4
<1>5. \A line \in Line, d \in EvictData :
        CacheEvict(line, d) => UNCHANGED <<ff_resp_from_mem, ff_resp_to_cache, burst, got, inflight>>
  BY DEF CacheEvict
<1>6. \A line \in Line :
        CacheDrop(line) => UNCHANGED <<ff_resp_from_mem, ff_resp_to_cache, burst, got, inflight>>
  BY DEF CacheDrop
<1>7. \A a \in Addr, w \in Word :
        IoStore(a, w) \/ FaultData(a, w)
          => UNCHANGED <<ff_resp_from_mem, ff_resp_to_cache, burst, got, inflight>>
  BY DEF IoStore, FaultData
<1>8. TreeRead \/ TreeWrite
        => UNCHANGED <<ff_resp_from_mem, ff_resp_to_cache, burst, got, inflight>>
  BY DEF TreeRead, TreeWrite
<1>9. \A m \in MemNode, w \in Word :
        FaultNode(m, w) => UNCHANGED <<ff_resp_from_mem, ff_resp_to_cache, burst, got, inflight>>
  BY DEF FaultNode
<1>10. (\E junk \in [Pos -> Word] : GroupReadFails(junk)) \/ NodeWriteFails
         => UNCHANGED <<ff_resp_from_mem, ff_resp_to_cache, burst, got, inflight>>
  BY DEF GroupReadFails, NodeWriteFails
<1> QED
  BY <1>3, <1>4, <1>5, <1>6, <1>7, <1>8, <1>9, <1>10,
     BeatsMemBeat, BeatsBeatFails, BeatsAccept, BeatsTake DEF Environment
-----------------------------------------------------------------------------
(* The oldest beat from memory is taken: those behind it keep their place. *)
LEMMA DrawnTaken ==
  ASSUME IInv, ff_resp_from_mem # <<>>, ff_resp_from_mem' = Tail(ff_resp_from_mem),
         UNCHANGED burst,
         ~Head(ff_resp_from_mem).last => UNCHANGED rg_pending_req
  PROVE  ff_resp_from_mem' # <<>> => UNCHANGED rg_pending_req /\ Drawn' = Drawn + 1
<1> DEFINE q == ff_resp_from_mem
           x == Head(q)
<1>1. TypeOK /\ MemPipe
  BY DEF IInv, Transfer
<1>2. q \in Seq(ReadResp)
  BY <1>1 DEF TypeOK, MVUTypeOK
<1>3. /\ Len(q) \in Nat /\ Len(q) >= 1 /\ Len(q') = Len(q) - 1 /\ x = q[1] /\ DOMAIN q = 1..Len(q)
      /\ (q' = <<>> <=> Len(q') = 0)
  <2>1. /\ Len(q) \in Nat /\ Len(q) >= 1 /\ Len(q') = Len(q) - 1 /\ x = q[1]
        /\ q' \in Seq(ReadResp)
    BY <1>2, TailShift
  <2> QED BY <1>2, <2>1, LenProperties, EmptySeq
<1>4. 1 \in DOMAIN q
  BY <1>3
<1>5. rg_pending_req # Invalid /\ (PipeBurst \/ PipeDrain)
  BY <1>1, DrawnInt DEF MemPipe, PipeIdle, PipeAsked
<1>6. rg_pending_req.len \in Int
  BY <1>1, <1>5, Shape DEF TypeOK, MVUTypeOK, ReadReq
<1> HIDE DEF x, q
<1>7. ASSUME q' # <<>> PROVE ~x.last
  <2>1. CASE PipeBurst
    BY <1>3, <1>4, <2>1 DEF PipeBurst, NoneLast, q
  <2>2. CASE PipeDrain
    <3>1. x.last <=> 1 = Len(q)
      BY <1>3, <1>4, <2>2 DEF PipeDrain, q
    <3>2. Len(q) # 1
      BY <1>3, <1>7
    <3> QED BY <3>1, <3>2
  <2> QED BY <1>5, <2>1, <2>2
<1>8. ASSUME q' # <<>> PROVE UNCHANGED rg_pending_req /\ Drawn' = Drawn + 1
  <2>1. UNCHANGED rg_pending_req
    BY <1>7, <1>8 DEF x, q
  <2>2. CASE burst # Invalid
    <3>1. burst.beat \in Int
      BY <1>1, <2>2, Shape DEF TypeOK, Pos
    <3>2. Drawn = burst.beat - Len(q) /\ Drawn' = burst.beat - Len(q')
      BY <2>2 DEF Drawn, q
    <3> QED BY <1>3, <2>1, <3>1, <3>2
  <2>3. CASE burst = Invalid
    <3>1. Drawn = rg_pending_req.len + 1 - Len(q)
      BY <2>3 DEF Drawn, q
    <3>2. Drawn' = rg_pending_req.len + 1 - Len(q')
      BY <1>8, <2>1, <2>3 DEF Drawn, q
    <3> QED BY <1>3, <1>6, <2>1, <3>1, <3>2
  <2> QED BY <2>2, <2>3
<1> QED
  BY <1>8 DEF q

LEMMA TakenBeats ==
  ASSUME IInv, InOrder, BeatsArriving, ReadWordsKept,
         ff_resp_from_mem # <<>>, ff_resp_from_mem' = Tail(ff_resp_from_mem),
         UNCHANGED burst,
         ~Head(ff_resp_from_mem).last => UNCHANGED rg_pending_req
  PROVE  /\ BeatsArriving'
         /\ Head(ff_resp_from_mem) \in ReadResp
         /\ Plausible(Head(ff_resp_from_mem), rg_pending_req, Drawn)
         /\ PlausibleNext(Head(ff_resp_from_mem), rg_pending_req, Drawn)
<1> DEFINE q == ff_resp_from_mem
<1>1. q \in Seq(ReadResp)
  BY DEF IInv, TypeOK, MVUTypeOK
<1>2. /\ q' \in Seq(ReadResp) /\ Len(q) \in Nat /\ Len(q) >= 1
      /\ Len(q') = Len(q) - 1 /\ Head(q) = q[1]
      /\ \A k \in 1..Len(q') : q'[k] = q[k + 1]
  BY <1>1, TailShift
<1>3. DOMAIN q = 1..Len(q) /\ DOMAIN q' = 1..Len(q')
  BY <1>1, <1>2, LenProperties
<1>4. 1 \in DOMAIN q /\ \A j \in DOMAIN q' : j + 1 \in DOMAIN q /\ j \in Int /\ q'[j] = q[j + 1]
  BY <1>2, <1>3
<1>5. Drawn \in Int
  BY DrawnInt
<1>6. \A j \in DOMAIN q' : q' # <<>>
  BY <1>3
<1> HIDE DEF q
<1>7. ASSUME NEW j \in DOMAIN q' PROVE PlausibleNext(q'[j], rg_pending_req', Drawn' + j - 1)
  <2>1. UNCHANGED rg_pending_req /\ Drawn' = Drawn + 1
    BY <1>6, DrawnTaken DEF q
  <2>2. PlausibleNext(q[j + 1], rg_pending_req, Drawn + (j + 1) - 1)
    BY <1>4, ArrivingKept DEF q
  <2>3. \A d, i \in Int : d + (i + 1) - 1 = (d + 1) + i - 1
    OBVIOUS
  <2>4. Drawn + (j + 1) - 1 = Drawn' + j - 1
    BY <1>4, <1>5, <2>1, <2>3
  <2> QED BY <1>4, <2>1, <2>2, <2>4
<1>8. Drawn + 1 - 1 = Drawn
  BY <1>5
<1> QED
  BY <1>1, <1>2, <1>4, <1>7, <1>8, BeatsNext, ArrivingKept DEF BeatsArriving, q

(* rl_accumulate buffers the beat under its number in the burst.           *)
LEMMA BeatsAccumulate ==
  ASSUME IInv, InOrder, Beats, Promised, ReadWordsKept, UnitStep(rl_accumulate) PROVE Beats'
<1> DEFINE q == ff_resp_from_mem
           x == Head(q)
           n == rg_beat_count
<1>1. TypeOK /\ MemPipe /\ InFlight /\ Session
  BY DEF IInv, Transfer, Control
<1>2. /\ rg_state = "ACCUMULATING" /\ rg_from_protected /\ rg_pending_req # Invalid
      /\ q # <<>> /\ q' = Tail(q)
      /\ rg_buffered_responses' = [rg_buffered_responses EXCEPT ![n] = x]
      /\ n' = IF x.last THEN 0 ELSE (n + 1) % 16
      /\ rg_state' = IF x.last THEN "COMPUTE_L0_PARENT" ELSE rg_state
      /\ UNCHANGED <<ff_resp_to_cache, session, burst, cacheVars>>
  BY AccumulateEffect
<1>3. rg_leaves' = [rg_leaves EXCEPT ![n] = x.data]
  BY <1>2 DEF rl_accumulate, UnitStep
<1>4. n \in Pos /\ (x.last <=> n = Arity - 1)
  BY CollectedBeat
<1>5. /\ BeatsArriving' /\ x \in ReadResp
      /\ PlausibleNext(x, rg_pending_req, Drawn)
  BY <1>2, TakenBeats DEF Beats
<1>6. Drawn = n
  <2>1. rg_pending_req \in ReadReq /\ rg_pending_req.len = Arity - 1
    BY <1>1, <1>2, PendingInFlight DEF Session, InFlight
  <2>2. Len(q) \in Nat
    BY <1>1, LenProperties DEF TypeOK, MVUTypeOK
  <2>3. n \in Int
    BY <1>4 DEF Pos
  <2>4. CASE PipeBurst
    <3>1. burst # Invalid /\ burst.beat = n + Len(q)
      BY <1>2, <2>4 DEF PipeBurst
    <3>2. Drawn = burst.beat - Len(q)
      BY <3>1 DEF Drawn
    <3> QED BY <2>2, <2>3, <3>1, <3>2
  <2>5. CASE PipeDrain
    <3>1. burst = Invalid /\ n + Len(q) = Arity
      BY <1>2, <2>5 DEF PipeDrain
    <3>2. Drawn = rg_pending_req.len + 1 - Len(q)
      BY <1>2, <3>1 DEF Drawn
    <3> QED BY <2>1, <2>2, <2>3, <3>1, <3>2, Shape
  <2> QED BY <1>1, <1>2, <2>4, <2>5 DEF MemPipe, PipeIdle, PipeAsked
<1> HIDE DEF x, q
<1>7. ASSUME NEW k \in Pos, rg_state' = "ACCUMULATING" => k < n' PROVE k = n \/ k < n
  <2>1. CASE x.last
    BY <1>4, <2>1, Shape DEF Pos
  <2>2. CASE ~x.last
    <3>1. n' = (n + 1) % 16 /\ rg_state' = "ACCUMULATING" /\ n \in 0..Arity-2
      BY <1>2, <1>4, <2>2, Shape DEF Pos
    <3>2. n' = n + 1
      <4>1. n + 1 \in 0..15
        BY <3>1, Shape
      <4> QED BY <3>1, <4>1
    <3> QED BY <1>4, <1>7, <3>1, <3>2 DEF Pos
  <2> QED BY <2>1, <2>2
<1>8. rg_leaves \in [Pos -> Word] /\ rg_buffered_responses \in [Pos -> ReadResp]
  BY <1>1 DEF TypeOK, MVUTypeOK
<1>9. BeatsCollected'
  <2> SUFFICES ASSUME NEW k \in Pos, rg_state' = "ACCUMULATING" => k < n'
               PROVE  /\ PlausibleNext(rg_buffered_responses'[k], rg_pending_req', k)
                      /\ rg_leaves'[k] = rg_buffered_responses'[k].data
    BY BeatsNext
  <2>1. CASE k = n
    <3>1. rg_buffered_responses'[k] = x /\ rg_leaves'[k] = x.data
      BY <1>2, <1>3, <1>4, <1>8, <2>1
    <3> QED BY <1>2, <1>5, <1>6, <2>1, <3>1
  <2>2. CASE k # n /\ k < n
    <3>1. rg_buffered_responses'[k] = rg_buffered_responses[k] /\ rg_leaves'[k] = rg_leaves[k]
      BY <1>2, <1>3, <1>4, <1>8, <2>2
    <3> QED BY <1>2, <2>2, <3>1, CollectedKept DEF Beats
  <2> QED BY <1>7, <2>1, <2>2
<1>10. BeatsCleared'
  BY <1>2, BeatsNext
<1>11. BeatsQueued'
  BY <1>2, QueuedFrame DEF Beats
<1> QED
  BY <1>5, <1>9, <1>10, <1>11 DEF Beats

(* rl_forward_unprotected: no unprotected word is ever corrupted.          *)
LEMMA BeatsUnprotected ==
  ASSUME IInv, InOrder, Beats, Promised, ReadWordsKept, UnitStep(rl_forward_unprotected),
         \A a \in Tampered : is_protected(a)
  PROVE  Beats'
<1> DEFINE q == ff_resp_from_mem
           x == Head(q)
<1>1. TypeOK /\ InFlight /\ Session
  BY DEF IInv, Transfer, Control
<1>2. /\ q # <<>> /\ rg_pending_req # Invalid /\ ~rg_from_protected
      /\ NotFull(ff_resp_to_cache) /\ ff_resp_to_cache' = Append(ff_resp_to_cache, x)
      /\ q' = Tail(q) /\ rg_pending_req' = pending_after(x)
      /\ UNCHANGED <<inflight, got, burst, rg_from_protected, rg_state, data, written>>
  BY DEF rl_forward_unprotected, unverified, NotEmpty, UnitStep
<1>3. rg_state = "IDLE" /\ rg_from_protected = FALSE
  BY <1>1, <1>2, UnprotectedIdle DEF TypeOK, MVUTypeOK
<1>4. ~x.last => UNCHANGED rg_pending_req
  BY <1>2 DEF pending_after
<1>5. BeatsArriving' /\ x \in ReadResp /\ Plausible(x, rg_pending_req, Drawn)
  BY <1>2, <1>4, TakenBeats DEF Beats
<1>6. Sent = Drawn /\ inflight[Answered + 1] = rg_pending_req
  BY <1>1, <1>2, <1>3 DEF Sent, InFlight
<1> HIDE DEF x
<1>7. wrap(rg_pending_req, Drawn) \notin Tampered
  <2>1. /\ rg_pending_req \in ReadReq /\ ~is_protected(rg_pending_req.addr)
    BY <1>1, <1>2 DEF Session, TypeOK, MVUTypeOK
  <2>2. Drawn \in Int
    BY <1>2, DrawnInt
  <2>3. /\ wrap(rg_pending_req, Drawn) \in Addr
        /\ line_of(wrap(rg_pending_req, Drawn)) = line_of(rg_pending_req.addr)
    BY <2>1, <2>2, WrapLine
  <2>4. ~is_protected(wrap(rg_pending_req, Drawn))
    BY <2>1, <2>3, ProtectedWord DEF ReadReq
  <2> QED BY <2>4
<1>8. FaithfulNext(x, inflight[Answered + 1], Sent)
  BY <1>2, <1>5, <1>6, <1>7 DEF Plausible, Faithful, FaithfulNext
<1>9. BeatsQueued'
  BY <1>2, <1>5, <1>8, QueuedSend DEF Beats
<1>10. BeatsCollected' /\ BeatsCleared'
  BY <1>2, <1>3, BeatsNext
<1> QED
  BY <1>5, <1>9, <1>10 DEF Beats

(* rl_forward_verified: a line without the error is what was written.      *)
LEMMA BeatsVerified ==
  ASSUME IInv, InOrder, Beats, Promised, ReadWordsKept, UnitStep(rl_forward_verified)
  PROVE  Beats'
<1> DEFINE f == rg_forward_beat
           resp == rg_buffered_responses[f]
<1>1. /\ rg_state = "FORWARD_TO_CACHE" /\ NotFull(ff_resp_to_cache)
      /\ f \in Pos /\ resp \in ReadResp /\ (resp.last <=> f = Arity - 1)
      /\ poisoned(resp) \in ReadResp /\ poisoned(resp).last = resp.last
      /\ ff_resp_to_cache' = Append(ff_resp_to_cache, poisoned(resp))
      /\ rg_state' = IF resp.last THEN "IDLE" ELSE "FORWARD_TO_CACHE"
      /\ rg_mvu_error' = IF resp.last THEN FALSE ELSE rg_mvu_error
      /\ UNCHANGED <<inflight, got, rg_buffered_responses, memFifos, burst>>
  BY ForwardEffect
<1>2. /\ rg_pending_req = Invalid /\ rg_from_protected = FALSE
      /\ rg_pending_req' = Invalid /\ rg_from_protected' = FALSE
  <2>1. Session /\ rg_from_protected \in BOOLEAN
    BY DEF IInv, Control, TypeOK, MVUTypeOK
  <2>2. \/ rg_pending_req' = Invalid /\ rg_from_protected' = FALSE
        \/ UNCHANGED <<rg_pending_req, rg_from_protected>>
    BY DEF rl_forward_verified, UnitStep
  <2> QED BY <1>1, <2>1, <2>2 DEF Session, Resting
<1>3. Sent = f
  BY <1>1 DEF Sent
<1>4. FaithfulNext(poisoned(resp), inflight[Answered + 1], f)
  <2>1. /\ poisoned(resp) = [resp EXCEPT !.err = resp.err \/ rg_mvu_error]
        /\ resp \in [data : Word, last : BOOLEAN, err : BOOLEAN]
    BY <1>1 DEF poisoned, ReadResp
  <2>2. CASE rg_mvu_error
    <3>1. poisoned(resp).err
      BY <2>1, <2>2
    <3> QED BY <3>1 DEF FaithfulNext
  <2>3. CASE ~rg_mvu_error
    <3>1. FaithfulNext(resp, inflight[Answered + 1], f)
      BY <1>1, <2>3, ClearedKept DEF Beats
    <3>2. resp.err => poisoned(resp).err
      BY <2>1
    <3>3. poisoned(resp).data = resp.data
      BY <2>1
    <3> QED BY <3>1, <3>2, <3>3 DEF FaithfulNext
  <2> QED BY <2>2, <2>3
<1> HIDE DEF resp
<1>5. BeatsQueued'
  BY <1>1, <1>3, <1>4, QueuedSend DEF Beats
<1>6. BeatsCleared'
  <2>1. CASE resp.last
    BY <1>1, <2>1, BeatsNext
  <2>2. CASE ~resp.last
    <3>1. Answered' = Answered
      <4>1. ff_resp_to_cache \in Seq(ReadResp) /\ Len(ff_resp_to_cache) < 2
        BY <1>1 DEF IInv, TypeOK, MVUTypeOK, NotFull, FifoDepth
      <4>2. Answered' = Answered + 0
        BY <1>1, <2>2, <4>1, LastBeatsAppend DEF Answered
      <4>3. Answered \in Nat
        BY LastBeatsNat DEF Answered
      <4> QED BY <4>2, <4>3
    <3> QED BY <1>1, <2>2, <3>1, ClearedKept, BeatsNext DEF Beats
  <2> QED BY <2>1, <2>2
<1>7. BeatsCollected'
  BY <1>2, BeatsNext
<1>8. BeatsArriving'
  BY <1>1, <1>2, ArrivingFrame DEF Beats
<1> QED
  BY <1>5, <1>6, <1>7, <1>8 DEF Beats

(* rl_complete ends a verification: without the error the line is what was *)
(* written, for a corrupted word would have shown in the hash.             *)
LEMMA BeatsComplete ==
  ASSUME IInv, InOrder, Lines, Beats, Tree, Promised, ReadWordsKept, UnitStep(rl_complete)
  PROVE  Beats'
<1>1. TypeOK /\ InFlight /\ Session /\ Cursor /\ FaultsWatched
  BY DEF IInv, Transfer, Control, Lines
<1>2. /\ rg_state = "COMPLETE" /\ rg_pending_req' = Invalid /\ rg_from_protected' = FALSE
      /\ rg_state' = IF rg_is_update THEN "IDLE" ELSE "FORWARD_TO_CACHE"
      /\ UNCHANGED <<cacheFifos, memFifos, buffers, data, burst, cacheVars>>
  BY CompleteFrame
<1>3. ff_resp_from_mem = <<>>
  <2>1. ~Awaiting
    BY <1>1, <1>2 DEF Awaiting, Session, Resting
  <2> QED BY <2>1 DEF IInv, Transfer, MemPipe, PipeIdle, PipeAsked, PipeBurst, PipeDrain
<1>4. BeatsArriving'
  <2>1. DOMAIN ff_resp_from_mem' = {}
    BY <1>2, <1>3
  <2> QED BY <2>1, BeatsNext
<1>5. BeatsCollected' /\ BeatsQueued'
  BY <1>2, QueuedFrame, BeatsNext DEF Beats
<1>6. ASSUME ~rg_is_update, ~rg_mvu_error', NEW k \in Pos
      PROVE  FaithfulNext(rg_buffered_responses[k], inflight[Answered + 1], k)
  <2>1. UNCHANGED <<rg_mvu_error, written>>
    BY <1>2, <1>6 DEF rl_complete, read_done, UnitStep
  <2>2. rg_from_protected /\ rg_pending_req # Invalid
    BY <1>1, <1>2, <1>6, InvalidApart DEF Session, Resting
  <2>3. inflight[Answered + 1] = rg_pending_req
    BY <1>1, <2>2 DEF InFlight
  <2>4. /\ Plausible(rg_buffered_responses[k], rg_pending_req, k)
        /\ rg_leaves[k] = rg_buffered_responses[k].data
    BY <1>2, <2>2 DEF Beats, BeatsCollected
  <2>5. Faithful(rg_buffered_responses[k], rg_pending_req, k)
    <3>1. CASE Tampered = {}
      BY <2>4, <3>1 DEF Plausible
    <3>2. CASE Tampered # {}
      <4>1. Sound
        <5>1. faults # 0
          BY <1>1, <3>2 DEF FaultsWatched
        <5> QED BY <1>1, <3>2, <5>1 DEF Promised, Honest, FaultsWatched, Sound
      <4>2. VerifyRight /\ Compared
        BY <1>1, <1>2, <4>1, Shape DEF Tree, Compared, Cursor, Gathering
      <4>3. Clean
        BY <1>2, <1>6, <2>1, <2>2, <4>2 DEF VerifyRight, Walking
      <4> QED BY <2>4, <4>3 DEF Clean, Faithful
    <3> QED BY <3>1, <3>2
  <2> QED BY <2>1, <2>3, <2>5 DEF Faithful, FaithfulNext
<1>7. BeatsCleared'
  <2>1. Answered' = Answered /\ UNCHANGED <<rg_buffered_responses, inflight>>
    BY <1>2 DEF Answered, LastBeats, IsLast
  <2> QED BY <1>2, <1>6, <2>1, BeatsNext
<1> QED
  BY <1>4, <1>5, <1>7 DEF Beats

(* rl_start_update and rl_forward_request begin a session: nothing has     *)
(* been collected yet.                                                     *)
LEMMA BeatsBegin ==
  ASSUME IInv, InOrder, Beats, Promised, ReadWordsKept,
         UnitStep(rl_start_update) \/ UnitStep(rl_forward_request)
  PROVE  Beats'
<1>1. TypeOK /\ Session /\ MemPipe
  BY DEF IInv, Control, Transfer
<1>2. UNCHANGED <<memVars, cacheVars>>
  BY DEF UnitStep
<1>3. CASE UnitStep(rl_start_update)
  <2>1. /\ UNCHANGED <<ff_resp_to_cache, ff_resp_from_mem, rg_pending_req, rg_from_protected>>
        /\ rg_state = "IDLE" /\ rg_state' # "FORWARD_TO_CACHE"
    BY <1>3 DEF rl_start_update, UnitStep
  <2>2. ~rg_from_protected
    BY <1>1, <2>1 DEF Session, Resting
  <2>3. BeatsArriving' /\ BeatsCollected' /\ BeatsCleared' /\ BeatsQueued'
    BY <1>2, <2>1, <2>2, ArrivingFrame, QueuedFrame, BeatsNext DEF Beats
  <2> QED BY <2>3 DEF Beats
<1>4. CASE UnitStep(rl_forward_request)
  <2>1. /\ UNCHANGED <<ff_resp_to_cache, ff_resp_from_mem>>
        /\ rg_state = "IDLE" /\ rg_pending_req = Invalid /\ rg_state' # "FORWARD_TO_CACHE"
        /\ rg_from_protected' => rg_state' = "ACCUMULATING" /\ rg_beat_count' = 0
    BY <1>4 DEF rl_forward_request, UnitStep
  <2>2. ff_resp_from_mem = <<>>
    BY <1>1, <2>1 DEF MemPipe, PipeIdle, PipeAsked, PipeBurst, PipeDrain, Awaiting
  <2>3. DOMAIN ff_resp_from_mem' = {}
    BY <2>1, <2>2
  <2>4. \A k \in Pos : ~(k < 0)
    BY DEF Pos
  <2>5. BeatsArriving' /\ BeatsCollected' /\ BeatsCleared'
    BY <2>1, <2>3, <2>4, BeatsNext
  <2>6. BeatsQueued'
    BY <1>2, <2>1, QueuedFrame DEF Beats
  <2> QED BY <2>5, <2>6 DEF Beats
<1> QED BY <1>3, <1>4

LEMMA BeatsUnit ==
  ASSUME IInv, InOrder, Lines, Beats, Tree, Promised, ReadWordsKept, Unit PROVE Beats'
<1>1. \A a \in Tampered : is_protected(a)
  BY DEF Lines, FaultsWatched
<1>2. UNCHANGED <<memVars, cacheVars>>
  BY DEF Unit
<1>3. CASE UnitStep(rl_start_update) \/ UnitStep(rl_forward_request)
  BY <1>3, BeatsBegin
<1>4. CASE \/ UnitStep(rl_compute_l0_parent) \/ UnitStep(rl_fetch_siblings)
           \/ UnitStep(rl_collect_hcache_siblings) \/ UnitStep(rl_wait_siblings)
           \/ UnitStep(rl_compute_parent) \/ UnitStep(rl_check_parent)
           \/ UnitStep(rl_update_node) \/ UnitStep(rl_wait_update_ack)
           \/ UnitStep(rl_propagate_up) \/ UnitStep(rl_verify_root)
  <2>1. /\ UNCHANGED <<cacheFifos, memFifos, buffers, session>>
        /\ rg_state \notin {"IDLE", "ACCUMULATING", "FORWARD_TO_CACHE"}
        /\ rg_state' \notin {"IDLE", "ACCUMULATING", "FORWARD_TO_CACHE"}
    BY <1>4, WalkRuleFrame
  <2>2. BeatsArriving' /\ BeatsCollected' /\ BeatsQueued'
    BY <1>2, <2>1, ArrivingFrame, CollectedFrame, QueuedFrame DEF Beats
  <2>3. BeatsCleared'
    BY <2>1, BeatsNext
  <2> QED BY <2>2, <2>3 DEF Beats
<1> QED
  BY <1>1, <1>3, <1>4, UnitSteps, BeatsAccumulate, BeatsUnprotected, BeatsVerified, BeatsComplete

LEMMA StartBeats == Starting => Beats
<1> SUFFICES ASSUME Starting PROVE Beats
  OBVIOUS
<1>1. /\ ff_resp_from_mem = <<>> /\ ff_resp_to_cache = <<>> /\ ~rg_from_protected
      /\ rg_state = "IDLE"
  BY DEF Starting, MVUInit
<1>2. DOMAIN ff_resp_from_mem = {} /\ DOMAIN ff_resp_to_cache = {}
  BY <1>1
<1> QED
  BY <1>1, <1>2 DEF Beats, BeatsArriving, BeatsCollected, BeatsCleared, BeatsQueued

(* Beats is inductive with the others: what leaves for the cache without   *)
(* err is what the cache wrote, under any one corruption.                  *)
LEMMA StepBeats == IInv /\ Delivery /\ Lines /\ Beats /\ Tree /\ [Next]_vars => Beats'
<1> SUFFICES ASSUME IInv, Delivery, Lines, Beats, Tree, [Next]_vars, Promised' PROVE Beats'
  <2>1. ~Promised' => Beats'
    BY DEF Beats
  <2> QED BY <2>1
<1>1. InOrder
  BY DEF Delivery
<1>2. CASE Next
  <2>1. Promised /\ ReadWordsKept
    BY <1>2, PromisedBefore, ReadWordsStay
  <2> QED BY <1>1, <1>2, <2>1, BeatsUnit, BeatsEnvironment DEF Next
<1>3. CASE UNCHANGED vars
  <2>1. Promised
    BY <1>3 DEF Promised, Honest, OneFault
  <2>2. ReadWordsKept
    BY <1>3 DEF ReadWordsKept, Tampered
  <2>3. BeatsArriving' /\ BeatsCollected' /\ BeatsCleared' /\ BeatsQueued'
    BY <1>1, <1>3, <2>1, <2>2, ArrivingFrame, CollectedFrame, ClearedFrame, QueuedFrame DEF Beats
  <2> QED BY <2>3 DEF Beats
<1> QED BY <1>2, <1>3

-----------------------------------------------------------------------------
(* Tree.                                                                   *)

(* What Tree says, after a step.                                           *)
nodeNext(level, index) ==
  IF is_hw_level(level)
  THEN IF rf_nodes'[<<level, index>>] = Invalid THEN Zero ELSE rf_nodes'[<<level, index>>]
  ELSE tree'[<<level, index>>]

LEMMA TreeFoldedNext ==
  TreeFolded' <=>
    /\ \A line \in ProtectedLine :
         Folded(line)' => nodeNext(1, leaf_node(line)) = Hash(line_data(written', line))
    /\ \A level \in 2..Top' : \A index \in NodesOf(level) :
         <<level, index>> # Behind' =>
           nodeNext(level, index) =
             Hash([k \in Pos |-> nodeNext(level - 1, child_index(index, k))])
<1> QED
  BY DEF TreeFolded, LeafFolded, NodeConsistent, nodeNext, node, get_hash, get_hash_or_zero

(* A step that stores at most one node.                                    *)
NodesKept == \A level \in Levels : \A index \in Slots(level) :
  nodeNext(level, index) = node(level, index)
NodeSet(l, i, h) == \A level \in Levels : \A index \in Slots(level) :
  nodeNext(level, index) = IF level = l /\ index = i THEN h ELSE node(level, index)

LEMMA NothingStored ==
  ASSUME UNCHANGED <<rf_nodes, tree>> PROVE NodesKept
BY DEF NodesKept, nodeNext, node, get_hash, get_hash_or_zero

LEMMA HwNodeStored ==
  ASSUME TypeOK, NEW l \in Levels, is_hw_level(l), NEW i \in Slots(l), NEW h \in Word,
         set_hash(l, i, h), UNCHANGED tree
  PROVE  NodeSet(l, i, h)
<1> SUFFICES ASSUME NEW level \in Levels, NEW index \in Slots(level)
             PROVE  nodeNext(level, index)
                      = IF level = l /\ index = i THEN h ELSE node(level, index)
  BY DEF NodeSet
<1>1. rf_nodes \in [HwNode -> Word \cup {Invalid}] /\ h # Invalid
  BY InvalidAssumption DEF TypeOK, MVUTypeOK
<1>2. CASE is_hw_level(level)
  <2>1. level \in MinHwLevel..Height
    BY <1>2, Shape DEF is_hw_level, Levels
  <2>2. <<level, index>> \in HwNode
    BY <2>1, HwNodeHas
  <2>3. rf_nodes'[<<level, index>>]
          = IF <<level, index>> = <<l, i>> THEN h ELSE rf_nodes[<<level, index>>]
    BY <1>1, <2>2 DEF set_hash
  <2> QED BY <1>1, <1>2, <2>3 DEF nodeNext, node, get_hash, get_hash_or_zero
<1>3. CASE ~is_hw_level(level)
  BY <1>3 DEF nodeNext, node
<1> QED BY <1>2, <1>3

LEMMA MemNodeStored ==
  ASSUME TypeOK, NEW l \in Levels, ~is_hw_level(l), NEW i \in Slots(l), NEW h \in Word,
         tree' = [tree EXCEPT ![<<l, i>>] = h], UNCHANGED rf_nodes
  PROVE  NodeSet(l, i, h)
<1> SUFFICES ASSUME NEW level \in Levels, NEW index \in Slots(level)
             PROVE  nodeNext(level, index)
                      = IF level = l /\ index = i THEN h ELSE node(level, index)
  BY DEF NodeSet
<1>1. tree \in [MemNode -> Word]
  BY DEF TypeOK
<1>2. CASE ~is_hw_level(level)
  <2>1. level \in 1..MinHwLevel-1
    BY <1>2, Shape DEF is_hw_level, Levels
  <2>2. <<level, index>> \in MemNode
    BY <2>1, MemNodeHas
  <2>3. tree'[<<level, index>>]
          = IF <<level, index>> = <<l, i>> THEN h ELSE tree[<<level, index>>]
    BY <1>1, <2>2
  <2> QED BY <1>2, <2>3 DEF nodeNext, node
<1>3. CASE is_hw_level(level)
  BY <1>3 DEF nodeNext, node, get_hash, get_hash_or_zero
<1> QED BY <1>2, <1>3

(* A node is a word.                                                       *)
LEMMA NodeIsWord ==
  ASSUME TypeOK, NEW l \in Levels, NEW i \in Slots(l) PROVE node(l, i) \in Word
<1>1. rf_nodes \in [HwNode -> Word \cup {Invalid}] /\ tree \in [MemNode -> Word]
  BY DEF TypeOK, MVUTypeOK
<1>2. CASE is_hw_level(l)
  <2>1. l \in MinHwLevel..Height
    BY <1>2, Shape DEF is_hw_level, Levels
  <2>2. <<l, i>> \in HwNode
    BY <2>1, HwNodeHas
  <2> QED BY <1>1, <1>2, <2>2, WordAssumption DEF node, get_hash, get_hash_or_zero
<1>3. CASE ~is_hw_level(l)
  <2>1. l \in 1..MinHwLevel-1
    BY <1>3, Shape DEF is_hw_level, Levels
  <2>2. <<l, i>> \in MemNode
    BY <2>1, MemNodeHas
  <2> QED BY <1>1, <1>3, <2>2 DEF node
<1> QED BY <1>2, <1>3

(* Where the leaf node of a line is, and which line a leaf node is of.     *)
LEMMA LeafNode ==
  ASSUME NEW line \in ProtectedLine
  PROVE  /\ line \in Line /\ leaf_node(line) \in Slots(1)
         /\ \A other \in ProtectedLine : leaf_node(other) = leaf_node(line) => other = line
         /\ \A a \in Addr : line_of(a) = line =>
              parent_index(addr_to_leaf_index(a)) = leaf_node(line)
<1>1. \A l \in ProtectedLine :
        /\ l \in Line /\ l \in Int /\ line_base(l) \in Addr /\ is_protected(line_base(l))
        /\ line_of(line_base(l)) = l
  BY BaseOfLine, LineCount DEF ProtectedLine
<1>2. \A l \in ProtectedLine : leaf_node(l) = l - ProtectedBase \div Arity
  BY <1>1, LeafParent DEF leaf_node
<1>3. ProtectedBase \div Arity \in Int
  BY GeometryAssumption, Shape, Division
<1>4. leaf_node(line) \in NodesOf(1)
  <2>1. addr_to_leaf_index(line_base(line)) \in NodesOf(0)
    BY <1>1, LeafIndexIsNode
  <2>2. 0 \in 0..Height-1 /\ 0 + 1 = 1
    BY Shape
  <2>3. parent_index(addr_to_leaf_index(line_base(line))) \in NodesOf(0 + 1)
    BY <2>1, <2>2, ParentIsNode
  <2> QED BY <2>2, <2>3 DEF leaf_node
<1>5. 1 \in 1..Height
  BY Shape
<1>6. \A other \in ProtectedLine : leaf_node(other) = leaf_node(line) => other = line
  <2> SUFFICES ASSUME NEW other \in ProtectedLine, leaf_node(other) = leaf_node(line)
               PROVE  other = line
    OBVIOUS
  <2>1. other - ProtectedBase \div Arity = line - ProtectedBase \div Arity
    BY <1>2
  <2> QED BY <1>1, <1>3, <2>1
<1>7. \A a \in Addr : line_of(a) = line =>
        parent_index(addr_to_leaf_index(a)) = leaf_node(line)
  BY <1>2, LeafParent
<1> QED
  BY <1>1, <1>4, <1>5, <1>6, <1>7, NodeInSlots
-----------------------------------------------------------------------------
(* What the unit collected while no access failed: a word that is not what *)
(* was written is a corrupted one, of which there is only one.             *)
LEMMA CollectedWords ==
  ASSUME IInv, Delivery, Lines, Beats, Sound, rg_from_protected, rg_state # "ACCUMULATING"
  PROVE  /\ rg_pending_req \in ReadReq /\ is_protected(rg_pending_req.addr)
         /\ \A k \in Pos : rg_leaves[k] = written[wrap(rg_pending_req, k)]
                             \/ wrap(rg_pending_req, k) \in Tampered
         /\ ~Clean => OneFault /\ faults # 0 /\ Top = MinHwLevel
<1>1. Promised /\ errors = 0
  BY DEF Sound, Promised, Honest
<1>2. \A k \in Pos : rg_leaves[k] = written[wrap(rg_pending_req, k)]
                       \/ wrap(rg_pending_req, k) \in Tampered
  BY <1>1 DEF Beats, BeatsCollected, Plausible, Faithful, Delivery, ErrsAgree
<1>3. rg_pending_req \in ReadReq /\ is_protected(rg_pending_req.addr)
  BY DEF IInv, Control, Session
<1>4. ASSUME ~Clean PROVE OneFault /\ faults # 0 /\ Top = MinHwLevel
  <2>1. Tampered # {}
    BY <1>2, <1>4 DEF Clean
  <2>2. faults # 0
    BY <2>1 DEF Lines, FaultsWatched
  <2> QED BY <2>2 DEF Sound, Honest, Top
<1> QED BY <1>2, <1>3, <1>4

(* The tree can be relied on after a step only if it could be before.      *)
LEMMA SoundKept ==
  ASSUME Sound', UNCHANGED <<faults, errors>>, Tampered' \subseteq Tampered
  PROVE  Sound /\ Top' = Top
BY DEF Sound, Honest, OneFault, Top

(* The words of a line, in the order a wrap burst brings them.             *)
LEMMA WrapOrder ==
  ASSUME TypeOK, NEW req \in ReadReq
  PROVE  LET o == req.addr % Arity
             line == line_of(req.addr)
         IN /\ o \in Pos /\ line_data(written, line) \in [Pos -> Word]
            /\ \A k \in Pos : Rotate(line_data(written, line), o)[k] = written[wrap(req, k)]
            /\ \A j, k \in Pos : wrap(req, j) = wrap(req, k) => j = k
<1> DEFINE o == req.addr % Arity
           line == line_of(req.addr)
<1>1. req.addr \in Addr /\ req.addr \in Int
  BY Shape DEF ReadReq, Addr
<1>2. o \in Pos
  BY <1>1, Shape, Division DEF Pos
<1>3. line \in Line /\ line_base(line) \in Int
  <2>1. line \in Line
    BY <1>1, LineOfAddr
  <2>2. line \in Int
    BY <2>1, LineCount
  <2> QED BY <2>1, <2>2, Shape DEF line_base
<1>4. written \in [Addr -> Word]
  BY DEF TypeOK
<1>5. \A k \in Pos : written[line_base(line) + k] \in Word
  BY <1>3, <1>4, WordOfLine
<1>6. line_data(written, line) \in [Pos -> Word]
  BY <1>5 DEF line_data
<1>7. \A k \in Pos : k \in Int /\ o + k \in Int /\ (o + k) % Arity \in Pos
  <2> TAKE k \in Pos
  <2>1. k \in Int /\ o \in Int
    BY <1>2 DEF Pos
  <2>2. o + k \in Int
    BY <2>1
  <2> QED BY <2>1, <2>2, Shape, Division DEF Pos
<1>8. \A k \in Pos : wrap(req, k) = line_base(line) + ((o + k) % Arity)
  BY DEF wrap
<1>9. \A k \in Pos : Rotate(line_data(written, line), o)[k] = written[wrap(req, k)]
  <2> HIDE DEF o, line
  <2> TAKE k \in Pos
  <2>1. Rotate(line_data(written, line), o)[k] = line_data(written, line)[(o + k) % Arity]
    BY DEF Rotate
  <2>2. line_data(written, line)[(o + k) % Arity] = written[line_base(line) + ((o + k) % Arity)]
    BY <1>7 DEF line_data
  <2> QED BY <1>8, <2>1, <2>2
<1>10. ASSUME NEW j \in Pos, NEW k \in Pos, wrap(req, j) = wrap(req, k) PROVE j = k
  <2>1. (o + j) % Arity = (o + k) % Arity
    <3>1. (o + j) % Arity \in Int /\ (o + k) % Arity \in Int
      BY <1>7 DEF Pos
    <3>2. line_base(line) + ((o + j) % Arity) = line_base(line) + ((o + k) % Arity)
      BY <1>8, <1>10
    <3>3. \A b, x, y \in Int : b + x = b + y => x = y
      OBVIOUS
    <3> HIDE DEF o, line
    <3> QED BY <1>3, <3>1, <3>2, <3>3
  <2> DEFINE m == (o + j) \div Arity
             n == (o + k) \div Arity
             r == (o + k) % Arity
  <2>2. /\ m \in Int /\ n \in Int /\ r \in Int
        /\ o + j = Arity * m + r /\ o + k = Arity * n + r
    BY <1>7, <2>1, Shape, Division
  <2>3. o \in Int /\ j \in 0..Arity-1 /\ k \in 0..Arity-1 /\ Arity \in Nat /\ Arity > 0
    BY <1>2, Shape DEF Pos
  <2> HIDE DEF m, n, r, o
  <2>4. j - k = Arity * (m - n)
    BY <2>2, <2>3
  <2>5. m - n >= 1 => Arity * (m - n) >= Arity
    BY <2>2, <2>3, MultipleUp
  <2>6. m - n <= -1 => Arity * (m - n) <= -Arity
    BY <2>2, <2>3, MultipleDown
  <2>7. m - n = 0
    <3>1. j - k < Arity /\ j - k > -Arity
      BY <2>3
    <3>2. m - n \in Int
      BY <2>2
    <3> QED BY <2>3, <2>4, <2>5, <2>6, <3>1, <3>2
  <2>8. Arity * (m - n) = 0
    BY <2>3, <2>7
  <2> QED BY <2>3, <2>4, <2>8
<1> QED
  BY <1>2, <1>6, <1>9, <1>10

(* What rl_compute_l0_parent makes of a collected line.                    *)
LEMMA LeafHash ==
  ASSUME IInv, Delivery, Lines, Beats, Sound, rg_from_protected, rg_state # "ACCUMULATING"
  PROVE  LET line == line_of(rg_pending_req.addr) IN
         /\ line \in ProtectedLine /\ line \notin Unfolded
         /\ parent_index(rg_base_leaf_index) = leaf_node(line)
         /\ Clean => Hash(rg_leaves) = Hash(line_data(written, line))
         /\ ~Clean => Hash(rg_leaves) # Hash(line_data(written, line))
<1> DEFINE req == rg_pending_req
           line == line_of(req.addr)
           g == line_data(written, line)
           o == req.addr % Arity
<1>1. TypeOK /\ Session /\ OnePlace
  BY DEF IInv, Control, Lines
<1>2. /\ req \in ReadReq /\ is_protected(req.addr)
      /\ \A k \in Pos : rg_leaves[k] = written[wrap(req, k)] \/ wrap(req, k) \in Tampered
      /\ ~Clean => OneFault /\ faults # 0
  BY CollectedWords
<1>3. line \in ProtectedLine /\ req.addr \in Addr
  BY <1>2, ProtectedWord DEF ReadReq
<1>4. line \notin Unfolded
  <2>1. line \in ReadLines
    BY <1>2, InvalidApart, ReadsInFlight DEF Delivery
  <2> QED BY <1>1, <2>1 DEF OnePlace
<1>5. parent_index(rg_base_leaf_index) = leaf_node(line)
  <2>1. rg_base_leaf_index = addr_to_leaf_index(req.addr)
    BY <1>1 DEF Session
  <2> QED BY <1>3, <2>1, LeafNode
<1>6. /\ o \in Pos /\ g \in [Pos -> Word]
      /\ \A k \in Pos : Rotate(g, o)[k] = written[wrap(req, k)]
      /\ \A j, k \in Pos : wrap(req, j) = wrap(req, k) => j = k
  BY <1>1, <1>2, WrapOrder
<1>7. rg_leaves \in [Pos -> Word]
  BY <1>1 DEF TypeOK, MVUTypeOK
<1> HIDE DEF req, line, g, o
<1>8. Hash(Rotate(g, o)) = Hash(g) /\ Rotate(g, o) \in [Pos -> Word]
  <2>1. \A k \in Pos : (o + k) % Arity \in Pos
    <3> TAKE k \in Pos
    <3>1. o + k \in Int
      BY <1>6 DEF Pos
    <3> QED BY <3>1, Shape, Division DEF Pos
  <2>2. Rotate(g, o) \in [Pos -> Word]
    BY <1>6, <2>1 DEF Rotate
  <2> QED BY <1>6, <2>2, HashRotate
<1>9. ASSUME Clean PROVE Hash(rg_leaves) = Hash(g)
  <2>1. \A k \in Pos : rg_leaves[k] = Rotate(g, o)[k]
    BY <1>6, <1>9 DEF Clean, req
  <2>2. rg_leaves = Rotate(g, o)
    BY <1>7, <1>8, <2>1
  <2> QED BY <1>8, <2>2
<1>10. ASSUME ~Clean PROVE Hash(rg_leaves) # Hash(g)
  <2>1. PICK k \in Pos : rg_leaves[k] # written[wrap(req, k)]
    BY <1>10 DEF Clean, req
  <2>2. wrap(req, k) \in Tampered /\ \A a \in Tampered : a = wrap(req, k)
    BY <1>2, <1>10, <2>1 DEF Lines, FaultsWatched
  <2>3. \A j \in Pos : j # k => rg_leaves[j] = Rotate(g, o)[j]
    BY <1>2, <1>6, <2>2
  <2>4. rg_leaves = [Rotate(g, o) EXCEPT ![k] = rg_leaves[k]]
    BY <1>7, <1>8, <2>3
  <2>5. rg_leaves[k] \in Word /\ rg_leaves[k] # Rotate(g, o)[k]
    BY <1>6, <1>7, <2>1
  <2>6. Hash([Rotate(g, o) EXCEPT ![k] = rg_leaves[k]]) # Hash(Rotate(g, o))
    BY <1>8, <2>5, HashOneWord
  <2> QED BY <1>8, <2>4, <2>6
<1> QED
  BY <1>3, <1>4, <1>5, <1>9, <1>10 DEF req, line, g
-----------------------------------------------------------------------------
(* Frames.  TreeFolded, when no node changes and no line becomes folded.   *)
KeptTo(top) == \A level \in Levels : level <= top =>
  \A index \in Slots(level) : nodeNext(level, index) = node(level, index)

LEMMA TreeFoldedFrame ==
  ASSUME TreeFolded, NodesKept \/ KeptTo(Top), Top' <= Top,
         \A line \in ProtectedLine : Folded(line)' =>
           Folded(line) /\ line_data(written', line) = line_data(written, line),
         Behind' = Behind \/ \A level \in 2..Height, index \in Nat : <<level, index>> # Behind
  PROVE  TreeFolded'
<1>1. 1 \in Levels /\ \A level \in 2..Height : level \in Levels /\ level - 1 \in Levels
  BY Shape DEF Levels
<1>3. Top \in Int /\ Top' \in Int /\ Top <= Height /\ 1 <= Top
  BY Shape DEF Top
<1>2. \A line \in ProtectedLine : nodeNext(1, leaf_node(line)) = node(1, leaf_node(line))
  BY <1>1, <1>3, LeafNode DEF NodesKept, KeptTo
<1>4. ASSUME NEW level \in 2..Top', NEW index \in NodesOf(level), <<level, index>> # Behind'
      PROVE  nodeNext(level, index) = Hash([k \in Pos |-> nodeNext(level - 1, child_index(index, k))])
  <2>1. level \in 2..Top /\ level \in 2..Height /\ level \in 1..Height /\ level \in 0..Height
    BY <1>3, <1>4, Shape
  <2>2. index \in Nat
    BY <2>1, Shape DEF NodesOf
  <2>3. <<level, index>> # Behind
    BY <1>4, <2>1, <2>2
  <2>4. node(level, index) = Hash([k \in Pos |-> node(level - 1, child_index(index, k))])
    BY <2>1, <2>3 DEF TreeFolded, NodeConsistent
  <2>5. nodeNext(level, index) = node(level, index)
    BY <1>1, <2>1, NodeInSlots DEF NodesKept, KeptTo
  <2>6. \A k \in Pos :
          nodeNext(level - 1, child_index(index, k)) = node(level - 1, child_index(index, k))
    <3>1. level \in Int /\ level <= Top /\ level - 1 <= Top
      BY <1>3, <2>1
    <3> QED BY <1>1, <2>1, <3>1, ChildInSlots DEF NodesKept, KeptTo
  <2>7. [k \in Pos |-> nodeNext(level - 1, child_index(index, k))]
          = [k \in Pos |-> node(level - 1, child_index(index, k))]
    BY <2>6
  <2> QED BY <2>4, <2>5, <2>7
<1>5. \A line \in ProtectedLine : Folded(line)' =>
        nodeNext(1, leaf_node(line)) = Hash(line_data(written', line))
  BY <1>2 DEF TreeFolded, LeafFolded
<1> QED BY <1>4, <1>5, TreeFoldedNext

(* The siblings beside the node the walk is at, and the node's children.   *)
StoreHere == NodesKept \/ NodeSet(rg_current_level, rg_current_index, rg_my_node_hash)

LEMMA SiblingsStay ==
  ASSUME TypeOK, Cursor, rg_state \in Walking, rg_current_level < Height,
         UNCHANGED <<cursor, rg_my_node_hash>>, StoreHere
  PROVE  /\ here \in Pos /\ here' = here /\ \A k \in Pos \ {here} : sibling(k)' = sibling(k)
         /\ GroupHere' = GroupHere
<1>1. /\ rg_current_level \in Levels /\ rg_current_index \in Nat
      /\ \A k \in Pos : sibling_group_base(rg_current_index) + k \in Slots(rg_current_level)
  BY CursorSlots DEF Cursor, TypeOK, MVUTypeOK
<1>2. here \in Pos /\ here' = here
  BY <1>1, PositionInPos DEF here
<1>3. ASSUME NEW k \in Pos, k # here PROVE sibling_group_base(rg_current_index) + k # rg_current_index
  <2>1. sibling_group_base(rg_current_index) + here = rg_current_index
    BY <1>1, OwnSlot DEF here
  <2>2. k \in Int /\ here \in Int
    BY <1>2 DEF Pos
  <2>3. sibling_group_base(rg_current_index) \in Int
    <3>1. parent_index(rg_current_index) \in Nat
      BY <1>1, OwnSlot
    <3> QED BY <3>1, Shape DEF sibling_group_base
  <2> HIDE DEF here
  <2> QED BY <1>3, <2>1, <2>2, <2>3
<1>4. \A k \in Pos \ {here} :
        nodeNext(rg_current_level, sibling_group_base(rg_current_index) + k)
          = node(rg_current_level, sibling_group_base(rg_current_index) + k)
  BY <1>1, <1>3 DEF StoreHere, NodesKept, NodeSet
<1>5. \A k : sibling(k)' = nodeNext(rg_current_level, sibling_group_base(rg_current_index) + k)
  BY DEF sibling, node, nodeNext, get_hash, get_hash_or_zero
<1>6. \A k \in Pos \ {here} : sibling(k)' = sibling(k)
  BY <1>4, <1>5 DEF sibling
<1>7. GroupHere' = [k \in Pos |-> IF k = here' THEN rg_my_node_hash' ELSE sibling(k)']
  BY DEF GroupHere
<1>8. GroupHere' = GroupHere
  BY <1>2, <1>6, <1>7 DEF GroupHere
<1> QED BY <1>2, <1>6, <1>8

LEMMA ChildrenStay ==
  ASSUME TypeOK, Cursor, rg_state \in Walking, rg_current_level # 1,
         UNCHANGED cursor, StoreHere
  PROVE  ChildrenHash(rg_current_level, rg_current_index)'
           = ChildrenHash(rg_current_level, rg_current_index)
<1>1. /\ rg_current_level \in 2..Height /\ rg_current_index \in NodesOf(rg_current_level)
      /\ rg_current_level - 1 \in Levels /\ rg_current_level - 1 # rg_current_level
  BY Shape DEF Cursor, Levels
<1>2. \A k \in Pos : nodeNext(rg_current_level - 1, child_index(rg_current_index, k))
                       = node(rg_current_level - 1, child_index(rg_current_index, k))
  BY <1>1, ChildInSlots DEF StoreHere, NodesKept, NodeSet
<1>3. ChildrenHash(rg_current_level, rg_current_index)'
        = Hash([k \in Pos |-> nodeNext(rg_current_level - 1, child_index(rg_current_index, k))])
  BY DEF ChildrenHash, node, nodeNext, get_hash, get_hash_or_zero
<1> QED BY <1>2, <1>3 DEF ChildrenHash

(* What a walk carries up, when it stays at its node.                      *)
LEMMA UpdateFrame ==
  ASSUME TypeOK, Cursor, UpdateRight, rg_state \in Walking, StoreHere,
         UNCHANGED <<cursor, rg_my_node_hash, rg_is_update, rg_base_leaf_index>>,
         rg_is_update => line_data(written', leaf_line) = line_data(written, leaf_line),
         (rg_is_update /\ NodeStored') => NodeStored \/ nodeNext(rg_current_level, rg_current_index) = rg_my_node_hash
  PROVE  UpdateRight'
<1>1. /\ rg_current_level \in Levels /\ rg_current_index \in Slots(rg_current_level)
      /\ leaf_line' = leaf_line
  BY CursorSlots DEF Cursor, leaf_line
<1>2. node(rg_current_level, rg_current_index)' = nodeNext(rg_current_level, rg_current_index)
  BY DEF node, nodeNext, get_hash, get_hash_or_zero
<1>3. \/ nodeNext(rg_current_level, rg_current_index) = node(rg_current_level, rg_current_index)
      \/ nodeNext(rg_current_level, rg_current_index) = rg_my_node_hash
  BY <1>1 DEF StoreHere, NodesKept, NodeSet
<1>4. rg_current_level # 1 =>
        ChildrenHash(rg_current_level, rg_current_index)'
          = ChildrenHash(rg_current_level, rg_current_index)
  BY ChildrenStay
<1>5. line_data(written, leaf_line)' = line_data(written', leaf_line)
  BY <1>1 DEF line_data
<1> QED
  BY <1>2, <1>3, <1>4, <1>5 DEF UpdateRight

LEMMA VerifyFrame ==
  ASSUME TypeOK, Cursor, VerifyRight, rg_state \in Walking, NodesKept,
         UNCHANGED <<cursor, rg_my_node_hash, rg_from_protected>>,
         Top' <= Top, (Clean' <=> Clean), (Compared' <=> Compared), rg_mvu_error => rg_mvu_error'
  PROVE  VerifyRight'
<1>1. rg_current_level \in Levels /\ rg_current_index \in Slots(rg_current_level)
  BY CursorSlots DEF Cursor
<1>2. node(rg_current_level, rg_current_index)' = node(rg_current_level, rg_current_index)
  <2>1. node(rg_current_level, rg_current_index)' = nodeNext(rg_current_level, rg_current_index)
    BY DEF node, nodeNext, get_hash, get_hash_or_zero
  <2> QED BY <1>1, <2>1 DEF NodesKept
<1>3. rg_current_level \in Int /\ Top \in Int /\ Top' \in Int
  BY <1>1, Shape DEF Levels, Top
<1>4. rg_current_level' <= Top' => rg_current_level <= Top
  BY <1>3
<1> QED
  BY <1>2, <1>4 DEF VerifyRight
-----------------------------------------------------------------------------
(* The four parts that hold while the tree is Sound.                       *)
Tells == Gathered /\ TreeFolded /\ UpdateRight /\ VerifyRight

(* Outside a walk only the contents of the tree matter.                    *)
LEMMA TellsAtRest ==
  ASSUME TreeFolded, NodesKept, Top' = Top, UNCHANGED written, Unfolded \subseteq Unfolded',
         rg_state \notin Walking, rg_state' \notin Walking
  PROVE  Tells'
<1>1. ~LeafStored' /\ Behind' = <<0, 0>> /\ Behind = <<0, 0>>
  BY DEF LeafStored, Behind
<1>2. Top' <= Top
  BY Shape DEF Top
<1>3. \A line \in ProtectedLine : Folded(line)' => Folded(line)
  BY <1>1 DEF Folded
<1>4. TreeFolded'
  BY <1>1, <1>2, <1>3, TreeFoldedFrame
<1>5. Gathered' /\ UpdateRight' /\ VerifyRight'
  BY DEF Gathered, UpdateRight, VerifyRight, Walking, Gathering, Computed
<1> QED BY <1>4, <1>5 DEF Tells

LEMMA TellsRead ==
  ASSUME IInv, Lines, Tells, Top' = Top,
         \/ UnitStep(rl_start_update) \/ UnitStep(rl_forward_request)
         \/ UnitStep(rl_accumulate) \/ UnitStep(rl_forward_unprotected)
         \/ UnitStep(rl_forward_verified)
  PROVE  Tells'
<1>1. TypeOK /\ Session /\ UNCHANGED written
  BY DEF IInv, Control, UnitStep
<1>2. UNCHANGED <<rf_nodes, tree>>
  BY DEF UnitStep, rl_start_update, rl_forward_request, rl_accumulate,
         rl_forward_unprotected, rl_forward_verified
<1>3. NodesKept
  BY <1>2, NothingStored
<1>4. rg_state \notin Walking
  <2>1. rg_state \in {"IDLE", "ACCUMULATING", "FORWARD_TO_CACHE"}
    BY UnprotectedIdle DEF UnitStep, rl_start_update, rl_forward_request, rl_accumulate,
       rl_forward_unprotected, unverified, rl_forward_verified
  <2> QED BY <2>1 DEF Walking
<1>5. rg_state' \notin Walking
  BY <1>4, ReadRuleFrame
<1>6. Unfolded \subseteq Unfolded'
  <2>1. CASE UnitStep(rl_start_update)
    BY <2>1, LinesStartUpdate
  <2>2. CASE UnitStep(rl_forward_request)
    <3>1. rg_state = "IDLE" /\ UNCHANGED ff_evict_req
      BY <2>2 DEF rl_forward_request, UnitStep
    <3>2. ~rg_is_update
      BY <1>1, <3>1 DEF Session, Resting
    <3> QED BY <3>1, <3>2 DEF Unfolded, Entries
  <2>3. CASE \/ UnitStep(rl_accumulate) \/ UnitStep(rl_forward_unprotected)
             \/ UnitStep(rl_forward_verified)
    <3>1. UNCHANGED <<ff_evict_req, rg_is_update, rg_base_leaf_index>>
      BY <2>3 DEF UnitStep, rl_accumulate, rl_forward_unprotected, rl_forward_verified
    <3> QED BY <3>1, UnfoldedFrame
  <2> QED BY <2>1, <2>2, <2>3
<1> QED BY <1>1, <1>3, <1>4, <1>5, <1>6, TellsAtRest DEF Tells

(* rl_complete folds the line of an update.                                *)
LEMMA TellsComplete ==
  ASSUME IInv, Lines, Tells, Top' = Top, UnitStep(rl_complete) PROVE Tells'
<1>1. TypeOK /\ Cursor /\ OnePlace
  BY DEF IInv, Control, Lines
<1>2. /\ rg_state = "COMPLETE" /\ rg_is_update' = FALSE /\ rg_state' \notin Walking
      /\ UNCHANGED <<ff_evict_req, written, rf_nodes, tree, rg_base_leaf_index>>
  <2>1. /\ rg_state = "COMPLETE" /\ rg_is_update' = FALSE
        /\ rg_state' \in {"IDLE", "FORWARD_TO_CACHE"}
        /\ UNCHANGED <<ff_evict_req, written, rg_base_leaf_index>>
    BY CompleteFrame
  <2>2. UNCHANGED <<rf_nodes, tree>>
    BY DEF UnitStep, rl_complete
  <2> QED BY <2>1, <2>2 DEF Walking
<1>3. NodesKept
  BY <1>2, NothingStored
<1>4. Top' <= Top
  BY Shape DEF Top
<1>5. \A line \in ProtectedLine : Folded(line)' => Folded(line)
  <2> SUFFICES ASSUME NEW line \in ProtectedLine, Folded(line)', line \in Unfolded
               PROVE  Folded(line)
    BY DEF Folded
  <2>1. line \notin Unfolded' /\ ProtectedEvict' = ProtectedEvict
        /\ \A k : EvictLine(k)' = EvictLine(k)
    BY <1>2 DEF Folded, LeafStored, ProtectedEvict, EvictLine
  <2>2. line = leaf_line /\ rg_is_update
    BY <2>1, UnfoldedIs
  <2>3. LeafStored
    BY <1>2, <2>2 DEF LeafStored, NodeStored, Walking
  <2> QED BY <2>2, <2>3 DEF Folded
<1>6. Behind' = <<0, 0>>
  BY <1>2 DEF Behind
<1>7. Behind' = Behind \/ \A level \in 2..Height, index \in Nat : <<level, index>> # Behind
  <2>1. Behind = <<0, 0>> \/ Behind = <<Height + 1, parent_index(rg_current_index)>>
    <3>1. rg_current_level = Height
      BY <1>1, <1>2 DEF Cursor
    <3> QED BY <1>2, <3>1 DEF Behind, NodeStored
  <2> QED BY <1>6, <2>1, Shape
<1>8. TreeFolded'
  BY <1>2, <1>3, <1>4, <1>5, <1>7, TreeFoldedFrame DEF Tells
<1>9. Gathered' /\ UpdateRight' /\ VerifyRight'
  BY <1>2 DEF Gathered, UpdateRight, VerifyRight, Walking, Gathering, Computed
<1> QED BY <1>8, <1>9 DEF Tells

(* rl_compute_l0_parent starts the walk at the node above the leaves.      *)
LEMMA TellsLeaf ==
  ASSUME IInv, Delivery, Lines, Beats, Sound, Tells, Top' = Top,
         UnitStep(rl_compute_l0_parent)
  PROVE  Tells'
<1>1. TypeOK /\ Session /\ EvictsWritten
  BY DEF IInv, Control, Lines
<1>2. /\ rg_state = "COMPUTE_L0_PARENT" /\ rg_state' = "FETCH_SIBLINGS"
      /\ rg_my_node_hash' = Hash(rg_leaves) /\ rg_current_level' = 1
      /\ rg_current_index' = parent_index(rg_base_leaf_index)
      /\ rg_node_group' = group_of(parent_index(rg_base_leaf_index), Hash(rg_leaves))
      /\ UNCHANGED <<ff_evict_req, session, rg_leaves, rg_mvu_error, written, rf_nodes, tree>>
  BY DEF UnitStep, rl_compute_l0_parent
<1>3. NodesKept /\ Top' <= Top /\ Unfolded' = Unfolded /\ leaf_line' = leaf_line
  BY <1>2, NothingStored, UnfoldedFrame, Shape DEF Top, leaf_line
<1>4. ~NodeStored' /\ ~LeafStored' /\ Behind = <<0, 0>>
  BY <1>2 DEF NodeStored, LeafStored, Behind, Walking
<1>5. TreeFolded'
  <2>1. Behind' = <<0, 0>> \/ Behind' = <<1, rg_current_index'>>
    BY <1>2, <1>4 DEF Behind
  <2>2. \A level \in 2..Height, index \in Nat : <<level, index>> # Behind
    BY <1>4
  <2>3. \A line \in ProtectedLine : Folded(line)' => Folded(line)
    BY <1>3, <1>4 DEF Folded
  <2> QED BY <1>2, <1>3, <2>2, <2>3, TreeFoldedFrame DEF Tells
<1>6. Gathered'
  <2>1. here' = child_position(parent_index(rg_base_leaf_index))
    BY <1>2 DEF here
  <2>2. child_position(parent_index(rg_base_leaf_index)) \in Pos
    <3>1. rg_base_leaf_index \in Nat
      BY <1>1, Shape DEF TypeOK, MVUTypeOK
    <3> QED BY <3>1, OwnSlot, PositionInPos
  <2>3. rg_node_group'[here'] = rg_my_node_hash'
    BY <1>2, <2>1, <2>2 DEF group_of, ZeroGroup
  <2> QED BY <1>2, <2>3 DEF Gathered, Computed
<1>7. UpdateRight'
  <2>1. rg_is_update => rg_leaves = line_data(written, leaf_line)
    BY <1>1 DEF EvictsWritten
  <2>2. line_data(written, leaf_line)' = line_data(written, leaf_line)
    BY <1>2, <1>3 DEF line_data
  <2> QED BY <1>2, <1>4, <2>1, <2>2 DEF UpdateRight
<1>8. VerifyRight'
  <2> SUFFICES ASSUME rg_from_protected PROVE VerifyRight'
    BY <1>2 DEF VerifyRight
  <2> DEFINE line == line_of(rg_pending_req.addr)
  <2>1. /\ line \in ProtectedLine /\ line \notin Unfolded
        /\ parent_index(rg_base_leaf_index) = leaf_node(line)
        /\ Clean => Hash(rg_leaves) = Hash(line_data(written, line))
        /\ ~Clean => Hash(rg_leaves) # Hash(line_data(written, line))
    BY <1>2, LeafHash
  <2>2. node(1, leaf_node(line)) = Hash(line_data(written, line))
    BY <2>1 DEF Tells, TreeFolded, Folded, LeafFolded
  <2>3. node(rg_current_level, rg_current_index)' = node(1, leaf_node(line))
    <3>1. node(rg_current_level, rg_current_index)' = nodeNext(1, leaf_node(line))
      BY <1>2, <2>1 DEF node, nodeNext, get_hash, get_hash_or_zero
    <3>2. 1 \in Levels /\ leaf_node(line) \in Slots(1)
      BY <2>1, LeafNode, Shape DEF Levels
    <3> QED BY <1>3, <3>1, <3>2 DEF NodesKept
  <2>4. (Clean' <=> Clean)
    BY <1>2 DEF Clean
  <2>5. ~Compared'
    BY <1>2, Shape DEF Compared, Gathering
  <2> QED BY <1>2, <2>1, <2>2, <2>3, <2>4, <2>5 DEF VerifyRight
<1> QED BY <1>5, <1>6, <1>7, <1>8 DEF Tells
-----------------------------------------------------------------------------
(* A rule that stays at its node and stores none.                          *)
LEMMA TellsStay ==
  ASSUME IInv, Tells, Top' = Top, NodesKept, rg_state \in Walking, rg_state' \in Walking,
         UNCHANGED <<ff_evict_req, session, cursor, rg_my_node_hash, rg_leaves, written>>,
         rg_is_update => (NodeStored' <=> NodeStored),
         rg_from_protected => (Compared' <=> Compared) /\ (rg_mvu_error => rg_mvu_error'),
         Gathered'
  PROVE  Tells'
<1>1. TypeOK /\ Cursor
  BY DEF IInv, Control
<1>2. Top' <= Top /\ Unfolded' = Unfolded /\ leaf_line' = leaf_line
  BY UnfoldedFrame, Shape DEF Top, leaf_line
<1>3. Behind' = Behind /\ (LeafStored' <=> LeafStored)
  BY DEF Behind, LeafStored
<1>4. TreeFolded'
  BY <1>2, <1>3, TreeFoldedFrame DEF Tells, Folded
<1>5. UpdateRight'
  BY <1>1, UpdateFrame DEF Tells, StoreHere
<1>6. VerifyRight'
  <2>1. (Clean' <=> Clean)
    BY DEF Clean
  <2>2. CASE rg_from_protected
    BY <1>1, <1>2, <2>1, <2>2, VerifyFrame DEF Tells
  <2>3. CASE ~rg_from_protected
    BY <2>3 DEF VerifyRight
  <2> QED BY <2>2, <2>3
<1> QED BY <1>4, <1>5, <1>6 DEF Tells

LEMMA TellsFetch ==
  ASSUME IInv, Tells, Top' = Top, UnitStep(rl_fetch_siblings) PROVE Tells'
<1>1. TypeOK /\ Cursor /\ TreePipe /\ Session
  BY DEF IInv, Control
<1>2. /\ rg_state = "FETCH_SIBLINGS"
      /\ UNCHANGED <<ff_evict_req, session, cursor, rg_my_node_hash, rg_leaves, written,
                     rf_nodes, tree, rg_node_group, rg_mvu_error, ff_tree_resp>>
      /\ \/ /\ at_root
            /\ rg_state' = IF rg_is_update THEN "UPDATE_NODE" ELSE "CHECK_PARENT"
         \/ rg_state' = "FETCH_HCACHE_SIBLINGS" /\ rg_sibling_ptr' = 0
         \/ rg_state' = "WAIT_SIBLINGS"
  BY DEF UnitStep, rl_fetch_siblings
<1>3. ff_tree_resp = <<>>
  BY <1>1, <1>2 DEF TreePipe
<1>4. rg_state \in Walking /\ rg_state' \in Walking /\ ~NodeStored /\ ~NodeStored'
  BY <1>2 DEF Walking, NodeStored
<1>5. here' = here /\ \A k \in Pos : ~(k < 0)
  BY <1>2 DEF here, Pos
<1>6. at_root => ~(rg_current_level < Height)
  BY <1>1, Shape DEF at_root, TypeOK, MVUTypeOK
<1>7. Gathered'
  BY <1>2, <1>3, <1>5, <1>6 DEF Tells, Gathered, Gathering, Computed
<1>8. rg_from_protected => (Compared' <=> Compared)
  <2>1. rg_from_protected => ~rg_is_update
    BY <1>1, <1>2 DEF Session, Resting
  <2> QED BY <1>2, <2>1 DEF Compared, Gathering
<1> QED BY <1>2, <1>4, <1>7, <1>8, NothingStored, TellsStay

LEMMA TellsCollect ==
  ASSUME IInv, Tells, Top' = Top, UnitStep(rl_collect_hcache_siblings) PROVE Tells'
<1> DEFINE p == rg_sibling_ptr
<1>1. TypeOK /\ Cursor /\ Session
  BY DEF IInv, Control
<1>2. /\ rg_state = "FETCH_HCACHE_SIBLINGS"
      /\ rg_node_group' = IF p = here THEN rg_node_group
                          ELSE [rg_node_group EXCEPT ![p] =
                                 get_hash_or_zero(rg_current_level,
                                   sibling_group_base(rg_current_index) + p)]
      /\ p' = (p + 1) % Arity
      /\ rg_state' = IF p = Arity - 1 THEN "COMPUTE_PARENT" ELSE rg_state
      /\ UNCHANGED <<ff_evict_req, session, cursor, rg_my_node_hash, rg_leaves, written,
                     rf_nodes, tree, rg_mvu_error>>
  BY DEF UnitStep, rl_collect_hcache_siblings, last_sibling, here
<1>3. rg_current_level < Height /\ is_hw_level(rg_current_level)
  BY <1>1, <1>2, Shape DEF Cursor, BelowRoot, is_hw_level, TypeOK, MVUTypeOK
<1>4. rg_state \in Walking /\ rg_state' \in Walking /\ ~NodeStored /\ ~NodeStored'
  BY <1>2 DEF Walking, NodeStored
<1>5. NodesKept
  BY <1>2, NothingStored
<1>6. /\ here \in Pos /\ here' = here /\ (\A k \in Pos \ {here} : sibling(k)' = sibling(k))
      /\ GroupHere' = GroupHere
  BY <1>1, <1>2, <1>3, <1>4, <1>5, SiblingsStay DEF StoreHere
<1>7. p \in Pos /\ rg_node_group \in [Pos -> Word]
  BY <1>1 DEF TypeOK, MVUTypeOK
<1>8. /\ rg_node_group[here] = rg_my_node_hash
      /\ \A k \in Pos \ {here} : k < p => rg_node_group[k] = sibling(k)
  BY <1>2 DEF Tells, Gathered, Gathering
<1>9. rg_node_group' \in [Pos -> Word]
  <2>1. TypeOK'
    BY TypeOKWalk DEF UnitStep, MVUWalkRule
  <2> QED BY <2>1 DEF TypeOK, MVUTypeOK
<1>10. \A k \in Pos : rg_node_group'[k] = IF k = p /\ k # here THEN sibling(k) ELSE rg_node_group[k]
  <2>1. get_hash_or_zero(rg_current_level, sibling_group_base(rg_current_index) + p) = sibling(p)
    BY <1>3 DEF sibling, node
  <2> QED BY <1>2, <1>7, <2>1
<1>11. rg_node_group'[here] = rg_my_node_hash
  BY <1>6, <1>8, <1>10
<1>12. \A k \in Pos \ {here} : (k < p \/ k = p) => rg_node_group'[k] = sibling(k)
  BY <1>8, <1>10
<1>13. CASE p = Arity - 1
  <2>1. \A k \in Pos : k < p \/ k = p
    BY <1>13, Shape DEF Pos
  <2>2. \A k \in Pos : rg_node_group'[k] = GroupHere[k]
    BY <1>11, <1>12, <2>1 DEF GroupHere
  <2>3. rg_node_group' = GroupHere'
    BY <1>6, <1>9, <2>2 DEF GroupHere
  <2>4. rg_state' = "COMPUTE_PARENT"
    BY <1>2, <1>13
  <2>5. Gathered'
    BY <1>2, <1>6, <1>11, <2>3, <2>4 DEF Gathered, Computed
  <2> QED BY <1>2, <1>4, <1>5, <2>4, <2>5, TellsStay DEF Compared, Gathering
<1>14. CASE p # Arity - 1
  <2>1. p' = p + 1
    <3>1. p \in Int /\ p + 1 \in 0..Arity-1
      BY <1>7, <1>14, Shape DEF Pos
    <3>2. (p + 1) % Arity = p + 1
      <4>1. Arity * 0 + (p + 1) = p + 1
        BY <3>1, Shape
      <4> QED BY <3>1, <4>1, Shape, DivisionUnique
    <3> QED BY <1>2, <3>2
  <2>2. \A k \in Pos : k < p' => k < p \/ k = p
    BY <1>7, <2>1 DEF Pos
  <2>3. rg_state' = "FETCH_HCACHE_SIBLINGS"
    BY <1>2, <1>14
  <2>4. Gathered'
    BY <1>2, <1>6, <1>11, <1>12, <2>2, <2>3 DEF Gathered, Computed
  <2> QED BY <1>2, <1>4, <1>5, <2>3, <2>4, TellsStay DEF Compared, Gathering
<1> QED BY <1>13, <1>14

LEMMA TellsWait ==
  ASSUME IInv, Tells, Top' = Top, UnitStep(rl_wait_siblings) PROVE Tells'
<1> DEFINE resp == Head(ff_tree_resp)
<1>1. TypeOK /\ Cursor
  BY DEF IInv, Control
<1>2. /\ rg_state = "WAIT_SIBLINGS" /\ rg_state' = "COMPUTE_PARENT" /\ ff_tree_resp # <<>>
      /\ rg_node_group' = merged(resp)
      /\ UNCHANGED <<ff_evict_req, session, cursor, rg_my_node_hash, rg_leaves, written,
                     rf_nodes, tree, rg_mvu_error>>
  BY DEF UnitStep, rl_wait_siblings, NotEmpty
<1>3. rg_current_level < Height
  BY <1>1, <1>2 DEF Cursor, BelowRoot
<1>4. rg_state \in Walking /\ rg_state' \in Walking /\ ~NodeStored /\ ~NodeStored'
  BY <1>2 DEF Walking, NodeStored
<1>5. NodesKept
  BY <1>2, NothingStored
<1>6. here \in Pos /\ here' = here /\ GroupHere' = GroupHere
  BY <1>1, <1>2, <1>3, <1>4, <1>5, SiblingsStay DEF StoreHere
<1>7. /\ rg_node_group[here] = rg_my_node_hash
      /\ \A k \in Pos \ {here} : resp[k] = sibling(k)
  BY <1>2 DEF Tells, Gathered, Gathering
<1>8. resp \in [Pos -> Word]
  BY <1>1, <1>2 DEF TypeOK, MVUTypeOK
<1> HIDE DEF resp
<1>9. \A k \in Pos : merged(resp)[k] = GroupHere[k]
  BY <1>6, <1>7, <1>8 DEF merged, GroupHere, here
<1>10. rg_node_group' = GroupHere
  BY <1>2, <1>9 DEF merged, GroupHere
<1>11. Gathered'
  BY <1>2, <1>6, <1>10 DEF Gathered, Computed, GroupHere
<1> QED BY <1>2, <1>4, <1>5, <1>11, TellsStay DEF Compared, Gathering

LEMMA TellsCompute ==
  ASSUME IInv, Tells, Top' = Top, UnitStep(rl_compute_parent) PROVE Tells'
<1>1. TypeOK /\ Cursor /\ Session
  BY DEF IInv, Control
<1>2. /\ rg_state = "COMPUTE_PARENT" /\ rg_computed_parent' = Hash(rg_node_group)
      /\ rg_state' = IF rg_is_update THEN "UPDATE_NODE" ELSE "CHECK_PARENT"
      /\ UNCHANGED <<ff_evict_req, session, cursor, rg_my_node_hash, rg_leaves, written,
                     rf_nodes, tree, rg_mvu_error>>
  BY DEF UnitStep, rl_compute_parent
<1>3. rg_current_level < Height
  BY <1>1, <1>2 DEF Cursor, BelowRoot
<1>4. rg_state \in Walking /\ rg_state' \in Walking /\ ~NodeStored /\ ~NodeStored'
  BY <1>2 DEF Walking, NodeStored
<1>5. NodesKept
  BY <1>2, NothingStored
<1>6. GroupHere' = GroupHere
  BY <1>1, <1>2, <1>3, <1>4, <1>5, SiblingsStay DEF StoreHere
<1>7. rg_node_group = GroupHere
  BY <1>2 DEF Tells, Gathered
<1>8. Gathered'
  BY <1>2, <1>6, <1>7 DEF Gathered, Gathering
<1>9. rg_from_protected => (Compared' <=> Compared)
  <2>1. rg_from_protected => ~rg_is_update
    BY <1>1, <1>2 DEF Session, Resting
  <2> QED BY <1>2, <2>1 DEF Compared, Gathering
<1> QED BY <1>2, <1>4, <1>5, <1>8, <1>9, TellsStay

LEMMA TellsAcknowledged ==
  ASSUME IInv, Tells, Top' = Top, UnitStep(rl_wait_update_ack) PROVE Tells'
<1>1. TypeOK /\ Cursor /\ Session /\ TreePipe
  BY DEF IInv, Control
<1>2. /\ rg_state = "WAIT_UPDATE_ACK" /\ ff_tree_write_resp # <<>>
      /\ rg_state' = IF at_root THEN "COMPLETE" ELSE "PROPAGATE_UP"
      /\ UNCHANGED <<ff_evict_req, session, cursor, rg_my_node_hash, rg_leaves, written,
                     rf_nodes, tree, rg_mvu_error, rg_computed_parent>>
  BY DEF UnitStep, rl_wait_update_ack, NotEmpty
<1>3. rg_current_level < Height
  BY <1>1, <1>2 DEF Cursor, BelowRoot
<1>4. rg_state \in Walking /\ rg_state' \in Walking
  BY <1>2 DEF Walking
<1>5. NodeStored /\ NodeStored'
  BY <1>1, <1>2 DEF TreePipe, NodeStored
<1>6. NodesKept
  BY <1>2, NothingStored
<1>7. GroupHere' = GroupHere
  BY <1>1, <1>2, <1>3, <1>4, <1>6, SiblingsStay DEF StoreHere
<1>8. rg_computed_parent = Hash(GroupHere)
  BY <1>2, <1>3 DEF Tells, Gathered, Computed
<1>9. Gathered'
  BY <1>2, <1>7, <1>8 DEF Gathered, Gathering
<1>10. ~rg_from_protected
  BY <1>1, <1>2 DEF Session, UpdateOnly, Resting
<1> QED BY <1>2, <1>4, <1>5, <1>6, <1>9, <1>10, TellsStay

LEMMA TellsRoot ==
  ASSUME IInv, Tells, Top' = Top, UnitStep(rl_verify_root) PROVE Tells'
<1>1. TypeOK /\ Cursor /\ Session
  BY DEF IInv, Control
<1>2. /\ rg_state = "VERIFY_ROOT" /\ rg_state' = "COMPLETE"
      /\ (rg_mvu_error => rg_mvu_error')
      /\ UNCHANGED <<ff_evict_req, session, cursor, rg_my_node_hash, rg_leaves, written,
                     rf_nodes, tree>>
  BY DEF UnitStep, rl_verify_root
<1>3. rg_state \in Walking /\ rg_state' \in Walking
  BY <1>2 DEF Walking
<1>4. NodesKept
  BY <1>2, NothingStored
<1>5. rg_from_protected /\ ~rg_is_update
  BY <1>1, <1>2 DEF Session, ReadOnly, Resting
<1>6. Gathered'
  BY <1>2 DEF Gathered, Gathering, Computed
<1>7. (Compared' <=> Compared)
  BY <1>2 DEF Compared, Gathering
<1> QED BY <1>2, <1>3, <1>4, <1>5, <1>6, <1>7, TellsStay
-----------------------------------------------------------------------------
(* An update stores its node: the node now agrees with its children, and   *)
(* only its parent is behind.                                              *)
LEMMA TreeFoldedStore ==
  ASSUME IInv, Lines, OnPath, TreeFolded, UpdateRight, Top' = Top,
         NodeSet(rg_current_level, rg_current_index, rg_my_node_hash),
         rg_is_update, rg_state \in Walking, rg_state' \in Walking, ~NodeStored, NodeStored',
         UNCHANGED <<ff_evict_req, session, cursor, written>>
  PROVE  TreeFolded'
<1> DEFINE L == rg_current_level
           I == rg_current_index
           h == rg_my_node_hash
<1>1. TypeOK /\ Cursor /\ EvictsWritten
  BY DEF IInv, Control, Lines
<1>2. /\ L \in Levels /\ L \in 1..Height /\ I \in NodesOf(L) /\ I \in Slots(L) /\ I \in Nat
  BY <1>1, CursorSlots DEF Cursor, TypeOK, MVUTypeOK, Levels
<1>3. Unfolded' = Unfolded /\ leaf_line' = leaf_line
  BY UnfoldedFrame DEF leaf_line
<1>4. Behind = <<L, I>> /\ Behind' = <<L + 1, parent_index(I)>>
  BY DEF Behind
<1>5. h = IF L = 1 THEN Hash(line_data(written, leaf_line)) ELSE ChildrenHash(L, I)
  BY DEF UpdateRight
<1>6. L = 1 => I = leaf_node(leaf_line)
  <2>1. I = ancestor(rg_base_leaf_index)[L]
    BY DEF OnPath
  <2>2. 1 \in 1..Height /\ 1 - 1 = 0
    BY Shape
  <2>3. ancestor(rg_base_leaf_index)[1] = parent_index(rg_base_leaf_index)
    BY <2>2, AncestorStep
  <2>4. rg_base_leaf_index = addr_to_leaf_index(line_base(leaf_line))
    BY <1>1 DEF EvictsWritten
  <2> QED BY <2>1, <2>3, <2>4 DEF leaf_node
<1>7. leaf_line \in ProtectedLine /\ leaf_line \in Unfolded
  BY <1>1, UnfoldedIs DEF EvictsWritten
<1>8. \A level \in Levels : \A index \in Slots(level) :
        nodeNext(level, index) = IF level = L /\ index = I THEN h ELSE node(level, index)
  BY DEF NodeSet
<1>9. 1 \in Levels /\ \A level \in 2..Height : level \in Levels /\ level - 1 \in Levels
  BY Shape DEF Levels
<1>10. Top \in Int /\ Top <= Height
  BY Shape DEF Top
<1> HIDE DEF L, I, h
<1>11. ASSUME NEW line \in ProtectedLine, Folded(line)'
       PROVE  nodeNext(1, leaf_node(line)) = Hash(line_data(written', line))
  <2>1. leaf_node(line) \in Slots(1)
    BY LeafNode
  <2>2. CASE line = leaf_line /\ L = 1
    BY <1>5, <1>6, <1>8, <1>9, <2>1, <2>2
  <2>3. CASE ~(line = leaf_line /\ L = 1)
    <3>1. L # 1 \/ leaf_node(line) # I
      BY <1>6, <1>7, <2>3, LeafNode
    <3>2. nodeNext(1, leaf_node(line)) = node(1, leaf_node(line))
      BY <1>8, <1>9, <2>1, <3>1
    <3>3. Folded(line)
      <4>1. line \notin Unfolded \/ line = leaf_line
        BY <1>3, <1>11 DEF Folded
      <4>2. line = leaf_line => L > 1
        BY <1>2, <2>3 DEF Levels
      <4> QED BY <4>1, <4>2 DEF Folded, LeafStored, L
    <3>4. node(1, leaf_node(line)) = Hash(line_data(written, line))
      BY <3>3 DEF TreeFolded, LeafFolded
    <3> QED BY <3>2, <3>4
  <2> QED BY <2>2, <2>3
<1>12. ASSUME NEW level \in 2..Top', NEW index \in NodesOf(level), <<level, index>> # Behind'
       PROVE  nodeNext(level, index)
                = Hash([k \in Pos |-> nodeNext(level - 1, child_index(index, k))])
  <2>1. level \in 2..Top /\ level \in 2..Height /\ level \in 1..Height /\ level \in 0..Height
    BY <1>10, <1>12, Shape
  <2>2. index \in Nat /\ index \in Slots(level)
    BY <2>1, Shape, NodeInSlots DEF NodesOf
  <2>3. \A k \in Pos : ~(level - 1 = L /\ child_index(index, k) = I)
    <3> SUFFICES ASSUME NEW k \in Pos, level - 1 = L, child_index(index, k) = I PROVE FALSE
      OBVIOUS
    <3>1. parent_index(I) = index
      BY <2>2, ParentOfChild
    <3>2. L + 1 = level
      BY <1>2, <2>1
    <3> QED BY <1>4, <1>12, <3>1, <3>2
  <2>4. \A k \in Pos : nodeNext(level - 1, child_index(index, k))
                         = node(level - 1, child_index(index, k))
    <3> TAKE k \in Pos
    <3>1. level - 1 \in Levels /\ child_index(index, k) \in Slots(level - 1)
      BY <1>9, <2>1, ChildInSlots
    <3> QED BY <1>8, <2>3, <3>1
  <2>5. [k \in Pos |-> nodeNext(level - 1, child_index(index, k))]
          = [k \in Pos |-> node(level - 1, child_index(index, k))]
    BY <2>4
  <2>6. CASE level = L /\ index = I
    <3>1. L # 1
      BY <2>1, <2>6
    <3>2. nodeNext(level, index) = h
      BY <1>8, <1>9, <2>1, <2>2, <2>6
    <3> QED BY <1>5, <2>5, <2>6, <3>1, <3>2 DEF ChildrenHash
  <2>7. CASE ~(level = L /\ index = I)
    <3>1. nodeNext(level, index) = node(level, index)
      BY <1>8, <1>9, <2>1, <2>2, <2>7
    <3>2. <<level, index>> # Behind
      BY <1>4, <2>7
    <3>3. NodeConsistent(level, index)
      BY <2>1, <3>2 DEF TreeFolded
    <3> QED BY <2>5, <3>1, <3>3 DEF NodeConsistent
  <2> QED BY <2>6, <2>7
<1> QED BY <1>11, <1>12, TreeFoldedNext

LEMMA TellsStore ==
  ASSUME IInv, Lines, OnPath, Tells, Top' = Top,
         NodeSet(rg_current_level, rg_current_index, rg_my_node_hash),
         rg_is_update, rg_state \in {"UPDATE_NODE", "WAIT_UPDATE_ACK"}, ~NodeStored,
         rg_state' \in {"PROPAGATE_UP", "COMPLETE", "WAIT_UPDATE_ACK"}, NodeStored',
         UNCHANGED <<ff_evict_req, session, cursor, rg_my_node_hash, rg_computed_parent, written>>
  PROVE  Tells'
<1>1. TypeOK /\ Cursor /\ Session
  BY DEF IInv, Control
<1>2. rg_state \in Walking /\ rg_state' \in Walking
  BY DEF Walking
<1>3. TreeFolded'
  BY <1>2, TreeFoldedStore DEF Tells
<1>4. UpdateRight'
  <2>1. nodeNext(rg_current_level, rg_current_index) = rg_my_node_hash
    BY <1>1, <1>2, CursorSlots DEF NodeSet, Cursor
  <2> QED BY <1>1, <1>2, <2>1, UpdateFrame DEF Tells, StoreHere
<1>5. VerifyRight'
  BY <1>1, <1>2 DEF VerifyRight, Session, Resting
<1>6. Gathered'
  <2>1. rg_current_level < Height => GroupHere' = GroupHere
    BY <1>1, <1>2, SiblingsStay DEF StoreHere
  <2>2. rg_current_level < Height => rg_computed_parent = Hash(GroupHere)
    BY DEF Tells, Gathered, Computed
  <2> QED BY <2>1, <2>2 DEF Gathered, Gathering, Computed
<1> QED BY <1>3, <1>4, <1>5, <1>6 DEF Tells

LEMMA TellsUpdate ==
  ASSUME IInv, Lines, OnPath, Tells, Top' = Top, UnitStep(rl_update_node) PROVE Tells'
<1>1. TypeOK /\ Cursor /\ Session
  BY DEF IInv, Control
<1>2. /\ rg_state = "UPDATE_NODE" /\ ~NodeStored
      /\ UNCHANGED <<ff_evict_req, session, cursor, rg_my_node_hash, rg_computed_parent,
                     rg_leaves, written, tree, rg_mvu_error>>
  BY DEF UnitStep, rl_update_node, NodeStored
<1>3. rg_state \in Walking /\ rg_is_update /\ ~rg_from_protected
  BY <1>1, <1>2 DEF Walking, Session, UpdateOnly, Resting
<1>4. rg_current_level \in Levels /\ rg_current_index \in Slots(rg_current_level)
  BY <1>1, <1>3, CursorSlots DEF Cursor
<1>5. CASE is_hw_level(rg_current_level)
  <2>1. /\ set_hash(rg_current_level, rg_current_index, rg_my_node_hash)
        /\ rg_state' \in {"PROPAGATE_UP", "COMPLETE"}
    BY <1>5 DEF UnitStep, rl_update_node
  <2>2. NodeSet(rg_current_level, rg_current_index, rg_my_node_hash)
    <3>1. rg_my_node_hash \in Word
      BY <1>1 DEF TypeOK, MVUTypeOK
    <3> QED BY <1>1, <1>2, <1>4, <1>5, <2>1, <3>1, HwNodeStored
  <2>3. NodeStored'
    BY <2>1 DEF NodeStored
  <2> QED BY <1>2, <1>3, <2>1, <2>2, <2>3, TellsStore
<1>6. CASE ~is_hw_level(rg_current_level)
  <2> DEFINE w == [level |-> rg_current_level, index |-> rg_current_index,
                   hash |-> rg_my_node_hash]
  <2>1. /\ rg_state' = "WAIT_UPDATE_ACK" /\ UNCHANGED rf_nodes
        /\ ff_tree_write' = Append(ff_tree_write, w)
    BY <1>6 DEF UnitStep, rl_update_node
  <2>2. ff_tree_write' # <<>>
    <3>1. ff_tree_write \in Seq(TreeNodeWrite) /\ w \in TreeNodeWrite
      BY <1>1, <1>4 DEF TypeOK, MVUTypeOK, TreeNodeWrite
    <3> HIDE DEF w
    <3>2. /\ ff_tree_write' \in Seq(TreeNodeWrite) /\ Len(ff_tree_write') = Len(ff_tree_write) + 1
          /\ Len(ff_tree_write) \in Nat
      BY <2>1, <3>1, AppendShift
    <3> QED BY <3>2, EmptySeq
  <2>3. ~NodeStored'
    BY <2>1, <2>2 DEF NodeStored
  <2>4. rg_current_level < Height
    BY <1>1, <1>4, <1>6, Shape DEF is_hw_level, Levels
  <2>5. NodesKept /\ rg_state' \in Walking
    BY <1>2, <2>1, NothingStored DEF Walking
  <2>6. GroupHere' = GroupHere
    BY <1>1, <1>2, <1>3, <2>4, <2>5, SiblingsStay DEF StoreHere
  <2>7. rg_computed_parent = Hash(GroupHere)
    BY <1>2, <2>4 DEF Tells, Gathered, Computed
  <2>8. Gathered'
    BY <1>2, <2>1, <2>6, <2>7 DEF Gathered, Gathering
  <2> QED BY <1>2, <1>3, <2>3, <2>5, <2>8, TellsStay
<1> QED BY <1>5, <1>6
-----------------------------------------------------------------------------
(* A line read with a corrupted word has its MinHwLevel node in the        *)
(* HCache, so the walk compares there.                                     *)
LEMMA WatchedRead ==
  ASSUME IInv, Delivery, Lines, Beats, OnPath, Sound, rg_from_protected,
         rg_state \in Walking, rg_current_level = MinHwLevel, ~Clean
  PROVE  get_hash(rg_current_level, rg_current_index) # Invalid
<1> DEFINE req == rg_pending_req
<1>1. Session /\ rg_state # "ACCUMULATING"
  BY DEF IInv, Control, Walking
<1>2. /\ req \in ReadReq /\ req.addr \in Addr
      /\ \A k \in Pos : rg_leaves[k] = written[wrap(req, k)] \/ wrap(req, k) \in Tampered
  BY <1>1, CollectedWords DEF ReadReq
<1>3. PICK k \in Pos : rg_leaves[k] # written[wrap(req, k)]
  BY DEF Clean
<1> DEFINE a == wrap(req, k)
<1>4. a \in Tampered /\ a \in Addr /\ watched(a) /\ line_of(a) = line_of(req.addr)
  <2>1. a \in Tampered /\ k \in Int
    BY <1>2, <1>3 DEF Pos
  <2>2. a \in Addr /\ line_of(a) = line_of(req.addr)
    BY <1>2, <2>1, WrapLine
  <2> QED BY <2>1, <2>2 DEF Lines, FaultsWatched
<1> HIDE DEF a, req
<1>5. parent_index(addr_to_leaf_index(a)) = parent_index(addr_to_leaf_index(req.addr))
  BY <1>2, <1>4, LeafParent
<1>6. MinHwLevel \in 1..Height
  BY Shape
<1>7. ancestor(addr_to_leaf_index(a))[MinHwLevel] = ancestor(addr_to_leaf_index(req.addr))[MinHwLevel]
  BY <1>5, <1>6, AncestorOfLine
<1>8. rg_current_index = ancestor(addr_to_leaf_index(req.addr))[MinHwLevel]
  BY <1>1 DEF OnPath, Session, req
<1> QED BY <1>4, <1>7, <1>8 DEF watched

(* A node first seen by a verification changes nothing the tree speaks for.*)
LEMMA FirstSeen ==
  ASSUME IInv, Delivery, Lines, Beats, OnPath, Sound, Tells, rg_state = "CHECK_PARENT",
         is_hw_level(rg_current_level),
         get_hash(rg_current_level, rg_current_index) = Invalid
  PROVE  \/ Clean /\ rg_my_node_hash = node(rg_current_level, rg_current_index)
         \/ rg_current_level > Top /\ (~Clean => rg_mvu_error)
<1>1. TypeOK /\ Session /\ rg_state \in Walking
  BY DEF IInv, Control, Walking
<1>2. rg_from_protected
  BY <1>1 DEF Session, ReadOnly
<1>3. /\ rg_current_level \in Int /\ Top \in Int /\ MinHwLevel \in Int
      /\ rg_current_level >= MinHwLevel
  BY <1>1, Shape DEF TypeOK, MVUTypeOK, Top, is_hw_level
<1>4. CASE Clean
  BY <1>1, <1>2, <1>3, <1>4 DEF Tells, VerifyRight
<1>5. CASE ~Clean
  <2>1. Top = MinHwLevel
    BY <1>1, <1>2, <1>5, CollectedWords DEF Walking
  <2>2. rg_current_level # MinHwLevel
    BY <1>1, <1>2, <1>5, WatchedRead
  <2>3. rg_current_level > MinHwLevel
    BY <1>3, <2>2
  <2>4. rg_mvu_error
    BY <1>1, <1>2, <1>5, <2>3 DEF Tells, VerifyRight, Compared
  <2> QED BY <2>1, <2>3, <2>4
<1> QED BY <1>4, <1>5

LEMMA TellsCheck ==
  ASSUME IInv, Delivery, Lines, Beats, OnPath, Sound, Tells, Top' = Top,
         UnitStep(rl_check_parent)
  PROVE  Tells'
<1> DEFINE L == rg_current_level
           I == rg_current_index
           h == rg_my_node_hash
<1>1. TypeOK /\ Cursor /\ Session
  BY DEF IInv, Control
<1>2. /\ rg_state = "CHECK_PARENT"
      /\ rg_state' = IF at_root THEN "VERIFY_ROOT" ELSE "PROPAGATE_UP"
      /\ UNCHANGED <<ff_evict_req, session, cursor, hashes, rg_leaves, written, tree>>
  BY DEF UnitStep, rl_check_parent
<1>3. rg_state \in Walking /\ rg_state' \in Walking
  BY <1>2 DEF Walking
<1>4. rg_from_protected /\ ~rg_is_update
  BY <1>1, <1>2 DEF Session, ReadOnly, Resting
<1>5. L \in Levels /\ I \in Slots(L) /\ h \in Word /\ L \in Int /\ MinHwLevel \in Int
  BY <1>1, <1>3, CursorSlots, Shape DEF Cursor, TypeOK, MVUTypeOK
<1>6. \/ NodesKept /\ (is_hw_level(L) => get_hash(L, I) # Invalid)
           /\ rg_mvu_error' = (rg_mvu_error \/ (is_hw_level(L) /\ mismatch(get_hash(L, I))))
      \/ NodesKept /\ Clean /\ UNCHANGED rg_mvu_error
      \/ NodeSet(L, I, h) /\ L > Top /\ (~Clean => rg_mvu_error) /\ UNCHANGED rg_mvu_error
  <2>1. CASE is_hw_level(L) /\ get_hash(L, I) = Invalid
    <3>1. set_hash(L, I, h) /\ UNCHANGED rg_mvu_error
      BY <2>1 DEF UnitStep, rl_check_parent
    <3>2. NodeSet(L, I, h)
      BY <1>1, <1>2, <1>5, <2>1, <3>1, HwNodeStored
    <3>3. h = node(L, I) => NodesKept
      BY <3>2 DEF NodeSet, NodesKept
    <3> QED BY <1>2, <2>1, <3>1, <3>2, <3>3, FirstSeen
  <2>2. CASE ~is_hw_level(L)
    <3>1. UNCHANGED <<rf_nodes, rg_mvu_error>>
      BY <2>2 DEF UnitStep, rl_check_parent
    <3> QED BY <1>1, <1>2, <2>2, <3>1, NothingStored DEF TypeOK, MVUTypeOK
  <2>3. CASE is_hw_level(L) /\ get_hash(L, I) # Invalid
    <3>1. rg_mvu_error' = (rg_mvu_error \/ mismatch(get_hash(L, I))) /\ UNCHANGED rf_nodes
      BY <2>3 DEF UnitStep, rl_check_parent
    <3> QED BY <1>2, <2>3, <3>1, NothingStored
  <2> QED BY <2>1, <2>2, <2>3
<1>7. StoreHere /\ (NodesKept \/ KeptTo(Top))
  <2>1. Top \in Int
    BY Shape DEF Top
  <2> QED BY <1>5, <1>6, <2>1 DEF StoreHere, NodeSet, KeptTo, Levels
<1>8. TreeFolded'
  <2>1. Top' <= Top /\ Unfolded' = Unfolded
    BY <1>2, UnfoldedFrame, Shape DEF Top
  <2>2. Behind' = <<0, 0>> /\ Behind = <<0, 0>> /\ ~LeafStored' /\ ~LeafStored
    BY <1>2, <1>4 DEF Behind, LeafStored
  <2>3. \A line \in ProtectedLine : Folded(line)' => Folded(line)
    BY <2>1, <2>2 DEF Folded
  <2> QED BY <1>2, <1>7, <2>1, <2>2, <2>3, TreeFoldedFrame DEF Tells
<1>9. Gathered'
  <2>1. L < Height => GroupHere' = GroupHere
    BY <1>1, <1>2, <1>3, <1>7, SiblingsStay
  <2>2. L < Height => rg_computed_parent = Hash(GroupHere)
    BY <1>2 DEF Tells, Gathered, Computed
  <2> QED BY <1>2, <2>1, <2>2 DEF Gathered, Gathering, Computed
<1>10. UpdateRight'
  BY <1>2, <1>4 DEF UpdateRight
<1>11. VerifyRight'
  <2>1. (Clean' <=> Clean)
    BY <1>2 DEF Clean
  <2>2. (Compared' <=> (L > MinHwLevel \/ L = MinHwLevel))
    BY <1>2 DEF Compared, Gathering
  <2>3. (Compared <=> L > MinHwLevel)
    BY <1>2 DEF Compared
  <2>4. node(L, I)' = nodeNext(L, I)
    BY <1>2 DEF node, nodeNext, get_hash, get_hash_or_zero
  <2>5. CASE NodesKept /\ Clean
    <3>1. node(L, I)' = node(L, I)
      BY <1>5, <2>4, <2>5 DEF NodesKept
    <3> QED BY <1>2, <1>3, <1>4, <2>1, <2>5, <3>1 DEF Tells, VerifyRight
  <2>6. CASE L > Top /\ (~Clean => rg_mvu_error) /\ UNCHANGED rg_mvu_error
    <3>1. ~(L <= Top)
      BY <1>5, <2>6, Shape DEF Top
    <3>2. ~Clean => Compared'
      <4>1. ~Clean => Top = MinHwLevel
        BY <1>2, <1>4, CollectedWords
      <4> QED BY <2>2, <2>6, <4>1
    <3> QED BY <1>2, <2>1, <2>6, <3>1, <3>2 DEF VerifyRight
  <2>7. CASE /\ NodesKept /\ ~Clean /\ (is_hw_level(L) => get_hash(L, I) # Invalid)
             /\ rg_mvu_error' = (rg_mvu_error \/ (is_hw_level(L) /\ mismatch(get_hash(L, I))))
    <3>1. node(L, I)' = node(L, I)
      BY <1>5, <2>4, <2>7 DEF NodesKept
    <3>2. L > MinHwLevel => rg_mvu_error'
      BY <1>3, <1>4, <2>3, <2>7 DEF Tells, VerifyRight
    <3>3. ~(L > MinHwLevel) => h # node(L, I)
      BY <1>3, <1>4, <2>3, <2>7 DEF Tells, VerifyRight
    <3>4. L = MinHwLevel => rg_mvu_error'
      <4> SUFFICES ASSUME L = MinHwLevel PROVE rg_mvu_error'
        OBVIOUS
      <4>1. is_hw_level(L) /\ ~(L > MinHwLevel)
        BY Shape DEF is_hw_level
      <4>2. node(L, I) = get_hash(L, I)
        BY <2>7, <4>1 DEF node, get_hash_or_zero
      <4> QED BY <2>7, <3>3, <4>1, <4>2 DEF mismatch
    <3>5. Compared' => rg_mvu_error'
      BY <2>2, <3>2, <3>4
    <3>6. ~Compared' => h # node(L, I)
      BY <2>2, <3>3
    <3> QED BY <1>2, <2>1, <2>7, <3>1, <3>5, <3>6 DEF VerifyRight
  <2> QED BY <1>6, <2>5, <2>6, <2>7
<1> QED BY <1>8, <1>9, <1>10, <1>11 DEF Tells

(* rl_propagate_up carries the group's hash to the parent.                 *)
Children(level, parent) == [k \in Pos |-> node(level, child_index(parent, k))]
LEMMA ChildrenAre ==
  ASSUME NEW l, NEW m, l - 1 = m, NEW p
  PROVE  ChildrenHash(l, p) = Hash(Children(m, p))
BY DEF ChildrenHash, Children

LEMMA GroupIsChildren ==
  ASSUME IInv, rg_state \in Walking, rg_current_level < Height
  PROVE  LET own == node(rg_current_level, rg_current_index)
             children == ChildrenHash(rg_current_level + 1, parent_index(rg_current_index))
         IN /\ rg_my_node_hash = own => Hash(GroupHere) = children
            /\ rg_my_node_hash # own => Hash(GroupHere) # children
<1> DEFINE L == rg_current_level
           I == rg_current_index
           below == [k \in Pos |-> node(L, sibling_group_base(I) + k)]
<1>1. TypeOK /\ Cursor /\ I \in Nat /\ L \in Levels /\ L \in Int /\ rg_my_node_hash \in Word
  BY DEF IInv, Control, TypeOK, MVUTypeOK, Cursor, Levels
<1>2. /\ \A k \in Pos : sibling_group_base(I) + k \in Slots(L)
      /\ sibling_group_base(I) + here = I /\ here \in Pos
      /\ \A k \in Pos : child_index(parent_index(I), k) = sibling_group_base(I) + k
  BY <1>1, CursorSlots, OwnSlot DEF here
<1>3. below \in [Pos -> Word] /\ below[here] = node(L, I)
  BY <1>1, <1>2, NodeIsWord
<1>4. ChildrenHash(L + 1, parent_index(I)) = Hash(below)
  <2>1. L + 1 - 1 = L
    BY <1>1
  <2>2. Children(L, parent_index(I)) = below
    BY <1>2 DEF Children
  <2>3. ChildrenHash(L + 1, parent_index(I)) = Hash(Children(L, parent_index(I)))
    BY <1>1, <2>1, ChildrenAre
  <2> QED BY <2>2, <2>3
<1>5. GroupHere = [below EXCEPT ![here] = rg_my_node_hash]
  <2>1. \A k \in Pos : sibling(k) = below[k]
    BY DEF sibling
  <2> HIDE DEF below
  <2>2. GroupHere \in [Pos -> Word]
    BY <1>1, <1>3, <2>1 DEF GroupHere
  <2>3. \A k \in Pos : GroupHere[k] = [below EXCEPT ![here] = rg_my_node_hash][k]
    BY <1>2, <1>3, <2>1 DEF GroupHere
  <2> QED BY <1>1, <1>3, <2>2, <2>3 DEF GroupHere
<1> HIDE DEF below
<1>6. rg_my_node_hash = node(L, I) => GroupHere = below
  BY <1>2, <1>3, <1>5
<1>7. rg_my_node_hash # node(L, I) => Hash(GroupHere) # Hash(below)
  BY <1>1, <1>2, <1>3, <1>5, HashOneWord
<1> QED BY <1>4, <1>6, <1>7

LEMMA TellsPropagate ==
  ASSUME IInv, Delivery, Lines, Beats, Sound, Tells, Top' = Top, UnitStep(rl_propagate_up)
  PROVE  Tells'
<1> DEFINE L == rg_current_level
           I == rg_current_index
           P == parent_index(rg_current_index)
           own == node(L, I)
           children == ChildrenHash(L + 1, P)
<1>1. TypeOK /\ Cursor /\ Session
  BY DEF IInv, Control
<1>2. /\ rg_state = "PROPAGATE_UP" /\ rg_state' = "FETCH_SIBLINGS"
      /\ rg_current_level' = L + 1 /\ rg_current_index' = P
      /\ rg_my_node_hash' = rg_computed_parent
      /\ rg_node_group' = group_of(P, rg_computed_parent)
      /\ UNCHANGED <<ff_evict_req, session, rg_leaves, rg_mvu_error, written, rf_nodes, tree>>
  BY DEF UnitStep, rl_propagate_up
<1>3. rg_state \in Walking /\ rg_state' \in Walking /\ NodeStored /\ ~NodeStored'
  BY <1>2 DEF Walking, NodeStored
<1>4. /\ L \in Levels /\ L \in Int /\ L < Height /\ I \in Nat /\ L # 0 /\ L + 1 # 1
      /\ L + 1 \in 2..Height /\ L + 1 \in Levels
  BY <1>1, <1>2, <1>3, Shape DEF Cursor, BelowRoot, Levels, TypeOK, MVUTypeOK
<1>5. P \in NodesOf(L + 1) /\ P \in Slots(L + 1) /\ P \in Nat
  BY <1>1, <1>3, <1>4, CursorSlots, NodeInSlots, OwnSlot DEF Levels
<1>6. NodesKept /\ Top' <= Top /\ Unfolded' = Unfolded /\ leaf_line' = leaf_line
  BY <1>2, NothingStored, UnfoldedFrame, Shape DEF Top, leaf_line
<1>7. rg_my_node_hash' = Hash(GroupHere)
  BY <1>2, <1>4 DEF Tells, Gathered, Computed
<1>8. /\ rg_my_node_hash = own => rg_my_node_hash' = children
      /\ rg_my_node_hash # own => rg_my_node_hash' # children
  BY <1>3, <1>4, <1>7, GroupIsChildren
<1>9. TreeFolded'
  <2>1. Behind' = Behind
    BY <1>2, <1>3 DEF Behind
  <2>2. (LeafStored' <=> LeafStored)
    <3>1. rg_current_level' > 1
      BY <1>2, <1>4 DEF Levels
    <3> QED BY <1>2, <1>3, <3>1 DEF LeafStored
  <2> QED BY <1>2, <1>6, <2>1, <2>2, TreeFoldedFrame DEF Tells, Folded
<1>10. Gathered'
  <2>1. here' = child_position(P) /\ child_position(P) \in Pos
    BY <1>2, <1>5, PositionInPos DEF here
  <2>2. rg_node_group'[here'] = rg_my_node_hash'
    BY <1>2, <2>1 DEF group_of, ZeroGroup
  <2> QED BY <1>2, <2>2 DEF Gathered, Computed
<1>11. ChildrenHash(rg_current_level, rg_current_index)' = children
  <2>1. L + 1 - 1 = L /\ \A k \in Pos : nodeNext(L, child_index(P, k)) = node(L, child_index(P, k))
    <3>1. L + 1 - 1 = L /\ \A k \in Pos : child_index(P, k) \in Slots(L + 1 - 1)
      BY <1>4, <1>5, ChildInSlots
    <3> QED BY <1>4, <1>6, <3>1 DEF NodesKept
  <2>2. ChildrenHash(rg_current_level, rg_current_index)'
          = Hash([k \in Pos |->
                   nodeNext(rg_current_level' - 1, child_index(rg_current_index', k))])
    BY DEF ChildrenHash, node, nodeNext, get_hash, get_hash_or_zero
  <2>3. [k \in Pos |-> nodeNext(rg_current_level' - 1, child_index(rg_current_index', k))]
          = Children(L, P)
    <3>1. rg_current_level' - 1 = L /\ rg_current_index' = P
      BY <1>2, <1>4
    <3>2. \A k \in Pos : nodeNext(rg_current_level' - 1, child_index(rg_current_index', k))
                           = node(L, child_index(P, k))
      BY <2>1, <3>1
    <3> QED BY <3>2 DEF Children
  <2>4. children = Hash(Children(L, P))
    BY <1>4, <2>1, ChildrenAre
  <2> QED BY <2>2, <2>3, <2>4
<1>12. node(rg_current_level, rg_current_index)' = node(L + 1, P)
  <2>1. node(rg_current_level, rg_current_index)'
          = nodeNext(rg_current_level', rg_current_index')
    BY DEF node, nodeNext, get_hash, get_hash_or_zero
  <2> QED BY <1>2, <1>4, <1>5, <1>6, <2>1 DEF NodesKept
<1>13. UpdateRight'
  <2> SUFFICES ASSUME rg_is_update PROVE UpdateRight'
    BY <1>2 DEF UpdateRight
  <2>1. rg_my_node_hash = own
    BY <1>3 DEF Tells, UpdateRight
  <2> QED BY <1>2, <1>3, <1>4, <1>8, <1>11, <2>1 DEF UpdateRight
<1>14. VerifyRight'
  <2> SUFFICES ASSUME rg_from_protected PROVE VerifyRight'
    BY <1>2 DEF VerifyRight
  <2>1. ~rg_is_update /\ Behind = <<0, 0>> /\ L \in Int /\ Top \in Int
    BY <1>1, <1>2, Shape DEF Session, Resting, Behind, Levels, Top, TypeOK, MVUTypeOK
  <2>2. L + 1 <= Top => node(L + 1, P) = children
    <3> SUFFICES ASSUME L + 1 <= Top PROVE node(L + 1, P) = children
      OBVIOUS
    <3>1. L + 1 \in 2..Top
      BY <1>4, <2>1
    <3>2. <<L + 1, P>> # Behind
      BY <1>4, <2>1
    <3>3. NodeConsistent(L + 1, P)
      BY <1>5, <3>1, <3>2 DEF Tells, TreeFolded
    <3> QED BY <3>3 DEF NodeConsistent, ChildrenHash
  <2>3. (Clean' <=> Clean)
    BY <1>2 DEF Clean
  <2>4. CASE Clean
    <3>1. L <= Top => rg_my_node_hash = own
      BY <1>3, <2>4 DEF Tells, VerifyRight
    <3>2. Top' = Top /\ (L + 1 <= Top => L <= Top)
      BY <2>1
    <3> QED BY <1>2, <1>8, <1>12, <2>2, <2>3, <2>4, <3>1, <3>2 DEF VerifyRight
  <2>5. CASE ~Clean
    <3>1. Top = MinHwLevel
      BY <1>2, <2>5, CollectedWords
    <3>2. (Compared <=> L >= MinHwLevel) /\ (Compared' <=> L + 1 > MinHwLevel)
      BY <1>2, <2>1, <3>1 DEF Compared, Gathering
    <3>3. (Compared' <=> Compared) /\ (~Compared => L + 1 <= Top)
      BY <2>1, <3>1, <3>2
    <3>4. Compared => rg_mvu_error'
      BY <1>2, <1>3, <2>5 DEF Tells, VerifyRight
    <3>5. ~Compared => rg_my_node_hash # own
      BY <1>3, <2>5 DEF Tells, VerifyRight
    <3> QED BY <1>8, <1>12, <2>2, <2>3, <2>5, <3>3, <3>4, <3>5 DEF VerifyRight
  <2> QED BY <2>4, <2>5
<1> QED BY <1>9, <1>10, <1>13, <1>14 DEF Tells

LEMMA TellsUnit ==
  ASSUME IInv, Delivery, Lines, Beats, OnPath, Sound, Tells, Top' = Top, Unit PROVE Tells'
BY UnitSteps, TellsRead, TellsLeaf, TellsFetch, TellsCollect, TellsWait, TellsCompute,
   TellsCheck, TellsUpdate, TellsAcknowledged, TellsPropagate, TellsRoot, TellsComplete
-----------------------------------------------------------------------------
(* A step of the surroundings, as far as the tree is concerned.            *)
LEMMA TellsOutside ==
  ASSUME IInv, Tells, UNCHANGED mvuRegs, NodesKept, Top' <= Top, (NodeStored' <=> NodeStored),
         \A line \in ProtectedLine : Folded(line)' =>
           Folded(line) /\ line_data(written', line) = line_data(written, line),
         rg_is_update => line_data(written', leaf_line) = line_data(written, leaf_line),
         rg_from_protected => (Clean' <=> Clean),
         \/ UNCHANGED ff_tree_resp
         \/ ff_tree_resp' # <<>> /\ \A k \in Pos \ {here} : Head(ff_tree_resp')[k] = sibling(k)
  PROVE  Tells'
<1>1. TypeOK /\ Cursor
  BY DEF IInv, Control
<1>2. TreeFolded'
  <2>1. Behind' = Behind
    BY DEF Behind
  <2> QED BY <2>1, TreeFoldedFrame DEF Tells
<1>3. CASE rg_state \notin Walking
  <2>1. Gathered' /\ UpdateRight' /\ VerifyRight'
    BY <1>3 DEF Gathered, UpdateRight, VerifyRight, Walking, Gathering, Computed
  <2> QED BY <1>2, <2>1 DEF Tells
<1>4. CASE rg_state \in Walking
  <2>1. rg_current_level < Height =>
          /\ here' = here /\ GroupHere' = GroupHere
          /\ \A k \in Pos \ {here} : sibling(k)' = sibling(k)
    BY <1>1, <1>4, SiblingsStay DEF StoreHere
  <2>2. rg_state \in BelowRoot => rg_current_level < Height
    BY <1>1 DEF Cursor
  <2>3. here' = here
    BY DEF here
  <2>4. Gathered'
    <3>1. rg_state \in Gathering => rg_node_group'[here'] = rg_my_node_hash'
      BY <2>3 DEF Tells, Gathered
    <3>2. (rg_state = "WAIT_SIBLINGS" /\ ff_tree_resp' # <<>>) =>
            \A k \in Pos \ {here} : Head(ff_tree_resp')[k] = sibling(k)'
      BY <2>1, <2>2 DEF Tells, Gathered, BelowRoot
    <3>3. rg_state = "FETCH_HCACHE_SIBLINGS" =>
            \A k \in Pos \ {here} : k < rg_sibling_ptr => rg_node_group[k] = sibling(k)'
      BY <2>1, <2>2 DEF Tells, Gathered, BelowRoot
    <3>4. rg_state = "COMPUTE_PARENT" => rg_node_group = GroupHere'
      BY <2>1, <2>2 DEF Tells, Gathered, BelowRoot
    <3>5. (rg_state \in Computed /\ rg_current_level < Height) =>
            rg_computed_parent = Hash(GroupHere')
      BY <2>1 DEF Tells, Gathered
    <3> QED BY <2>3, <3>1, <3>2, <3>3, <3>4, <3>5 DEF Gathered
  <2>5. UpdateRight'
    BY <1>1, <1>4, UpdateFrame DEF Tells, StoreHere
  <2>6. VerifyRight'
    <3>1. (Compared' <=> Compared)
      BY DEF Compared
    <3>2. CASE rg_from_protected
      BY <1>1, <1>4, <3>1, <3>2, VerifyFrame DEF Tells
    <3>3. CASE ~rg_from_protected
      BY <3>3 DEF VerifyRight
    <3> QED BY <3>2, <3>3
  <2> QED BY <1>2, <2>4, <2>5, <2>6 DEF Tells
<1> QED BY <1>3, <1>4

(* A line that is neither being read nor on its way into the tree is       *)
(* written back.                                                           *)
LEMMA TellsWriteBack ==
  ASSUME IInv, Delivery, Lines, Tells, UNCHANGED <<mvuRegs, tree, treeFifos, faults>>,
         NEW line \in Line, line \notin ReadLines, line \notin Unfolded,
         \A a \in Addr : line_of(a) # line => written'[a] = written[a],
         Unfolded' = IF line \in ProtectedLine THEN Unfolded \cup {line} ELSE Unfolded
  PROVE  Tells'
<1>1. Top' <= Top /\ leaf_line' = leaf_line
  BY Shape DEF Top, leaf_line
<1>2. (NodeStored' <=> NodeStored) /\ (LeafStored' <=> LeafStored)
  BY DEF NodeStored, LeafStored
<1>3. NodesKept
  BY NothingStored
<1>4. rg_is_update => leaf_line # line /\ leaf_line \in ProtectedLine
  BY UnfoldedIs DEF Lines, EvictsWritten
<1>5. \A other \in ProtectedLine :
        other # line => line_data(written', other) = line_data(written, other)
  BY LineDataKept, LeafNode
<1>6. \A other \in ProtectedLine : Folded(other)' =>
        Folded(other) /\ line_data(written', other) = line_data(written, other)
  <2> SUFFICES ASSUME NEW other \in ProtectedLine, Folded(other)'
               PROVE  Folded(other) /\ other # line
    BY <1>5
  <2>1. other \notin Unfolded' \/ (other = leaf_line /\ LeafStored)
    BY <1>1, <1>2 DEF Folded
  <2>2. CASE other \notin Unfolded'
    BY <2>2 DEF Folded
  <2>3. CASE other = leaf_line /\ LeafStored
    BY <1>4, <2>3 DEF Folded, LeafStored
  <2> QED BY <2>1, <2>2, <2>3
<1>7. rg_from_protected => (Clean' <=> Clean)
  <2> SUFFICES ASSUME rg_from_protected PROVE \A k \in Pos : written'[wrap(rg_pending_req, k)]
                                                = written[wrap(rg_pending_req, k)]
    BY DEF Clean, wrap
  <2>1. rg_pending_req \in ReadReq /\ line_of(rg_pending_req.addr) \in ReadLines
    BY InvalidApart, ReadsInFlight DEF IInv, Control, Session, Delivery
  <2>2. \A k \in Pos : wrap(rg_pending_req, k) \in Addr /\ line_of(wrap(rg_pending_req, k)) # line
    BY <2>1, WrapLine DEF Pos
  <2> QED BY <2>2
<1> QED BY <1>1, <1>2, <1>3, <1>4, <1>5, <1>6, <1>7, TellsOutside

LEMMA TellsTreeRead ==
  ASSUME IInv, Lines, Tells, Top' = Top, TreeRead PROVE Tells'
<1> DEFINE resp == [k \in Pos |-> tree[<<rg_current_level, sibling_group_base(rg_current_index) + k>>]]
<1>1. TypeOK /\ Cursor /\ TreePipe
  BY DEF IInv, Control
<1>2. /\ rg_state = "WAIT_SIBLINGS" /\ ff_tree_req = <<GroupReq>> /\ ff_tree_resp = <<>>
      /\ UNCHANGED <<mvuRegs, tree, ff_evict_req, ff_tree_write, written>>
  BY <1>1 DEF TreeRead, NotEmpty, TreePipe
<1>3. /\ Head(ff_tree_req).level = rg_current_level
      /\ Head(ff_tree_req).base_index = sibling_group_base(rg_current_index)
  BY <1>2 DEF GroupReq
<1>4. ff_tree_resp' = Append(ff_tree_resp, resp)
  <2> DEFINE req == Head(ff_tree_req)
             asked == [k \in Pos |-> tree[<<req.level, req.base_index + k>>]]
  <2>1. ff_tree_resp' = Append(ff_tree_resp, asked)
    BY DEF TreeRead
  <2>2. asked = resp
    BY <1>3
  <2> QED BY <2>1, <2>2
<1>5. ff_tree_resp' # <<>> /\ Head(ff_tree_resp') = resp
  <2> HIDE DEF resp
  <2>1. ff_tree_resp' = <<resp>>
    BY <1>2, <1>4
  <2> QED BY <2>1
<1>6. rg_current_level < MinHwLevel /\ rg_current_level \in Int
  BY <1>1, <1>2 DEF Cursor, TypeOK, MVUTypeOK
<1>7. ~is_hw_level(rg_current_level)
  BY <1>6, Shape DEF is_hw_level
<1>8. \A k \in Pos \ {here} : Head(ff_tree_resp')[k] = sibling(k)
  BY <1>5, <1>7 DEF sibling, node
<1>9. /\ NodesKept /\ Unfolded' = Unfolded /\ leaf_line' = leaf_line /\ Top' <= Top
      /\ (NodeStored' <=> NodeStored) /\ (Clean' <=> Clean)
  BY <1>2, NothingStored, UnfoldedFrame, Shape DEF leaf_line, NodeStored, Clean, Top
<1>10. \A line \in ProtectedLine : Folded(line)' => Folded(line)
  BY <1>2, <1>9 DEF Folded, LeafStored
<1> QED BY <1>2, <1>5, <1>8, <1>9, <1>10, TellsOutside

LEMMA TellsTreeWrite ==
  ASSUME IInv, Lines, OnPath, Tells, Top' = Top, TreeWrite PROVE Tells'
<1>1. TypeOK /\ Cursor /\ TreePipe /\ Session
  BY DEF IInv, Control
<1>2. /\ rg_state = "WAIT_UPDATE_ACK" /\ ff_tree_write = <<NodeWrite>>
      /\ UNCHANGED <<mvuRegs, ff_evict_req, written>>
  BY <1>1 DEF TreeWrite, NotEmpty, TreePipe
<1>3. Head(ff_tree_write) = NodeWrite /\ ff_tree_write' = <<>> /\ ff_tree_write # <<>>
  BY <1>2 DEF TreeWrite
<1>4. tree' = [tree EXCEPT ![<<rg_current_level, rg_current_index>>] = rg_my_node_hash]
  <2> DEFINE req == Head(ff_tree_write)
  <2>1. tree' = [tree EXCEPT ![<<req.level, req.index>>] = req.hash]
    BY DEF TreeWrite
  <2>2. /\ req.level = rg_current_level /\ req.index = rg_current_index
        /\ req.hash = rg_my_node_hash
    BY <1>3 DEF NodeWrite
  <2> HIDE DEF req
  <2> QED BY <2>1, <2>2
<1>5. rg_is_update /\ rg_state \in Walking
  BY <1>1, <1>2 DEF Session, UpdateOnly, Walking
<1>6. ~is_hw_level(rg_current_level)
  BY <1>1, <1>2, Shape DEF Cursor, is_hw_level, TypeOK, MVUTypeOK
<1>7. NodeSet(rg_current_level, rg_current_index, rg_my_node_hash)
  <2>1. /\ rg_current_level \in Levels /\ rg_current_index \in Slots(rg_current_level)
        /\ rg_my_node_hash \in Word
    BY <1>1, <1>5, CursorSlots DEF Cursor, TypeOK, MVUTypeOK
  <2> QED BY <1>1, <1>2, <1>4, <1>6, <2>1, MemNodeStored
<1>8. ~NodeStored /\ NodeStored'
  BY <1>2, <1>3 DEF NodeStored
<1> QED BY <1>2, <1>5, <1>7, <1>8, TellsStore

(* A step that touches neither the tree nor what was written.              *)
LEMMA TellsQuiet ==
  ASSUME IInv, Lines, Tells, Top' <= Top,
         UNCHANGED <<mvuRegs, tree, treeFifos, ff_evict_req, written>>
  PROVE  Tells'
<1>1. /\ NodesKept /\ Unfolded' = Unfolded /\ leaf_line' = leaf_line
      /\ (NodeStored' <=> NodeStored) /\ (Clean' <=> Clean)
  BY NothingStored, UnfoldedFrame DEF leaf_line, NodeStored, Clean
<1>2. \A line \in ProtectedLine : Folded(line)' => Folded(line)
  BY <1>1 DEF Folded, LeafStored
<1> QED BY <1>1, <1>2, TellsOutside

(* The steps that may change Sound: every other step leaves faults and     *)
(* errors, and does not tamper with memory.                                *)
Corrupts ==
  \/ \E a \in Addr, w \in Word : FaultData(a, w)
  \/ \E n \in MemNode, w \in Word : FaultNode(n, w)
Fails ==
  \/ \E junk \in Word : BeatFails(junk)
  \/ \E junk \in [Pos -> Word] : GroupReadFails(junk)
  \/ NodeWriteFails
Quiet == CacheTake \/ MemAccept \/ MemBeat \/ \E line \in Line : CacheDrop(line)

LEMMA EnvironmentSteps ==
  Environment <=>
    \/ Corrupts \/ Fails \/ Quiet \/ TreeRead \/ TreeWrite
    \/ \E req \in ReadReq : CacheRead(req)
    \/ \E line \in Line, d \in EvictData : CacheEvict(line, d)
    \/ \E a \in Addr, w \in Word : IoStore(a, w)
BY DEF Environment, Corrupts, Fails, Quiet

LEMMA SoundSteps ==
  ASSUME IInv, Lines, Next, Sound'
  PROVE  /\ Sound /\ ~Fails
         /\ Corrupts => \E a \in Addr, w \in Word : FaultData(a, w)
         /\ IF Corrupts THEN Top' <= Top ELSE Top' = Top
         /\ ~Corrupts => UNCHANGED <<faults, errors>>
<1>1. faults \in Nat /\ errors \in Nat /\ Top' <= Height
  BY Shape, SystemAssumption DEF IInv, TypeOK, Top
<1>2. ~Fails
  <2> SUFFICES ASSUME Fails PROVE FALSE
    OBVIOUS
  <2>1. errors' = errors + 1
    BY DEF Fails, BeatFails, GroupReadFails, NodeWriteFails, BusError
  <2> QED BY <1>1, <2>1 DEF Sound, Honest
<1>3. CASE Corrupts
  <2>1. faults < MaxFaults /\ faults' = faults + 1 /\ errors' = errors
    BY <1>3 DEF Corrupts, FaultData, FaultNode
  <2>2. OneFault /\ errors = 0 /\ Tampered' # {}
    BY <1>1, <2>1 DEF Sound, Honest
  <2>3. faults = 0 /\ Tampered = {}
    BY <1>1, <2>1, <2>2, SystemAssumption DEF OneFault, Lines, FaultsWatched
  <2>4. ~\E n \in MemNode, w \in Word : FaultNode(n, w)
    <3> SUFFICES ASSUME \E n \in MemNode, w \in Word : FaultNode(n, w) PROVE FALSE
      OBVIOUS
    <3>1. UNCHANGED <<data, written>>
      BY DEF FaultNode
    <3> QED BY <2>2, <2>3, <3>1 DEF Tampered
  <2>5. \E a \in Addr, w \in Word : FaultData(a, w)
    BY <1>3, <2>4 DEF Corrupts
  <2>6. Sound /\ Top' <= Top
    BY <1>1, <2>2, <2>3 DEF Sound, Honest, Top
  <2> QED BY <1>2, <1>3, <2>5, <2>6
<1>4. CASE ~Corrupts
  <2>1. UNCHANGED <<faults, errors>> /\ Tampered' \subseteq Tampered
    <3>1. CASE Unit
      BY <3>1 DEF Unit, Tampered
    <3>2. CASE Quiet \/ TreeRead \/ TreeWrite \/ \E req \in ReadReq : CacheRead(req)
      <4>1. UNCHANGED <<faults, errors, data, written>>
        BY <3>2 DEF Quiet, CacheTake, MemAccept, MemBeat, CacheDrop, TreeRead, TreeWrite,
           CacheRead
      <4> QED BY <4>1 DEF Tampered
    <3>3. CASE \E line \in Line, d \in EvictData : CacheEvict(line, d)
      <4>1. PICK line \in Line, d \in EvictData : CacheEvict(line, d)
        BY <3>3
      <4>2. UNCHANGED <<faults, errors>>
        BY <4>1 DEF CacheEvict
      <4> QED BY <4>1, <4>2, LinesEvict
    <3>4. CASE \E a \in Addr, w \in Word : IoStore(a, w)
      <4>1. PICK a \in Addr, w \in Word : IoStore(a, w)
        BY <3>4
      <4>2. UNCHANGED <<faults, errors>>
        BY <4>1 DEF IoStore
      <4> QED BY <4>1, <4>2, LinesIoStore
    <3> QED BY <1>2, <1>4, <3>1, <3>2, <3>3, <3>4, EnvironmentSteps DEF Next
  <2>2. Sound /\ Top' = Top
    BY <2>1, SoundKept
  <2> QED BY <1>2, <1>4, <2>1, <2>2
<1> QED BY <1>3, <1>4

LEMMA TellsStep ==
  ASSUME IInv, OrderLine, Delivery, Lines, Beats, Tree, Next, Sound' PROVE Tells'
<1>1. Sound /\ ~Fails /\ Tells /\ OnPath
  BY SoundSteps DEF Tree, Tells
<1>2. ~Corrupts => Top' = Top /\ UNCHANGED <<faults, errors>>
  BY SoundSteps
<1>3. Top \in Int /\ (Top' = Top => Top' <= Top)
  BY Shape DEF Top
<1>4. CASE Unit
  <2>1. ~Corrupts
    <3>1. UNCHANGED faults /\ faults \in Int
      BY <1>4, SystemAssumption DEF Unit, IInv, TypeOK
    <3>2. faults' # faults + 1
      BY <3>1
    <3> QED BY <3>2 DEF Corrupts, FaultData, FaultNode
  <2> QED BY <1>1, <1>2, <1>4, <2>1, TellsUnit
<1>5. CASE Corrupts
  <2>1. Top' <= Top /\ \E a \in Addr, w \in Word : FaultData(a, w)
    BY <1>5, SoundSteps
  <2>2. UNCHANGED <<mvuRegs, tree, treeFifos, ff_evict_req, written>>
    BY <2>1 DEF FaultData
  <2> QED BY <1>1, <2>1, <2>2, TellsQuiet
<1>6. CASE ~Corrupts /\ (Quiet \/ \E req \in ReadReq : CacheRead(req))
  <2>1. UNCHANGED <<mvuRegs, tree, treeFifos, ff_evict_req, written>>
    BY <1>6 DEF Quiet, CacheTake, MemAccept, MemBeat, CacheDrop, CacheRead
  <2> QED BY <1>1, <1>2, <1>3, <1>6, <2>1, TellsQuiet
<1>7. CASE ~Corrupts /\ (TreeRead \/ TreeWrite)
  BY <1>1, <1>2, <1>7, TellsTreeRead, TellsTreeWrite
<1>8. CASE ~Corrupts /\ \E line \in Line, d \in EvictData : CacheEvict(line, d)
  <2>1. PICK line \in Line, d \in EvictData : CacheEvict(line, d)
    BY <1>8
  <2>2. UNCHANGED <<mvuRegs, tree, treeFifos>>
    BY <2>1 DEF CacheEvict
  <2> QED BY <1>1, <1>2, <1>8, <2>1, <2>2, LinesEvict, TellsWriteBack
<1>9. CASE ~Corrupts /\ \E a \in Addr, w \in Word : IoStore(a, w)
  <2>1. PICK a \in Addr, w \in Word : IoStore(a, w)
    BY <1>9
  <2>2. UNCHANGED <<mvuRegs, tree, treeFifos>> /\ line_of(a) \in IoLine
    BY <2>1 DEF IoStore
  <2>3. line_of(a) \in Line /\ line_of(a) \notin ReadLines /\ line_of(a) \notin ProtectedLine
    BY <2>1, LinesIoStore, LineOfAddr
  <2>4. line_of(a) \notin Unfolded
    <3>1. \A k \in ProtectedEvict : EvictLine(k) \in ProtectedLine
      <4> SUFFICES ASSUME NEW k \in ProtectedEvict PROVE EvictLine(k) \in ProtectedLine
        OBVIOUS
      <4>1. ff_evict_req[k] \in EvictReq /\ is_protected(ff_evict_req[k].addr)
        BY DEF ProtectedEvict, IInv, TypeOK, MVUTypeOK
      <4> QED BY <4>1, ProtectedWord DEF EvictLine, EvictReq
    <3>2. rg_is_update => leaf_line \in ProtectedLine
      BY DEF Lines, EvictsWritten
    <3> QED BY <2>3, <3>1, <3>2, UnfoldedIs
  <2> QED BY <1>1, <1>2, <1>9, <2>1, <2>2, <2>3, <2>4, LinesIoStore, TellsWriteBack
<1> QED BY <1>1, <1>4, <1>5, <1>6, <1>7, <1>8, <1>9, EnvironmentSteps DEF Next
-----------------------------------------------------------------------------
(* The walk stays on the path from its leaf to the root.                   *)
LEMMA OnPathStep ==
  ASSUME IInv, OnPath, Next PROVE OnPath'
<1>1. TypeOK /\ Cursor
  BY DEF IInv, Control
<1>2. CASE UNCHANGED <<rg_state, cursor, rg_base_leaf_index>> \/ rg_state' \notin Walking
  BY <1>2 DEF OnPath
<1>3. CASE UnitStep(rl_compute_l0_parent)
  <2>1. /\ rg_current_level' = 1 /\ rg_current_index' = parent_index(rg_base_leaf_index)
        /\ UNCHANGED rg_base_leaf_index
    BY <1>3 DEF UnitStep, rl_compute_l0_parent
  <2>2. 1 \in 1..Height /\ 1 - 1 = 0
    BY Shape
  <2>3. ancestor(rg_base_leaf_index)[1] = parent_index(rg_base_leaf_index)
    BY <2>2, AncestorStep
  <2> QED BY <2>1, <2>3 DEF OnPath
<1>4. CASE UnitStep(rl_propagate_up)
  <2>1. /\ rg_state = "PROPAGATE_UP" /\ UNCHANGED rg_base_leaf_index
        /\ rg_current_level' = rg_current_level + 1
        /\ rg_current_index' = parent_index(rg_current_index)
    BY <1>4 DEF UnitStep, rl_propagate_up
  <2>2. /\ rg_current_level \in 1..Height /\ rg_current_level < Height
        /\ rg_current_index = ancestor(rg_base_leaf_index)[rg_current_level]
    BY <1>1, <2>1 DEF Cursor, Walking, BelowRoot, OnPath, Levels
  <2>3. rg_current_level + 1 \in 1..Height /\ rg_current_level + 1 - 1 = rg_current_level
    BY <2>2, Shape
  <2>4. ancestor(rg_base_leaf_index)[rg_current_level + 1] = parent_index(rg_current_index)
    BY <2>2, <2>3, AncestorStep
  <2> QED BY <2>1, <2>4 DEF OnPath
<1>5. CASE \/ UnitStep(rl_fetch_siblings) \/ UnitStep(rl_collect_hcache_siblings)
           \/ UnitStep(rl_wait_siblings) \/ UnitStep(rl_compute_parent)
           \/ UnitStep(rl_check_parent) \/ UnitStep(rl_update_node)
           \/ UnitStep(rl_wait_update_ack) \/ UnitStep(rl_verify_root)
  <2>1. UNCHANGED <<cursor, rg_base_leaf_index>> /\ rg_state \in Walking
    BY <1>5 DEF UnitStep, rl_fetch_siblings, rl_collect_hcache_siblings, rl_wait_siblings,
       rl_compute_parent, rl_check_parent, rl_update_node, rl_wait_update_ack,
       rl_verify_root, Walking
  <2> QED BY <2>1 DEF OnPath
<1>6. CASE UnitStep(rl_complete)
  <2>1. rg_state' \notin Walking
    BY <1>6, CompleteFrame DEF Walking
  <2> QED BY <1>2, <2>1
<1>7. CASE \/ UnitStep(rl_start_update) \/ UnitStep(rl_forward_request)
           \/ UnitStep(rl_accumulate) \/ UnitStep(rl_forward_unprotected)
           \/ UnitStep(rl_forward_verified)
  <2>1. rg_state \in {"IDLE", "ACCUMULATING", "FORWARD_TO_CACHE"}
    BY <1>7, UnprotectedIdle DEF UnitStep, rl_start_update, rl_forward_request, rl_accumulate,
       rl_forward_unprotected, unverified, rl_forward_verified
  <2>2. rg_state' \notin Walking
    BY <1>7, <2>1, ReadRuleFrame DEF Walking
  <2> QED BY <1>2, <2>2
<1>8. CASE Environment
  <2>1. UNCHANGED mvuRegs
    BY <1>8, EnvironmentFrame
  <2> QED BY <1>2, <2>1
<1> QED BY <1>3, <1>4, <1>5, <1>6, <1>7, <1>8, UnitSteps DEF Next

LEMMA TrustedRootStays ==
  ASSUME Next PROVE UNCHANGED rg_trusted_root
<1>1. CASE Unit
  <2>1. MVURule
    BY <1>1 DEF Unit
  <2> QED BY <2>1 DEF MVURule, MVUReadRule, MVUWalkRule, rl_start_update, rl_forward_request,
       rl_accumulate, rl_forward_unprotected, rl_forward_verified, rl_compute_l0_parent,
       rl_fetch_siblings, rl_collect_hcache_siblings, rl_wait_siblings, rl_compute_parent,
       rl_check_parent, rl_update_node, rl_wait_update_ack, rl_propagate_up, rl_verify_root,
       rl_complete
<1>2. CASE Environment
  BY <1>2, EnvironmentFrame
<1> QED BY <1>1, <1>2 DEF Next

(* While nothing was corrupted and nothing failed, no comparison fails.    *)
LEMMA NoErrorRaised ==
  ASSUME IInv, Delivery, Lines, Beats, Tree, Honest, Unit, ~rg_mvu_error
  PROVE  ~rg_mvu_error'
<1>1. TypeOK /\ Session /\ Sound /\ Tells /\ faults = 0 /\ Top = Height
  BY DEF IInv, Control, Sound, Honest, Tree, Tells, Top
<1>2. CASE UnitStep(rl_check_parent)
  <2>1. rg_state = "CHECK_PARENT" /\ rg_from_protected
    BY <1>1, <1>2 DEF UnitStep, rl_check_parent, Session, ReadOnly
  <2>2. Clean
    BY <1>1, <2>1, CollectedWords
  <2>3. rg_current_level <= Top
    BY <1>1, Shape DEF TypeOK, MVUTypeOK
  <2>4. rg_my_node_hash = node(rg_current_level, rg_current_index)
    BY <1>1, <2>1, <2>2, <2>3 DEF Tells, VerifyRight, Walking
  <2>5. (is_hw_level(rg_current_level)
           /\ get_hash(rg_current_level, rg_current_index) # Invalid) =>
          ~mismatch(get_hash(rg_current_level, rg_current_index))
    BY <2>4 DEF mismatch, node, get_hash_or_zero
  <2> QED BY <1>2, <2>5 DEF UnitStep, rl_check_parent
<1>3. CASE UnitStep(rl_verify_root)
  BY <1>3 DEF Tree, UnitStep, rl_verify_root
<1>4. CASE UnitStep(rl_complete)
  BY <1>4 DEF UnitStep, rl_complete, update_done, read_done
<1>5. CASE \/ UnitStep(rl_start_update) \/ UnitStep(rl_forward_request)
           \/ UnitStep(rl_accumulate) \/ UnitStep(rl_forward_unprotected)
           \/ UnitStep(rl_forward_verified)
  BY <1>5 DEF UnitStep, rl_start_update, rl_forward_request, rl_accumulate,
     rl_forward_unprotected, rl_forward_verified
<1>6. CASE \/ UnitStep(rl_compute_l0_parent) \/ UnitStep(rl_fetch_siblings)
           \/ UnitStep(rl_collect_hcache_siblings) \/ UnitStep(rl_wait_siblings)
           \/ UnitStep(rl_compute_parent) \/ UnitStep(rl_update_node)
           \/ UnitStep(rl_wait_update_ack) \/ UnitStep(rl_propagate_up)
  BY <1>6 DEF UnitStep, rl_compute_l0_parent, rl_fetch_siblings, rl_collect_hcache_siblings,
     rl_wait_siblings, rl_compute_parent, rl_update_node, rl_wait_update_ack, rl_propagate_up
<1> QED BY <1>2, <1>3, <1>4, <1>5, <1>6, UnitSteps

LEMMA NoErrSent ==
  ASSUME IInv, Delivery, Honest, Next, ~rg_mvu_error,
         \A resp \in Entries(ff_resp_to_cache) : ~resp.err
  PROVE  \A resp \in Entries(ff_resp_to_cache') : ~resp.err
<1>1. TypeOK /\ errors = 0
  BY DEF IInv, Honest
<1>2. /\ \A k \in DOMAIN ff_resp_from_mem : ~ff_resp_from_mem[k].err
      /\ \A k \in Pos : ~rg_buffered_responses[k].err
  BY <1>1 DEF Delivery, ErrsAgree
<1>3. ASSUME NEW x \in ReadResp, ~x.err, ff_resp_to_cache' = Append(ff_resp_to_cache, x)
      PROVE  \A resp \in Entries(ff_resp_to_cache') : ~resp.err
  <2>1. ff_resp_to_cache \in Seq(ReadResp)
    BY <1>1 DEF TypeOK, MVUTypeOK
  <2>2. Entries(ff_resp_to_cache') = Entries(ff_resp_to_cache) \cup {x}
    BY <1>3, <2>1, EntriesAppend
  <2> QED BY <1>3, <2>2
<1>4. CASE UnitStep(rl_forward_verified)
  <2> DEFINE resp == rg_buffered_responses[rg_forward_beat]
  <2>1. /\ rg_forward_beat \in Pos /\ resp \in ReadResp /\ poisoned(resp) \in ReadResp
        /\ ff_resp_to_cache' = Append(ff_resp_to_cache, poisoned(resp))
    BY <1>4, ForwardEffect
  <2>2. ~poisoned(resp).err
    BY <1>2, <2>1 DEF poisoned, ReadResp
  <2> QED BY <1>3, <2>1, <2>2
<1>5. CASE UnitStep(rl_forward_unprotected)
  <2>1. ff_resp_from_mem # <<>>
        /\ ff_resp_to_cache' = Append(ff_resp_to_cache, Head(ff_resp_from_mem))
    BY <1>5 DEF UnitStep, rl_forward_unprotected, NotEmpty
  <2>2. ff_resp_from_mem \in Seq(ReadResp)
    BY <1>1 DEF TypeOK, MVUTypeOK
  <2>3. /\ Len(ff_resp_from_mem) \in Nat /\ Len(ff_resp_from_mem) >= 1
        /\ Head(ff_resp_from_mem) = ff_resp_from_mem[1]
    BY <2>1, <2>2, TailShift
  <2>4. 1 \in DOMAIN ff_resp_from_mem /\ Head(ff_resp_from_mem) \in ReadResp
    BY <2>2, <2>3, LenProperties
  <2> QED BY <1>2, <1>3, <2>1, <2>3, <2>4
<1>6. CASE CacheTake
  <2>1. ff_resp_to_cache \in Seq(ReadResp) /\ ff_resp_to_cache # <<>>
        /\ ff_resp_to_cache' = Tail(ff_resp_to_cache)
    BY <1>1, <1>6 DEF CacheTake, NotEmpty, TypeOK, MVUTypeOK
  <2>2. Entries(ff_resp_to_cache') \subseteq Entries(ff_resp_to_cache)
    BY <2>1, EntriesTail
  <2> QED BY <2>2
<1>7. CASE UNCHANGED ff_resp_to_cache
  BY <1>7
<1>8. CASE Environment
  BY <1>6, <1>7, <1>8 DEF Environment, CacheRead, CacheEvict, CacheDrop, IoStore, MemAccept,
     MemBeat, TreeRead, TreeWrite, FaultData, FaultNode, BeatFails, GroupReadFails,
     NodeWriteFails
<1>9. CASE Unit
  <2>1. CASE UnitStep(rl_accumulate)
    BY <1>7, <2>1, AccumulateEffect
  <2>2. CASE UnitStep(rl_start_update) \/ UnitStep(rl_forward_request)
    BY <1>7, <2>2 DEF UnitStep, rl_start_update, rl_forward_request
  <2>3. CASE UnitStep(rl_complete)
    BY <1>7, <2>3, CompleteFrame
  <2> QED BY <1>4, <1>5, <1>7, <1>9, <2>1, <2>2, <2>3, UnitSteps, WalkRuleFrame
<1> QED BY <1>8, <1>9 DEF Next

LEMMA NoFalseAlarmStep ==
  ASSUME IInv, OrderLine, Delivery, Lines, Beats, Tree, Next PROVE NoFalseAlarm'
<1> SUFFICES ASSUME Honest' PROVE /\ ~rg_mvu_error'
                                  /\ \A resp \in Entries(ff_resp_to_cache') : ~resp.err
  BY DEF NoFalseAlarm, Entries
<1>1. ~Corrupts
  <2>1. faults \in Nat /\ faults' = 0 /\ faults + 1 # 0
    BY SystemAssumption DEF IInv, TypeOK, Honest
  <2> QED BY <2>1 DEF Corrupts, FaultData, FaultNode
<1>2. UNCHANGED <<faults, errors>>
  BY <1>1, SoundSteps DEF Sound
<1>3. Honest /\ ~rg_mvu_error /\ \A resp \in Entries(ff_resp_to_cache) : ~resp.err
  BY <1>2 DEF Honest, Tree, NoFalseAlarm
<1>4. ~rg_mvu_error'
  <2>1. CASE Unit
    BY <1>3, <2>1, NoErrorRaised
  <2>2. CASE Environment
    BY <1>3, <2>2, EnvironmentFrame
  <2> QED BY <2>1, <2>2 DEF Next
<1>5. \A resp \in Entries(ff_resp_to_cache') : ~resp.err
  BY <1>3, NoErrSent
<1> QED BY <1>4, <1>5
-----------------------------------------------------------------------------
(* A tree of zeros speaks for memory of zeros: a group of them hashes to   *)
(* zero, and an absent node of the HCache counts as zero.                  *)
LEMMA ZeroTree ==
  ASSUME rg_state = "IDLE", rf_nodes = [n \in HwNode |-> Invalid],
         \A n \in MemNode : tree[n] = Zero,
         \A a \in Addr : is_protected(a) => written[a] = Zero
  PROVE  Tells
<1>1. \A level \in Levels : \A index \in Slots(level) : node(level, index) = Zero
  <2> TAKE level \in Levels
  <2> TAKE index \in Slots(level)
  <2>1. CASE is_hw_level(level)
    <3>1. level \in MinHwLevel..Height
      BY <2>1, Shape DEF is_hw_level, Levels
    <3>2. <<level, index>> \in HwNode
      BY <3>1, HwNodeHas
    <3> QED BY <2>1, <3>2 DEF node, get_hash, get_hash_or_zero
  <2>2. CASE ~is_hw_level(level)
    <3>1. level \in 1..MinHwLevel-1
      BY <2>2, Shape DEF is_hw_level, Levels
    <3>2. <<level, index>> \in MemNode
      BY <3>1, MemNodeHas
    <3> QED BY <2>2, <3>2 DEF node
  <2> QED BY <2>1, <2>2
<1>2. \A line \in ProtectedLine : LeafFolded(line)
  <2> TAKE line \in ProtectedLine
  <2>1. 1 \in Levels /\ line \in Line /\ leaf_node(line) \in Slots(1)
    BY LeafNode, Shape DEF Levels
  <2>2. ASSUME NEW k \in Pos PROVE written[line_base(line) + k] = Zero
    <3>1. /\ line_base(line) + k \in Addr
          /\ line_of(line_base(line) + k) = line
      BY <2>1, WordOfLine
    <3> QED BY <3>1, ProtectedWord
  <2>3. line_data(written, line) = [k \in Pos |-> Zero]
    BY <2>2 DEF line_data
  <2> QED BY <1>1, <2>1, <2>3, HashZero DEF LeafFolded
<1>3. \A level \in 2..Top : \A index \in NodesOf(level) : NodeConsistent(level, index)
  <2> TAKE level \in 2..Top
  <2> TAKE index \in NodesOf(level)
  <2>1. level \in 2..Height /\ level \in Levels /\ level \in 1..Height /\ level - 1 \in Levels
    BY Shape DEF Top, Levels
  <2>2. node(level, index) = Zero
    BY <1>1, <2>1, NodeInSlots
  <2>3. \A k \in Pos : node(level - 1, child_index(index, k)) = Zero
    BY <1>1, <2>1, ChildInSlots
  <2>4. [k \in Pos |-> node(level - 1, child_index(index, k))] = [k \in Pos |-> Zero]
    BY <2>3
  <2> QED BY <2>2, <2>4, HashZero DEF NodeConsistent
<1>4. Gathered /\ UpdateRight /\ VerifyRight
  BY DEF Gathered, UpdateRight, VerifyRight, Walking, Gathering, Computed
<1> QED BY <1>2, <1>3, <1>4 DEF Tells, TreeFolded

(* The tree starts as zeros, and so does memory.                           *)
LEMMA InitTree == Init => Tree
<1> SUFFICES ASSUME Init PROVE Tree
  OBVIOUS
<1>1. /\ rg_state = "IDLE" /\ ~rg_mvu_error /\ ff_resp_to_cache = <<>> /\ rg_trusted_root = Zero
      /\ rf_nodes = [n \in HwNode |-> Invalid] /\ tree = [n \in MemNode |-> Zero]
      /\ written = [a \in Addr |-> Zero]
  BY DEF Init, MVUInit
<1>2. Tells
  BY <1>1, ZeroTree
<1>3. OnPath
  BY <1>1 DEF OnPath, Walking
<1>4. NoFalseAlarm
  <2>1. Entries(ff_resp_to_cache) = {}
    BY <1>1 DEF Entries
  <2> QED BY <1>1, <2>1 DEF NoFalseAlarm
<1> QED BY <1>1, <1>2, <1>3, <1>4 DEF Tree, Tells

LEMMA StepTree ==
  OrderLine /\ IInv /\ Delivery /\ Lines /\ Beats /\ Tree /\ [Next]_vars => Tree'
<1> SUFFICES ASSUME OrderLine, IInv, Delivery, Lines, Beats, Tree, [Next]_vars PROVE Tree'
  OBVIOUS
<1>1. CASE Next
  <2>1. OnPath' /\ NoFalseAlarm' /\ (Sound' => Tells')
    BY <1>1, OnPathStep, NoFalseAlarmStep, TellsStep DEF Tree
  <2>2. rg_trusted_root' = Zero
    BY <1>1, TrustedRootStays DEF Tree
  <2> QED BY <2>1, <2>2 DEF Tree, Tells
<1>2. CASE UNCHANGED vars
  <2>1. OnPath' /\ NoFalseAlarm' /\ rg_trusted_root' = Zero
    BY <1>2 DEF Tree, OnPath, NoFalseAlarm, Honest, Entries
  <2>2. Sound' => Tells'
    <3> SUFFICES ASSUME Sound' PROVE Tells'
      OBVIOUS
    <3>1. UNCHANGED <<faults, errors>> /\ Tampered' \subseteq Tampered
      BY <1>2 DEF Tampered
    <3>2. Sound /\ Top' <= Top
      BY <3>1, SoundKept, Shape DEF Top
    <3> QED BY <1>2, <3>2, TellsQuiet DEF Tree, Tells
  <2> QED BY <2>1, <2>2 DEF Tree, Tells
<1> QED BY <1>1, <1>2
-----------------------------------------------------------------------------
(* What the unit's verdict rests on, in every behaviour: the tree and the  *)
(* walk under way speak for what the cache wrote, and every beat on its    *)
(* way is what was written, says err, or comes from the one corrupted      *)
(* word.                                                                   *)
THEOREM TrustInvariant == OrderIO => (Spec => []Trust)
<1> SUFFICES ASSUME OrderIO PROVE Spec => []Trust
  OBVIOUS
<1>1. Init => Trust
  <2>1. Init => Starting
    BY DEF Init, Starting
  <2> QED BY <2>1, StartDelivery, InitLines, StartBeats, InitTree DEF Trust
<1>2. IInv /\ Trust /\ [Next]_vars => Trust'
  BY StepDelivery, StepLines, StepBeats, StepTree DEF Trust
<1>3. Spec => []IInv
  BY Invariant
<1> QED
  BY <1>1, <1>2, <1>3, PTL DEF Spec

(* A tree that speaks for what was written agrees with memory as long as   *)
(* nothing was corrupted.                                                  *)
LEMMA ToldConsistent ==
  ASSUME Lines, Tree PROVE TreeConsistent
<1> SUFFICES ASSUME Honest, ~rg_is_update
             PROVE  /\ \A line \in ProtectedLine \ Unfolded : LeafConsistent(line)
                    /\ \A level \in 2..Height : \A index \in NodesOf(level) :
                         NodeConsistent(level, index)
  BY DEF TreeConsistent
<1>1. TreeFolded /\ FaultsWatched
  BY DEF Tree, Sound, Lines
<1>2. Behind = <<0, 0>> /\ Top = Height
  BY DEF Behind, Top, Honest
<1>3. \A a \in Addr : data[a] = written[a]
  BY <1>1 DEF FaultsWatched, Tampered, Honest
<1>4. \A line \in ProtectedLine : line_data(data, line) = line_data(written, line)
  <2> TAKE line \in ProtectedLine
  <2>1. \A k \in Pos : data[line_base(line) + k] = written[line_base(line) + k]
    BY <1>3, LeafNode, WordOfLine
  <2> QED BY <2>1 DEF line_data
<1>5. \A line \in ProtectedLine \ Unfolded : LeafConsistent(line)
  BY <1>1, <1>4 DEF TreeFolded, Folded, LeafFolded, LeafConsistent
<1>6. ASSUME NEW level \in 2..Height, NEW index \in NodesOf(level)
      PROVE  NodeConsistent(level, index)
  <2>1. <<level, index>> # Behind /\ level \in 2..Top
    BY <1>2
  <2> QED BY <1>1, <2>1 DEF TreeFolded
<1> QED BY <1>5, <1>6

(* Between updates every node of a tree nobody corrupted is the hash of    *)
(* its children, and every line that was folded in hashes to its leaf      *)
(* node: no interleaving leaves the tree half updated.                     *)
THEOREM TreeStaysConsistent == OrderIO /\ OrderLine => (Spec => []TreeConsistent)
<1> SUFFICES ASSUME OrderIO, OrderLine PROVE Spec => []TreeConsistent
  OBVIOUS
<1>1. Trust => TreeConsistent
  BY ToldConsistent DEF Trust
<1> QED
  BY <1>1, TrustInvariant, PTL

(* Memory that nobody corrupted never raises the error and never poisons a *)
(* beat, whatever the cache and the unit do meanwhile.                     *)
THEOREM NeverFalseAlarm == OrderIO /\ OrderLine => (Spec => []NoFalseAlarm)
<1> SUFFICES ASSUME OrderIO, OrderLine PROVE Spec => []NoFalseAlarm
  OBVIOUS
<1>1. Trust => NoFalseAlarm
  BY DEF Trust, Tree
<1> QED
  BY <1>1, TrustInvariant, PTL

(* What the cache takes without err is what it last wrote to that word, at *)
(* that place of the burst: in every behaviour with one corruption at      *)
(* most, and until the first corruption or failed access in every other.   *)
LEMMA PromisedDelivered ==
  ASSUME IInv, Delivery, Beats, Promised PROVE DeliveredCorrect
<1> SUFFICES ASSUME ff_resp_to_cache # <<>>
             PROVE  LET resp == Head(ff_resp_to_cache) IN
                    /\ inflight # <<>>
                    /\ resp.last = (got = Head(inflight).len)
                    /\ resp.err \/ resp.data = written[wrap(Head(inflight), got)]
  BY DEF DeliveredCorrect
<1>1. ff_resp_to_cache \in Seq(ReadResp) /\ inflight \in Seq(ReadReq)
  BY DEF IInv, TypeOK, MVUTypeOK
<1>2. /\ Len(ff_resp_to_cache) \in Nat /\ Len(ff_resp_to_cache) >= 1
      /\ Head(ff_resp_to_cache) = ff_resp_to_cache[1]
  BY <1>1, TailShift
<1>3. 1 \in DOMAIN ff_resp_to_cache /\ Head(ff_resp_to_cache) \in ReadResp
  BY <1>1, <1>2, LenProperties
<1>4. PlaceOf(1).read = 1 /\ PlaceOf(1).beat = got
  BY DEF PlaceOf, FirstPlace
<1>5. 1 \in DOMAIN inflight /\ (ff_resp_to_cache[1].last <=> got = inflight[1].len)
  BY <1>3, <1>4 DEF Delivery, InOrder, LastWhere
<1>6. inflight # <<>> /\ Head(inflight) = inflight[1]
  BY <1>1, <1>5
<1>7. Faithful(ff_resp_to_cache[1], inflight[1], got)
  BY <1>3, <1>4 DEF Beats, BeatsQueued
<1> QED
  BY <1>2, <1>3, <1>5, <1>6, <1>7 DEF Faithful, ReadResp

THEOREM ReadsTrueWhilePromised ==
  OrderIO /\ OrderLine => (Spec => [](Honest \/ OneFault => DeliveredCorrect))
<1> SUFFICES ASSUME OrderIO, OrderLine PROVE Spec => [](Honest \/ OneFault => DeliveredCorrect)
  OBVIOUS
<1>1. IInv /\ Trust => (Honest \/ OneFault => DeliveredCorrect)
  BY PromisedDelivered DEF Trust, Promised
<1> QED
  BY <1>1, Invariant, TrustInvariant, PTL

(* So with one corruption at most, and never beside an error of the bus,   *)
(* the cache is never given a word it did not write.                       *)
THEOREM ReadsTrue == OrderIO /\ OrderLine /\ OneFault => (Spec => []DeliveredCorrect)
<1> SUFFICES ASSUME OrderIO, OrderLine, OneFault PROVE Spec => []DeliveredCorrect
  OBVIOUS
<1>1. (Honest \/ OneFault => DeliveredCorrect) => DeliveredCorrect
  OBVIOUS
<1> QED
  BY <1>1, ReadsTrueWhilePromised, PTL
-----------------------------------------------------------------------------
(* The boot: the unit before tree memory is initialized.                   *)
Untouched ==
  /\ rg_state = "IDLE" /\ ~rg_is_update /\ ~rg_from_protected /\ ~rg_mvu_error
  /\ rg_trusted_root = Zero /\ rf_nodes = [n \in HwNode |-> Invalid]
NoneProtected ==
  /\ \A line \in held : line \notin ProtectedLine
  /\ \A r \in Entries(inflight) : ~is_protected(r.addr)
  /\ \A e \in Entries(ff_evict_req) : ~is_protected(e.addr)

(* Boot has zeroed the words and nodes it has passed, the latter unless a  *)
(* node was corrupted.                                                     *)
passed(position) == position < rg_init_count
ZeroedSoFar ==
  /\ \A a \in Addr : written[a] = IF is_protected(a) THEN Zero ELSE data[a]
  /\ \A a \in Addr : is_protected(a) /\ passed(addr_to_leaf_index(a)) => data[a] = Zero
  /\ faults = 0 =>
       \A n \in MemNode : passed(level_start[n[1]] + n[2]) => tree[n] = Zero

Booting ==
  /\ Untouched /\ NoneProtected /\ OnePlace /\ ZeroedSoFar
  /\ Beats /\ NoFalseAlarm /\ (errors = 0 \/ faults = 0)

BootInv ==
  /\ IInv /\ Delivery /\ rg_init_count \in 0..BootWords
  /\ IF rg_mem_initialized THEN Lines /\ Beats /\ Tree ELSE Booting

-----------------------------------------------------------------------------
(* Where the levels start: what the recursive definition of level_start    *)
(* stands for.                                                             *)
Starts(f, n) ==
  /\ f = [l \in 0..n |-> f[l]]
  /\ f[0] = 0
  /\ \A l \in 1..n : f[l] = f[l-1] + NodeCount[l-1]

LEMMA StartsExist == \A n \in Nat : \E f : Starts(f, n)
<1> DEFINE S == {n \in Nat : \E f : Starts(f, n)}
<1>1. 0 \in S
  <2> DEFINE f == [l \in 0..0 |-> 0]
  <2>1. Starts(f, 0) BY DEF Starts
  <2> QED BY <2>1
<1>2. ASSUME NEW n \in Nat, n \in S PROVE n + 1 \in S
  <2>1. PICK f : Starts(f, n) BY <1>2
  <2> DEFINE g == [l \in 0..(n+1) |-> IF l = n + 1 THEN f[n] + NodeCount[n] ELSE f[l]]
  <2>2. Starts(g, n + 1)
    <3>1. g[0] = 0 BY <2>1 DEF Starts
    <3>2. ASSUME NEW l \in 1..(n+1) PROVE g[l] = g[l-1] + NodeCount[l-1]
      <4>1. CASE l = n + 1
        <5>1. g[l] = f[n] + NodeCount[n] /\ g[l-1] = f[n] /\ l - 1 = n BY <4>1
        <5> QED BY <5>1
      <4>2. CASE l # n + 1
        <5>1. l \in 1..n /\ g[l] = f[l] /\ g[l-1] = f[l-1] BY <4>2
        <5> QED BY <5>1, <2>1 DEF Starts
      <4> QED BY <4>1, <4>2
    <3> QED BY <3>1, <3>2 DEF Starts
  <2> QED BY <2>2
<1> HIDE DEF S
<1>3. Nat \subseteq S
  BY <1>1, <1>2, SetInduction
<1> QED BY <1>3 DEF S

LEMMA LevelStart ==
  /\ level_start[0] = 0
  /\ \A l \in 1..MinHwLevel : level_start[l] = level_start[l-1] + NodeCount[l-1]
<1> DEFINE Def(f) == f = [l \in 0..MinHwLevel |-> IF l = 0 THEN 0 ELSE f[l-1] + NodeCount[l-1]]
           start == CHOOSE f : Def(f)
<1>1. PICK f : Starts(f, MinHwLevel)
  BY StartsExist, Shape
<1>2. Def(f)
  <2>1. ASSUME NEW l \in 0..MinHwLevel
        PROVE f[l] = IF l = 0 THEN 0 ELSE f[l-1] + NodeCount[l-1]
    <3>1. l = 0 \/ l \in 1..MinHwLevel BY Shape
    <3> QED BY <3>1, <1>1 DEF Starts
  <2> QED BY <2>1, <1>1 DEF Starts
<1>3. Def(start)
  BY <1>2
<1>4. level_start = start
  BY DEF level_start
<1>5. start[0] = 0 /\ \A l \in 1..MinHwLevel : start[l] = start[l-1] + NodeCount[l-1]
  <2> HIDE DEF start
  <2>1. start[0] = 0 BY <1>3, Shape
  <2>2. ASSUME NEW l \in 1..MinHwLevel PROVE start[l] = start[l-1] + NodeCount[l-1]
    <3>1. l \in 0..MinHwLevel /\ l # 0 BY Shape
    <3> QED BY <3>1, <1>3
  <2> QED BY <2>1, <2>2
<1> QED BY <1>4, <1>5

(* Levels start one behind the other.                                      *)
LEMMA StartsGrow ==
  \A n \in 0..MinHwLevel :
    \A m \in 0..n : level_start[m] \in Nat /\ level_start[m] <= level_start[n]
<1> DEFINE S == {n \in Nat : n \in 0..MinHwLevel =>
                   \A m \in 0..n : level_start[m] \in Nat /\ level_start[m] <= level_start[n]}
<1>1. 0 \in S
  BY LevelStart
<1>2. ASSUME NEW n \in Nat, n \in S PROVE n + 1 \in S
  <2> SUFFICES ASSUME n + 1 \in 0..MinHwLevel, NEW m \in 0..(n+1)
               PROVE  level_start[m] \in Nat /\ level_start[m] <= level_start[n+1]
    OBVIOUS
  <2>1. n \in 0..MinHwLevel /\ n + 1 \in 1..MinHwLevel /\ (n + 1) - 1 = n
    BY Shape
  <2>2. level_start[n+1] = level_start[n] + NodeCount[n]
    BY <2>1, LevelStart
  <2>3. NodeCount[n] \in Nat
    BY <2>1, Shape
  <2>4. /\ level_start[n] \in Nat
        /\ \A k \in 0..n : level_start[k] \in Nat /\ level_start[k] <= level_start[n]
    BY <1>2, <2>1
  <2>5. m = n + 1 \/ m \in 0..n
    OBVIOUS
  <2> HIDE DEF S
  <2> QED BY <2>2, <2>3, <2>4, <2>5
<1> HIDE DEF S
<1>3. Nat \subseteq S
  BY <1>1, <1>2, SetInduction
<1>4. \A n \in 0..MinHwLevel : n \in S
  BY <1>3, Shape
<1> QED BY <1>4, Shape DEF S

(* Boot gets to every protected word and to every node in memory.          *)
LEMMA BootReaches ==
  /\ BootWords \in Nat
  /\ \A a \in Addr : is_protected(a) =>
       addr_to_leaf_index(a) \in Nat /\ addr_to_leaf_index(a) < BootWords
  /\ \A n \in MemNode :
       level_start[n[1]] + n[2] \in Nat /\ level_start[n[1]] + n[2] < BootWords
<1>1. ASSUME NEW l \in 0..MinHwLevel-1, NEW i \in NodesOf(l)
      PROVE  level_start[l] + i \in Nat /\ level_start[l] + i < BootWords
  <2>1. l \in 0..Height /\ l + 1 \in 1..MinHwLevel /\ l + 1 \in 0..MinHwLevel
          /\ MinHwLevel \in 0..MinHwLevel /\ l + 1 \in 0..MinHwLevel /\ l \in 0..(l+1)
          /\ (l + 1) - 1 = l
    BY Shape
  <2>2. level_start[l+1] = level_start[l] + NodeCount[l]
    BY <2>1, LevelStart
  <2>3. level_start[l] \in Nat /\ level_start[l+1] \in Nat /\ level_start[l+1] <= BootWords
          /\ BootWords \in Nat
    BY <2>1, StartsGrow DEF BootWords
  <2>4. NodeCount[l] \in Nat /\ i \in Nat /\ i < NodeCount[l]
    BY <2>1, Shape DEF NodesOf
  <2> QED BY <2>2, <2>3, <2>4
<1>2. BootWords \in Nat
  <2>1. MinHwLevel \in 0..MinHwLevel
    BY Shape
  <2> QED BY <2>1, StartsGrow DEF BootWords
<1>3. ASSUME NEW a \in Addr, is_protected(a)
      PROVE  addr_to_leaf_index(a) \in Nat /\ addr_to_leaf_index(a) < BootWords
  <2>1. 0 \in 0..MinHwLevel-1 /\ addr_to_leaf_index(a) \in NodesOf(0)
    BY <1>3, LeafIndexIsNode, Shape
  <2>2. 0 + addr_to_leaf_index(a) \in Nat /\ 0 + addr_to_leaf_index(a) < BootWords
    BY <1>1, <2>1, LevelStart
  <2>3. addr_to_leaf_index(a) \in Nat
    BY <2>1, Shape DEF NodesOf
  <2> QED BY <2>2, <2>3
<1>4. ASSUME NEW n \in MemNode
      PROVE  level_start[n[1]] + n[2] \in Nat /\ level_start[n[1]] + n[2] < BootWords
  <2>1. PICK l \in 1..MinHwLevel-1 : n \in {l} \X Slots(l)
    BY DEF MemNode
  <2>2. n[1] = l /\ n[2] \in Slots(l) /\ l \in 0..MinHwLevel-1 /\ l # Height
    BY <2>1, Shape
  <2>3. Slots(l) = NodesOf(l)
    BY <2>2, GeometryAssumption DEF Slots, NodesOf
  <2> QED BY <1>1, <2>2, <2>3
<1> QED BY <1>2, <1>3, <1>4
-----------------------------------------------------------------------------
(* Without a protected eviction a line is in one place if none is both in  *)
(* the cache and being read, or read twice.                                *)
ReadOnce ==
  /\ held \cap ReadLines = {}
  /\ \A j, k \in DOMAIN inflight : line_of(inflight[j].addr) = line_of(inflight[k].addr) => j = k

LEMMA NothingUnfolded == Untouched /\ NoneProtected => ProtectedEvict = {} /\ Unfolded = {}
<1> SUFFICES ASSUME Untouched, NoneProtected PROVE ProtectedEvict = {} /\ Unfolded = {}
  OBVIOUS
<1>1. ProtectedEvict = {}
  BY DEF NoneProtected, Entries, ProtectedEvict
<1> QED BY <1>1 DEF NoneProtected, Untouched, Unfolded

LEMMA OnePlaceIs == Untouched /\ NoneProtected => (OnePlace <=> ReadOnce)
<1> SUFFICES ASSUME Untouched, NoneProtected PROVE OnePlace <=> ReadOnce
  OBVIOUS
<1>1. ProtectedEvict = {} /\ Unfolded = {} /\ ~rg_is_update
  BY NothingUnfolded DEF Untouched
<1> QED BY <1>1 DEF OnePlace, ReadOnce

(* While it boots, nothing read is corrupted, and only what is protected   *)
(* differs from what the cache is taken to have written.                   *)
LEMMA TamperedBooting ==
  ASSUME Booting, IInv
  PROVE  /\ \A a \in Tampered : is_protected(a)
         /\ \A a \in Addr : line_of(a) \in ReadLines => ~is_protected(a) /\ a \notin Tampered
<1>1. \A a \in Tampered : is_protected(a)
  BY DEF Booting, ZeroedSoFar, Tampered
<1>2. ASSUME NEW a \in Addr, line_of(a) \in ReadLines PROVE ~is_protected(a)
  <2>1. PICK r \in Entries(inflight) : line_of(r.addr) = line_of(a)
    BY <1>2 DEF ReadLines
  <2>2. ~is_protected(r.addr) /\ r.addr \in Addr
    <3>1. inflight \in Seq(ReadReq)
      BY DEF IInv, TypeOK
    <3>2. r \in ReadReq
      BY <3>1 DEF Entries
    <3> QED BY <3>2 DEF Booting, NoneProtected, ReadReq
  <2> QED BY <2>1, <2>2, ProtectedWord
<1> QED BY <1>1, <1>2

(* The unit of a booting system passes unprotected reads and drops         *)
(* unprotected evictions.                                                  *)
LEMMA BootingUnit ==
  ASSUME IInv, Booting, Unit
  PROVE  /\ \/ UnitStep(rl_start_update) \/ UnitStep(rl_forward_request)
            \/ UnitStep(rl_forward_unprotected)
         /\ Untouched' /\ NoneProtected'
         /\ UNCHANGED <<memVars, cacheVars, faults, errors>>
<1>1. TypeOK /\ InFlight
  BY DEF IInv, Transfer
<1>2. Untouched /\ NoneProtected
  BY DEF Booting
<1>3. UNCHANGED <<memVars, cacheVars, faults, errors>>
  BY DEF Unit
<1>4. CASE UnitStep(rl_start_update)
  <2>1. ff_evict_req \in Seq(EvictReq) /\ ff_evict_req # <<>> /\ ff_evict_req' = Tail(ff_evict_req)
    BY <1>1, <1>4 DEF TypeOK, MVUTypeOK, UnitStep, rl_start_update, NotEmpty
  <2>2. Head(ff_evict_req) \in Entries(ff_evict_req)
    BY <2>1, EvictTail DEF Entries
  <2>3. ~is_protected(Head(ff_evict_req).addr)
    BY <1>2, <2>2 DEF NoneProtected
  <2>4. Untouched'
    BY <1>2, <1>4, <2>3 DEF Untouched, UnitStep, rl_start_update
  <2>5. \A e \in Entries(ff_evict_req') : e \in Entries(ff_evict_req)
    BY <2>1, EvictTail DEF Entries
  <2>6. NoneProtected'
    BY <1>2, <1>3, <2>5 DEF NoneProtected, Entries
  <2> QED BY <1>3, <1>4, <2>4, <2>6
<1>5. CASE UnitStep(rl_forward_request)
  <2> DEFINE q == ff_req_from_cache
             taken == Answered
  <2>1. /\ q \in Seq(ReadReq) /\ q # <<>> /\ rg_pending_req = Invalid /\ rg_state = "IDLE"
    BY <1>1, <1>5 DEF TypeOK, MVUTypeOK, UnitStep, rl_forward_request, NotEmpty
  <2>2. ~is_protected(Head(q).addr)
    <3>1. Tracks(inflight, q, Answered)
      BY <1>1, <2>1 DEF InFlight, Taken, Active
    <3>2. Answered \in Nat
      BY LastBeatsNat DEF Answered
    <3>3. Len(q) \in Nat /\ Len(q) >= 1 /\ Head(q) = q[1]
      BY <2>1
    <3>4. inflight \in Seq(ReadReq)
      BY <1>1 DEF TypeOK
    <3>5. Answered + 1 \in DOMAIN inflight /\ inflight[Answered + 1] = q[1]
      BY <3>1, <3>2, <3>3, <3>4 DEF Tracks
    <3>6. q[1] \in Entries(inflight)
      BY <3>5 DEF Entries
    <3> QED BY <1>2, <3>3, <3>6 DEF NoneProtected
  <2>3. Untouched'
    BY <1>2, <1>5, <2>2 DEF Untouched, UnitStep, rl_forward_request
  <2>4. NoneProtected'
    BY <1>2, <1>3, <1>5 DEF NoneProtected, Entries, UnitStep, rl_forward_request
  <2> QED BY <1>3, <1>5, <2>3, <2>4
<1>6. CASE UnitStep(rl_forward_unprotected)
  <2>1. Untouched' /\ NoneProtected'
    BY <1>2, <1>3, <1>6 DEF Untouched, NoneProtected, Entries, UnitStep, rl_forward_unprotected
  <2> QED BY <1>3, <1>6, <2>1
<1>7. ASSUME ~UnitStep(rl_start_update), ~UnitStep(rl_forward_request),
             ~UnitStep(rl_forward_unprotected)
      PROVE  FALSE
  <2>1. rg_state = "IDLE"
    BY <1>2 DEF Untouched
  <2> QED
    BY <1>7, <2>1, UnitSteps DEF UnitStep, rl_accumulate, rl_forward_verified,
       rl_compute_l0_parent, rl_fetch_siblings, rl_collect_hcache_siblings, rl_wait_siblings,
       rl_compute_parent, rl_check_parent, rl_update_node, rl_wait_update_ack, rl_propagate_up,
       rl_verify_root, rl_complete
<1> QED BY <1>4, <1>5, <1>6, <1>7

(* What surrounds a booting unit: the words written are unprotected and    *)
(* not being read, nobody touches the tree but a corruption, and no        *)
(* protected word can be corrupted, for the HCache watches none.           *)
WritesUnprotected ==
  \A a \in Addr :
    \/ data'[a] = data[a] /\ written'[a] = written[a]
    \/ ~is_protected(a) /\ line_of(a) \notin ReadLines /\ data'[a] = written'[a]
TreeLeftAlone ==
  /\ faults' = 0 => faults = 0 /\ UNCHANGED tree
  /\ errors' = 0 \/ faults' = 0
Outside == WritesUnprotected /\ TreeLeftAlone /\ NoneProtected' /\ ReadOnce'

LEMMA ReadOnceShrinks ==
  ASSUME ReadOnce, UNCHANGED inflight, held' \subseteq held PROVE ReadOnce'
  BY DEF ReadOnce, ReadLines, Entries

LEMMA BootingRead ==
  ASSUME IInv, OrderLine, Booting, NEW req \in ReadReq, CacheRead(req),
         \A r \in Entries(inflight') : ~is_protected(r.addr)
  PROVE  Untouched' => Outside
<1> SUFFICES ASSUME Untouched' PROVE Outside
  OBVIOUS
<1>1. UNCHANGED <<ff_evict_req, held, data, tree, written, faults, errors>>
  BY DEF CacheRead
<1>2. NoneProtected'
  BY <1>1 DEF Booting, NoneProtected, Entries
<1>3. OnePlace'
  BY OnePlaceRead DEF Booting
<1>4. ReadOnce'
  <2>1. (Untouched /\ NoneProtected => (OnePlace <=> ReadOnce))'
    BY OnePlaceIs, PTL
  <2> QED BY <1>2, <1>3, <2>1
<1> QED BY <1>1, <1>2, <1>4 DEF Outside, WritesUnprotected, TreeLeftAlone, Booting

LEMMA BootingTake ==
  ASSUME IInv, Booting, CacheTake PROVE Untouched' => Outside
<1> SUFFICES ASSUME Untouched' PROVE Outside
  OBVIOUS
<1>1. /\ inflight # <<>> /\ inflight \in Seq(ReadReq)
      /\ UNCHANGED <<ff_evict_req, data, tree, written, faults, errors>>
      /\ inflight' = inflight \/ inflight' = Tail(inflight)
      /\ held' \subseteq held \cup {line_of(Head(inflight).addr)}
  BY DEF CacheTake, IInv, TypeOK
<1>2. Head(inflight) \in Entries(inflight) /\ Head(inflight) \in ReadReq
  <2>1. 1 \in DOMAIN inflight /\ Head(inflight) = inflight[1]
    BY <1>1
  <2> QED BY <1>1, <2>1 DEF Entries
<1>3. line_of(Head(inflight).addr) \notin ProtectedLine
  BY <1>2, ProtectedWord DEF Booting, NoneProtected, ReadReq
<1>4. Entries(inflight') \subseteq Entries(inflight)
  <2>1. CASE inflight' = Tail(inflight)
    <3>1. \A k \in DOMAIN inflight' : k + 1 \in DOMAIN inflight /\ inflight'[k] = inflight[k + 1]
      BY <1>1, <2>1
    <3> QED BY <3>1 DEF Entries
  <2> QED BY <1>1, <2>1
<1>5. NoneProtected'
  <2>1. \A line \in held' : line \notin ProtectedLine
    BY <1>1, <1>3 DEF Booting, NoneProtected
  <2>2. \A r \in Entries(inflight') : ~is_protected(r.addr)
    BY <1>4 DEF Booting, NoneProtected
  <2>3. \A e \in Entries(ff_evict_req') : ~is_protected(e.addr)
    BY <1>1 DEF Booting, NoneProtected
  <2> QED BY <2>1, <2>2, <2>3 DEF NoneProtected, Entries
<1>6. OnePlace'
  BY OnePlaceTake DEF Booting
<1>7. ReadOnce'
  <2>1. (Untouched /\ NoneProtected => (OnePlace <=> ReadOnce))'
    BY OnePlaceIs, PTL
  <2> QED BY <1>5, <1>6, <2>1
<1> QED BY <1>1, <1>5, <1>7 DEF Outside, WritesUnprotected, TreeLeftAlone, Booting

LEMMA BootingEvict ==
  ASSUME IInv, Booting, NEW line \in Line, NEW d \in EvictData, CacheEvict(line, d)
  PROVE  Outside
<1>1. /\ line \in held /\ held' \subseteq held /\ UNCHANGED <<inflight, tree, faults, errors>>
      /\ \A a \in Addr : IF line_of(a) = line THEN data'[a] = written'[a]
                         ELSE data'[a] = data[a] /\ written'[a] = written[a]
      /\ ff_evict_req' = Append(ff_evict_req, [addr |-> line_base(line), data |-> d])
  BY DEF CacheEvict
<1>2. ReadOnce
  BY OnePlaceIs DEF Booting
<1>3. line \notin ProtectedLine /\ line \notin ReadLines
  BY <1>1, <1>2 DEF Booting, NoneProtected, ReadOnce
<1>4. \A a \in Addr : line_of(a) = line => ~is_protected(a)
  BY <1>3, ProtectedWord
<1>5. NoneProtected'
  <2>1. ff_evict_req \in Seq(EvictReq) /\ d \in [Pos -> Word]
    BY SystemAssumption DEF IInv, TypeOK, MVUTypeOK
  <2>2. line_base(line) \in Addr /\ ~is_protected(line_base(line))
    BY <1>4, BaseOfLine
  <2> DEFINE e == [addr |-> line_base(line), data |-> d]
  <2>3. e \in EvictReq /\ e.addr = line_base(line)
    BY <2>1, <2>2 DEF EvictReq
  <2> HIDE DEF e
  <2>4. ff_evict_req' = Append(ff_evict_req, e)
    BY <1>1 DEF e
  <2>5. \A x \in Entries(ff_evict_req') : x \in Entries(ff_evict_req) \/ x = e
    BY <2>1, <2>3, <2>4 DEF Entries
  <2>6. \A x \in Entries(ff_evict_req') : ~is_protected(x.addr)
    BY <2>2, <2>3, <2>5 DEF Booting, NoneProtected
  <2> QED BY <1>1, <2>6 DEF Booting, NoneProtected, Entries
<1>6. ReadOnce'
  BY <1>1, <1>2, ReadOnceShrinks
<1> QED
  BY <1>1, <1>3, <1>4, <1>5, <1>6 DEF Outside, WritesUnprotected, TreeLeftAlone, Booting

LEMMA BootingIoStore ==
  ASSUME IInv, Booting, NEW a \in Addr, NEW w \in Word, IoStore(a, w)
  PROVE  Outside
<1>1. /\ line_of(a) \in IoLine /\ UNCHANGED <<held, inflight, tree, faults, errors>>
      /\ \A r \in Entries(inflight) : line_of(r.addr) # line_of(a)
      /\ data' = [data EXCEPT ![a] = w] /\ written' = [written EXCEPT ![a] = w]
      /\ ff_evict_req' = Append(ff_evict_req, [addr |-> a, data |-> [k \in Pos |-> w]])
  BY DEF IoStore
<1>2. ReadOnce /\ TypeOK
  BY OnePlaceIs DEF Booting, IInv
<1>3. ~is_protected(a) /\ line_of(a) \notin ReadLines
  BY <1>1, ProtectedWord, SystemAssumption DEF ReadLines
<1>4. \A b \in Addr : IF b = a THEN data'[b] = written'[b]
                      ELSE data'[b] = data[b] /\ written'[b] = written[b]
  BY <1>1, <1>2 DEF TypeOK
<1>5. NoneProtected'
  <2> DEFINE e == [addr |-> a, data |-> [k \in Pos |-> w]]
  <2>1. ff_evict_req \in Seq(EvictReq) /\ e \in EvictReq /\ e.addr = a
    BY <1>2 DEF TypeOK, MVUTypeOK, EvictReq
  <2> HIDE DEF e
  <2>2. ff_evict_req' = Append(ff_evict_req, e)
    BY <1>1 DEF e
  <2>3. \A x \in Entries(ff_evict_req') : x \in Entries(ff_evict_req) \/ x = e
    BY <2>1, <2>2 DEF Entries
  <2>4. \A x \in Entries(ff_evict_req') : ~is_protected(x.addr)
    BY <1>3, <2>1, <2>3 DEF Booting, NoneProtected
  <2> QED BY <1>1, <2>4 DEF Booting, NoneProtected, Entries
<1>6. ReadOnce'
  BY <1>1, <1>2, ReadOnceShrinks
<1> QED
  BY <1>1, <1>3, <1>4, <1>5, <1>6 DEF Outside, WritesUnprotected, TreeLeftAlone, Booting

(* A step that only the memories and the bus take.                         *)
LEMMA BootingQuiet ==
  ASSUME Booting, UNCHANGED <<ff_evict_req, inflight, data, written>>, held' \subseteq held,
         TreeLeftAlone
  PROVE  Outside
<1>1. ReadOnce
  BY OnePlaceIs DEF Booting
<1>2. NoneProtected'
  BY DEF Booting, NoneProtected, Entries
<1> QED
  BY <1>1, <1>2, ReadOnceShrinks DEF Outside, WritesUnprotected

LEMMA BootingEnvironment ==
  ASSUME IInv, OrderLine, OneFault, Booting, Environment,
         \A r \in Entries(inflight') : ~is_protected(r.addr)
  PROVE  Untouched' /\ Outside
<1>1. Untouched'
  BY EnvironmentFrame DEF Booting, Untouched
<1>2. /\ ff_tree_req = <<>> /\ ff_tree_write = <<>> /\ ~Together
      /\ errors = 0 \/ faults = 0
      /\ faults \in Nat /\ faults + 1 # 0 /\ errors \in Nat /\ errors + 1 # 0
  BY SystemAssumption DEF Booting, Untouched, IInv, Control, TreePipe, OneFault, TypeOK
<1>3. ASSUME CacheTake \/ \E req \in ReadReq : CacheRead(req) PROVE Outside
  BY <1>1, <1>3, BootingRead, BootingTake
<1>4. ASSUME \/ \E line \in Line, d \in EvictData : CacheEvict(line, d)
             \/ \E a \in Addr, w \in Word : IoStore(a, w)
      PROVE  Outside
  BY <1>4, BootingEvict, BootingIoStore
<1>5. ASSUME MemAccept \/ MemBeat \/ \E line \in Line : CacheDrop(line) PROVE Outside
  <2>1. /\ UNCHANGED <<ff_evict_req, inflight, data, written, tree, faults, errors>>
        /\ held' \subseteq held
    BY <1>5 DEF MemAccept, MemBeat, CacheDrop
  <2> QED BY <1>2, <2>1, BootingQuiet DEF TreeLeftAlone
<1>6. ASSUME NEW junk \in Word, BeatFails(junk) PROVE Outside
  <2>1. /\ UNCHANGED <<ff_evict_req, inflight, data, written, tree, held, faults>> /\ faults = 0
    BY <1>2, <1>6 DEF BeatFails, BusError
  <2> QED BY <2>1, BootingQuiet DEF TreeLeftAlone
<1>7. ASSUME NEW n \in MemNode, NEW w \in Word, FaultNode(n, w) PROVE Outside
  <2>1. /\ UNCHANGED <<ff_evict_req, inflight, data, written, held, errors>>
        /\ errors = 0 /\ faults' = faults + 1
    BY <1>2, <1>7 DEF FaultNode
  <2> QED BY <1>2, <2>1, BootingQuiet DEF TreeLeftAlone
<1>8. ASSUME NEW a \in Addr, NEW w \in Word, FaultData(a, w) PROVE FALSE
  <2>1. is_protected(a) /\ watched(a)
    BY <1>8 DEF FaultData
  <2>2. rf_nodes[<<MinHwLevel, ancestor(addr_to_leaf_index(a))[MinHwLevel]>>] = Invalid
    BY <2>1, WatchedNode DEF Booting, Untouched
  <2> QED BY <2>1, <2>2 DEF watched, get_hash
<1>9. ~TreeRead /\ ~TreeWrite /\ ~NodeWriteFails
        /\ \A junk \in [Pos -> Word] : ~GroupReadFails(junk)
  BY <1>2 DEF TreeRead, TreeWrite, NodeWriteFails, GroupReadFails, NotEmpty
<1> QED
  BY <1>1, <1>3, <1>4, <1>5, <1>6, <1>7, <1>8, <1>9 DEF Environment

-----------------------------------------------------------------------------
LEMMA ZeroedKept ==
  ASSUME ZeroedSoFar, UNCHANGED rg_init_count, WritesUnprotected, TreeLeftAlone
  PROVE  ZeroedSoFar'
<1>1. \A a \in Addr : written'[a] = IF is_protected(a) THEN Zero ELSE data'[a]
  BY DEF ZeroedSoFar, WritesUnprotected
<1>2. \A a \in Addr : is_protected(a) /\ passed(addr_to_leaf_index(a)) => data'[a] = Zero
  BY DEF ZeroedSoFar, WritesUnprotected
<1>3. faults' = 0 =>
        \A n \in MemNode : passed(level_start[n[1]] + n[2]) => tree'[n] = Zero
  BY DEF ZeroedSoFar, TreeLeftAlone
<1> QED BY <1>1, <1>2, <1>3 DEF ZeroedSoFar, passed

(* The reads of a booting system are served as those of a booted one.      *)
LEMMA BootingBeats ==
  ASSUME IInv, InOrder, OneFault, Booting, Next, WritesUnprotected,
         Unit => \/ UnitStep(rl_start_update) \/ UnitStep(rl_forward_request)
                 \/ UnitStep(rl_forward_unprotected)
  PROVE  Beats'
<1>1. Promised /\ Beats
  BY DEF Promised, Booting
<1>2. /\ \A a \in Tampered : is_protected(a)
      /\ \A a \in Addr : line_of(a) \in ReadLines => ~is_protected(a) /\ a \notin Tampered
  BY TamperedBooting
<1>3. ReadWordsKept
  BY <1>2 DEF ReadWordsKept, WritesUnprotected
<1> QED
  BY <1>1, <1>2, <1>3, BeatsEnvironment, BeatsBegin, BeatsUnprotected DEF Next

LEMMA BootingAlarm ==
  ASSUME IInv, Delivery, Booting, Next, Untouched', TreeLeftAlone
  PROVE  NoFalseAlarm'
<1> SUFFICES ASSUME Honest' PROVE \A resp \in Entries(ff_resp_to_cache') : ~resp.err
  BY DEF Untouched, NoFalseAlarm, Entries
<1>1. errors \in Nat /\ errors' \in {errors, errors + 1} /\ errors' = 0
  <2>1. errors' \in {errors, errors + 1}
    <3>1. Unit => UNCHANGED errors
      BY DEF Unit
    <3>2. Environment => UNCHANGED errors \/ errors' = errors + 1
      BY DEF Environment, CacheRead, CacheEvict, CacheDrop, IoStore, CacheTake, MemAccept,
             MemBeat, TreeRead, TreeWrite, FaultData, FaultNode, BeatFails, GroupReadFails,
             NodeWriteFails, BusError
    <3> QED BY <3>1, <3>2 DEF Next
  <2> QED BY <2>1, SystemAssumption DEF IInv, TypeOK, Honest
<1>2. Honest /\ ~rg_mvu_error
  BY <1>1 DEF Honest, TreeLeftAlone, Booting, Untouched
<1> QED BY <1>2, NoErrSent DEF Booting, NoFalseAlarm

LEMMA BootingStep ==
  ASSUME OrderIO, OrderLine, OneFault, IInv, Delivery, Booting, Next, UNCHANGED rg_init_count,
         Unit \/ \A r \in Entries(inflight') : ~is_protected(r.addr)
  PROVE  Booting'
<1>1. /\ Untouched' /\ Outside
      /\ Unit => \/ UnitStep(rl_start_update) \/ UnitStep(rl_forward_request)
                 \/ UnitStep(rl_forward_unprotected)
  <2>1. CASE Unit
    <3>1. Untouched' /\ NoneProtected' /\ UNCHANGED <<memVars, cacheVars, faults, errors>>
      BY <2>1, BootingUnit
    <3>2. ReadOnce
      BY OnePlaceIs DEF Booting
    <3>3. Outside
      BY <3>1, <3>2, ReadOnceShrinks DEF Outside, WritesUnprotected, TreeLeftAlone, Booting
    <3> QED BY <2>1, <3>1, <3>3, BootingUnit
  <2>2. CASE ~Unit
    BY <2>2, BootingEnvironment DEF Next
  <2> QED BY <2>1, <2>2
<1>2. OnePlace'
  <2>1. (Untouched /\ NoneProtected => (OnePlace <=> ReadOnce))'
    BY OnePlaceIs, PTL
  <2> QED BY <1>1, <2>1 DEF Outside
<1>3. ZeroedSoFar'
  BY <1>1, ZeroedKept DEF Outside, Booting
<1>4. Beats' /\ NoFalseAlarm'
  BY <1>1, BootingBeats, BootingAlarm DEF Outside, Delivery
<1> QED
  BY <1>1, <1>2, <1>3, <1>4 DEF Booting, Outside, TreeLeftAlone
-----------------------------------------------------------------------------
(* Zeroing memory is a step of memory alone: it touches no word that is    *)
(* being read.                                                             *)
LEMMA MemoryOnly ==
  ASSUME IInv, Delivery, Booting, UNCHANGED <<mvuVars, burst, cacheVars, faults, errors>>,
         data' \in [Addr -> Word], tree' \in [MemNode -> Word],
         \A a \in Addr : ~is_protected(a) => data'[a] = data[a], ZeroedSoFar'
  PROVE  IInv' /\ Delivery' /\ Booting'
<1>1. IInv'
  <2>1. TypeOK'
    BY DEF IInv, TypeOK, MVUTypeOK
  <2>2. Session' /\ Cursor' /\ TreePipe'
    BY DEF IInv, Control, Session, Cursor, TreePipe, GroupReq, NodeWrite
  <2>3. MemPipe' /\ Buffered'
    BY DEF IInv, Transfer, MemPipe, PipeIdle, PipeAsked, PipeBurst, PipeDrain, Awaiting,
           NoneLast, Buffered
  <2>4. InFlight'
    BY InFlightFrame DEF IInv, Transfer, Active
  <2>5. Ordered'
    BY OrderedFrame, UnfoldedFrame DEF IInv, Transfer
  <2> QED BY <2>1, <2>2, <2>3, <2>4, <2>5 DEF IInv, Control, Transfer
<1>2. Delivery'
  <2>1. InOrder /\ ErrsAgree /\ Sent' = Sent
    BY SentFrame DEF Delivery
  <2>2. InOrder'
    BY <2>1, InOrderFrame
  <2>3. ErrsAgree'
    BY <2>1 DEF ErrsAgree, Verdict
  <2> QED BY <2>2, <2>3 DEF Delivery
<1>3. Untouched' /\ NoneProtected'
  BY DEF Booting, Untouched, NoneProtected, Entries
<1>4. OnePlace'
  <2>1. ReadOnce
    BY OnePlaceIs DEF Booting
  <2>2. ReadOnce'
    BY <2>1, ReadOnceShrinks
  <2>3. (Untouched /\ NoneProtected => (OnePlace <=> ReadOnce))'
    BY OnePlaceIs, PTL
  <2> QED BY <1>3, <2>2, <2>3
<1>5. Beats'
  <2> SUFFICES ASSUME Promised' PROVE Beats'
    <3>1. ~Promised' => Beats'
      BY DEF Beats
    <3> QED BY <3>1
  <2>1. Promised
    BY DEF Promised, Honest, OneFault
  <2>2. ReadWordsKept
    BY TamperedBooting DEF ReadWordsKept
  <2>3. BeatsArriving' /\ BeatsCollected' /\ BeatsCleared' /\ BeatsQueued'
    BY <2>1, <2>2, ArrivingFrame, CollectedFrame, ClearedFrame, QueuedFrame
    DEF Booting, Beats, Delivery
  <2> QED BY <2>3 DEF Beats
<1>6. NoFalseAlarm' /\ (errors' = 0 \/ faults' = 0)
  BY DEF Booting, NoFalseAlarm, Honest, Entries
<1> QED BY <1>1, <1>2, <1>3, <1>4, <1>5, <1>6 DEF Booting

LEMMA BootingSend ==
  ASSUME IInv, Delivery, Booting, rg_init_count \in 0..BootWords, rl_init_send
  PROVE  IInv' /\ Delivery' /\ Booting' /\ rg_init_count' \in 0..BootWords
<1>1. data \in [Addr -> Word] /\ tree \in [MemNode -> Word]
  BY DEF IInv, TypeOK
<1>2. /\ rg_init_count \in Nat /\ BootWords \in Nat /\ rg_init_count < BootWords
      /\ rg_init_count' = rg_init_count + 1
  BY BootReaches DEF rl_init_send
<1>3. /\ data' = [a \in Addr |-> IF is_protected(a) /\ addr_to_leaf_index(a) = rg_init_count
                                 THEN Zero ELSE data[a]]
      /\ tree' = [n \in MemNode |-> IF level_start[n[1]] + n[2] = rg_init_count
                                    THEN Zero ELSE tree[n]]
      /\ UNCHANGED <<mvuVars, burst, cacheVars, faults, errors>>
  BY DEF rl_init_send
<1>4. data' \in [Addr -> Word] /\ tree' \in [MemNode -> Word]
  BY <1>1, <1>3, WordAssumption
<1>5. \A a \in Addr : ~is_protected(a) => data'[a] = data[a]
  BY <1>3
<1>6. ASSUME NEW a \in Addr, is_protected(a), passed(addr_to_leaf_index(a))'
      PROVE  data'[a] = Zero
  <2>1. addr_to_leaf_index(a) \in Nat /\ addr_to_leaf_index(a) < rg_init_count + 1
    BY <1>2, <1>6, BootReaches DEF passed
  <2>2. addr_to_leaf_index(a) = rg_init_count \/ addr_to_leaf_index(a) < rg_init_count
    BY <1>2, <2>1
  <2> QED BY <1>3, <1>6, <2>2 DEF Booting, ZeroedSoFar, passed
<1>7. ASSUME faults = 0, NEW n \in MemNode, passed(level_start[n[1]] + n[2])'
      PROVE  tree'[n] = Zero
  <2> DEFINE p == level_start[n[1]] + n[2]
  <2>1. p \in Nat /\ p < rg_init_count + 1
    BY <1>2, <1>7, BootReaches DEF passed
  <2>2. p = rg_init_count \/ (p < rg_init_count /\ passed(p))
    BY <1>2, <2>1 DEF passed
  <2>3. tree'[n] = IF p = rg_init_count THEN Zero ELSE tree[n]
    BY <1>3
  <2>4. passed(p) => tree[n] = Zero
    BY <1>7 DEF Booting, ZeroedSoFar
  <2> QED BY <2>2, <2>3, <2>4
<1>8. ZeroedSoFar'
  <2>1. \A a \in Addr : written'[a] = IF is_protected(a) THEN Zero ELSE data'[a]
    BY <1>3, <1>5 DEF Booting, ZeroedSoFar
  <2> QED BY <1>3, <1>6, <1>7, <2>1 DEF ZeroedSoFar
<1>9. rg_init_count' \in 0..BootWords
  BY <1>2
<1> QED BY <1>3, <1>4, <1>5, <1>8, <1>9, MemoryOnly

(* When boot is done, memory and tree are those of a system that started   *)
(* with zeros.                                                             *)
LEMMA BootDone ==
  OneFault /\ IInv /\ Booting /\ rg_mem_initialized => Lines /\ Beats /\ Tree
<1> SUFFICES ASSUME OneFault, IInv, Booting, rg_mem_initialized PROVE Lines /\ Tree
  BY DEF Booting
<1>1. rg_init_count = BootWords /\ Untouched /\ NoneProtected /\ ZeroedSoFar
  BY DEF rg_mem_initialized, Booting
<1>2. \A a \in Addr : is_protected(a) => data[a] = Zero /\ written[a] = Zero
  BY <1>1, BootReaches DEF ZeroedSoFar, passed
<1>3. Tampered = {}
  BY <1>1, <1>2 DEF ZeroedSoFar, Tampered
<1>4. faults = 0 => \A n \in MemNode : tree[n] = Zero
  BY <1>1, BootReaches DEF ZeroedSoFar, passed
<1>5. Lines
  <2>1. ProtectedEvict = {} /\ ~rg_is_update
    BY <1>1, NothingUnfolded DEF Untouched
  <2>2. EvictsWritten
    BY <2>1 DEF EvictsWritten
  <2>3. FaultsWatched
    BY <1>3 DEF FaultsWatched, Booting
  <2> QED BY <2>2, <2>3 DEF Lines, Booting
<1>6. Tree
  <2>1. Sound => Tells
    BY <1>1, <1>2, <1>3, <1>4, ZeroTree DEF Sound, Honest, Untouched
  <2>2. OnPath
    BY <1>1 DEF OnPath, Walking, Untouched
  <2> QED BY <1>1, <2>1, <2>2 DEF Tree, Tells, Untouched, Booting
<1> QED BY <1>5, <1>6

LEMMA BootStarts == OneFault /\ BootInit => BootInv
<1> SUFFICES ASSUME OneFault, BootInit PROVE BootInv
  OBVIOUS
<1>1. Starting
  BY DEF BootInit, Starting
<1>2. /\ data \in [Addr -> Word] /\ tree \in [MemNode -> Word]
      /\ written = [a \in Addr |-> IF is_protected(a) THEN Zero ELSE data[a]]
      /\ rg_init_count = 0
  BY DEF BootInit
<1>3. written \in [Addr -> Word]
  BY <1>2, WordAssumption
<1>4. IInv /\ Delivery /\ Beats
  BY <1>1, <1>2, <1>3, StartIInv, StartDelivery, StartBeats
<1>5. rg_init_count \in 0..BootWords
  BY <1>2, BootReaches
<1>6. Untouched
  BY <1>1 DEF Starting, MVUInit, Untouched
<1>7. ff_evict_req = <<>> /\ ff_resp_to_cache = <<>> /\ inflight = <<>> /\ held = {} /\ faults = 0
  BY <1>1 DEF Starting, MVUInit
<1>8. Entries(ff_evict_req) = {} /\ Entries(ff_resp_to_cache) = {} /\ Entries(inflight) = {}
        /\ DOMAIN inflight = {}
  BY <1>7 DEF Entries
<1>9. NoneProtected
  BY <1>7, <1>8 DEF NoneProtected
<1>10. OnePlace
  BY <1>6, <1>7, <1>8, <1>9, OnePlaceIs DEF ReadOnce
<1>11. ZeroedSoFar
  <2>1. \A a \in Addr : is_protected(a) => ~passed(addr_to_leaf_index(a))
    BY <1>2, BootReaches DEF passed
  <2>2. \A n \in MemNode : ~passed(level_start[n[1]] + n[2])
    BY <1>2, BootReaches DEF passed
  <2> QED BY <1>2, <2>1, <2>2 DEF ZeroedSoFar
<1>12. NoFalseAlarm
  BY <1>6, <1>8 DEF NoFalseAlarm, Untouched
<1>13. Booting
  BY <1>4, <1>6, <1>7, <1>9, <1>10, <1>11, <1>12 DEF Booting
<1> QED BY <1>4, <1>5, <1>13, BootDone DEF BootInv

LEMMA BootStep ==
  OrderIO /\ OrderLine /\ OneFault /\ CoreWaits /\ BootInv /\ [BootNext]_bootVars => BootInv'
<1> SUFFICES ASSUME OrderIO, OrderLine, OneFault, CoreWaits, BootInv, [BootNext]_bootVars
             PROVE  BootInv'
  OBVIOUS
<1>1. IInv /\ Delivery /\ rg_init_count \in 0..BootWords
  BY DEF BootInv
<1>2. ASSUME IInv', Delivery', Booting', rg_init_count' \in 0..BootWords PROVE BootInv'
  <2>1. (OneFault /\ IInv /\ Booting /\ rg_mem_initialized => Lines /\ Beats /\ Tree)'
    BY BootDone, PTL
  <2>2. OneFault'
    BY DEF OneFault
  <2> QED BY <1>2, <2>1, <2>2 DEF BootInv
<1>3. CASE rl_init_send
  <2>1. ~rg_mem_initialized
    BY <1>1, <1>3, BootReaches DEF rl_init_send, rg_mem_initialized
  <2>2. Booting
    BY <2>1 DEF BootInv
  <2> QED BY <1>1, <1>2, <1>3, <2>2, BootingSend
<1>4. ASSUME [Next]_vars, UNCHANGED rg_init_count, rg_mem_initialized PROVE BootInv'
  <2>1. Lines /\ Beats /\ Tree
    BY <1>4 DEF BootInv
  <2>2. IInv' /\ Delivery'
    BY <1>1, <1>4, StepIInv, StepDelivery
  <2>3. Lines' /\ Beats' /\ Tree'
    BY <1>1, <1>4, <2>1, StepLines, StepBeats, StepTree
  <2>4. rg_mem_initialized' /\ rg_init_count' \in 0..BootWords
    BY <1>1, <1>4 DEF rg_mem_initialized
  <2> QED BY <2>2, <2>3, <2>4 DEF BootInv
<1>5. ASSUME Next, Unit \/ patient, UNCHANGED rg_init_count, ~rg_mem_initialized
      PROVE  BootInv'
  <2>1. Booting
    BY <1>5 DEF BootInv
  <2>2. IInv' /\ Delivery'
    BY <1>1, <1>5, StepIInv, StepDelivery
  <2>3. Booting'
    BY <1>1, <1>5, <2>1, BootingStep DEF patient
  <2> QED BY <1>1, <1>2, <1>5, <2>2, <2>3
<1>6. ASSUME UNCHANGED vars, UNCHANGED rg_init_count, ~rg_mem_initialized PROVE BootInv'
  <2>1. Booting /\ data \in [Addr -> Word] /\ tree \in [MemNode -> Word]
    BY <1>1, <1>6 DEF BootInv, IInv, TypeOK
  <2>2. ZeroedSoFar'
    BY <1>6, <2>1 DEF Booting, ZeroedSoFar, passed
  <2>3. IInv' /\ Delivery' /\ Booting'
    BY <1>1, <1>6, <2>1, <2>2, MemoryOnly
  <2> QED BY <1>1, <1>2, <1>6, <2>3
<1> QED
  BY <1>3, <1>4, <1>5, <1>6 DEF BootNext, bootVars, Next

(* Whatever memory holds at power-up and wherever boot stands, a core that *)
(* waits for tree memory gets no word of junk, meets no false alarm, and   *)
(* finds a tree that agrees with memory: the rules of the unit do not look *)
(* at rg_mem_initialized, so this rests on the core alone.                 *)
THEOREM BootHidesJunk ==
  OrderIO /\ OrderLine /\ OneFault /\ CoreWaits => (BootSpec => []JunkNeverSeen)
<1> SUFFICES ASSUME OrderIO, OrderLine, OneFault, CoreWaits PROVE BootSpec => []JunkNeverSeen
  OBVIOUS
<1>1. BootInit => BootInv
  BY BootStarts
<1>2. BootInv /\ [BootNext]_bootVars => BootInv'
  BY BootStep
<1>3. BootInv => JunkNeverSeen
  <2> SUFFICES ASSUME BootInv
               PROVE  DeliveredCorrect /\ NoFalseAlarm /\ (rg_mem_initialized => TreeConsistent)
    BY DEF JunkNeverSeen
  <2>1. Beats /\ NoFalseAlarm
    BY DEF BootInv, Booting, Tree
  <2>2. DeliveredCorrect
    BY <2>1, PromisedDelivered DEF BootInv, Promised
  <2>3. rg_mem_initialized => TreeConsistent
    BY ToldConsistent DEF BootInv
  <2> QED BY <2>1, <2>2, <2>3
<1> QED
  BY <1>1, <1>2, <1>3, PTL DEF BootSpec
=============================================================================
