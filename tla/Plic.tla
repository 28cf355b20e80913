-------------------------------- MODULE Plic --------------------------------
(***************************************************************************)
(* The platform interrupt controller of the SoC (devices/plic/plic.bsv,    *)
(* mkplic) and its driver on the hart (bsp/drivers/plic/plic_driver.c).    *)
(* A step is one clock of the controller: its rules fire, the wires of the *)
(* devices are sampled, and the hart makes at most one access, or none for *)
(* as long as its bus needs.                                               *)
(***************************************************************************)
EXTENDS Integers, FiniteSetsExt

CONSTANTS
  Pins,          \* pins in use; pin 0 is wired to 0 (mixed_cluster.bsv)
  Levels,        \* no_of_ir_levels: the width of a priority
  Priorities,    \* what the program gives set_interrupt_priority
  Thresholds,    \* what the program gives set_interrupt_threshold
  MaxRaises,     \* bound: interrupts of one device
  MaxCalls       \* bound: driver calls of the program after plic_init

ASSUME PlicAssumption ==
  /\ Pins \subseteq 1..30 /\ Pins # {}
  /\ Levels \in Nat \ {0}
  /\ Priorities \subseteq Nat /\ Thresholds \subseteq Nat
  /\ MaxRaises \in Nat /\ MaxCalls \in Nat

VARIABLES
  line, raises,                        \* the devices
  gateway, ip, ie, prio, threshold, id, valid, completion,
  phase, total, winner,                \* rg_plic_state and what it latches
  pc, back, call, calls,               \* the hart: handler, program
  claimed, state, count,               \* hart0_interrupt_matrix
  asked,                               \* history: the priorities asked for
  off                                  \* history: clocks since it was disabled
                                       \* or the threshold was written

devices == <<line, raises>>
latches == <<phase, total, winner, id, valid>>
program == <<call, calls, asked>>
matrix == <<claimed, state, count>>
vars == <<devices, latches, gateway, ip, ie, prio, threshold, completion,
          pc, back, program, matrix, off>>

NoPin == 0
Settled == 4     \* clocks after which a disabled pin is forgotten

Bit(w, b) == (w \div 2^b) % 2 = 1
Bits(w) == {b \in 0..Levels - 1 : Bit(w, b)}
EnableByte(i) == {j \in Pins : j \div 8 = i \div 8}

(* After plic_init and the csrrs of mstatus and mie.                       *)
Init ==
  /\ line = [i \in Pins |-> FALSE] /\ raises = [i \in Pins |-> 0]
  /\ gateway = [i \in Pins |-> FALSE] /\ ip = [i \in Pins |-> FALSE]
  /\ ie = [i \in Pins |-> FALSE]
  /\ prio = [i \in Pins |-> 2] /\ asked = [i \in Pins |-> 2]
  /\ threshold = 1
  /\ id = NoPin /\ valid = FALSE /\ completion = NoPin
  /\ phase = "prioritise" /\ total = {} /\ winner = 0
  /\ pc = "main" /\ back = "main" /\ call = <<>> /\ calls = 0
  /\ claimed = NoPin
  /\ state = [i \in Pins |-> "INACTIVE"] /\ count = [i \in Pins |-> 0]
  /\ off = [i \in Pins |-> Settled]

-----------------------------------------------------------------------------
(* The clock of mkplic.  pending is rg_ip at port 1.                       *)

pending == [i \in Pins |-> ip[i] \/ (line[i] /\ ~gateway[i])]
ready_mutant == {i \in Pins : pending[i]}
ready == {i \in Pins : pending[i] /\ ie[i]}

passes(w) == threshold <= w

(* The wire falls when no ready pin passes the threshold.                  *)
still_valid_mutant(chosen, top) == valid
still_valid(chosen, top) == valid /\ chosen # {} /\ passes(2^top)

(* The highest of the levels of the ready pins, 0 if there is none.        *)
encode(levels) == IF levels = {} THEN 0 ELSE Max(levels)

rl_prioritise ==
  LET top == encode(UNION {Bits(prio[i]) : i \in ready})
      chosen == {i \in ready : top \in Bits(prio[i])}
  IN /\ phase = "prioritise"
     /\ IF chosen = {} THEN UNCHANGED <<phase, total, winner>>
        ELSE /\ total' = chosen
             /\ winner' = 2^top
             /\ phase' = "encode"
     /\ valid' = still_valid(chosen, top)
     /\ UNCHANGED id

highest(pins) == {i \in pins : \A j \in pins : j <= i}
rl_encoder ==
  /\ phase = "encode" /\ phase' = "prioritise"
  /\ IF passes(winner) THEN id' \in highest(total) /\ valid' = TRUE
     ELSE UNCHANGED <<id, valid>>
  /\ UNCHANGED <<total, winner>>

(* rl_clear_gateway comes after ifc_external_irq_io in the schedule.       *)
gateway_after_mutant == [i \in Pins |-> line[i] /\ completion # i]
gateway_after == [i \in Pins |-> (gateway[i] \/ line[i]) /\ completion # i]

none == [op |-> "none"]
(* A byte of enables whose pins in on are set.                             *)
enables(i, on) == [op |-> "ie", byte |-> EnableByte(i), on |-> on]

claims_mutant(a, i) == FALSE
claims(a, i) == a.op = "claim" /\ i = id
low_bits(w) == w % 2^Levels

prog_reg(a) ==
  /\ ip' = [i \in Pins |-> pending[i] /\ ~claims(a, i)]
  /\ completion' = IF a.op = "complete" THEN a.pin ELSE NoPin
  /\ ie' = IF a.op = "ie"
           THEN [i \in Pins |-> IF i \in a.byte THEN i \in a.on ELSE ie[i]]
           ELSE ie
  /\ prio' = IF a.op = "priority"
             THEN [prio EXCEPT ![a.pin] = low_bits(a.value)] ELSE prio
  /\ threshold' = IF a.op = "threshold" THEN low_bits(a.value) ELSE threshold

(* A device raises its line and holds it until the routine serves it.      *)
Wires(served) ==
  \E up \in SUBSET {i \in Pins : ~line[i] /\ raises[i] < MaxRaises} :
    /\ line' = [i \in Pins |-> (line[i] /\ i # served) \/ i \in up]
    /\ raises' = [i \in Pins |-> IF i \in up THEN raises[i] + 1 ELSE raises[i]]

Clock(a, served) ==
  /\ rl_prioritise \/ rl_encoder
  /\ gateway' = gateway_after
  /\ prog_reg(a)
  /\ Wires(served)
  /\ off' = [i \in Pins |-> IF ie'[i] \/ a.op = "threshold" THEN 0
                            ELSE IF off[i] < Settled THEN off[i] + 1 ELSE Settled]

-----------------------------------------------------------------------------
(* The program: calls of the driver, interrupts enabled.                   *)

InProgram == pc \in {"main", "enable", "disable", "disabled"}

Idle == Clock(none, NoPin) /\ UNCHANGED <<pc, back, program, matrix>>

(* current_value, read from the byte of the pin.                           *)
read_enables(i, next) ==
  /\ pc = "main" /\ calls < MaxCalls
  /\ Clock(none, NoPin)
  /\ pc' = next /\ calls' = calls + 1
  /\ call' = [pin |-> i, current |-> {j \in EnableByte(i) : ie[j]}]
  /\ UNCHANGED <<back, asked, matrix>>

write_enables ==
  LET i == call.pin IN
  /\ pc \in {"enable", "disable"}
  /\ Clock(enables(i, IF pc = "enable" THEN call.current \union {i}
                      ELSE call.current \ {i}), NoPin)
  /\ pc' = IF pc = "enable" THEN "main" ELSE "disabled"
  /\ UNCHANGED <<back, program, matrix>>

note_disabled ==
  /\ pc = "disabled" /\ pc' = "main"
  /\ Clock(none, NoPin)
  /\ state' = [state EXCEPT ![call.pin] = "INACTIVE"]
  /\ UNCHANGED <<back, program, claimed, count>>

set_interrupt_priority(value, i) ==
  /\ pc = "main" /\ calls < MaxCalls
  /\ Clock([op |-> "priority", pin |-> i, value |-> value], NoPin)
  /\ asked' = [asked EXCEPT ![i] = value] /\ calls' = calls + 1
  /\ UNCHANGED <<pc, back, call, matrix>>

set_interrupt_threshold(value) ==
  /\ pc = "main" /\ calls < MaxCalls
  /\ Clock([op |-> "threshold", value |-> value], NoPin)
  /\ calls' = calls + 1
  /\ UNCHANGED <<pc, back, call, asked, matrix>>

-----------------------------------------------------------------------------
(* trap_entry, handle_trap and mach_plic_handler; mret brings the hart     *)
(* back to the program, and interrupts are off in between.                 *)

trap_entry ==
  /\ InProgram /\ valid
  /\ Clock(none, NoPin)
  /\ back' = pc /\ pc' = "claim"
  /\ UNCHANGED <<program, matrix>>

interrupt_claim_request ==
  /\ pc = "claim" /\ pc' = "active"
  /\ Clock([op |-> "claim"], NoPin)
  /\ claimed' = id
  /\ UNCHANGED <<back, program, state, count>>

set_active ==
  /\ pc = "active" /\ pc' = "isr"
  /\ Clock(none, NoPin)
  /\ state' = [state EXCEPT ![claimed] = "ACTIVE"]
  /\ UNCHANGED <<back, program, claimed, count>>

isr ==
  /\ pc = "isr" /\ pc' = "complete"
  /\ Clock(none, claimed)
  /\ UNCHANGED <<back, program, matrix>>

completed_mutant == Max(Pins)
completed == claimed
interrupt_complete ==
  /\ pc = "complete" /\ pc' = "mret"
  /\ Clock([op |-> "complete", pin |-> completed], NoPin)
  /\ state' = [state EXCEPT ![claimed] = "SERVICED"]
  /\ count' = [count EXCEPT ![claimed] = @ + 1]
  /\ UNCHANGED <<back, program, claimed>>

mret ==
  /\ pc = "mret" /\ pc' = back
  /\ Clock(none, NoPin)
  /\ UNCHANGED <<back, program, matrix>>

Handler == trap_entry \/ interrupt_claim_request \/ set_active \/ isr
           \/ interrupt_complete \/ mret
Driver ==
  \/ \E i \in Pins : read_enables(i, "enable") \/ read_enables(i, "disable")
  \/ write_enables \/ note_disabled
  \/ \E i \in Pins, value \in Priorities : set_interrupt_priority(value, i)
  \/ \E value \in Thresholds : set_interrupt_threshold(value)
Next == Idle \/ Driver \/ Handler

Spec == Init /\ [][Next]_vars
(* The clock runs; the hart takes an interrupt that stays up, and finishes *)
(* the routines it has begun.                                              *)
FairSpec ==
  Spec /\ WF_vars(Next) /\ WF_vars(Handler) /\ WF_vars(write_enables \/ note_disabled)

-----------------------------------------------------------------------------
TypeOK ==
  /\ line \in [Pins -> BOOLEAN] /\ gateway \in [Pins -> BOOLEAN]
  /\ ip \in [Pins -> BOOLEAN] /\ ie \in [Pins -> BOOLEAN]
  /\ prio \in [Pins -> 0..2^Levels - 1] /\ threshold \in 0..2^Levels - 1
  /\ id \in Pins \union {NoPin} /\ completion \in Pins \union {NoPin}
  /\ claimed \in Pins \union {NoPin}
  /\ valid \in BOOLEAN /\ phase \in {"prioritise", "encode"}
  /\ total \in SUBSET Pins /\ (phase = "encode" => total # {})
  /\ pc \in {"main", "enable", "disable", "disabled",
             "claim", "active", "isr", "complete", "mret"}

InService == pc \in {"active", "isr", "complete"}

(* A claim returns a pin that is pending, never 0 and never one served     *)
(* before: the wire that brought the hart here had fallen in time.         *)
ClaimPending == pc = "claim" => id # NoPin /\ ip[id]

(* While a pin is served its gateway is shut, so its line, still up or up  *)
(* again, cannot make it pending a second time.                            *)
ServedOnceAtATime == InService => gateway[claimed] /\ ~ip[claimed]

(* No interrupt of a device is served twice, whatever the hart is doing    *)
(* when it comes: not more services than the device raised its line.       *)
AtMostOnce == \A i \in Pins : count[i] <= raises[i]

(* The controller latches its choice for some clocks: Settled clocks after *)
(* interrupt_disable wrote the byte the pin is not signalled any more.  A  *)
(* threshold written between the two clocks of a choice starts the count   *)
(* again: it leaves a stale choice on the wire.                            *)
QuietWhenDisabled == \A i \in Pins : off[i] = Settled => ~(valid /\ id = i)

Accepted(i) == ie[i] /\ Bits(prio[i]) # {} /\ passes(2^Max(Bits(prio[i])))

(* A line that is up, enabled and not masked is served, unless the program *)
(* takes the permission back.                                              *)
Served == \A i \in Pins : line[i] /\ Accepted(i) ~> ~line[i] \/ ~Accepted(i)

(* plic_driver.h:50-51: "7 priority levels are supported. PLIC_PRIORITY_1  *)
(* means 'no interrupt": a pin given any other level is served.            *)
AllLevelsServed ==
  \A i \in Pins : line[i] /\ ie[i] /\ asked[i] > 1 /\ threshold <= 1
                  ~> ~line[i] \/ ~ie[i] \/ asked[i] <= 1 \/ threshold > 1
=============================================================================
