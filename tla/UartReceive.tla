---------------------------- MODULE UartReceive ----------------------------
(***************************************************************************)
(* Characters on their way from the serial line to the screen: the receive *)
(* FIFO of the UART, uart1_isr (bsp/drivers/uart/uart.c) and the loop of    *)
(* uart01_interrupt_test.c that prints them.  The routine runs with        *)
(* interrupts off, so it comes between two accesses of the loop to the     *)
(* variables they share; characters arrive at any time.  A character is    *)
(* its number in the order of arrival, 0 is '\0'.                          *)
(***************************************************************************)
EXTENDS Integers, Sequences, SequencesExt, Functions

CONSTANTS
  Depth,      \* of the receive FIFO
  MaxChars    \* bound: characters that arrive

UartAssumption == Depth \in Nat \ {0} /\ MaxChars \in Nat

VARIABLES
  fifoRecv, arrived,     \* the device
  u1_rcv_char, uart1_rcv_isr_count,
  isr,                   \* uart1_isr: off, or what its branch has to do
  pc, index,             \* main: where, and the index it holds in a register
  taken, shown           \* history: characters taken from the FIFO, printed

shared == <<u1_rcv_char, uart1_rcv_isr_count>>
main == <<pc, index>>
vars == <<fifoRecv, arrived, shared, isr, main, taken, shown>>

NUL == 0
Indices == 0..MaxChars + 1

Init ==
  /\ fifoRecv = <<>> /\ arrived = 0
  /\ u1_rcv_char = [k \in Indices |-> NUL] /\ uart1_rcv_isr_count = 0
  /\ isr = "off" /\ pc = "delay" /\ index = 0
  /\ taken = <<>> /\ shown = <<>>

receiver_full == Len(fifoRecv) = Depth
receiver_not_empty == fifoRecv # <<>>

(* enq is unguarded: a character that finds the FIFO full is lost.         *)
receive_stop_last_bit ==
  /\ arrived < MaxChars /\ arrived' = arrived + 1
  /\ fifoRecv' = IF receiver_full THEN fifoRecv ELSE Append(fifoRecv, arrived + 1)
  /\ UNCHANGED <<shared, isr, main, taken, shown>>

-----------------------------------------------------------------------------
(* STS_RX_THRESHOLD is bit 8 of a status of 8 bits: its branch is dead.     *)
branch_mutant == IF receiver_full THEN "drain" ELSE "off"
branch == IF receiver_full THEN "drain" ELSE "one"

uart1_isr_enter ==
  /\ isr = "off" /\ receiver_not_empty
  /\ isr' = branch
  /\ UNCHANGED <<fifoRecv, arrived, shared, main, taken, shown>>

uart1_isr_read ==
  /\ isr \in {"one", "drain"} /\ receiver_not_empty
  /\ fifoRecv' = Tail(fifoRecv)
  /\ u1_rcv_char' = [u1_rcv_char EXCEPT ![uart1_rcv_isr_count] = Head(fifoRecv)]
  /\ uart1_rcv_isr_count' = uart1_rcv_isr_count + 1
  /\ taken' = Append(taken, Head(fifoRecv))
  /\ isr' = IF isr = "one" THEN "off" ELSE "drain"
  /\ UNCHANGED <<arrived, main, shown>>

uart1_isr_drained ==
  /\ isr = "drain" /\ ~receiver_not_empty
  /\ isr' = "off"
  /\ UNCHANGED <<fifoRecv, arrived, shared, main, taken, shown>>

uart1_isr == uart1_isr_enter \/ uart1_isr_read \/ uart1_isr_drained

-----------------------------------------------------------------------------
(* main: a delay, and every eleventh time round the accesses that print.   *)
Step(from, to) ==
  /\ isr = "off"
  /\ pc = from /\ pc' = to
  /\ UNCHANGED <<fifoRecv, arrived, isr, taken>>

load_count ==
  /\ Step("delay", "store")
  /\ index' = uart1_rcv_isr_count + 1
  /\ UNCHANGED <<shared, shown>>
store_count ==
  /\ Step("store", "end")
  /\ uart1_rcv_isr_count' = index
  /\ UNCHANGED <<u1_rcv_char, index, shown>>
end_string ==
  /\ Step("end", "print")
  /\ u1_rcv_char' = [u1_rcv_char EXCEPT ![index] = NUL] /\ index' = 0
  /\ UNCHANGED <<uart1_rcv_isr_count, shown>>

(* printf("%s"): a character read and printed a step, up to '\0'; putchar   *)
(* waits for the other UART between two of them.                           *)
putchar ==
  /\ Step("print", "print") /\ u1_rcv_char[index] # NUL
  /\ shown' = Append(shown, u1_rcv_char[index]) /\ index' = index + 1
  /\ UNCHANGED shared
end_print ==
  /\ Step("print", "reset") /\ u1_rcv_char[index] = NUL
  /\ UNCHANGED <<shared, index, shown>>

restart == 0
reset_count ==
  /\ Step("reset", "clear")
  /\ uart1_rcv_isr_count' = restart /\ index' = 0
  /\ UNCHANGED <<u1_rcv_char, shown>>

(* memset, from the first byte on.                                         *)
cleared_mutant(k) == u1_rcv_char
cleared(k) == [u1_rcv_char EXCEPT ![k] = NUL]
memset ==
  /\ Step("clear", IF index = MaxChars + 1 THEN "delay" ELSE "clear")
  /\ u1_rcv_char' = cleared(index)
  /\ index' = IF index = MaxChars + 1 THEN 0 ELSE index + 1
  /\ UNCHANGED <<uart1_rcv_isr_count, shown>>

loop ==
  \/ load_count \/ store_count \/ end_string \/ putchar \/ end_print
  \/ reset_count \/ memset

Next == receive_stop_last_bit \/ uart1_isr \/ loop
Spec == Init /\ [][Next]_vars
(* The controller signals a FIFO that is not empty until it is.            *)
FairSpec == Spec /\ WF_vars(uart1_isr) /\ WF_vars(loop)

-----------------------------------------------------------------------------
(* Whatever the routine does between two accesses of the loop, and between *)
(* two characters of a text that is being printed, no character is printed *)
(* twice, in one round or in two, and none that was not taken.             *)
ShownOnce == IsInjective(shown) /\ ToSet(shown) \subseteq ToSet(taken)

(* uart01_interrupt_test.c:155: "The characters received: %s": they are    *)
(* printed in the order in which they came.                                *)
ShownInOrder == \A j \in 1..Len(shown) - 1 : shown[j] < shown[j + 1]

(* Index and count stay inside the buffer, also while printf runs past the *)
(* end the loop wrote, over characters the routine stored since: with      *)
(* every character that may arrive in one round, and the one place main    *)
(* adds for '\0'.                                                          *)
InsideBuffer == uart1_rcv_isr_count \in Indices /\ index \in Indices

(* A routine that reads one character per interrupt still empties the      *)
(* FIFO, also when it had filled.                                          *)
Drained == []<>(fifoRecv = <<>>)

(* uart01_interrupt_test.c:155 again: what was taken from the device is    *)
(* printed, or waits in the buffer to be.                                  *)
AllShown == pc = "delay" => ToSet(taken) \subseteq ToSet(shown) \cup Range(u1_rcv_char)
=============================================================================
