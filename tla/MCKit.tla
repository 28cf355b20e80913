-------------------------------- MODULE MCKit --------------------------------
(***************************************************************************)
(* The parts of the development kit, on small instances: the interrupt     *)
(* controller and its driver, the software I2C, the reception of           *)
(* characters and the heap.  They share no state: a behaviour exercises    *)
(* the one that part names, and the others rest.                           *)
(*                                                                         *)
(* bursts: calls of lm75_softi2c.c and gyroi2c.c that end a read with a    *)
(* negative acknowledgement.  identity: calls that begin with              *)
(* I2c_Read_byte, as gyroi2c.c does to learn what it talks to; it          *)
(* acknowledges the byte, which a slave forgives whose next byte has its   *)
(* highest bit set.  nodes, sizes: programs that ask the heap for blocks   *)
(* of one size, of several, which need not leave room for a header.        *)
(***************************************************************************)
EXTENDS Plic, Sequences, TLC

CONSTANTS
  Depth, MaxChars,                      \* of UartReceive
  NodesHeapSize, NodesSizes,            \* of HeapFirstFit, of "nodes"
  SizesHeapSize, SizesSizes,            \* and of "sizes"
  SizeMod

VARIABLES
  part,
  direction, dataout, sda, slave, regs, script, read, buf, i2c_call, i2c_calls,
  memory, stopped, acked,
  fifoRecv, arrived, u1_rcv_char, uart1_rcv_isr_count, uart1_isr, uart_pc, index,
  taken, shown,
  heap_ptr, global_base, hdr, live, last, fitted

i2cVars == <<direction, dataout, sda, slave, regs, script, read, buf, i2c_call,
             i2c_calls, memory, stopped, acked>>
uartVars == <<fifoRecv, arrived, u1_rcv_char, uart1_rcv_isr_count, uart1_isr,
              uart_pc, index, taken, shown>>
heapVars == <<heap_ptr, global_base, hdr, live, last, fitted>>

Writes(data) == [op : {"write"}, reg : 0..1, data : data]
Bursts == [op : {"burst"}, reg : 0..1, count : 1..3, last : BOOLEAN]
Reads == [op : {"read"}, reg : 0..1]

BurstI2c == INSTANCE SoftI2c WITH
  SlaveAddress <- 208, Answers <- TRUE, Registers <- 0..1, Contents <- {104},
  Calls <- Writes({0, 149}) \union Bursts, MaxCalls <- 3,
  current <- i2c_call, calls <- i2c_calls
IdentityI2c == INSTANCE SoftI2c WITH
  SlaveAddress <- 208, Answers <- TRUE, Registers <- 0..1, Contents <- {149, 255},
  Calls <- Writes({128, 213}) \union Reads, MaxCalls <- 3,
  current <- i2c_call, calls <- i2c_calls
Uart == INSTANCE UartReceive WITH
  isr <- uart1_isr, pc <- uart_pc
NodeHeap == INSTANCE HeapFirstFit WITH
  HeapSize <- NodesHeapSize, Room <- NodesHeapSize, Sizes <- NodesSizes
SizesHeap == INSTANCE HeapFirstFit WITH
  HeapSize <- SizesHeapSize, Room <- SizesHeapSize, Sizes <- SizesSizes

ASSUME KitAssumptions ==
  /\ BurstI2c!I2cAssumption /\ IdentityI2c!I2cAssumption /\ Uart!UartAssumption
  /\ NodeHeap!HeapAssumption /\ SizesHeap!HeapAssumption
  /\ \E size \in NodesSizes : NodesSizes = {size}

MCInit ==
  /\ part \in {"plic", "bursts", "identity", "uart", "nodes", "sizes"}
  /\ Init
  /\ IF part = "identity" THEN IdentityI2c!Init ELSE BurstI2c!Init
  /\ Uart!Init /\ NodeHeap!Init

In(p) == part = p /\ UNCHANGED part
PlicStep == In("plic") /\ Next /\ UNCHANGED <<i2cVars, uartVars, heapVars>>
I2cStep ==
  /\ \/ In("bursts") /\ BurstI2c!Next
     \/ In("identity") /\ IdentityI2c!Next
  /\ UNCHANGED <<vars, uartVars, heapVars>>
UartStep == In("uart") /\ Uart!Next /\ UNCHANGED <<vars, i2cVars, heapVars>>
HeapStep ==
  /\ \/ In("nodes") /\ NodeHeap!Next
     \/ In("sizes") /\ SizesHeap!Next
  /\ UNCHANGED <<vars, i2cVars, uartVars>>
MCNext == PlicStep \/ I2cStep \/ UartStep \/ HeapStep

(* The fairness of Plic and of UartReceive, in the behaviours that         *)
(* exercise them.                                                          *)
MCSpec ==
  /\ MCInit /\ [][MCNext]_<<part, vars, i2cVars, uartVars, heapVars>>
  /\ WF_vars(part = "plic" /\ Next)
  /\ WF_vars(part = "plic" /\ Handler)
  /\ WF_vars(part = "plic" /\ (write_enables \/ note_disabled))
  /\ WF_uartVars(part = "uart" /\ Uart!uart1_isr)
  /\ WF_uartVars(part = "uart" /\ Uart!loop)

(* WritesLand and ReadsAreTrue of SoftI2c: a call that returned left in    *)
(* the slave what it was told to, and returns what the registers hold.     *)
WritesLand == BurstI2c!WritesLand
ReadsAreTrue == BurstI2c!ReadsAreTrue

(* ShownOnce and Drained of UartReceive: no character is printed twice,    *)
(* and the FIFO empties again and again.                                   *)
ShownOnce == Uart!ShownOnce
Drained == Uart!Drained

(* LiveDisjoint of HeapFirstFit: until a split reaches beyond its block,   *)
(* no block the program has overlaps another or a header.  RefusedWhenFull: *)
(* with one size, a block comes back usable.                               *)
LiveDisjoint == NodeHeap!LiveDisjoint
RefusedWhenFull == part = "nodes" => NodeHeap!RefusedWhenFull
=============================================================================
