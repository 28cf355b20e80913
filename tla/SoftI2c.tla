------------------------------ MODULE SoftI2c ------------------------------
(***************************************************************************)
(* The I2C master of the SDK on two pins of the GPIO block                 *)
(* (bsp/drivers/i2c/gpio_i2c.c, devices/gpio/gpio.bsv), and a slave with a *)
(* register file (external; the wires are those of fpga_top.v: an IOBUF    *)
(* drives a pin, nothing holds it but a pull-up).  A call of the program   *)
(* is the sequence of register accesses it makes, and a step is one        *)
(* access and what the slave does in the delay_loop after it.              *)
(***************************************************************************)
EXTENDS Integers, Sequences, FiniteSets, SequencesExt

CONSTANTS
  SlaveAddress,  \* the address the program uses, its low bit clear
  Answers,       \* whether a slave has this address
  Registers,     \* registers of the slave: 0..n
  Contents,      \* what they may hold at first
  Calls,         \* calls the program makes
  MaxCalls       \* bound: calls of one behaviour

I2cAssumption ==
  /\ SlaveAddress \in 0..254 /\ SlaveAddress % 2 = 0
  /\ Answers \in BOOLEAN
  /\ \E n \in 0..255 : Registers = 0..n
  /\ Contents \subseteq 0..255
  /\ Calls \subseteq
       [op : {"write"}, reg : Registers, data : 0..255]
       \union [op : {"read"}, reg : Registers]
       \union [op : {"burst"}, reg : Registers, count : 1..4, last : BOOLEAN]
  /\ MaxCalls \in Nat

VARIABLES
  direction, dataout,   \* direction_reg, dataout_register of the two pins
  sda,                  \* the level of the wire
  slave, regs,          \* the slave: its state, its registers
  script,               \* accesses the current call has still to make
  read, buf,            \* readData of I2cReadByte, the bytes of the call
  current, calls,       \* history: the call, the number of calls
  memory,               \* history: registers as the calls should leave them
  stopped, acked        \* history: STOP seen in this call; last acknowledgement

pins == <<direction, dataout, sda>>
vars == <<pins, slave, regs, script, read, buf, current, calls, memory,
          stopped, acked>>

-----------------------------------------------------------------------------
(* The driver: each function is the accesses it makes.                     *)

on(p) == [op |-> "set", pins |-> p]
off(p) == [op |-> "clear", pins |-> p]
out(p) == [op |-> "out", pins |-> p]
in(p) == [op |-> "in", pins |-> p]
tell(what) == [op |-> what]     \* a local variable of the C code changes
SDA == {"sda"}
SCL == {"scl"}

start == <<on(SDA \union SCL), on(SCL), off(SDA), off(SCL)>>
stop == <<off(SDA), on(SCL), on(SDA)>>

highest_first(b, j) == (b \div 2^(7 - j)) % 2 = 1
I2cWriteByte(b) ==
  FlattenSeq([i \in 1..8 |->
    <<IF highest_first(b, i - 1) THEN on(SDA) ELSE off(SDA), on(SCL), off(SCL)>>])

I2cReadByte_mutant ==
  <<tell("begin")>> \o FlattenSeq([i \in 1..8 |-> <<on(SCL), off(SCL), tell("sample")>>])
I2cReadByte ==
  <<tell("begin")>> \o FlattenSeq([i \in 1..8 |-> <<on(SCL), tell("sample"), off(SCL)>>])

ReadAckForWrite == <<on(SCL), tell("ack"), off(SCL)>>
SendAckForRead == <<out(SDA), off(SDA), on(SCL), off(SCL), in(SDA)>>
SendNackForRead == <<out(SDA), on(SDA), on(SCL), off(SCL), in(SDA)>>
I2cInit == <<out(SCL), out(SDA)>>

(* The master lets the wire go for the acknowledgement.                    *)
release == <<on(SDA), in(SDA)>>
I2cSendSlaveAddress(rdWrCntrl) ==
  <<out(SDA)>> \o start \o I2cWriteByte(SlaveAddress + rdWrCntrl)
  \o release \o ReadAckForWrite
I2cWriteData(b) ==
  <<out(SDA)>> \o I2cWriteByte(b) \o release \o ReadAckForWrite

I2cReadDataAck ==
  <<in(SDA)>> \o I2cReadByte \o <<tell("keep"), out(SDA)>> \o SendAckForRead
I2cReadDataNack_mutant == I2cReadDataAck
I2cReadDataNack ==
  <<in(SDA)>> \o I2cReadByte \o <<tell("keep"), out(SDA)>> \o SendNackForRead

I2c_Write_byte(reg, data) ==
  I2cSendSlaveAddress(0) \o I2cWriteData(reg) \o I2cWriteData(data) \o stop
select(reg) ==
  I2cSendSlaveAddress(0) \o I2cWriteData(reg) \o I2cSendSlaveAddress(1)
I2c_Read_byte(reg) == select(reg) \o I2cReadDataAck \o stop
I2c_shakti_readbytes(count, last) ==
  FlattenSeq([i \in 1..count - 1 |-> I2cReadDataAck]) \o I2cReadDataNack
  \o (IF last THEN stop ELSE start)

accesses(c) ==
  CASE c.op = "write" -> I2c_Write_byte(c.reg, c.data)
    [] c.op = "read" -> I2c_Read_byte(c.reg)
    [] c.op = "burst" -> select(c.reg) \o I2c_shakti_readbytes(c.count, c.last)

-----------------------------------------------------------------------------
(* The slave.  It samples the data wire when the clock rises, and changes  *)
(* what it drives when the clock falls.                                    *)

After(r) == IF r + 1 \in Registers THEN r + 1 ELSE 0
BitOf(b, j) == (b \div 2^(7 - j)) % 2     \* bit j from the highest
Quiet == [phase |-> "idle", n |-> 0, byte |-> 0, ptr |-> 0, first |-> FALSE, pull |-> FALSE]
Sending(s, b) == [s EXCEPT !.phase = "send", !.n = 0, !.byte = b, !.pull = b < 128]

OnStart(s) == [s EXCEPT !.phase = "address", !.n = 0, !.byte = 0, !.pull = FALSE]
OnStop(s) == [s EXCEPT !.phase = "idle", !.pull = FALSE]

OnRise(s, level) ==
  CASE s.phase \in {"address", "receive"} -> [s EXCEPT !.n = @ + 1, !.byte = 2 * @ + level]
    [] s.phase = "master" -> [s EXCEPT !.n = level]
    [] OTHER -> s

OnFall(s) ==
  CASE s.phase = "address" /\ s.n = 8 ->
         IF Answers /\ s.byte - (s.byte % 2) = SlaveAddress
         THEN [s EXCEPT !.phase = IF s.byte % 2 = 1 THEN "to_send" ELSE "to_receive",
                        !.first = TRUE, !.pull = TRUE]
         ELSE OnStop(s)
    [] s.phase = "receive" /\ s.n = 8 ->
         [s EXCEPT !.phase = "to_receive", !.first = FALSE, !.pull = TRUE,
                   !.ptr = IF ~s.first THEN After(@)
                            ELSE IF s.byte \in Registers THEN s.byte ELSE 0]
    [] s.phase = "to_receive" ->
         [s EXCEPT !.phase = "receive", !.n = 0, !.byte = 0, !.pull = FALSE]
    [] s.phase = "to_send" -> Sending(s, regs[s.ptr])
    [] s.phase = "send" ->
         IF s.n = 7 THEN [s EXCEPT !.phase = "master", !.pull = FALSE]
         ELSE [s EXCEPT !.n = @ + 1, !.pull = BitOf(s.byte, s.n + 1) = 0]
    [] s.phase = "master" ->
         IF s.n = 0 THEN [Sending(s, regs[After(s.ptr)]) EXCEPT !.ptr = After(@)]
         ELSE OnStop(s)
    [] OTHER -> s

Stores(s) == s.phase = "receive" /\ s.n = 8 /\ ~s.first

(* What the slave makes of the clock and data levels before and after.     *)
Sees(s, c, d, c2, d2) ==
  IF c2 < c THEN OnFall(s) ELSE IF c2 > c THEN OnRise(s, d2)
  ELSE IF c = 1 /\ d2 < d THEN OnStart(s)
  ELSE IF c = 1 /\ d2 > d THEN OnStop(s) ELSE s

-----------------------------------------------------------------------------
Level(b) == IF b THEN 1 ELSE 0
Scl(dir, data) == Level("scl" \in dir => "scl" \in data)
(* A pin driven high against the slave's low has either level.             *)
SdaLevels(dir, data, pull) ==
  IF "sda" \in dir
  THEN IF "sda" \notin data THEN {0} ELSE IF pull THEN {0, 1} ELSE {1}
  ELSE {Level(~pull)}

scl == Scl(direction, dataout)
(* The data register reads the pins, its writes go to the output latches.  *)
datain == {p \in {"sda"} : sda = 1} \union {p \in {"scl"} : scl = 1}

(* delay_loop is long: the slave has answered before the next access.  If  *)
(* both wires move in one access the slave sees either of them first.      *)
Drive(dir, data) ==
  LET c2 == Scl(dir, data) IN
  /\ direction' = dir /\ dataout' = data
  /\ \E d2 \in SdaLevels(dir, data, slave.pull) :
       /\ slave' \in IF c2 > scl /\ d2 # sda
                    THEN {Sees(Sees(slave, scl, sda, scl, d2), scl, d2, c2, d2),
                          Sees(Sees(slave, scl, sda, c2, sda), c2, sda, c2, d2)}
                    ELSE {Sees(slave, scl, sda, c2, d2)}
       /\ sda' \in IF slave'.pull = slave.pull THEN {d2}
                  ELSE SdaLevels(dir, data, slave'.pull)
       /\ stopped' = (stopped \/ (scl = 1 /\ c2 = 1 /\ d2 > sda))
  /\ regs' = IF c2 < scl /\ Stores(slave)
             THEN [regs EXCEPT ![slave.ptr] = slave.byte] ELSE regs

(* I2cReadByte begins with what the pins show in its unsigned char.        *)
unsigned_char(w) == w % 256

Access ==
  LET a == Head(script) IN
  /\ script # <<>> /\ script' = Tail(script)
  /\ CASE a.op = "set" -> Drive(direction, datain \union a.pins)
       [] a.op = "clear" -> Drive(direction, datain \ a.pins)
       [] a.op = "out" -> Drive(direction \union a.pins, dataout)
       [] a.op = "in" -> Drive(direction \ a.pins, dataout)
       [] OTHER -> UNCHANGED <<pins, slave, regs, stopped>>
  /\ read' = CASE a.op = "begin" -> scl + 2 * sda
               [] a.op = "sample" -> unsigned_char(2 * read + sda)
               [] OTHER -> read
  /\ buf' = IF a.op = "keep" THEN Append(buf, read) ELSE buf
  /\ acked' = IF a.op = "ack" THEN sda = 0 ELSE acked
  /\ UNCHANGED <<current, calls, memory>>

Call(c) ==
  /\ script = <<>> /\ calls < MaxCalls
  /\ script' = accesses(c)
  /\ buf' = <<>> /\ stopped' = FALSE
  /\ current' = c /\ calls' = calls + 1
  /\ memory' = IF c.op = "write" THEN [memory EXCEPT ![c.reg] = c.data] ELSE memory
  /\ UNCHANGED <<pins, slave, regs, read, acked>>

Init ==
  /\ direction = {} /\ dataout = {} /\ sda = 1
  /\ slave = Quiet
  /\ regs \in [Registers -> Contents] /\ memory = regs
  /\ script = I2cInit
  /\ read = 0 /\ buf = <<>> /\ current = tell("init") /\ calls = 0
  /\ stopped = FALSE /\ acked = TRUE

Next == Access \/ \E c \in Calls : Call(c)
Spec == Init /\ [][Next]_vars

-----------------------------------------------------------------------------
TypeOK ==
  /\ direction \subseteq SDA \union SCL /\ dataout \subseteq SDA \union SCL
  /\ sda \in {0, 1} /\ read \in 0..255
  /\ regs \in [Registers -> 0..255]
  /\ slave.byte \in 0..255 /\ slave.n \in 0..8

Returned == script = <<>>

(* A call that returned left in the slave what its arguments say, and in   *)
(* the other registers what was there: no bit lost, none seen twice.       *)
WritesLand == Returned => regs = memory

(* The bytes a call returns are the registers from the one it names on.    *)
ReadsAreTrue ==
  Returned /\ current.op \in {"read", "burst"} =>
    buf = [i \in 1..Len(buf) |-> memory[(current.reg + i - 1) % Cardinality(Registers)]]
          /\ Len(buf) = IF current.op = "read" THEN 1 ELSE current.count

(* gpio_i2c.c:107-109, of stop(): "Sending stop condition for the I2C.     *)
(* Stop condition is making SDA high when clock is high."                  *)
StopSent ==
  Returned /\ (current.op \in {"write", "read"} \/ (current.op = "burst" /\ current.last))
    => stopped

(* gpio_i2c.c:219, of ReadAckForWrite: "The code will be in while loop if  *)
(* the slave is not responding."                                           *)
WaitsForSlave == Returned /\ calls > 0 => acked
=============================================================================
