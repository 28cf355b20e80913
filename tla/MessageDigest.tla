--------------------------- MODULE MessageDigest ---------------------------
(***************************************************************************)
(* What the hash library promises: the digest of a message is the one of   *)
(* its padded blocks (FIPS 180-4, 5.1.1), however the message was cut into *)
(* updates.  The compression function is free: a digest is the sequence of *)
(* blocks it was computed from.                                            *)
(***************************************************************************)
EXTENDS Integers, Sequences

CONSTANT Pieces(_)    \* the data an update may bring to a message of a length

VARIABLES message, digest
vars == <<message, digest>>

zeros(n) == [i \in 1..n |-> 0]
big_endian(n) ==
  LET left[k \in 0..7] == IF k = 0 THEN n ELSE left[k - 1] \div 256
  IN [i \in 1..8 |-> left[8 - i] % 256]
padded(m) ==
  m \o <<128>> \o zeros((55 - Len(m)) % 64) \o big_endian(8 * Len(m))
blocks(m) == [b \in 1..Len(m) \div 64 |-> SubSeq(m, 64 * b - 63, 64 * b)]

Init == message = <<>> /\ digest = <<>>

Begin == message' = <<>> /\ digest' = <<>>

Extend == \E data \in Pieces(Len(message)) :
  /\ digest = <<>>
  /\ message' = message \o data
  /\ UNCHANGED digest

Finish ==
  /\ digest = <<>>
  /\ digest' = blocks(padded(message))
  /\ message' = <<>>

Next == Begin \/ Extend \/ Finish
Spec == Init /\ [][Next]_vars
=============================================================================
