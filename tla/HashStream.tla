----------------------------- MODULE HashStream -----------------------------
(***************************************************************************)
(* One sha256_buff of the hash library (Hash/sha256.c; the same file is    *)
(* software/tests/mkt/sha256.c and the first part of Hash/hash.c).  The    *)
(* compression function sha256_calc_chunk is free: h is the sequence of    *)
(* chunks it was given.  A buffer is filled by any number of updates,      *)
(* finalized, read, and initialised again (class SHA256 of sha256.h).      *)
(***************************************************************************)
EXTENDS Integers, Sequences, SequencesExt

CONSTANTS
  Byte,
  MaxMessage,    \* bound: the length of the longest message
  Junk,          \* what a buffer on the stack may hold before its first use
  Pieces(_)      \* the data an update may bring to a message of a length

Chunk == [1..64 -> Byte]

ASSUME PiecesAssumption ==
  /\ 0..255 \subseteq Byte
  /\ MaxMessage \in Nat
  /\ Junk \subseteq Chunk
  /\ \A n \in 0..MaxMessage : \A data \in Pieces(n) :
       data \in Seq(Byte) /\ n + Len(data) <= MaxMessage

VARIABLES
  h, data_size, chunk_size,
  last_chunk,    \* whose byte i of the code is entry i + 1
  finalized      \* sha256_finalize was called: only sha256_init may follow

vars == <<h, data_size, chunk_size, last_chunk, finalized>>

(* After the first sha256_init, which leaves last_chunk as it finds it.    *)
Init ==
  /\ h = <<>> /\ data_size = 0 /\ chunk_size = 0
  /\ last_chunk \in Junk
  /\ finalized = FALSE

(* The callers start over only after a digest (SHA256::hash of sha256.h).  *)
sha256_init ==
  /\ finalized
  /\ h' = <<>> /\ data_size' = 0 /\ chunk_size' = 0
  /\ finalized' = FALSE
  /\ UNCHANGED last_chunk

(* Bytes of the update that complete the chunk held, if they do.           *)
completes_mutant(size) == size + chunk_size > 64
completes(size) == size + chunk_size >= 64
taken(size) == IF completes(size) THEN 64 - chunk_size ELSE 0

(* The chunk completed, then those that lie whole in the data.             *)
chunks_of(data) ==
  LET ptr == taken(Len(data)) IN
  IF ~completes(Len(data)) THEN <<>>
  ELSE <<SubSeq(last_chunk, 1, chunk_size) \o SubSeq(data, 1, ptr)>>
       \o [c \in 1..(Len(data) - ptr) \div 64 |->
             SubSeq(data, ptr + 64 * c - 63, ptr + 64 * c)]

sha256_update(data) ==
  LET size == Len(data)
      kept == IF completes(size) THEN 0 ELSE chunk_size
      rest == (size - taken(size)) % 64
  IN /\ ~finalized
     /\ data_size' = data_size + size
     /\ h' = h \o chunks_of(data)
     /\ last_chunk' = [i \in 1..64 |->
          IF i \in kept + 1..kept + rest THEN data[size - rest + i - kept]
          ELSE last_chunk[i]]
     /\ chunk_size' = kept + rest
     /\ UNCHANGED finalized

(* 0x80, then zeroes to the end of the chunk.                              *)
marked == [i \in 1..64 |->
  IF i <= chunk_size THEN last_chunk[i] ELSE IF i = chunk_size + 1 THEN 128 ELSE 0]

no_room_mutant == chunk_size + 1 > 57
no_room == chunk_size + 1 > 56

(* The length in bits, eight bytes of it, the last first: size >>= 8 after *)
(* each.  (Messages are shorter than 2^61 bytes.)                          *)
size_byte(i) ==
  LET size[k \in 0..7] == IF k = 0 THEN 8 * data_size ELSE size[k - 1] \div 256
  IN size[8 - i] % 256
with_size(chunk) == [i \in 1..64 |-> IF i > 56 THEN size_byte(i - 56) ELSE chunk[i]]

sha256_finalize ==
  /\ ~finalized
  /\ LET final == with_size(IF no_room THEN [i \in 1..64 |-> 0] ELSE marked)
     IN h' = h \o (IF no_room THEN <<marked, final>> ELSE <<final>>)
        /\ last_chunk' = final
  /\ chunk_size' = chunk_size + 1
  /\ finalized' = TRUE
  /\ UNCHANGED data_size

Next ==
  \/ sha256_init
  \/ \E data \in Pieces(data_size) : sha256_update(data)
  \/ sha256_finalize

Spec == Init /\ [][Next]_vars

-----------------------------------------------------------------------------
TypeOK ==
  /\ h \in Seq(Chunk) /\ data_size \in 0..MaxMessage /\ chunk_size \in 0..64
  /\ last_chunk \in Chunk /\ finalized \in BOOLEAN

(* The bytes counted are the chunks compressed plus those held, and fewer  *)
(* than a chunk are held between calls: no memcpy of sha256_update and no  *)
(* 0x80 of sha256_finalize lands behind last_chunk.                        *)
Accounted == ~finalized =>
  chunk_size < 64 /\ data_size = 64 * Len(h) + chunk_size

IInv == TypeOK /\ Accounted

(* However a message is cut into updates, and whatever an earlier message  *)
(* left in last_chunk, what is compressed is the padded message.           *)
Digest == INSTANCE MessageDigest WITH
  message <- IF finalized THEN <<>>
             ELSE FlattenSeq(h) \o SubSeq(last_chunk, 1, chunk_size),
  digest <- IF finalized THEN h ELSE <<>>
DigestOfMessage == Digest!Spec
=============================================================================
