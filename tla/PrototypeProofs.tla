-------------------------- MODULE PrototypeProofs --------------------------
(***************************************************************************)
(* What MCPrototypes checks, for bytes, pieces, blocks, depths and numbers *)
(* of blocks of every kind:                                                *)
(*   - HashStream: no copy of sha256_update or sha256_finalize leaves      *)
(*     last_chunk, and a buffer implements MessageDigest;                  *)
(*   - SparseTree: the tree kept is the whole tree over the values set;    *)
(*   - MerkleProto: what verifyElement refuses and accepts.                *)
(* The functions defined by recursion are shown to exist, and to keep what *)
(* is said of them, by SetInduction: induction over a set of naturals.     *)
(***************************************************************************)
EXTENDS MCPrototypes, SequenceTheorems, FiniteSetTheorems, WellFoundedInduction, TLAPS

(* A set of naturals that is not empty has a least element: the intervals  *)
(* below an element are well-founded under inclusion.                      *)
LEMMA LeastNat ==
  ASSUME NEW T, T \subseteq Nat, T # {}
  PROVE  \E m \in T : \A y \in T : m <= y
<1>1. PICK x \in T : TRUE
  OBVIOUS
<1>2. x \in Nat
  OBVIOUS
<1> DEFINE S == 0..x
           F == {0..m : m \in T \cap S}
<1>3. IsFiniteSet(S)
  BY <1>2, FS_Interval
<1>4. IsWellFoundedOn(StrictSubsetOrdering(S), SUBSET S)
  <2> HIDE DEF S
  <2> QED BY <1>3, FS_StrictSubsetOrderingWellFounded, FS_FiniteSubsetsOfFinite
<1>5. F \subseteq SUBSET S /\ F # {}
  BY <1>2
<1>6. PICK A \in F : \A B \in F : ~(<<B, A>> \in StrictSubsetOrdering(S))
  <2> HIDE DEF F, S
  <2> QED BY <1>4, <1>5, WFMin
<1>7. PICK m \in T \cap S : A = 0..m
  OBVIOUS
<1>8. ASSUME NEW y \in T, y < m PROVE FALSE
  <2>1. 0..y \in F /\ 0..y \subseteq 0..m /\ m \in 0..m /\ m \notin 0..y /\ 0..y # 0..m
    BY <1>8, <1>2
  <2>2. <<0..y, A>> \in StrictSubsetOrdering(S)
    BY <2>1, <1>7, <1>5 DEF StrictSubsetOrdering
  <2> QED BY <2>1, <2>2, <1>6
<1> QED BY <1>7, <1>8

(* Induction over the naturals, for a set.                                 *)
LEMMA SetInduction ==
  ASSUME NEW S, 0 \in S, \A n \in Nat : n \in S => n + 1 \in S
  PROVE  Nat \subseteq S
<1> SUFFICES ASSUME NEW x \in Nat, x \notin S PROVE FALSE
  OBVIOUS
<1>1. PICK m \in Nat \ S : \A y \in Nat \ S : m <= y
  BY LeastNat
<1>2. m # 0 /\ m - 1 \in Nat
  BY <1>1
<1>3. m - 1 \in S
  BY <1>1, <1>2
<1>4. (m - 1) + 1 \in S
  BY <1>2, <1>3
<1> QED BY <1>1, <1>4

(* A run of bytes is a chunk exactly if there are 64 of them.              *)
LEMMA ChunkIsSeq == ASSUME NEW s \in Seq(Byte), Len(s) = 64 PROVE s \in Chunk
BY LenProperties DEF Chunk

LEMMA Constants ==
  MaxMessage \in Nat /\ 0 \in Byte /\ 128 \in Byte /\ \A b \in 0..255 : b \in Byte
BY PiecesAssumption

LEMMA Counts ==
  ASSUME NEW s \in Nat, NEW c \in Nat, c < 64
  PROVE  /\ s + c >= 64 => /\ 64 - c \in 1..s
                           /\ (s - (64 - c)) \div 64 \in Nat
                           /\ (s - (64 - c)) % 64 \in 0..63
                           /\ s + c = 64 * (1 + ((s - (64 - c)) \div 64)) + ((s - (64 - c)) % 64)
                           /\ \A k \in 1..((s - (64 - c)) \div 64) : 64 * k <= s - (64 - c)
         /\ s + c < 64 => s % 64 = s
<1>1. ASSUME s + c >= 64
      PROVE  /\ 64 - c \in 1..s
             /\ (s - (64 - c)) \div 64 \in Nat
             /\ (s - (64 - c)) % 64 \in 0..63
             /\ s + c = 64 * (1 + ((s - (64 - c)) \div 64)) + ((s - (64 - c)) % 64)
             /\ \A k \in 1..((s - (64 - c)) \div 64) : 64 * k <= s - (64 - c)
  <2> DEFINE n == s - (64 - c)
  <2>1. n \in Nat /\ 64 - c \in 1..s  BY <1>1
  <2>2. n \div 64 \in Nat /\ n % 64 \in 0..63 /\ n = 64 * (n \div 64) + (n % 64)
    BY <2>1
  <2> HIDE DEF n
  <2>3. \A k \in 1..(n \div 64) : 64 * k <= n  BY <2>1, <2>2
  <2>4. s + c = 64 + n  BY <1>1 DEF n
  <2>5. s + c = 64 * (1 + (n \div 64)) + (n % 64)  BY <2>1, <2>2, <2>4
  <2> QED BY <2>1, <2>2, <2>3, <2>5 DEF n
<1> QED BY <1>1

(* The same, as an update divides its size: t bytes complete a chunk, m    *)
(* chunks are compressed, r bytes join the k that stay.                    *)
Kept(s, c) == IF s + c >= 64 THEN 0 ELSE c
Rest(s, c) == (s - (IF s + c >= 64 THEN 64 - c ELSE 0)) % 64
Whole(s, c) ==
  IF s + c >= 64 THEN 1 + ((s - (IF s + c >= 64 THEN 64 - c ELSE 0)) \div 64) ELSE 0

LEMMA Split ==
  ASSUME NEW s \in Nat, NEW c \in Nat, c < 64
  PROVE  /\ Kept(s, c) \in Nat /\ Whole(s, c) \in Nat /\ Rest(s, c) \in 0..s
         /\ Kept(s, c) + Rest(s, c) \in 0..63
         /\ s + c = 64 * Whole(s, c) + Kept(s, c) + Rest(s, c)
<1> DEFINE k == Kept(s, c)
           r == Rest(s, c)
           m == Whole(s, c)
<1>1. CASE s + c >= 64
  <2>1. k = 0 /\ m = 1 + ((s - (64 - c)) \div 64) /\ r = (s - (64 - c)) % 64
    BY <1>1 DEF Kept, Whole, Rest
  <2> HIDE DEF k, r, m
  <2>2. r \in 0..63 /\ m \in Nat \ {0} /\ s + c = 64 * m + r  BY <1>1, <2>1, Counts
  <2>3. r <= s  BY <2>2
  <2>4. /\ k \in Nat /\ m \in Nat /\ r \in 0..s
        /\ k + r \in 0..63 /\ s + c = 64 * m + k + r
    BY <2>1, <2>2, <2>3
  <2> QED BY <2>4 DEF k, r, m
<1>2. CASE s + c < 64
  <2>1. k = c /\ m = 0  BY <1>2 DEF Kept, Whole
  <2>2. r = s % 64  BY <1>2 DEF Rest
  <2> HIDE DEF k, r, m
  <2>3. r = s  BY <1>2, <2>2, Counts
  <2>4. /\ k \in Nat /\ m \in Nat /\ r \in 0..s
        /\ k + r \in 0..63 /\ s + c = 64 * m + k + r
    BY <1>2, <2>1, <2>3
  <2> QED BY <2>4 DEF k, r, m
<1> QED BY <1>1, <1>2

(* What an update compresses, when it completes a chunk.                   *)
LEMMA ChunksOf ==
  ASSUME TypeOK, chunk_size < 64, NEW data \in Seq(Byte)
  PROVE  /\ chunks_of(data) \in Seq(Chunk)
         /\ Len(chunks_of(data)) =
              IF completes(Len(data))
              THEN 1 + ((Len(data) - taken(Len(data))) \div 64) ELSE 0
<1> DEFINE ptr == 64 - chunk_size
           whole == (Len(data) - ptr) \div 64
           first == SubSeq(last_chunk, 1, chunk_size) \o SubSeq(data, 1, ptr)
           chunk(c) == SubSeq(data, ptr + 64 * c - 63, ptr + 64 * c)
           others == [c \in 1..whole |-> chunk(c)]
<1>1. chunk_size \in Nat /\ Len(data) \in Nat /\ data \in [1..Len(data) -> Byte]
  BY LenProperties DEF TypeOK
<1>2. CASE ~completes(Len(data))
  BY <1>2, EmptySeq DEF chunks_of
<1>3. CASE completes(Len(data))
  <2>1. /\ ptr \in 1..Len(data) /\ whole \in Nat
        /\ \A k \in 1..whole : 64 * k <= Len(data) - ptr
    BY <1>1, <1>3, Counts DEF completes
  <2>2. taken(Len(data)) = ptr  BY <1>3 DEF taken
  <2>3. chunks_of(data) = <<first>> \o others  BY <1>3, <2>2 DEF chunks_of
  <2>4. first \in Chunk
    <3> DEFINE held == SubSeq(last_chunk, 1, chunk_size)
               head == SubSeq(data, 1, ptr)
    <3>1. ASSUME NEW i \in 1..chunk_size PROVE last_chunk[i] \in Byte
      <4>1. last_chunk \in [1..64 -> Byte]  BY DEF TypeOK, Chunk
      <4>2. i \in 1..64  BY <1>1
      <4> QED BY <4>1, <4>2
    <3>2. held \in Seq(Byte) /\ Len(held) = chunk_size
      BY <1>1, <3>1, SubSeqProperties
    <3>3. \A i \in 1..ptr : data[i] \in Byte  BY <1>1, <2>1
    <3>4. ptr \in Nat /\ 1 <= ptr  BY <2>1, <1>1
    <3> HIDE DEF ptr
    <3>5. head \in Seq(Byte) /\ Len(head) = ptr
      BY <3>3, <3>4, SubSeqProperties
    <3> HIDE DEF held, head
    <3>6. held \o head \in Seq(Byte) /\ Len(held \o head) = chunk_size + ptr
      BY <3>2, <3>5, ConcatProperties
    <3>7. chunk_size + ptr = 64  BY <1>1 DEF ptr
    <3>8. held \o head \in Chunk  BY <3>6, <3>7, ChunkIsSeq
    <3> QED BY <3>8 DEF held, head
  <2>5. ASSUME NEW c \in 1..whole PROVE chunk(c) \in Chunk
    <3> DEFINE lo == ptr + 64 * c - 63
               hi == ptr + 64 * c
    <3>1. lo \in Int /\ hi \in Int /\ lo >= 1 /\ hi <= Len(data) /\ hi - lo + 1 = 64
      BY <1>1, <2>1
    <3> HIDE DEF lo, hi
    <3>2. \A i \in lo..hi : data[i] \in Byte  BY <1>1, <3>1
    <3>3. SubSeq(data, lo, hi) \in Seq(Byte) /\ Len(SubSeq(data, lo, hi)) = 64
      BY <3>1, <3>2, SubSeqProperties
    <3>4. SubSeq(data, lo, hi) \in Chunk  BY <3>3, ChunkIsSeq
    <3> QED BY <3>4 DEF lo, hi
  <2> HIDE DEF first, chunk, whole
  <2>6. others \in [1..whole -> Chunk]  BY <2>5
  <2>7. others \in Seq(Chunk) /\ Len(others) = whole
    <3>1. others \in Seq(Chunk)  BY <2>1, <2>6, SeqDef
    <3>2. DOMAIN others = 1..whole /\ DOMAIN others = 1..Len(others) /\ Len(others) \in Nat
      BY <3>1, LenProperties
    <3> QED BY <2>1, <3>1, <3>2
  <2>8. <<first>> \in Seq(Chunk) /\ Len(<<first>>) = 1  BY <2>4
  <2> HIDE DEF others
  <2>9. <<first>> \o others \in Seq(Chunk) /\ Len(<<first>> \o others) = 1 + whole
    BY <2>7, <2>8, ConcatProperties
  <2> QED BY <1>3, <2>2, <2>3, <2>9 DEF whole
<1> QED BY <1>2, <1>3

LEMMA InitIInv == Init => IInv
<1> SUFFICES ASSUME Init PROVE IInv  OBVIOUS
<1>1. last_chunk \in Chunk  BY PiecesAssumption DEF Init
<1>2. h \in Seq(Chunk) /\ Len(h) = 0  BY DEF Init
<1>3. MaxMessage \in Nat  BY Constants
<1>4. data_size = 0 /\ chunk_size = 0 /\ finalized = FALSE  BY DEF Init
<1>5. TypeOK
  <2>1. data_size \in 0..MaxMessage /\ chunk_size \in 0..64  BY <1>3, <1>4
  <2>2. finalized \in BOOLEAN  BY <1>4, Zenon
  <2> QED BY <1>1, <1>2, <2>1, <2>2 DEF TypeOK
<1>6. Accounted  BY <1>2, <1>4 DEF Accounted
<1> QED BY <1>5, <1>6 DEF IInv

LEMMA UpdateIInv ==
  ASSUME IInv, NEW data \in Pieces(data_size), sha256_update(data)
  PROVE  IInv'
<1> DEFINE size == Len(data)
           kept == IF completes(size) THEN 0 ELSE chunk_size
           rest == (size - taken(size)) % 64
<1>0. data_size \in 0..MaxMessage /\ data_size \in Nat /\ MaxMessage \in Nat
  BY Constants DEF IInv, TypeOK
<1>1. /\ data \in Seq(Byte) /\ data_size + size <= MaxMessage
      /\ data_size \in Nat /\ MaxMessage \in Nat
  BY <1>0, PiecesAssumption
<1>2. size \in Nat /\ data \in [1..size -> Byte]  BY <1>1, LenProperties
<1>3. ~finalized /\ chunk_size \in 0..63 /\ data_size = 64 * Len(h) + chunk_size
  BY DEF IInv, TypeOK, Accounted, sha256_update
<1>4. chunks_of(data) \in Seq(Chunk) /\ Len(chunks_of(data)) =
        IF completes(size) THEN 1 + ((size - taken(size)) \div 64) ELSE 0
  BY <1>1, <1>3, ChunksOf DEF IInv
<1>5. h' \in Seq(Chunk) /\ Len(h') = Len(h) + Len(chunks_of(data))
  BY <1>4, ConcatProperties DEF sha256_update, IInv, TypeOK
<1>6. /\ kept \in Nat /\ kept + rest \in 0..63 /\ rest \in 0..size
      /\ Len(chunks_of(data)) \in Nat
      /\ size + chunk_size = 64 * Len(chunks_of(data)) + kept + rest
  <2>1. /\ kept = Kept(size, chunk_size) /\ rest = Rest(size, chunk_size)
        /\ Len(chunks_of(data)) = Whole(size, chunk_size)
    BY <1>4 DEF Kept, Rest, Whole, taken, completes
  <2>2. chunk_size \in Nat /\ chunk_size < 64  BY <1>3
  <2> HIDE DEF size, kept, rest
  <2> QED BY <1>2, <2>1, <2>2, Split
<1>7. last_chunk' \in Chunk
  <2>1. last_chunk' = [i \in 1..64 |-> IF i \in kept + 1..kept + rest
                                       THEN data[size - rest + i - kept] ELSE last_chunk[i]]
    BY DEF sha256_update
  <2>2. kept \in Nat /\ rest \in Nat  BY <1>2, <1>6
  <2> HIDE DEF kept, rest
  <2>3. ASSUME NEW i \in kept + 1..kept + rest PROVE data[size - rest + i - kept] \in Byte
    <3>1. size - rest + i - kept \in 1..size  BY <1>2, <1>6, <2>2
    <3> QED BY <1>2, <3>1
  <2>4. last_chunk \in [1..64 -> Byte]  BY DEF IInv, TypeOK, Chunk
  <2> QED BY <2>1, <2>3, <2>4 DEF Chunk
<1>8. data_size' = data_size + size /\ chunk_size' = kept + rest /\ finalized' = finalized
  BY DEF sha256_update
<1> HIDE DEF kept, rest
<1>9. data_size' \in 0..MaxMessage /\ data_size' = 64 * Len(h') + chunk_size'
  <2> DEFINE m == Len(chunks_of(data))
             n == Len(h)
             n1 == Len(h')
  <2>1. n \in Nat  BY LenProperties DEF IInv, TypeOK
  <2>2. m \in Nat /\ size + chunk_size = 64 * m + kept + rest  BY <1>6
  <2>3. n1 = n + m /\ data_size = 64 * n + chunk_size  BY <1>3, <1>5
  <2>4. kept \in Nat /\ rest \in Nat  BY <1>2, <1>6
  <2> HIDE DEF size, m, n, n1
  <2>5. data_size' = 64 * n1 + chunk_size'
    BY <1>1, <1>2, <1>3, <1>8, <2>1, <2>2, <2>3, <2>4
  <2>6. data_size' \in 0..MaxMessage  BY <1>1, <1>2, <1>8
  <2> QED BY <2>5, <2>6 DEF n1
<1> QED BY <1>3, <1>5, <1>6, <1>7, <1>8, <1>9 DEF IInv, TypeOK, Accounted

(* The length, shifted by a byte at a time.                                *)
Shifting(n, f) == f = [k \in 0..7 |-> IF k = 0 THEN n ELSE f[k - 1] \div 256]
Shifts(n) == CHOOSE f : Shifting(n, f)

LEMMA ShiftsAreNat ==
  ASSUME NEW n \in Nat PROVE \A k \in 0..7 : Shifts(n)[k] \in Nat
<1> DEFINE at(f, k) == IF k = 0 THEN n ELSE f[k - 1] \div 256
           S == {m \in Nat : \E f : f = [k \in 0..m |-> at(f, k)]}
<1>1. 0 \in S
  <2> DEFINE f == [k \in 0..0 |-> n]
  <2>1. f = [k \in 0..0 |-> at(f, k)]  OBVIOUS
  <2> HIDE DEF f, at
  <2> QED BY <2>1
<1>2. ASSUME NEW m \in Nat, m \in S PROVE m + 1 \in S
  <2>1. PICK f : f = [k \in 0..m |-> at(f, k)]  BY <1>2
  <2> DEFINE g == [k \in 0..m + 1 |-> at(f, k)]
  <2>2. ASSUME NEW k \in 0..m + 1 PROVE g[k] = at(g, k)
    <3>1. CASE k = 0  BY <3>1
    <3>2. CASE k # 0
      <4>1. k - 1 \in 0..m /\ k - 1 \in 0..m + 1  BY <3>2
      <4>2. f[k - 1] = at(f, k - 1) /\ g[k - 1] = at(f, k - 1)  BY <2>1, <4>1
      <4>3. g[k] = at(f, k)  OBVIOUS
      <4> HIDE DEF g
      <4> QED BY <3>2, <4>2, <4>3
    <3> QED BY <3>1, <3>2
  <2>3. g = [k \in 0..m + 1 |-> g[k]]  OBVIOUS
  <2> HIDE DEF g, at
  <2>4. g = [k \in 0..m + 1 |-> at(g, k)]  BY <2>2, <2>3
  <2> QED BY <2>4
<1> HIDE DEF S
<1>3. 7 \in S  BY <1>1, <1>2, SetInduction
<1>4. Shifting(n, Shifts(n))  BY <1>3 DEF S, Shifts, Shifting
<1>5. \A k \in 0..7 : Shifts(n)[k] = at(Shifts(n), k)  BY <1>4 DEF Shifting
<1> DEFINE T == {k \in Nat : k \in 0..7 => Shifts(n)[k] \in Nat}
<1>6. 0 \in T  BY <1>5
<1>7. ASSUME NEW k \in Nat, k \in T PROVE k + 1 \in T
  <2> SUFFICES ASSUME k + 1 \in 0..7 PROVE Shifts(n)[k + 1] \in Nat
    OBVIOUS
  <2>1. k \in 0..7 /\ k + 1 # 0 /\ (k + 1) - 1 = k  OBVIOUS
  <2>2. Shifts(n)[k] \in Nat  BY <1>7, <2>1
  <2>3. Shifts(n)[k + 1] = Shifts(n)[k] \div 256  BY <1>5, <2>1
  <2> QED BY <2>2, <2>3
<1> HIDE DEF T
<1>8. Nat \subseteq T  BY <1>6, <1>7, SetInduction
<1> QED BY <1>8 DEF T

LEMMA SizeByte == \A i : size_byte(i) = Shifts(8 * data_size)[8 - i] % 256
BY DEF size_byte, Shifts, Shifting

(* The chunks finalize adds are chunks: the mark and the length fit.        *)
Final == with_size(IF no_room THEN [i \in 1..64 |-> 0] ELSE marked)

LEMMA FinalChunks == ASSUME IInv, sha256_finalize PROVE marked \in Chunk /\ Final \in Chunk
<1>1. chunk_size \in 0..63 /\ data_size \in Nat /\ last_chunk \in [1..64 -> Byte]
  BY Constants DEF IInv, TypeOK, Accounted, Chunk, sha256_finalize
<1>2. 0 \in Byte /\ 128 \in Byte  BY Constants
<1>3. marked \in Chunk  BY <1>1, <1>2 DEF marked, Chunk
<1>4. ASSUME NEW i \in 1..8 PROVE size_byte(i) \in Byte
  <2>1. 8 - i \in 0..7 /\ 8 * data_size \in Nat  BY <1>1
  <2>2. Shifts(8 * data_size)[8 - i] \in Nat  BY <2>1, ShiftsAreNat
  <2>3. \A x \in Nat : x % 256 \in 0..255  OBVIOUS
  <2>4. size_byte(i) = Shifts(8 * data_size)[8 - i] % 256  BY SizeByte
  <2> QED BY <2>2, <2>3, <2>4, Constants
<1>5. ASSUME NEW chunk \in Chunk PROVE with_size(chunk) \in Chunk
  <2>1. \A i \in 57..64 : i - 56 \in 1..8  OBVIOUS
  <2> QED BY <1>4, <2>1 DEF with_size, Chunk
<1>6. [i \in 1..64 |-> 0] \in Chunk  BY <1>2 DEF Chunk
<1> QED BY <1>3, <1>5, <1>6 DEF Final

LEMMA FinalizeIInv == ASSUME IInv, sha256_finalize PROVE IInv'
<1>1. chunk_size \in 0..63  BY DEF IInv, TypeOK, Accounted, sha256_finalize
<1>2. marked \in Chunk /\ Final \in Chunk  BY FinalChunks
<1>3. <<marked, Final>> \in Seq(Chunk) /\ <<Final>> \in Seq(Chunk)  BY <1>2
<1>4. h' = h \o (IF no_room THEN <<marked, Final>> ELSE <<Final>>) /\ last_chunk' = Final
  BY DEF sha256_finalize, Final
<1>5. h' \in Seq(Chunk)
  <2>1. h \in Seq(Chunk)  BY DEF IInv, TypeOK
  <2>2. CASE no_room  BY <1>3, <1>4, <2>1, <2>2, ConcatProperties
  <2>3. CASE ~no_room  BY <1>3, <1>4, <2>1, <2>3, ConcatProperties
  <2> QED BY <2>2, <2>3
<1> QED BY <1>1, <1>2, <1>4, <1>5 DEF IInv, TypeOK, Accounted, sha256_finalize

(* However messages are cut into updates: the bytes counted are those      *)
(* compressed and those held, and what is held never fills last_chunk.     *)
THEOREM Invariant == Spec => []IInv
<1>1. IInv /\ [Next]_vars => IInv'
  <2> SUFFICES ASSUME IInv, [Next]_vars PROVE IInv'  OBVIOUS
  <2>1. CASE sha256_init
    <3>1. h' \in Seq(Chunk) /\ Len(h') = 0  BY <2>1 DEF sha256_init
    <3>2. MaxMessage \in Nat  BY Constants
    <3>3. data_size' = 0 /\ chunk_size' = 0 /\ finalized' = FALSE /\ last_chunk' = last_chunk
      BY <2>1 DEF sha256_init
    <3>4. TypeOK'
      <4>1. data_size' \in 0..MaxMessage /\ chunk_size' \in 0..64  BY <3>2, <3>3
      <4>2. finalized' \in BOOLEAN  BY <3>3, Zenon
      <4> QED BY <3>1, <3>3, <4>1, <4>2 DEF TypeOK, IInv
    <3>5. Accounted'  BY <3>1, <3>3 DEF Accounted
    <3> QED BY <3>4, <3>5 DEF IInv
  <2>2. ASSUME NEW data \in Pieces(data_size), sha256_update(data) PROVE IInv'
    BY <2>2, UpdateIInv
  <2>3. CASE sha256_finalize  BY <2>3, FinalizeIInv
  <2>4. CASE UNCHANGED vars  BY <2>4 DEF vars, IInv, TypeOK, Accounted
  <2> QED BY <2>1, <2>2, <2>3, <2>4 DEF Next
<1> QED BY <1>1, InitIInv, PTL DEF Spec
-----------------------------------------------------------------------------

(* Chunks one behind the other: byte i of chunk b.                         *)
LEMMA Flattened ==
  ASSUME NEW H \in Seq(Chunk)
  PROVE  /\ FlattenSeq(H) \in Seq(Byte) /\ Len(FlattenSeq(H)) = 64 * Len(H)
         /\ \A b \in 1..Len(H) : \A i \in 1..64 : FlattenSeq(H)[64 * (b - 1) + i] = H[b][i]
<1> DEFINE N == Len(H)
           at(f, k) == IF k = 1 THEN H[k] ELSE f[k - 1] \o H[k]
           Good(s, k) ==
             /\ s \in Seq(Byte) /\ Len(s) = 64 * k
             /\ \A b \in 1..k : \A i \in 1..64 : s[64 * (b - 1) + i] = H[b][i]
           S == {k \in Nat : \E f : f = [j \in 1..k + 1 |-> at(f, j)]}
<1>0. N \in Nat /\ \A b \in 1..N : H[b] \in Seq(Byte) /\ Len(H[b]) = 64
  <2>1. N \in Nat /\ \A b \in 1..N : H[b] \in [1..64 -> Byte]
    BY ElementOfSeq, LenProperties DEF Chunk
  <2>2. ASSUME NEW s \in [1..64 -> Byte] PROVE s \in Seq(Byte) /\ Len(s) = 64
    <3>1. s \in Seq(Byte)  BY SeqDef
    <3> QED BY <3>1, LenProperties
  <2> QED BY <2>1, <2>2
<1>1. CASE N = 0
  <2>1. FlattenSeq(H) = H  BY <1>1 DEF FlattenSeq
  <2>2. H = <<>>  BY <1>1, EmptySeq
  <2> QED BY <1>1, <2>1, <2>2
<1>2. CASE N # 0
  <2>1. 0 \in S
    <3> DEFINE f == [j \in 1..1 |-> H[j]]
    <3>1. f = [j \in 1..0 + 1 |-> at(f, j)]  OBVIOUS
    <3> HIDE DEF f, at
    <3> QED BY <3>1
  <2>2. ASSUME NEW m \in Nat, m \in S PROVE m + 1 \in S
    <3>1. PICK f : f = [j \in 1..m + 1 |-> at(f, j)]  BY <2>2
    <3> DEFINE g == [j \in 1..(m + 1) + 1 |-> at(f, j)]
    <3>2. ASSUME NEW j \in 1..(m + 1) + 1 PROVE g[j] = at(g, j)
      <4>1. CASE j = 1  BY <4>1
      <4>2. CASE j # 1
        <5>1. j - 1 \in 1..m + 1 /\ j - 1 \in 1..(m + 1) + 1  BY <4>2
        <5>2. f[j - 1] = at(f, j - 1) /\ g[j - 1] = at(f, j - 1)  BY <3>1, <5>1
        <5>3. g[j] = at(f, j)  OBVIOUS
        <5> HIDE DEF g
        <5> QED BY <4>2, <5>2, <5>3
      <4> QED BY <4>1, <4>2
    <3>3. g = [j \in 1..(m + 1) + 1 |-> g[j]]  OBVIOUS
    <3> HIDE DEF g, at
    <3>4. g = [j \in 1..(m + 1) + 1 |-> at(g, j)]  BY <3>2, <3>3
    <3> QED BY <3>4
  <2> HIDE DEF S
  <2> DEFINE flat == CHOOSE f : f = [j \in 1..N |-> at(f, j)]
  <2>3. flat = [j \in 1..N |-> at(flat, j)]
    <3>1. N - 1 \in S /\ (N - 1) + 1 = N  BY <1>0, <1>2, <2>1, <2>2, SetInduction
    <3>2. \E f : f = [j \in 1..N |-> at(f, j)]  BY <3>1 DEF S
    <3> HIDE DEF at, N
    <3> QED BY <3>2
  <2>4. FlattenSeq(H) = flat[N]  BY <1>2 DEF FlattenSeq
  <2> HIDE DEF flat
  <2>5. \A j \in 1..N : flat[j] = at(flat, j)  BY <2>3
  <2> DEFINE T == {k \in Nat : k + 1 <= N => Good(flat[k + 1], k + 1)}
  <2>6. 0 \in T
    <3>1. 1 \in 1..N  BY <1>0, <1>2
    <3>2. flat[1] = H[1] /\ H[1] \in Seq(Byte) /\ Len(H[1]) = 64  BY <1>0, <2>5, <3>1
    <3>3. \A b \in 1..1 : \A i \in 1..64 : b = 1 /\ 64 * (b - 1) + i = i  OBVIOUS
    <3>4. \A b \in 1..1 : \A i \in 1..64 : flat[1][64 * (b - 1) + i] = H[b][i]
      BY <3>2, <3>3
    <3>5. 64 * 1 = 64 /\ 0 + 1 = 1  OBVIOUS
    <3>6. Good(flat[1], 1)  BY <3>2, <3>4, <3>5
    <3> HIDE DEF N, Good
    <3> QED BY <3>5, <3>6
  <2>7. ASSUME NEW k \in Nat, k \in T PROVE k + 1 \in T
    <3> SUFFICES ASSUME (k + 1) + 1 <= N PROVE Good(flat[(k + 1) + 1], (k + 1) + 1)
      OBVIOUS
    <3> DEFINE s == flat[k + 1]
               c == H[k + 2]
    <3>1. k + 1 <= N /\ k + 2 \in 1..N /\ k + 2 # 1 /\ (k + 2) - 1 = k + 1 /\ (k + 1) + 1 = k + 2
      BY <1>0
    <3>2. s \in Seq(Byte) /\ Len(s) = 64 * (k + 1)
          /\ \A b \in 1..k + 1 : \A i \in 1..64 : s[64 * (b - 1) + i] = H[b][i]
      BY <2>7, <3>1
    <3>3. flat[k + 2] = s \o c  BY <2>5, <3>1
    <3>4. c \in Seq(Byte) /\ Len(c) = 64  BY <1>0, <3>1
    <3> HIDE DEF s, c, T, N
    <3>5. /\ s \o c \in Seq(Byte) /\ Len(s \o c) = 64 * (k + 1) + 64
          /\ \A x \in 1..64 * (k + 1) + 64 :
               (s \o c)[x] = IF x <= 64 * (k + 1) THEN s[x] ELSE c[x - 64 * (k + 1)]
      <4>1. /\ s \o c \in Seq(Byte) /\ Len(s \o c) = Len(s) + Len(c)
            /\ \A x \in 1..Len(s) + Len(c) :
                 (s \o c)[x] = IF x <= Len(s) THEN s[x] ELSE c[x - Len(s)]
        <5>1. s \in Seq(Byte) /\ c \in Seq(Byte)  BY <3>2, <3>4
        <5> QED BY <5>1, ConcatProperties
      <4>2. Len(s) = 64 * (k + 1) /\ Len(c) = 64  BY <3>2, <3>4
      <4> QED BY <4>1, <4>2
    <3>6. ASSUME NEW b \in 1..k + 2, NEW i \in 1..64
          PROVE  (s \o c)[64 * (b - 1) + i] = H[b][i]
      <4> DEFINE x == 64 * (b - 1) + i
      <4>1. x \in 1..64 * (k + 1) + 64  OBVIOUS
      <4>2. CASE b = k + 2
        <5>1. ~(x <= 64 * (k + 1)) /\ x - 64 * (k + 1) = i  BY <4>2
        <5> HIDE DEF x
        <5>2. (s \o c)[x] = c[i]  BY <3>5, <4>1, <5>1
        <5> QED BY <4>2, <5>2 DEF c, x
      <4>3. CASE b # k + 2
        <5>1. b \in 1..k + 1 /\ x <= 64 * (k + 1)  BY <4>3
        <5>2. s[x] = H[b][i]  BY <3>2, <5>1
        <5> HIDE DEF x
        <5>3. (s \o c)[x] = s[x]  BY <3>5, <4>1, <5>1
        <5> QED BY <5>2, <5>3 DEF x
      <4> QED BY <4>2, <4>3
    <3>7. 64 * (k + 1) + 64 = 64 * (k + 2)  OBVIOUS
    <3>8. Good(flat[k + 2], k + 2)
      <4>1. flat[k + 2] \in Seq(Byte) /\ Len(flat[k + 2]) = 64 * (k + 2)  BY <3>3, <3>5, <3>7
      <4>2. \A b \in 1..k + 2 : \A i \in 1..64 : flat[k + 2][64 * (b - 1) + i] = H[b][i]
        BY <3>3, <3>6, Zenon
      <4> QED BY <4>1, <4>2
    <3> QED BY <3>1, <3>8
  <2> HIDE DEF T, Good
  <2>8. Good(flat[N], N)
    <3>1. N - 1 \in T  BY <1>0, <1>2, <2>6, <2>7, SetInduction
    <3>2. (N - 1) + 1 = N /\ N <= N  BY <1>0
    <3> QED BY <3>1, <3>2 DEF T
  <2> QED BY <2>4, <2>8 DEF Good
<1> QED BY <1>1, <1>2

(* The message a buffer stands for.                                        *)
Message(H, L, c) == FlattenSeq(H) \o SubSeq(L, 1, c)

LEMMA MessageIs ==
  ASSUME NEW H \in Seq(Chunk), NEW L \in Chunk, NEW c \in 0..63
  PROVE  /\ Message(H, L, c) \in Seq(Byte) /\ Len(Message(H, L, c)) = 64 * Len(H) + c
         /\ \A b \in 1..Len(H) : \A i \in 1..64 : Message(H, L, c)[64 * (b - 1) + i] = H[b][i]
         /\ \A i \in 1..c : Message(H, L, c)[64 * Len(H) + i] = L[i]
<1> DEFINE s == FlattenSeq(H)
           t == SubSeq(L, 1, c)
           N == Len(H)
<1>1. N \in Nat /\ c \in Nat /\ L \in [1..64 -> Byte]
  <2>1. N \in Nat  BY LenProperties
  <2>2. L \in [1..64 -> Byte]  BY DEF Chunk
  <2> QED BY <2>1, <2>2
<1>2. /\ s \in Seq(Byte) /\ Len(s) = 64 * N
      /\ \A b \in 1..N : \A i \in 1..64 : s[64 * (b - 1) + i] = H[b][i]
  BY Flattened
<1>3. t \in Seq(Byte) /\ Len(t) = c /\ \A i \in 1..c : t[i] = L[i]
  <2>1. \A i \in 1..c : L[i] \in Byte
    <3>1. \A i \in 1..c : i \in 1..64  OBVIOUS
    <3> QED BY <1>1, <3>1
  <2>2. /\ t \in Seq(Byte) /\ Len(t) = IF 1 <= c THEN c - 1 + 1 ELSE 0
        /\ \A i \in 1..c - 1 + 1 : t[i] = L[1 + i - 1]
    <3>1. 1 \in Int /\ c \in Int  BY <1>1
    <3> QED BY <2>1, <3>1, SubSeqProperties
  <2> HIDE DEF t
  <2>3. (IF 1 <= c THEN c - 1 + 1 ELSE 0) = c /\ c - 1 + 1 = c /\ \A i \in 1..c : 1 + i - 1 = i
    BY <1>1
  <2> QED BY <2>2, <2>3
<1> HIDE DEF s, t, N
<1>4. /\ s \o t \in Seq(Byte) /\ Len(s \o t) = 64 * N + c
      /\ \A x \in 1..64 * N + c : (s \o t)[x] = IF x <= 64 * N THEN s[x] ELSE t[x - 64 * N]
  BY <1>2, <1>3, ConcatProperties
<1>5. ASSUME NEW b \in 1..N, NEW i \in 1..64
      PROVE  (s \o t)[64 * (b - 1) + i] = H[b][i]
  <2>1. N \in Nat /\ c \in Nat  BY <1>1
  <2>2. b \in Nat /\ b >= 1 /\ b <= N  BY <2>1
  <2>3. i \in Nat /\ i >= 1 /\ i <= 64  OBVIOUS
  <2>4. 64 * (b - 1) + i \in 1..64 * N + c /\ 64 * (b - 1) + i <= 64 * N
    BY <2>1, <2>2, <2>3
  <2> QED BY <1>2, <1>4, <2>4
<1>6. ASSUME NEW i \in 1..c PROVE (s \o t)[64 * N + i] = L[i]
  <2>1. /\ 64 * N + i \in 1..64 * N + c /\ ~(64 * N + i <= 64 * N)
        /\ (64 * N + i) - 64 * N = i
    BY <1>1
  <2> QED BY <1>3, <1>4, <2>1
<1> QED BY <1>4, <1>5, <1>6 DEF s, t, N, Message

(* Every place among whole chunks is in one of them.                       *)
LEMMA PlaceInChunk ==
  ASSUME NEW N \in Nat, NEW x \in 1..64 * N
  PROVE  \E b \in 1..N : \E i \in 1..64 : x = 64 * (b - 1) + i
<1> DEFINE b == ((x - 1) \div 64) + 1
           i == ((x - 1) % 64) + 1
<1>1. x \in Nat /\ x >= 1 /\ x <= 64 * N  OBVIOUS
<1>2. i \in 1..64 /\ b \in Nat /\ x = 64 * (b - 1) + i  BY <1>1
<1> HIDE DEF b, i
<1>3. b \in 1..N  BY <1>1, <1>2
<1> QED BY <1>2, <1>3

(* The bytes of the chunks an update completes: those held, then the data. *)
LEMMA ChunkBytes ==
  ASSUME TypeOK, chunk_size < 64, NEW data \in Seq(Byte), completes(Len(data)),
         NEW k \in 1..Len(chunks_of(data)), NEW i \in 1..64
  PROVE  \A y : y = 64 * (k - 1) + i =>
           chunks_of(data)[k][i] =
             IF y <= chunk_size THEN last_chunk[y] ELSE data[y - chunk_size]
<1> SUFFICES ASSUME NEW y, y = 64 * (k - 1) + i
             PROVE  chunks_of(data)[k][i] =
                      IF y <= chunk_size THEN last_chunk[y] ELSE data[y - chunk_size]
  OBVIOUS
<1> DEFINE ptr == 64 - chunk_size
           whole == (Len(data) - ptr) \div 64
           held == SubSeq(last_chunk, 1, chunk_size)
           head == SubSeq(data, 1, ptr)
           others == [c \in 1..whole |-> SubSeq(data, ptr + 64 * c - 63, ptr + 64 * c)]
           list == chunks_of(data)
<1>1. chunk_size \in 0..63 /\ Len(data) \in Nat /\ data \in [1..Len(data) -> Byte]
      /\ last_chunk \in [1..64 -> Byte]
  <2>1. chunk_size \in 0..63  BY DEF TypeOK
  <2>2. Len(data) \in Nat /\ data \in [1..Len(data) -> Byte]  BY LenProperties
  <2> QED BY <2>1, <2>2 DEF TypeOK, Chunk
<1>2. /\ ptr \in 1..Len(data) /\ whole \in Nat
      /\ \A j \in 1..whole : 64 * j <= Len(data) - ptr
  <2>1. chunk_size \in Nat /\ chunk_size < 64 /\ Len(data) \in Nat /\ Len(data) + chunk_size >= 64
    BY <1>1 DEF completes
  <2> QED BY <2>1, Counts
<1>3. Len(list) = 1 + whole /\ list = <<held \o head>> \o others
  <2>1. taken(Len(data)) = ptr  BY DEF taken
  <2> QED BY <2>1, ChunksOf DEF chunks_of
<1>4. held \in Seq(Byte) /\ Len(held) = chunk_size /\ \A j \in 1..chunk_size : held[j] = last_chunk[j]
  <2>1. \A j \in 1..chunk_size : j \in 1..64  BY <1>1
  <2>2. \A j \in 1..chunk_size : last_chunk[j] \in Byte  BY <1>1, <2>1
  <2>3. 1 \in Int /\ chunk_size \in Int  BY <1>1
  <2>4. /\ held \in Seq(Byte) /\ Len(held) = IF 1 <= chunk_size THEN chunk_size - 1 + 1 ELSE 0
        /\ \A j \in 1..chunk_size - 1 + 1 : held[j] = last_chunk[1 + j - 1]
    BY <2>2, <2>3, SubSeqProperties
  <2> HIDE DEF held
  <2>5. /\ (IF 1 <= chunk_size THEN chunk_size - 1 + 1 ELSE 0) = chunk_size
        /\ chunk_size - 1 + 1 = chunk_size /\ \A j \in 1..chunk_size : 1 + j - 1 = j
    BY <1>1
  <2> QED BY <2>4, <2>5
<1>5. head \in Seq(Byte) /\ Len(head) = ptr /\ \A j \in 1..ptr : head[j] = data[j]
  <2>1. ptr \in Int /\ 1 \in Int /\ 1 <= ptr  BY <1>1, <1>2
  <2> HIDE DEF ptr
  <2>2. \A j \in 1..ptr : data[j] \in Byte
    <3>1. \A j \in 1..ptr : j \in 1..Len(data)  BY <1>1, <1>2
    <3> QED BY <1>1, <3>1
  <2>3. /\ head \in Seq(Byte) /\ Len(head) = IF 1 <= ptr THEN ptr - 1 + 1 ELSE 0
        /\ \A j \in 1..ptr - 1 + 1 : head[j] = data[1 + j - 1]
    BY <2>1, <2>2, SubSeqProperties
  <2> HIDE DEF head
  <2>4. (IF 1 <= ptr THEN ptr - 1 + 1 ELSE 0) = ptr /\ ptr - 1 + 1 = ptr
        /\ \A j \in 1..ptr : 1 + j - 1 = j
    BY <2>1
  <2> QED BY <2>3, <2>4
<1>6. CASE k = 1
  <2>1. list[1] = held \o head
    <3> HIDE DEF held, head
    <3>1. <<held \o head>> \in Seq({held \o head} \cup {others[c] : c \in 1..whole})
      OBVIOUS
    <3>2. others \in Seq({held \o head} \cup {others[c] : c \in 1..whole})
      <4> DEFINE R == {held \o head} \cup {others[c] : c \in 1..whole}
      <4>1. others \in [1..whole -> R]  OBVIOUS
      <4> HIDE DEF R, others
      <4>2. others \in Seq(R)  BY <1>2, <4>1, SeqDef
      <4> QED BY <4>2 DEF R
    <3> HIDE DEF others
    <3>3. Len(<<held \o head>>) = 1 /\ <<held \o head>>[1] = held \o head  OBVIOUS
    <3>4. Len(others) \in Nat  BY <3>2, LenProperties
    <3> HIDE DEF list
    <3>5. (<<held \o head>> \o others)[1] = <<held \o head>>[1]
      BY <3>1, <3>2, <3>3, <3>4, ConcatProperties
    <3> QED BY <1>3, <3>3, <3>5
  <2> HIDE DEF held, head, list
  <2>2. \A j \in 1..Len(held) + Len(head) :
          (held \o head)[j] = IF j <= Len(held) THEN held[j] ELSE head[j - Len(held)]
    <3>1. held \in Seq(Byte) /\ head \in Seq(Byte)  BY <1>4, <1>5
    <3> QED BY <3>1, ConcatProperties
  <2>3. Len(held) = chunk_size /\ Len(head) = ptr /\ Len(held) + Len(head) = 64
    BY <1>1, <1>4, <1>5
  <2>4. y = i  BY <1>6
  <2>5. list[k][i] = IF i <= chunk_size THEN held[i] ELSE head[i - chunk_size]
    BY <1>6, <2>1, <2>2, <2>3
  <2>6. i <= chunk_size => i \in 1..chunk_size  BY <1>1
  <2>7. ~(i <= chunk_size) => i - chunk_size \in 1..ptr  BY <1>1
  <2>8. list[k][i] = IF i <= chunk_size THEN last_chunk[i] ELSE data[i - chunk_size]
    BY <1>4, <1>5, <2>5, <2>6, <2>7
  <2> QED BY <2>4, <2>8 DEF list
<1>7. CASE k # 1
  <2> DEFINE c == k - 1
             lo == ptr + 64 * c - 63
             hi == ptr + 64 * c
  <2>1. c \in 1..whole  BY <1>2, <1>3, <1>7
  <2>2. list[k] = others[c]
    <3> HIDE DEF held, head
    <3> DEFINE R == {held \o head} \cup {others[d] : d \in 1..whole}
    <3>1. <<held \o head>> \in Seq(R) /\ Len(<<held \o head>>) = 1  OBVIOUS
    <3>2. others \in [1..whole -> R]  OBVIOUS
    <3> HIDE DEF R, others, whole
    <3>3. others \in Seq(R)  BY <1>2, <3>2, SeqDef
    <3>4. Len(others) = whole
      <4>1. DOMAIN others = 1..whole  BY <3>2
      <4> QED BY <1>2, <3>3, <4>1, LenProperties
    <3> HIDE DEF list
    <3>5. \A j \in 1..1 + whole :
            (<<held \o head>> \o others)[j] =
              IF j <= 1 THEN <<held \o head>>[j] ELSE others[j - 1]
      BY <3>1, <3>3, <3>4, ConcatProperties
    <3>6. k \in 1..1 + whole /\ ~(k <= 1)  BY <1>2, <1>7, <2>1
    <3> QED BY <1>3, <3>5, <3>6
  <2>3. others[c] = SubSeq(data, lo, hi)
    <3> HIDE DEF ptr, c, whole
    <3> QED BY <2>1
  <2>4. lo \in Int /\ hi \in Int /\ lo >= 1 /\ hi <= Len(data) /\ hi - lo + 1 = 64
        /\ lo + i - 1 = y - chunk_size /\ ~(y <= chunk_size)
    <3>1. 64 * c <= Len(data) - ptr  BY <1>2, <2>1
    <3>2. c \in Nat /\ c >= 1 /\ ptr \in Nat /\ ptr >= 1  BY <1>2, <2>1
    <3>3. c \in Nat /\ c >= 1 /\ i \in Nat /\ i >= 1 /\ chunk_size \in 0..63
          /\ Len(data) \in Nat
      <4>1. c \in Nat /\ c >= 1  BY <3>2
      <4>2. chunk_size \in 0..63 /\ Len(data) \in Nat  BY <1>1
      <4>3. i \in Nat /\ i >= 1  OBVIOUS
      <4> QED BY <4>1, <4>2, <4>3
    <3>8. y = 64 * c + i  OBVIOUS
    <3> HIDE DEF c
    <3>4. 64 * c + i > chunk_size  BY <3>3
    <3>5. lo + i - 1 = 64 * c + i - chunk_size /\ hi - lo + 1 = 64  BY <3>3
    <3>6. lo \in Int /\ hi \in Int /\ lo >= 1 /\ hi <= Len(data)  BY <3>1, <3>2, <3>3
    <3>7. ~(64 * c + i <= chunk_size)  BY <3>3, <3>4
    <3> HIDE DEF lo, hi
    <3> QED BY <3>3, <3>5, <3>6, <3>7, <3>8
  <2> HIDE DEF lo, hi, c, list, others
  <2>5. \A j \in lo..hi : data[j] \in Byte
    <3> DEFINE top == Len(data)
    <3>1. top \in Nat /\ lo \in Int /\ hi \in Int /\ lo >= 1 /\ hi <= top  BY <1>1, <2>4
    <3>2. data \in [1..top -> Byte]  BY <1>1
    <3> HIDE DEF top
    <3>3. \A j \in lo..hi : j \in 1..top  BY <3>1
    <3> QED BY <3>2, <3>3
  <2>6. \A j \in 1..hi - lo + 1 : SubSeq(data, lo, hi)[j] = data[lo + j - 1]
    <3>1. lo \in Int /\ hi \in Int  BY <2>4
    <3> QED BY <2>5, <3>1, SubSeqProperties
  <2>7. SubSeq(data, lo, hi)[i] = data[lo + i - 1]  BY <2>4, <2>6
  <2> QED BY <2>2, <2>3, <2>4, <2>7 DEF list
<1> QED BY <1>6, <1>7

(* An update puts its data behind the message.                             *)
LEMMA UpdateExtends ==
  ASSUME IInv, NEW data \in Pieces(data_size), sha256_update(data)
  PROVE  Message(h', last_chunk', chunk_size') = Message(h, last_chunk, chunk_size) \o data
<1> DEFINE s == Len(data)
           c == chunk_size
           n == Len(h)
           list == chunks_of(data)
           m == Len(list)
           kept == IF completes(s) THEN 0 ELSE c
           rest == (s - taken(s)) % 64
           M == Message(h, last_chunk, c)
           new == Message(h', last_chunk', chunk_size')
           both == M \o data
<1>1. /\ data \in Seq(Byte) /\ s \in Nat /\ c \in 0..63 /\ n \in Nat
      /\ h \in Seq(Chunk) /\ last_chunk \in Chunk
      /\ TypeOK /\ chunk_size < 64
  <2>1. data_size \in 0..MaxMessage /\ MaxMessage \in Nat  BY Constants DEF IInv, TypeOK
  <2>2. data \in Seq(Byte)  BY <2>1, PiecesAssumption
  <2>3. ~finalized  BY DEF sha256_update
  <2>4. c \in 0..63  BY <2>3 DEF IInv, TypeOK, Accounted
  <2> QED BY <2>2, <2>4, LenProperties DEF IInv, TypeOK
<1>2. /\ list \in Seq(Chunk)
      /\ m = IF completes(s) THEN 1 + ((s - taken(s)) \div 64) ELSE 0
  BY <1>1, ChunksOf
<1>3. IInv'  BY UpdateIInv
<1>4. /\ h' \in Seq(Chunk) /\ h' = h \o list /\ last_chunk' \in Chunk
      /\ chunk_size' = kept + rest
      /\ last_chunk' = [i \in 1..64 |-> IF i \in kept + 1..kept + rest
                                        THEN data[s - rest + i - kept] ELSE last_chunk[i]]
  BY <1>3 DEF sha256_update, IInv, TypeOK
<1>5. /\ kept \in Nat /\ m \in Nat /\ rest \in 0..s /\ kept + rest \in 0..63
      /\ s + c = 64 * m + kept + rest
  <2>1. kept = Kept(s, c) /\ rest = Rest(s, c) /\ m = Whole(s, c)
    BY <1>2 DEF Kept, Rest, Whole, taken, completes
  <2>2. c \in Nat /\ c < 64 /\ s \in Nat  BY <1>1
  <2> HIDE DEF s, c, kept, rest, m
  <2> QED BY <2>1, <2>2, Split
<1>6. completes(s) => kept = 0 /\ m >= 1
  <2>1. completes(s) => kept = 0  OBVIOUS
  <2>2. completes(s) <=> s + c >= 64  BY DEF completes
  <2> HIDE DEF s, c, kept, rest, m
  <2> QED BY <1>1, <1>5, <2>1, <2>2
<1>7. ~completes(s) => kept = c /\ m = 0 /\ rest = s
  <2>1. ~completes(s) => kept = c /\ m = 0  BY <1>2
  <2> HIDE DEF s, c, kept, rest, m
  <2> QED BY <1>1, <1>5, <2>1
<1>8. Len(h') = n + m /\ \A b \in 1..n + m : h'[b] = IF b <= n THEN h[b] ELSE list[b - n]
  <2>1. h \in Seq(Chunk) /\ list \in Seq(Chunk)  BY <1>1, <1>2
  <2> HIDE DEF list
  <2>2. /\ Len(h \o list) = Len(h) + Len(list)
        /\ \A b \in 1..Len(h) + Len(list) :
             (h \o list)[b] = IF b <= Len(h) THEN h[b] ELSE list[b - Len(h)]
    BY <2>1, ConcatProperties
  <2> QED BY <1>4, <2>2
<1>9. /\ M \in Seq(Byte) /\ Len(M) = 64 * n + c
      /\ \A b \in 1..n : \A i \in 1..64 : M[64 * (b - 1) + i] = h[b][i]
      /\ \A i \in 1..c : M[64 * n + i] = last_chunk[i]
  BY <1>1, MessageIs
<1>10. /\ new \in Seq(Byte) /\ Len(new) = 64 * (n + m) + (kept + rest)
       /\ \A b \in 1..n + m : \A i \in 1..64 : new[64 * (b - 1) + i] = h'[b][i]
       /\ \A i \in 1..kept + rest : new[64 * (n + m) + i] = last_chunk'[i]
  <2>1. chunk_size' \in 0..63  BY <1>4, <1>5
  <2> DEFINE H == h'
             L == last_chunk'
             e == chunk_size'
  <2>2. H \in Seq(Chunk) /\ L \in Chunk /\ e \in 0..63  BY <1>4, <2>1
  <2> HIDE DEF H, L, e
  <2>3. /\ Message(H, L, e) \in Seq(Byte) /\ Len(Message(H, L, e)) = 64 * Len(H) + e
        /\ \A b \in 1..Len(H) : \A i \in 1..64 : Message(H, L, e)[64 * (b - 1) + i] = H[b][i]
        /\ \A i \in 1..e : Message(H, L, e)[64 * Len(H) + i] = L[i]
    BY <2>2, MessageIs
  <2>4. new = Message(H, L, e)  BY DEF H, L, e
  <2>5. Len(H) = n + m  BY <1>8 DEF H
  <2>6. e = kept + rest  BY <1>4 DEF e
  <2> HIDE DEF new, kept, rest, n, m
  <2>7. /\ new \in Seq(Byte) /\ Len(new) = 64 * (n + m) + (kept + rest)
        /\ \A b \in 1..n + m : \A i \in 1..64 : new[64 * (b - 1) + i] = H[b][i]
        /\ \A i \in 1..kept + rest : new[64 * (n + m) + i] = L[i]
    BY <2>3, <2>4, <2>5, <2>6
  <2> QED BY <2>7 DEF H, L
<1>11. /\ both \in Seq(Byte) /\ Len(both) = (64 * n + c) + s
       /\ \A x \in 1..(64 * n + c) + s :
            both[x] = IF x <= 64 * n + c THEN M[x] ELSE data[x - (64 * n + c)]
  <2>1. M \in Seq(Byte) /\ data \in Seq(Byte)  BY <1>1, <1>9
  <2> HIDE DEF M
  <2>2. /\ both \in Seq(Byte) /\ Len(both) = Len(M) + Len(data)
        /\ \A x \in 1..Len(M) + Len(data) :
             both[x] = IF x <= Len(M) THEN M[x] ELSE data[x - Len(M)]
    BY <2>1, ConcatProperties
  <2>3. Len(M) = 64 * n + c  BY <1>9
  <2> HIDE DEF both, n, c
  <2> QED BY <2>2, <2>3
<1>12. ASSUME NEW k \in 1..m, NEW i \in 1..64
       PROVE  \A y : y = 64 * (k - 1) + i =>
                list[k][i] = IF y <= c THEN last_chunk[y] ELSE data[y - c]
  <2>1. completes(Len(data))
    <3> SUFFICES ASSUME ~completes(Len(data)) PROVE FALSE  OBVIOUS
    <3>1. m = 0  BY <1>7
    <3> HIDE DEF m
    <3> QED BY <3>1
  <2>2. k \in 1..Len(chunks_of(data))  OBVIOUS
  <2>3. TypeOK /\ chunk_size < 64 /\ data \in Seq(Byte)  BY <1>1
  <2> QED BY <2>1, <2>2, <2>3, ChunkBytes
<1>13. \A i \in 1..64 : last_chunk'[i] = IF i \in kept + 1..kept + rest
                                         THEN data[s - rest + i - kept] ELSE last_chunk[i]
  <2> HIDE DEF kept, rest, s
  <2> QED BY <1>4
<1>14. c \in Nat /\ rest \in Nat /\ s \in Nat /\ n \in Nat /\ m \in Nat /\ kept \in Nat
       /\ c <= 63 /\ rest <= s /\ kept + rest <= 63 /\ s + c = 64 * m + kept + rest
  <2> HIDE DEF c, s, n, m, kept, rest
  <2> QED BY <1>1, <1>5
<1> HIDE DEF M, new, both, n, m, c, s, kept, rest, list
<1>15. Len(new) = Len(both) /\ Len(new) = 64 * (n + m) + (kept + rest)
  BY <1>10, <1>11, <1>14
<1>16. ASSUME NEW x \in 1..64 * n PROVE new[x] = both[x]
  <2>1. PICK b \in 1..n, i \in 1..64 : x = 64 * (b - 1) + i  BY <1>14, PlaceInChunk
  <2>2. b \in 1..n + m /\ b <= n  BY <1>14
  <2>3. new[x] = h[b][i]  BY <1>8, <1>10, <2>1, <2>2
  <2>4. M[x] = h[b][i]  BY <1>9, <2>1
  <2>5. x \in 1..(64 * n + c) + s /\ x <= 64 * n + c  BY <1>14
  <2> QED BY <1>11, <2>3, <2>4, <2>5
<1>17. ASSUME NEW y \in 1..c + s
       PROVE  both[64 * n + y] = IF y <= c THEN last_chunk[y] ELSE data[y - c]
  <2>1. 64 * n + y \in 1..(64 * n + c) + s  BY <1>14
  <2>2. CASE y <= c
    <3>1. y \in 1..c /\ 64 * n + y <= 64 * n + c  BY <1>14, <2>2
    <3> QED BY <1>9, <1>11, <2>1, <2>2, <3>1
  <2>3. CASE ~(y <= c)
    <3>1. ~(64 * n + y <= 64 * n + c) /\ (64 * n + y) - (64 * n + c) = y - c
      BY <1>14, <2>3
    <3> QED BY <1>11, <2>1, <2>3, <3>1
  <2> QED BY <2>2, <2>3
<1>18. ASSUME NEW x \in 64 * n + 1..64 * (n + m) PROVE new[x] = both[x]
  <2> DEFINE y == x - 64 * n
  <2>1. y \in 1..64 * m /\ y \in 1..c + s /\ x = 64 * n + y  BY <1>14
  <2> HIDE DEF y
  <2>2. PICK k \in 1..m, i \in 1..64 : y = 64 * (k - 1) + i  BY <1>14, <2>1, PlaceInChunk
  <2>3. n + k \in 1..n + m /\ ~(n + k <= n) /\ (n + k) - n = k /\ x = 64 * ((n + k) - 1) + i
    BY <1>14, <2>1, <2>2
  <2>4. new[x] = h'[n + k][i]  BY <1>10, <2>3
  <2>5. h'[n + k] = list[k]
    <3>1. h'[n + k] = IF n + k <= n THEN h[n + k] ELSE list[(n + k) - n]  BY <1>8, <2>3
    <3>2. ~(n + k <= n)  BY <2>3
    <3>3. (n + k) - n = k  BY <2>3
    <3> QED BY <3>1, <3>2, <3>3, Zenon
  <2>6. list[k][i] = IF y <= c THEN last_chunk[y] ELSE data[y - c]
    <3>1. \A z : z = 64 * (k - 1) + i =>
            list[k][i] = IF z <= c THEN last_chunk[z] ELSE data[z - c]
      BY <1>12
    <3> HIDE DEF y
    <3> QED BY <2>2, <3>1, Zenon
  <2>7. both[x] = IF y <= c THEN last_chunk[y] ELSE data[y - c]  BY <1>17, <2>1
  <2> QED BY <2>4, <2>5, <2>6, <2>7
<1>19. ASSUME NEW i \in 1..kept + rest PROVE new[64 * (n + m) + i] = both[64 * (n + m) + i]
  <2> DEFINE y == 64 * m + i
  <2>1. y \in 1..c + s /\ 64 * (n + m) + i = 64 * n + y /\ i \in 1..64  BY <1>14
  <2>2. both[64 * n + y] = IF y <= c THEN last_chunk[y] ELSE data[y - c]  BY <1>17, <2>1
  <2>3. new[64 * n + y] = last_chunk'[i]  BY <1>10, <2>1
  <2>4. CASE completes(s)
    <3>1. kept = 0 /\ m >= 1  BY <1>6, <2>4
    <3>2. i \in kept + 1..kept + rest /\ s - rest + i - kept = y - c /\ ~(y <= c)
      BY <1>14, <3>1
    <3>3. last_chunk'[i] = data[s - rest + i - kept]  BY <1>13, <2>1, <3>2
    <3> HIDE DEF y
    <3> QED BY <2>1, <2>2, <2>3, <3>2, <3>3
  <2>5. CASE ~completes(s)
    <3>1. kept = c /\ m = 0 /\ rest = s  BY <1>7, <2>5
    <3>2. y = i  BY <3>1
    <3> HIDE DEF y
    <3>3. CASE i <= c
      <4>1. i \notin kept + 1..kept + rest  BY <1>14, <3>1, <3>3
      <4>2. last_chunk'[i] = last_chunk[i]  BY <1>13, <2>1, <4>1
      <4> QED BY <2>1, <2>2, <2>3, <3>2, <3>3, <4>2
    <3>4. CASE ~(i <= c)
      <4>1. i \in kept + 1..kept + rest /\ s - rest + i - kept = i - c
        BY <1>14, <3>1, <3>4
      <4>2. last_chunk'[i] = data[i - c]  BY <1>13, <2>1, <4>1
      <4> QED BY <2>1, <2>2, <2>3, <3>2, <3>4, <4>2
    <3> QED BY <3>3, <3>4
  <2> QED BY <2>4, <2>5
<1>20. ASSUME NEW x \in 1..Len(new) PROVE new[x] = both[x]
  <2> DEFINE L == Len(new)
  <2>1. L = 64 * (n + m) + (kept + rest)  BY <1>15
  <2> HIDE DEF L
  <2>2. x \in 1..L  BY DEF L
  <2>3. CASE x <= 64 * n
    <3>1. x \in 1..64 * n  BY <1>14, <2>1, <2>2, <2>3
    <3> QED BY <1>16, <3>1
  <2>4. CASE x > 64 * n /\ x <= 64 * (n + m)
    <3>1. x \in 64 * n + 1..64 * (n + m)  BY <1>14, <2>1, <2>2, <2>4
    <3> QED BY <1>18, <3>1
  <2>5. CASE x > 64 * (n + m)
    <3>1. x - 64 * (n + m) \in 1..kept + rest /\ x = 64 * (n + m) + (x - 64 * (n + m))
      BY <1>14, <2>1, <2>2, <2>5
    <3> QED BY <1>19, <3>1
  <2>6. x \in Int /\ n \in Int /\ m \in Int  BY <1>14, <2>1, <2>2
  <2> QED BY <2>3, <2>4, <2>5, <2>6
<1>21. new = both  BY <1>10, <1>11, <1>15, <1>20, SeqEqual
<1> QED BY <1>21 DEF new, both, M, c

(* The length, as the last eight bytes of a padded message.                *)
LEMMA BigEndian ==
  ASSUME NEW n \in Nat
  PROVE  /\ Digest!big_endian(n) \in Seq(Byte) /\ Len(Digest!big_endian(n)) = 8
         /\ \A i \in 1..8 : Digest!big_endian(n)[i] = Shifts(n)[8 - i] % 256
<1> DEFINE e == Digest!big_endian(n)
<1>1. e = [i \in 1..8 |-> Shifts(n)[8 - i] % 256]
  BY DEF Digest!big_endian, Shifts, Shifting
<1>2. ASSUME NEW i \in 1..8 PROVE Shifts(n)[8 - i] % 256 \in Byte
  <2>1. 8 - i \in 0..7  OBVIOUS
  <2>2. Shifts(n)[8 - i] \in Nat  BY <2>1, ShiftsAreNat
  <2>3. \A x \in Nat : x % 256 \in 0..255  OBVIOUS
  <2> QED BY <2>2, <2>3, Constants
<1> HIDE DEF e
<1>3. e \in [1..8 -> Byte]  BY <1>1, <1>2
<1>4. e \in Seq(Byte)  BY <1>3, SeqDef
<1>5. Len(e) = 8  BY <1>3, <1>4, LenProperties
<1> QED BY <1>1, <1>4, <1>5 DEF e

(* The zeroes between the mark and the length.                             *)
Gap(L) == (55 - L) % 64

LEMMA GapFills ==
  ASSUME NEW n \in Nat, NEW c \in 0..63
  PROVE  Gap(64 * n + c) = IF c > 55 THEN 119 - c ELSE 55 - c
<1>1. 55 - (64 * n + c) = 64 * (-n) + (55 - c) /\ 55 - (64 * n + c) = 64 * (-n - 1) + (119 - c)
  OBVIOUS
<1>2. \A k \in Int : \A r \in 0..63 : (64 * k + r) % 64 = r
  OBVIOUS
<1>3. CASE c > 55
  <2>1. 119 - c \in 0..63 /\ -n - 1 \in Int  BY <1>3
  <2>2. (64 * (-n - 1) + (119 - c)) % 64 = 119 - c  BY <1>2, <2>1
  <2> QED BY <1>1, <1>3, <2>2 DEF Gap
<1>4. CASE ~(c > 55)
  <2>1. 55 - c \in 0..63 /\ -n \in Int  BY <1>4
  <2>2. (64 * (-n) + (55 - c)) % 64 = 55 - c  BY <1>2, <2>1
  <2> QED BY <1>1, <1>4, <2>2 DEF Gap
<1> QED BY <1>3, <1>4

(* A padded message, byte for byte.                                        *)
PaddedAs(P, m, L, z) ==
  /\ P \in Seq(Byte) /\ Len(P) = L + 1 + z + 8
  /\ \A x \in 1..L : P[x] = m[x]
  /\ P[L + 1] = 128
  /\ \A x \in L + 2..L + 1 + z : P[x] = 0
  /\ \A i \in 1..8 : P[L + 1 + z + i] = Shifts(8 * L)[8 - i] % 256

LEMMA Padded ==
  ASSUME NEW m \in Seq(Byte)
  PROVE  \A L, z \in Nat : L = Len(m) /\ z = Gap(L) => PaddedAs(Digest!padded(m), m, L, z)
<1> SUFFICES ASSUME NEW L \in Nat, NEW z \in Nat, L = Len(m), z = Gap(L)
             PROVE  PaddedAs(Digest!padded(m), m, L, z)
  OBVIOUS
<1> DEFINE one == <<128>>
           zs == Digest!zeros(z)
           e == Digest!big_endian(8 * L)
           a == m \o one
           b == a \o zs
           P == Digest!padded(m)
<1>1. P = b \o e  BY DEF Digest!padded, Gap
<1>2. one \in Seq(Byte) /\ Len(one) = 1 /\ one[1] = 128
  <2>1. 128 \in Byte  BY Constants
  <2> QED BY <2>1
<1>3. zs \in Seq(Byte) /\ Len(zs) = z /\ \A i \in 1..z : zs[i] = 0
  <2>1. zs = [i \in 1..z |-> 0]  BY DEF Digest!zeros
  <2> HIDE DEF zs
  <2>2. zs \in [1..z -> Byte]  BY <2>1, Constants
  <2>3. zs \in Seq(Byte)  BY <2>2, SeqDef
  <2>4. Len(zs) = z  BY <2>2, <2>3, LenProperties
  <2> QED BY <2>1, <2>3, <2>4
<1>4. e \in Seq(Byte) /\ Len(e) = 8 /\ \A i \in 1..8 : e[i] = Shifts(8 * L)[8 - i] % 256
  <2>1. 8 * L \in Nat  OBVIOUS
  <2> QED BY <2>1, BigEndian
<1> HIDE DEF one, zs, e, P
<1>5. /\ a \in Seq(Byte) /\ Len(a) = L + 1
      /\ \A x \in 1..L + 1 : a[x] = IF x <= L THEN m[x] ELSE one[x - L]
  <2>1. m \in Seq(Byte) /\ one \in Seq(Byte)  BY <1>2
  <2>2. /\ m \o one \in Seq(Byte) /\ Len(m \o one) = Len(m) + Len(one)
        /\ \A x \in 1..Len(m) + Len(one) :
             (m \o one)[x] = IF x <= Len(m) THEN m[x] ELSE one[x - Len(m)]
    BY <2>1, ConcatProperties
  <2>3. Len(m) = L /\ Len(one) = 1  BY <1>2
  <2>4. L + 1 = L + 1  OBVIOUS
  <2> QED BY <2>2, <2>3, <2>4
<1> HIDE DEF a
<1>6. /\ b \in Seq(Byte) /\ Len(b) = L + 1 + z
      /\ \A x \in 1..L + 1 + z : b[x] = IF x <= L + 1 THEN a[x] ELSE zs[x - (L + 1)]
  <2>1. a \in Seq(Byte) /\ zs \in Seq(Byte)  BY <1>3, <1>5
  <2>2. /\ a \o zs \in Seq(Byte) /\ Len(a \o zs) = Len(a) + Len(zs)
        /\ \A x \in 1..Len(a) + Len(zs) :
             (a \o zs)[x] = IF x <= Len(a) THEN a[x] ELSE zs[x - Len(a)]
    BY <2>1, ConcatProperties
  <2>3. Len(a) = (L + 1) /\ Len(zs) = z  BY <1>3, <1>5
  <2> QED BY <2>2, <2>3
<1> HIDE DEF b
<1>7. /\ P \in Seq(Byte) /\ Len(P) = L + 1 + z + 8
      /\ \A x \in 1..L + 1 + z + 8 :
           P[x] = IF x <= L + 1 + z THEN b[x] ELSE e[x - (L + 1 + z)]
  <2>1. b \in Seq(Byte) /\ e \in Seq(Byte)  BY <1>4, <1>6
  <2>2. /\ b \o e \in Seq(Byte) /\ Len(b \o e) = Len(b) + Len(e)
        /\ \A x \in 1..Len(b) + Len(e) :
             (b \o e)[x] = IF x <= Len(b) THEN b[x] ELSE e[x - Len(b)]
    BY <2>1, ConcatProperties
  <2>3. Len(b) = (L + 1 + z) /\ Len(e) = 8  BY <1>4, <1>6
  <2>4. (L + 1 + z) + 8 = L + 1 + z + 8  OBVIOUS
  <2> QED BY <1>1, <2>2, <2>3, <2>4
<1>8. ASSUME NEW x \in 1..L PROVE P[x] = m[x]
  <2>1. x \in 1..L + 1 + z + 8 /\ x \in 1..L + 1 + z /\ x \in 1..L + 1
        /\ x <= L /\ x <= L + 1 /\ x <= L + 1 + z
    OBVIOUS
  <2> QED BY <1>5, <1>6, <1>7, <2>1
<1>9. P[L + 1] = 128
  <2>1. L + 1 \in 1..L + 1 + z + 8 /\ L + 1 \in 1..L + 1 + z /\ L + 1 \in 1..L + 1
        /\ ~(L + 1 <= L) /\ L + 1 <= L + 1 /\ L + 1 <= L + 1 + z /\ (L + 1) - L = 1
    OBVIOUS
  <2> QED BY <1>2, <1>5, <1>6, <1>7, <2>1
<1>10. ASSUME NEW x \in L + 2..L + 1 + z PROVE P[x] = 0
  <2>1. x \in 1..L + 1 + z + 8 /\ x \in 1..L + 1 + z
        /\ ~(x <= L + 1) /\ x <= L + 1 + z /\ x - (L + 1) \in 1..z
    OBVIOUS
  <2> QED BY <1>3, <1>6, <1>7, <2>1
<1>11. ASSUME NEW i \in 1..8 PROVE P[L + 1 + z + i] = Shifts(8 * L)[8 - i] % 256
  <2>1. L + 1 + z + i \in 1..L + 1 + z + 8 /\ ~(L + 1 + z + i <= L + 1 + z)
        /\ (L + 1 + z + i) - (L + 1 + z) = i
    OBVIOUS
  <2>2. P[L + 1 + z + i] = e[i]  BY <1>7, <2>1
  <2> QED BY <1>4, <2>2
<1> QED BY <1>7, <1>8, <1>9, <1>10, <1>11 DEF P, PaddedAs

(* What finalize compresses is the padded message, chunk for chunk.        *)
LEMMA FinishBytes ==
  ASSUME IInv, sha256_finalize
  PROVE  LET P == Digest!padded(Message(h, last_chunk, chunk_size)) IN
         /\ P \in Seq(Byte) /\ Len(P) = 64 * Len(h')
         /\ \A b \in 1..Len(h') : \A i \in 1..64 : h'[b][i] = P[64 * (b - 1) + i]
<1> DEFINE c == chunk_size
           n == Len(h)
           L == 64 * n + c
           z == IF c > 55 THEN 119 - c ELSE 55 - c
           M == Message(h, last_chunk, c)
           P == Digest!padded(M)
           tail == IF no_room THEN <<marked, Final>> ELSE <<Final>>
           size(i) == Shifts(8 * L)[8 - i] % 256
<1>1. h \in Seq(Chunk) /\ last_chunk \in Chunk /\ c \in 0..63 /\ n \in Nat /\ data_size = L
  <2>1. ~finalized  BY DEF sha256_finalize
  <2>2. h \in Seq(Chunk) /\ last_chunk \in Chunk /\ c \in 0..63 /\ data_size = L
    BY <2>1 DEF IInv, TypeOK, Accounted
  <2> QED BY <2>2, LenProperties
<1>2. /\ M \in Seq(Byte) /\ Len(M) = L
      /\ \A b \in 1..n : \A i \in 1..64 : M[64 * (b - 1) + i] = h[b][i]
      /\ \A i \in 1..c : M[64 * n + i] = last_chunk[i]
  BY <1>1, MessageIs
<1>3. L \in Nat /\ z \in Nat /\ z = Gap(L)
  <2>1. Gap(L) = z  BY <1>1, GapFills
  <2>2. c \in 0..63 /\ n \in Nat  BY <1>1
  <2> HIDE DEF c, n
  <2>3. L \in Nat /\ z \in Nat  BY <2>2
  <2> QED BY <2>1, <2>3
<1>4. /\ P \in Seq(Byte) /\ Len(P) = L + 1 + z + 8
      /\ \A x \in 1..L : P[x] = M[x]
      /\ P[L + 1] = 128
      /\ \A x \in L + 2..L + 1 + z : P[x] = 0
      /\ \A i \in 1..8 : P[L + 1 + z + i] = size(i)
  <2>1. M \in Seq(Byte) /\ Len(M) = L  BY <1>2
  <2> HIDE DEF M, L, z
  <2>2. PaddedAs(P, M, L, z)  BY <1>3, <2>1, Padded
  <2> QED BY <2>2 DEF PaddedAs
<1>5. no_room <=> c > 55  BY <1>1 DEF no_room
<1>6. h' = h \o tail  BY DEF sha256_finalize, Final
<1>7. \A i \in 1..64 : marked[i] = IF i <= c THEN last_chunk[i] ELSE IF i = c + 1 THEN 128 ELSE 0
  BY DEF marked
<1>8. \A i \in 57..64 : Final[i] = size(i - 56)
  <2>1. \A i \in 57..64 : Final[i] = size_byte(i - 56)  BY DEF Final, with_size
  <2>2. ASSUME NEW i \in 57..64 PROVE size_byte(i - 56) = size(i - 56)
    <3> DEFINE j == i - 56
    <3>1. size_byte(j) = Shifts(8 * data_size)[8 - j] % 256  BY SizeByte
    <3> HIDE DEF j, L
    <3>2. size_byte(j) = size(j)  BY <1>1, <3>1, Zenon
    <3> QED BY <3>2 DEF j
  <2> HIDE DEF size
  <2> QED BY <2>1, <2>2
<1>9. \A i \in 1..56 : Final[i] = IF no_room THEN 0 ELSE marked[i]
  BY DEF Final, with_size
<1>10. h \in Seq(Chunk) /\ tail \in Seq(Chunk) /\ Len(tail) = IF no_room THEN 2 ELSE 1
  <2>1. marked \in Chunk /\ Final \in Chunk  BY FinalChunks
  <2> QED BY <1>1, <2>1
<1>11. /\ Len(h') = n + Len(tail)
       /\ \A b \in 1..n + Len(tail) : h'[b] = IF b <= n THEN h[b] ELSE tail[b - n]
  <2> HIDE DEF tail
  <2> QED BY <1>6, <1>10, ConcatProperties
<1>12. no_room => tail[1] = marked /\ tail[2] = Final
  OBVIOUS
<1>13. ~no_room => tail[1] = Final
  OBVIOUS
<1> HIDE DEF M, P, L, z, tail, size, c, n
<1>14. /\ c \in Nat /\ c <= 63 /\ n \in Nat /\ L = 64 * n + c
       /\ z = IF c > 55 THEN 119 - c ELSE 55 - c
  BY <1>1 DEF L, z
<1>15. Len(P) = 64 * Len(h')
  <2>1. CASE no_room
    <3>1. z = 119 - c /\ Len(h') = n + 2  BY <1>5, <1>10, <1>11, <1>14, <2>1
    <3> QED BY <1>4, <1>14, <3>1
  <2>2. CASE ~no_room
    <3>1. z = 55 - c /\ Len(h') = n + 1  BY <1>5, <1>10, <1>11, <1>14, <2>2
    <3> QED BY <1>4, <1>14, <3>1
  <2> QED BY <2>1, <2>2
<1>16. ASSUME NEW i \in 1..64, no_room \/ i <= 56 PROVE marked[i] = P[64 * n + i]
  <2>1. CASE i <= c
    <3>1. i \in 1..c /\ 64 * n + i \in 1..L  BY <1>14, <2>1
    <3>2. P[64 * n + i] = last_chunk[i]  BY <1>2, <1>4, <3>1
    <3> QED BY <1>7, <2>1, <3>2
  <2>2. CASE i = c + 1
    <3>1. 64 * n + i = L + 1 /\ ~(i <= c)  BY <1>14, <2>2
    <3>2. P[64 * n + i] = 128  BY <1>4, <3>1
    <3> QED BY <1>7, <2>2, <3>1, <3>2
  <2>3. CASE i > c + 1
    <3>1. 64 * n + i \in L + 2..L + 1 + z /\ ~(i <= c) /\ i # c + 1
      <4>1. c > 55 \/ i <= 56  BY <1>5, <1>16
      <4> QED BY <1>14, <2>3, <4>1
    <3>2. P[64 * n + i] = 0  BY <1>4, <3>1
    <3> QED BY <1>7, <3>1, <3>2
  <2>4. i \in Nat /\ c \in Nat  BY <1>14
  <2> QED BY <2>1, <2>2, <2>3, <2>4
<1>17. ASSUME NEW i \in 1..64
       PROVE  Final[i] = P[(IF no_room THEN 64 * (n + 1) ELSE 64 * n) + i]
  <2> DEFINE at == IF no_room THEN 64 * (n + 1) ELSE 64 * n
  <2>1. CASE i > 56
    <3>1. i \in 57..64 /\ i - 56 \in 1..8  BY <2>1
    <3>2. L + 1 + z + (i - 56) = at + i
      <4>1. no_room => L + 1 + z + (i - 56) = 64 * (n + 1) + i  BY <1>5, <1>14
      <4>2. ~no_room => L + 1 + z + (i - 56) = 64 * n + i  BY <1>5, <1>14
      <4> QED BY <4>1, <4>2
    <3>3. P[L + 1 + z + (i - 56)] = size(i - 56)  BY <1>4, <3>1
    <3> HIDE DEF at
    <3>4. P[at + i] = size(i - 56)  BY <3>2, <3>3
    <3>5. Final[i] = size(i - 56)  BY <1>8, <3>1
    <3> QED BY <3>4, <3>5 DEF at
  <2>2. CASE ~(i > 56) /\ no_room
    <3>1. i \in 1..56 /\ 64 * (n + 1) + i \in L + 2..L + 1 + z
      <4>1. c > 55  BY <1>5, <2>2
      <4> QED BY <1>14, <2>2, <4>1
    <3>2. P[64 * (n + 1) + i] = 0  BY <1>4, <3>1
    <3> QED BY <1>9, <2>2, <3>1, <3>2
  <2>3. CASE ~(i > 56) /\ ~no_room
    <3>1. i \in 1..56 /\ i <= 56  BY <2>3
    <3>2. marked[i] = P[64 * n + i]  BY <1>16, <3>1
    <3> QED BY <1>9, <2>3, <3>1, <3>2
  <2> QED BY <2>1, <2>2, <2>3
<1>18. ASSUME NEW b \in 1..Len(h'), NEW i \in 1..64
       PROVE  h'[b][i] = P[64 * (b - 1) + i]
  <2>1. Len(tail) \in {1, 2} /\ b \in 1..n + Len(tail)  BY <1>10, <1>11
  <2>2. CASE b <= n
    <3>1. b \in 1..n /\ 64 * (b - 1) + i \in 1..L
      <4>1. n \in Nat /\ c \in Nat /\ b \in Nat /\ b >= 1 /\ b <= n  BY <1>14, <2>1, <2>2
      <4>2. i \in Nat /\ i >= 1 /\ i <= 64  OBVIOUS
      <4> QED BY <1>14, <4>1, <4>2
    <3>2. h'[b] = h[b]  BY <1>11, <2>1, <2>2
    <3>3. P[64 * (b - 1) + i] = M[64 * (b - 1) + i]  BY <1>4, <3>1
    <3> QED BY <1>2, <3>1, <3>2, <3>3
  <2>3. CASE b = n + 1 /\ no_room
    <3>1. ~(b <= n) /\ b - n = 1 /\ 64 * (b - 1) + i = 64 * n + i  BY <1>14, <2>3
    <3>2. h'[b] = marked  BY <1>11, <1>12, <2>1, <2>3, <3>1
    <3> QED BY <1>16, <2>3, <3>1, <3>2
  <2>4. CASE b = n + 2
    <3>1. no_room  BY <1>10, <1>14, <2>1, <2>4
    <3>2. ~(b <= n) /\ b - n = 2 /\ 64 * (b - 1) + i = 64 * (n + 1) + i  BY <1>14, <2>4
    <3>3. h'[b] = Final  BY <1>11, <1>12, <2>1, <3>1, <3>2
    <3> QED BY <1>17, <3>1, <3>2, <3>3
  <2>5. CASE b = n + 1 /\ ~no_room
    <3>1. ~(b <= n) /\ b - n = 1 /\ 64 * (b - 1) + i = 64 * n + i  BY <1>14, <2>5
    <3>2. h'[b] = Final  BY <1>11, <1>13, <2>1, <2>5, <3>1
    <3> QED BY <1>17, <2>5, <3>1, <3>2
  <2>6. b <= n \/ b = n + 1 \/ b = n + 2
    <3>1. CASE Len(tail) = 1  BY <1>14, <2>1, <3>1
    <3>2. CASE Len(tail) = 2  BY <1>14, <2>1, <3>2
    <3> QED BY <2>1, <3>1, <3>2
  <2> QED BY <2>2, <2>3, <2>4, <2>5, <2>6
<1>19. P \in Seq(Byte)  BY <1>4
<1> QED BY <1>15, <1>18, <1>19 DEF P, M, c

LEMMA ChunksAreSeqs == ASSUME NEW s \in Chunk PROVE s \in Seq(Byte) /\ Len(s) = 64
<1>1. ASSUME NEW t \in [1..64 -> Byte] PROVE t \in Seq(Byte) /\ Len(t) = 64
  <2>1. t \in Seq(Byte)  BY SeqDef
  <2> QED BY <2>1, LenProperties
<1> QED BY <1>1 DEF Chunk

LEMMA EmptyMessage ==
  ASSUME NEW L \in Chunk PROVE FlattenSeq(<<>>) \o SubSeq(L, 1, 0) = <<>>
<1> DEFINE H == <<>>
           c == 0
<1>1. H \in Seq(Chunk) /\ c \in 0..63  OBVIOUS
<1>4. Len(H) = 0 /\ c = 0  OBVIOUS
<1> HIDE DEF H, c
<1>2. Message(H, L, c) \in Seq(Byte) /\ Len(Message(H, L, c)) = 64 * Len(H) + c
  BY <1>1, MessageIs
<1>3. Message(H, L, c) = <<>>  BY <1>2, <1>4, EmptySeq
<1> QED BY <1>3 DEF Message, H, c

LEMMA FinishBlocks ==
  ASSUME IInv, sha256_finalize
  PROVE  h' = Digest!blocks(Digest!padded(Message(h, last_chunk, chunk_size)))
<1> DEFINE P == Digest!padded(Message(h, last_chunk, chunk_size))
           H == h'
           n == Len(H)
<1>1. /\ P \in Seq(Byte) /\ Len(P) = 64 * n
      /\ \A b \in 1..n : \A i \in 1..64 : H[b][i] = P[64 * (b - 1) + i]
  BY FinishBytes
<1>2. H \in Seq(Chunk)  BY FinalizeIInv DEF IInv, TypeOK
<1> HIDE DEF P, H
<1>3. n \in Nat /\ H = [b \in 1..n |-> H[b]] /\ \A b \in 1..n : H[b] \in Chunk
  BY <1>2, LenProperties
<1> HIDE DEF n
<1>4. ASSUME NEW b \in 1..n PROVE H[b] = SubSeq(P, 64 * b - 63, 64 * b)
  <2> DEFINE lo == 64 * b - 63
             hi == 64 * b
             s == SubSeq(P, lo, hi)
             t == H[b]
  <2>1. b \in Nat /\ b >= 1 /\ b <= n /\ n \in Nat  BY <1>3
  <2>2. lo \in Int /\ hi \in Int /\ 1 <= lo /\ lo <= hi /\ hi <= 64 * n /\ hi - lo + 1 = 64
        /\ \A i \in 1..64 : lo + i - 1 = 64 * (b - 1) + i
    BY <2>1
  <2>3. \A x \in 1..64 * n : P[x] \in Byte  BY <1>1, ElementOfSeq
  <2> HIDE DEF lo, hi
  <2>4. \A x \in lo..hi : P[x] \in Byte
    <3>1. \A x \in lo..hi : x \in 1..64 * n  BY <2>1, <2>2
    <3> QED BY <2>3, <3>1
  <2>5. s \in Seq(Byte) /\ Len(s) = 64 /\ \A i \in 1..64 : s[i] = P[lo + i - 1]
    <3>1. /\ s \in Seq(Byte) /\ Len(s) = IF lo <= hi THEN hi - lo + 1 ELSE 0
          /\ \A i \in 1..hi - lo + 1 : s[i] = P[lo + i - 1]
      BY <2>2, <2>4, SubSeqProperties
    <3> HIDE DEF s
    <3> QED BY <2>2, <3>1
  <2>6. t \in Seq(Byte) /\ Len(t) = 64
    BY <1>3, ChunksAreSeqs
  <2>7. \A i \in 1..64 : t[i] = P[64 * (b - 1) + i]  BY <1>1
  <2> HIDE DEF s, t
  <2>8. ASSUME NEW i \in 1..64 PROVE t[i] = s[i]
    <3>1. t[i] = P[64 * (b - 1) + i] /\ s[i] = P[lo + i - 1]  BY <2>5, <2>7
    <3>2. lo + i - 1 = 64 * (b - 1) + i  BY <2>2
    <3> QED BY <3>1, <3>2, Zenon
  <2>9. t = s
    <3>1. Len(t) = Len(s) /\ \A i \in 1..Len(t) : t[i] = s[i]  BY <2>5, <2>6, <2>8
    <3>2. t \in Seq(Byte) /\ s \in Seq(Byte)  BY <2>5, <2>6
    <3> QED BY <3>1, <3>2, SeqEqual
  <2> QED BY <2>9 DEF s, t, lo, hi
<1>5. Len(P) \div 64 = n  BY <1>1, <1>3
<1>6. Digest!blocks(P) = [b \in 1..n |-> SubSeq(P, 64 * b - 63, 64 * b)]
  BY <1>5 DEF Digest!blocks
<1>7. H = Digest!blocks(P)  BY <1>3, <1>4, <1>6
<1> QED BY <1>7 DEF H, P

(* However a message is cut into updates, and whatever last_chunk held     *)
(* before: what sha256_finalize leaves compressed are the blocks of the    *)
(* padded message, and sha256_init starts an empty one.                    *)
THEOREM DigestImplemented == Spec => DigestOfMessage
<1> DEFINE m == Message(h, last_chunk, chunk_size)
<1>1. Init => Digest!Init
  <2> SUFFICES ASSUME Init PROVE Digest!Init  OBVIOUS
  <2>1. h = <<>> /\ chunk_size = 0 /\ finalized = FALSE /\ last_chunk \in Chunk
    BY PiecesAssumption DEF Init
  <2>2. FlattenSeq(h) \o SubSeq(last_chunk, 1, chunk_size) = <<>>  BY <2>1, EmptyMessage
  <2> QED BY <2>1, <2>2 DEF Digest!Init
<1>2. IInv /\ [Next]_vars => [Digest!Next]_(Digest!vars)
  <2> SUFFICES ASSUME IInv, [Next]_vars PROVE [Digest!Next]_(Digest!vars)  OBVIOUS
  <2>1. CASE sha256_init
    <3>1. h' = <<>> /\ chunk_size' = 0 /\ finalized' = FALSE /\ last_chunk' = last_chunk
          /\ last_chunk \in Chunk
      BY <2>1 DEF sha256_init, IInv, TypeOK
    <3>2. FlattenSeq(h') \o SubSeq(last_chunk', 1, chunk_size') = <<>>
      BY <3>1, EmptyMessage
    <3>3. Digest!Begin  BY <3>1, <3>2 DEF Digest!Begin
    <3> QED BY <3>3 DEF Digest!Next
  <2>2. ASSUME NEW data \in Pieces(data_size), sha256_update(data)
        PROVE  [Digest!Next]_(Digest!vars)
    <3>1. ~finalized /\ ~finalized'  BY <2>2 DEF sha256_update
    <3>2. Len(m) = data_size
      <4>1. h \in Seq(Chunk) /\ last_chunk \in Chunk /\ chunk_size \in 0..63
            /\ data_size = 64 * Len(h) + chunk_size
        BY <3>1 DEF IInv, TypeOK, Accounted
      <4> QED BY <4>1, MessageIs
    <3>3. m' = m \o data  BY <2>2, UpdateExtends
    <3>4. Digest!Extend  BY <2>2, <3>1, <3>2, <3>3 DEF Digest!Extend, Message
    <3> QED BY <3>4 DEF Digest!Next
  <2>3. CASE sha256_finalize
    <3>1. ~finalized /\ finalized'  BY <2>3 DEF sha256_finalize
    <3>2. h' = Digest!blocks(Digest!padded(m))  BY <2>3, FinishBlocks
    <3>3. Digest!Finish  BY <3>1, <3>2 DEF Digest!Finish, Message
    <3> QED BY <3>3 DEF Digest!Next
  <2>4. CASE UNCHANGED vars
    <3>1. UNCHANGED Digest!vars  BY <2>4 DEF vars, Digest!vars
    <3> QED BY <3>1
  <2> QED BY <2>1, <2>2, <2>3, <2>4 DEF Next
<1> QED BY <1>1, <1>2, Invariant, PTL DEF Spec, DigestOfMessage, Digest!Spec

(* Prefixes of keys.                                                       *)
LEMMA Depth == depth \in Nat /\ MaxBlocks \in Nat \ {0}
BY TreeAssumptions DEF Built!BlocksAssumption, Sparse!DepthAssumption

LEMMA PrefixLength ==
  ASSUME NEW p \in Sparse!Prefix
  PROVE  /\ Len(p) \in 0..depth /\ p \in [1..Len(p) -> {0, 1}] /\ p \in Seq({0, 1})
         /\ DOMAIN p = 1..Len(p)
<1>1. PICK n \in 0..depth : p \in [1..n -> {0, 1}]  BY DEF Sparse!Prefix
<1>2. n \in Nat  BY Depth
<1>3. p \in Seq({0, 1})  BY <1>1, <1>2, SeqDef
<1>4. Len(p) = n  BY <1>1, <1>2, <1>3, LenProperties
<1> QED BY <1>1, <1>3, <1>4

LEMMA PrefixMade ==
  ASSUME NEW n \in 0..depth, NEW p \in [1..n -> {0, 1}]
  PROVE  p \in Sparse!Prefix /\ Len(p) = n
<1>1. n \in Nat  BY Depth
<1>2. p \in Seq({0, 1})  BY <1>1, SeqDef
<1> QED BY <1>1, <1>2, LenProperties DEF Sparse!Prefix

LEMMA PrefixLonger ==
  ASSUME NEW p \in Sparse!Prefix, Len(p) # depth, NEW b \in {0, 1}
  PROVE  /\ Append(p, b) \in Sparse!Prefix /\ Len(Append(p, b)) = Len(p) + 1
         /\ \A i \in 1..Len(p) : Append(p, b)[i] = p[i]
         /\ Append(p, b)[Len(p) + 1] = b
<1>1. Len(p) \in 0..depth /\ p \in Seq({0, 1})  BY PrefixLength
<1>2. Append(p, b) \in Seq({0, 1}) /\ Len(Append(p, b)) = Len(p) + 1
      /\ Append(p, b) \in [1..Len(p) + 1 -> {0, 1}]
  <2>1. Append(p, b) \in Seq({0, 1}) /\ Len(Append(p, b)) = Len(p) + 1
    BY <1>1, AppendProperties
  <2> QED BY <2>1, LenProperties
<1>3. Len(p) + 1 \in 0..depth  BY <1>1, Depth
<1>4. Append(p, b) \in Sparse!Prefix  BY <1>2, <1>3, PrefixMade
<1>5. (\A i \in 1..Len(p) : Append(p, b)[i] = p[i]) /\ Append(p, b)[Len(p) + 1] = b
  BY <1>1, AppendProperties
<1> QED BY <1>2, <1>4, <1>5

(* What the tree over some values is.                                      *)
IsWhole(vals, f) ==
  f = [p \in Sparse!Prefix |->
         IF Len(p) = depth THEN sha256(Sparse!text(vals[p]))
         ELSE sha256(Sparse!concat(f[Append(p, 0)], f[Append(p, 1)]))]
WholeTree(vals) == CHOOSE f : IsWhole(vals, f)

LEMMA WholeExists == ASSUME NEW vals PROVE \E f : IsWhole(vals, f)
<1> DEFINE From(n) == {p \in Sparse!Prefix : depth - Len(p) <= n}
           at(f, p) == IF Len(p) = depth THEN sha256(Sparse!text(vals[p]))
                       ELSE sha256(Sparse!concat(f[Append(p, 0)], f[Append(p, 1)]))
           S == {n \in Nat : \E f : f = [p \in From(n) |-> at(f, p)]}
<1>0. \A p \in Sparse!Prefix : Len(p) \in 0..depth /\ depth - Len(p) \in Nat
  BY PrefixLength, Depth
<1>1. 0 \in S
  <2> DEFINE f == [p \in From(0) |-> sha256(Sparse!text(vals[p]))]
  <2>1. ASSUME NEW p \in From(0) PROVE Len(p) = depth
    BY <1>0, Depth
  <2> HIDE DEF From
  <2>2. f = [p \in From(0) |-> at(f, p)]  BY <2>1
  <2> QED BY <2>2
<1>2. ASSUME NEW n \in Nat, n \in S PROVE n + 1 \in S
  <2>1. PICK f : f = [p \in From(n) |-> at(f, p)]  BY <1>2
  <2> DEFINE g == [p \in From(n + 1) |-> at(f, p)]
  <2>2. \A p \in From(n) : p \in From(n + 1)  BY <1>0
  <2>3. ASSUME NEW p \in From(n + 1), Len(p) # depth, NEW b \in {0, 1}
        PROVE  Append(p, b) \in From(n)
    BY <2>3, <1>0, PrefixLonger, Depth
  <2> HIDE DEF From
  <2>4. ASSUME NEW p \in From(n) PROVE g[p] = f[p]
    <3>1. f[p] = at(f, p)  BY <2>1
    <3>2. g[p] = at(f, p)  BY <2>2
    <3> QED BY <3>1, <3>2
  <2>5. ASSUME NEW p \in From(n + 1) PROVE at(f, p) = at(g, p)
    <3>1. CASE Len(p) = depth  BY <3>1
    <3>2. CASE Len(p) # depth
      <4>1. g[Append(p, 0)] = f[Append(p, 0)] /\ g[Append(p, 1)] = f[Append(p, 1)]
        BY <2>3, <2>4, <3>2
      <4> HIDE DEF g
      <4> QED BY <4>1
    <3> QED BY <3>1, <3>2
  <2>6. g = [p \in From(n + 1) |-> at(g, p)]
    <3>1. g = [p \in From(n + 1) |-> g[p]]  OBVIOUS
    <3>2. ASSUME NEW p \in From(n + 1) PROVE g[p] = at(g, p)
      <4>1. g[p] = at(f, p)  OBVIOUS
      <4> HIDE DEF g, at
      <4> QED BY <4>1, <2>5
    <3> HIDE DEF g, at
    <3> QED BY <3>1, <3>2
  <2> HIDE DEF g, at
  <2> QED BY <2>6
<1> HIDE DEF S
<1>3. depth \in S  BY <1>1, <1>2, SetInduction, Depth
<1>4. From(depth) = Sparse!Prefix  BY <1>0, Depth
<1> QED BY <1>3, <1>4 DEF S, IsWhole

LEMMA WholeAt ==
  ASSUME NEW vals, NEW p \in Sparse!Prefix
  PROVE  WholeTree(vals)[p] =
           IF Len(p) = depth THEN sha256(Sparse!text(vals[p]))
           ELSE sha256(Sparse!concat(WholeTree(vals)[Append(p, 0)], WholeTree(vals)[Append(p, 1)]))
<1>1. IsWhole(vals, WholeTree(vals))  BY WholeExists DEF WholeTree
<1> QED BY <1>1 DEF IsWhole

LEMMA WholeIs == Sparse!whole_tree = WholeTree(leaves)
BY DEF Sparse!whole_tree, WholeTree, IsWhole

(* The default hash of a level, from the one below it.                     *)
Defaults(n, f) ==
  f = [i \in 0..n |->
         IF i = 0 THEN sha256(Sparse!text(Padding))
         ELSE sha256(Sparse!concat(f[i - 1], f[i - 1]))]

LEMMA DefaultsExist == \E f : Defaults(depth, f)
<1> DEFINE S == {n \in Nat : \E f : Defaults(n, f)}
<1>1. 0 \in S
  <2> DEFINE f == [i \in 0..0 |-> sha256(Sparse!text(Padding))]
  <2>1. Defaults(0, f)  BY DEF Defaults
  <2> QED BY <2>1
<1>2. ASSUME NEW n \in Nat, n \in S PROVE n + 1 \in S
  <2>1. PICK f : Defaults(n, f)  BY <1>2
  <2> DEFINE at(k, i) == IF i = 0 THEN sha256(Sparse!text(Padding))
                         ELSE sha256(Sparse!concat(k[i - 1], k[i - 1]))
             g == [i \in 0..n + 1 |-> at(f, i)]
  <2>2. ASSUME NEW i \in 0..n + 1 PROVE g[i] = at(g, i)
    <3>1. CASE i = 0  BY <3>1
    <3>2. CASE i # 0
      <4>1. i - 1 \in 0..n /\ i - 1 \in 0..n + 1  BY <3>2
      <4>2. f[i - 1] = at(f, i - 1) /\ g[i - 1] = at(f, i - 1)
        BY <2>1, <4>1 DEF Defaults
      <4>3. g[i] = at(f, i)  OBVIOUS
      <4> HIDE DEF g
      <4> QED BY <3>2, <4>2, <4>3
    <3> QED BY <3>1, <3>2
  <2>3. g = [i \in 0..n + 1 |-> g[i]]  OBVIOUS
  <2> HIDE DEF g
  <2>4. Defaults(n + 1, g)  BY <2>2, <2>3 DEF Defaults
  <2> HIDE DEF at
  <2> QED BY <2>4
<1> HIDE DEF S
<1>3. depth \in S  BY <1>1, <1>2, SetInduction, Depth
<1> QED BY <1>3 DEF S

LEMMA DefaultAt ==
  /\ Sparse!defaultHashes[0] = sha256(Sparse!text(Padding))
  /\ \A i \in 1..depth : Sparse!defaultHashes[i] =
       sha256(Sparse!concat(Sparse!defaultHashes[i - 1], Sparse!defaultHashes[i - 1]))
<1> DEFINE d == CHOOSE f : Defaults(depth, f)
<1>1. Defaults(depth, d)  BY DefaultsExist
<1>2. Sparse!defaultHashes = d  BY DEF Sparse!defaultHashes, Defaults
<1> HIDE DEF d
<1>3. \A i \in 0..depth : d[i] = IF i = 0 THEN sha256(Sparse!text(Padding))
                                 ELSE sha256(Sparse!concat(d[i - 1], d[i - 1]))
  BY <1>1 DEF Defaults
<1>4. 0 \in 0..depth /\ \A i \in 1..depth : i \in 0..depth /\ i # 0  BY Depth
<1> QED BY <1>2, <1>3, <1>4

(* The keys below a prefix.                                                *)
Under(p) == {key \in Sparse!KeyBits : \A i \in 1..Len(p) : key[i] = p[i]}

LEMMA UnderLonger ==
  ASSUME NEW p \in Sparse!Prefix, Len(p) # depth, NEW b \in {0, 1}
  PROVE  Under(Append(p, b)) \subseteq Under(p)
<1>1. Len(p) \in Nat  BY PrefixLength, Depth
<1> QED BY <1>1, PrefixLonger DEF Under

LEMMA UnderLeaf ==
  ASSUME NEW p \in Sparse!Prefix, Len(p) = depth
  PROVE  p \in Under(p) /\ p \in Sparse!KeyBits
BY PrefixLength DEF Under, Sparse!KeyBits

(* The hash of a subtree says what the keys below it hold and no more.     *)
LEMMA SameBelow ==
  ASSUME NEW a, NEW b, NEW p \in Sparse!Prefix, \A key \in Under(p) : a[key] = b[key]
  PROVE  WholeTree(a)[p] = WholeTree(b)[p]
<1> DEFINE S == {n \in Nat : \A q \in Sparse!Prefix :
                   depth - Len(q) = n /\ (\A key \in Under(q) : a[key] = b[key])
                     => WholeTree(a)[q] = WholeTree(b)[q]}
<1>0. \A q \in Sparse!Prefix : Len(q) \in 0..depth /\ depth - Len(q) \in Nat
  BY PrefixLength, Depth
<1>1. 0 \in S
  <2> SUFFICES ASSUME NEW q \in Sparse!Prefix, depth - Len(q) = 0,
                      \A key \in Under(q) : a[key] = b[key]
               PROVE  WholeTree(a)[q] = WholeTree(b)[q]
    OBVIOUS
  <2>1. Len(q) = depth  BY <1>0, Depth
  <2>2. a[q] = b[q]  BY <2>1, UnderLeaf
  <2> QED BY <2>1, <2>2, WholeAt
<1>2. ASSUME NEW n \in Nat, n \in S PROVE n + 1 \in S
  <2> SUFFICES ASSUME NEW q \in Sparse!Prefix, depth - Len(q) = n + 1,
                      \A key \in Under(q) : a[key] = b[key]
               PROVE  WholeTree(a)[q] = WholeTree(b)[q]
    OBVIOUS
  <2>1. Len(q) # depth  BY <1>0, Depth
  <2>2. ASSUME NEW c \in {0, 1} PROVE WholeTree(a)[Append(q, c)] = WholeTree(b)[Append(q, c)]
    <3>1. /\ Append(q, c) \in Sparse!Prefix /\ depth - Len(Append(q, c)) = n
      BY <1>0, <2>1, PrefixLonger, Depth
    <3>2. \A key \in Under(Append(q, c)) : a[key] = b[key]  BY <2>1, UnderLonger
    <3> QED BY <1>2, <3>1, <3>2
  <2> QED BY <2>1, <2>2, WholeAt
<1> HIDE DEF S
<1>3. depth - Len(p) \in S  BY <1>0, <1>1, <1>2, SetInduction
<1> QED BY <1>3 DEF S

(* A subtree of empty leaves is the default of its level.                  *)
LEMMA EmptyBelow ==
  ASSUME NEW a, NEW p \in Sparse!Prefix, \A key \in Under(p) : a[key] = Padding
  PROVE  WholeTree(a)[p] = Sparse!defaultHashes[depth - Len(p)]
<1> DEFINE S == {n \in Nat : \A q \in Sparse!Prefix :
                   depth - Len(q) = n /\ (\A key \in Under(q) : a[key] = Padding)
                     => WholeTree(a)[q] = Sparse!defaultHashes[n]}
<1>0. \A q \in Sparse!Prefix : Len(q) \in 0..depth /\ depth - Len(q) \in 0..depth
  BY PrefixLength, Depth
<1>1. 0 \in S
  <2> SUFFICES ASSUME NEW q \in Sparse!Prefix, depth - Len(q) = 0,
                      \A key \in Under(q) : a[key] = Padding
               PROVE  WholeTree(a)[q] = Sparse!defaultHashes[0]
    OBVIOUS
  <2>1. Len(q) = depth  BY <1>0, Depth
  <2>2. a[q] = Padding  BY <2>1, UnderLeaf
  <2> QED BY <2>1, <2>2, WholeAt, DefaultAt
<1>2. ASSUME NEW n \in Nat, n \in S PROVE n + 1 \in S
  <2> SUFFICES ASSUME NEW q \in Sparse!Prefix, depth - Len(q) = n + 1,
                      \A key \in Under(q) : a[key] = Padding
               PROVE  WholeTree(a)[q] = Sparse!defaultHashes[n + 1]
    OBVIOUS
  <2>1. Len(q) # depth /\ n + 1 \in 1..depth /\ (n + 1) - 1 = n
    BY <1>0, Depth
  <2>2. ASSUME NEW c \in {0, 1} PROVE WholeTree(a)[Append(q, c)] = Sparse!defaultHashes[n]
    <3>1. /\ Append(q, c) \in Sparse!Prefix /\ depth - Len(Append(q, c)) = n
      BY <1>0, <2>1, PrefixLonger, Depth
    <3>2. \A key \in Under(Append(q, c)) : a[key] = Padding  BY <2>1, UnderLonger
    <3> QED BY <1>2, <3>1, <3>2
  <2>3. Sparse!defaultHashes[n + 1] =
          sha256(Sparse!concat(Sparse!defaultHashes[n], Sparse!defaultHashes[n]))
    BY <2>1, DefaultAt
  <2> QED BY <2>1, <2>2, <2>3, WholeAt
<1> HIDE DEF S
<1>3. depth - Len(p) \in Nat /\ depth - Len(p) \in S  BY <1>0, <1>1, <1>2, SetInduction
<1> QED BY <1>3 DEF S

LEMMA PrefixOf ==
  ASSUME NEW key \in Sparse!KeyBits, NEW level \in 0..depth
  PROVE  /\ Sparse!prefix(key, level) \in Sparse!Prefix
         /\ Len(Sparse!prefix(key, level)) = depth - level
         /\ \A i \in 1..depth - level : Sparse!prefix(key, level)[i] = key[i]
<1>1. depth \in Nat /\ level \in Nat /\ depth - level \in 0..depth  BY Depth
<1>2. key \in [1..depth -> {0, 1}] /\ \A i \in 1..depth - level : key[i] \in {0, 1}
  BY <1>1 DEF Sparse!KeyBits
<1>3. /\ SubSeq(key, 1, depth - level) \in Seq({0, 1})
      /\ Len(SubSeq(key, 1, depth - level)) = depth - level
      /\ \A i \in 1..depth - level : SubSeq(key, 1, depth - level)[i] = key[i]
  BY <1>1, <1>2, SubSeqProperties
<1>4. SubSeq(key, 1, depth - level) \in [1..depth - level -> {0, 1}]
  BY <1>3, LenProperties
<1> QED BY <1>1, <1>3, <1>4, PrefixMade DEF Sparse!prefix

LEMMA SamePrefix ==
  ASSUME NEW p \in Sparse!Prefix, NEW q \in Sparse!Prefix, Len(p) = Len(q),
         \A i \in 1..Len(p) : p[i] = q[i]
  PROVE  p = q
BY PrefixLength

LEMMA PrefixEnds ==
  ASSUME NEW key \in Sparse!KeyBits
  PROVE  /\ Sparse!prefix(key, 0) = key
         /\ Sparse!prefix(key, depth) = <<>>
         /\ key \in Sparse!Prefix /\ Len(key) = depth
<1>1. 0 \in 0..depth /\ depth \in 0..depth /\ depth - 0 = depth /\ depth - depth = 0
  BY Depth
<1>2. key \in Sparse!Prefix /\ Len(key) = depth  BY <1>1, PrefixMade DEF Sparse!KeyBits
<1>3. Sparse!prefix(key, 0) = key  BY <1>1, <1>2, PrefixOf, SamePrefix
<1>4. Sparse!prefix(key, depth) = <<>>
  <2>1. Sparse!prefix(key, depth) \in Seq({0, 1}) /\ Len(Sparse!prefix(key, depth)) = 0
    BY <1>1, PrefixOf, PrefixLength
  <2> QED BY <2>1, EmptySeq
<1> QED BY <1>2, <1>3, <1>4

(* A node of the path and its sibling are the children of the next one.    *)
LEMMA PathStep ==
  ASSUME NEW key \in Sparse!KeyBits, NEW level \in 1..depth
  PROVE  LET below == Sparse!prefix(key, level - 1)
             above == Sparse!prefix(key, level)
             bit == below[Len(below)]
         IN /\ bit \in {0, 1} /\ Len(above) # depth
            /\ below = Append(above, bit)
            /\ Sparse!flipped(below) = Append(above, 1 - bit)
            /\ Sparse!flipped(below) \in Sparse!Prefix
            /\ Len(Sparse!flipped(below)) = depth - (level - 1)
            /\ key \notin Under(Sparse!flipped(below))
<1> DEFINE below == Sparse!prefix(key, level - 1)
           above == Sparse!prefix(key, level)
           n == depth - level
           bit == below[n + 1]
<1>1. /\ depth \in Nat /\ level \in 0..depth /\ level - 1 \in 0..depth /\ n \in 0..depth
      /\ depth - (level - 1) = n + 1 /\ n # depth /\ n + 1 \in 0..depth
  BY Depth
<1>2. /\ below \in Sparse!Prefix /\ Len(below) = n + 1
      /\ \A i \in 1..n + 1 : below[i] = key[i]
  BY <1>1, PrefixOf
<1>3. /\ above \in Sparse!Prefix /\ Len(above) = n
      /\ \A i \in 1..n : above[i] = key[i]
  BY <1>1, PrefixOf
<1> HIDE DEF below, above, n
<1>4. n + 1 \in 1..n + 1 /\ below \in [1..n + 1 -> {0, 1}] /\ \A i \in 1..n : i \in 1..n + 1
  BY <1>1, <1>2, PrefixLength
<1>5. bit \in {0, 1} /\ 1 - bit \in {0, 1} /\ 1 - bit # bit  BY <1>4
<1> HIDE DEF bit
<1>6. \A b \in {0, 1} : /\ Append(above, b) \in Sparse!Prefix
                        /\ Len(Append(above, b)) = n + 1
                        /\ \A i \in 1..n : Append(above, b)[i] = above[i]
                        /\ Append(above, b)[n + 1] = b
  BY <1>1, <1>3, PrefixLonger
<1>7. below = Append(above, bit)
  <2>1. ASSUME NEW i \in 1..n + 1 PROVE below[i] = Append(above, bit)[i]
    <3>1. CASE i = n + 1  BY <3>1, <1>5, <1>6 DEF bit
    <3>2. CASE i # n + 1
      <4>1. i \in 1..n  BY <3>2, <1>1
      <4> QED BY <4>1, <1>2, <1>3, <1>4, <1>5, <1>6
    <3> QED BY <3>1, <3>2
  <2>2. Append(above, bit) \in Sparse!Prefix /\ Len(Append(above, bit)) = n + 1
    BY <1>5, <1>6
  <2>3. below \in Sparse!Prefix /\ Len(below) = n + 1  BY <1>2
  <2> QED BY <2>1, <2>2, <2>3, SamePrefix
<1>8. Sparse!flipped(below) \in [1..n + 1 -> {0, 1}]
      /\ (\A i \in 1..n : Sparse!flipped(below)[i] = below[i])
      /\ Sparse!flipped(below)[n + 1] = 1 - bit
  BY <1>1, <1>2, <1>4, <1>5 DEF Sparse!flipped, bit
<1>9. Sparse!flipped(below) \in Sparse!Prefix /\ Len(Sparse!flipped(below)) = n + 1
  BY <1>1, <1>8, PrefixMade
<1>10. Sparse!flipped(below) = Append(above, 1 - bit)
  <2>1. ASSUME NEW i \in 1..n + 1 PROVE Sparse!flipped(below)[i] = Append(above, 1 - bit)[i]
    <3>1. CASE i = n + 1  BY <3>1, <1>5, <1>6, <1>8
    <3>2. CASE i # n + 1
      <4>1. i \in 1..n  BY <3>2, <1>1
      <4> QED BY <4>1, <1>2, <1>3, <1>4, <1>5, <1>6, <1>8
    <3> QED BY <3>1, <3>2
  <2> QED BY <2>1, <1>5, <1>6, <1>9, SamePrefix
<1>11. key \notin Under(Sparse!flipped(below))
  <2>1. key[n + 1] = bit  BY <1>2, <1>4 DEF bit
  <2> QED BY <2>1, <1>4, <1>5, <1>8, <1>9 DEF Under
<1> QED BY <1>1, <1>2, <1>3, <1>5, <1>7, <1>9, <1>10, <1>11 DEF bit, below, above, n

(* A prefix that is not on the path of a key does not cover it.            *)
LEMMA OffPath ==
  ASSUME NEW key \in Sparse!KeyBits, NEW p \in Sparse!Prefix, key \in Under(p)
  PROVE  depth - Len(p) \in 0..depth /\ p = Sparse!prefix(key, depth - Len(p))
<1>1. Len(p) \in 0..depth /\ depth - Len(p) \in 0..depth /\ depth - (depth - Len(p)) = Len(p)
  BY PrefixLength, Depth
<1> QED BY <1>1, PrefixOf, SamePrefix DEF Under

(* What the two tables of the sparse tree add up to.                       *)
Adds(vals) == \A p \in Sparse!Prefix :
  WholeTree(vals)[p] = IF p \in DOMAIN nodes THEN nodes[p]
                   ELSE Sparse!defaultHashes[depth - Len(p)]

(* The hashes an update computes are those of the tree it makes: a sibling *)
(* of the path covers only keys that keep their values.                    *)
IsPath(key, new_value, c) ==
  c = [level \in 0..depth |->
         IF level = 0 THEN sha256(Sparse!text(new_value))
         ELSE LET below == Sparse!prefix(key, level - 1)
                  other == Sparse!sibling_hash(below, level - 1)
              IN IF below[Len(below)] = 0
                 THEN sha256(Sparse!concat(c[level - 1], other))
                 ELSE sha256(Sparse!concat(other, c[level - 1]))]

LEMMA PathAbove ==
  ASSUME Adds(leaves), NEW key \in Sparse!KeyBits, NEW new_value, NEW vals,
         vals[key] = new_value, \A k \in Sparse!KeyBits \ {key} : vals[k] = leaves[k],
         NEW level \in 1..depth
  PROVE  LET below == Sparse!prefix(key, level - 1)
             other == Sparse!sibling_hash(below, level - 1)
         IN WholeTree(vals)[Sparse!prefix(key, level)] =
              IF below[Len(below)] = 0
              THEN sha256(Sparse!concat(WholeTree(vals)[below], other))
              ELSE sha256(Sparse!concat(other, WholeTree(vals)[below]))
<1> DEFINE below == Sparse!prefix(key, level - 1)
           above == Sparse!prefix(key, level)
           bit == below[Len(below)]
           beside == Sparse!flipped(below)
           other == Sparse!sibling_hash(below, level - 1)
<1>1. /\ bit \in {0, 1} /\ Len(above) # depth
      /\ below = Append(above, bit) /\ beside = Append(above, 1 - bit)
      /\ beside \in Sparse!Prefix /\ Len(beside) = depth - (level - 1)
      /\ key \notin Under(beside)
  BY PathStep
<1>2. above \in Sparse!Prefix /\ level - 1 \in 0..depth /\ depth - (depth - (level - 1)) = level - 1
  BY Depth, PrefixOf
<1>3. other = IF beside \in DOMAIN nodes THEN nodes[beside] ELSE Sparse!defaultHashes[level - 1]
  BY DEF Sparse!sibling_hash
<1> HIDE DEF below, above, beside, other, bit
<1>4. WholeTree(vals)[beside] = other
  <2>1. \A k \in Under(beside) : vals[k] = leaves[k]  BY <1>1 DEF Under
  <2>2. WholeTree(vals)[beside] = WholeTree(leaves)[beside]  BY <1>1, <2>1, SameBelow
  <2> QED BY <2>2, <1>1, <1>2, <1>3 DEF Adds
<1>5. WholeTree(vals)[above] =
        sha256(Sparse!concat(WholeTree(vals)[Append(above, 0)], WholeTree(vals)[Append(above, 1)]))
  BY <1>1, <1>2, WholeAt
<1>6. CASE bit = 0
  <2>1. below = Append(above, 0) /\ beside = Append(above, 1)  BY <1>1, <1>6
  <2> QED BY <2>1, <1>4, <1>5, <1>6 DEF below, above, bit, other
<1>7. CASE bit = 1
  <2>1. below = Append(above, 1) /\ beside = Append(above, 0)  BY <1>1, <1>7
  <2> QED BY <2>1, <1>4, <1>5, <1>7 DEF below, above, bit, other
<1> QED BY <1>1, <1>6, <1>7

LEMMA PathIsWhole ==
  ASSUME Adds(leaves), NEW key \in Sparse!KeyBits, NEW new_value, NEW vals,
         vals[key] = new_value, \A k \in Sparse!KeyBits \ {key} : vals[k] = leaves[k]
  PROVE  \A level \in 0..depth :
           Sparse!path(key, new_value)[level] = WholeTree(vals)[Sparse!prefix(key, level)]
<1> DEFINE w == [level \in 0..depth |-> WholeTree(vals)[Sparse!prefix(key, level)]]
           c == CHOOSE f : IsPath(key, new_value, f)
           below(level) == Sparse!prefix(key, level - 1)
           other(level) == Sparse!sibling_hash(below(level), level - 1)
           at(f, level) ==
             IF level = 0 THEN sha256(Sparse!text(new_value))
             ELSE IF below(level)[Len(below(level))] = 0
                  THEN sha256(Sparse!concat(f[level - 1], other(level)))
                  ELSE sha256(Sparse!concat(other(level), f[level - 1]))
<1>1. ASSUME NEW level \in 0..depth PROVE w[level] = at(w, level)
  <2>1. CASE level = 0
    <3>1. w[level] = WholeTree(vals)[key]  BY <2>1, PrefixEnds
    <3>2. WholeTree(vals)[key] = sha256(Sparse!text(new_value))  BY PrefixEnds, WholeAt
    <3> QED BY <2>1, <3>1, <3>2
  <2>2. CASE level # 0
    <3>1. level \in 1..depth /\ level - 1 \in 0..depth  BY <2>2, Depth
    <3>2. w[level - 1] = WholeTree(vals)[below(level)]  BY <3>1
    <3>3. w[level] = WholeTree(vals)[Sparse!prefix(key, level)]  OBVIOUS
    <3> HIDE DEF w
    <3> QED BY <2>2, <3>1, <3>2, <3>3, PathAbove
  <2> QED BY <2>1, <2>2
<1>2. IsPath(key, new_value, w)
  <2>1. w = [level \in 0..depth |-> w[level]]  OBVIOUS
  <2> HIDE DEF w
  <2>2. w = [level \in 0..depth |-> at(w, level)]  
    <3> HIDE DEF at
    <3> QED BY <1>1, <2>1
  <2> QED BY <2>2 DEF IsPath
<1> HIDE DEF w
<1>3. IsPath(key, new_value, c)  BY <1>2
<1>4. Sparse!path(key, new_value) = c  BY DEF Sparse!path, IsPath
<1> HIDE DEF c
<1>5. \A level \in 0..depth : c[level] = at(c, level)  BY <1>3 DEF IsPath
<1> DEFINE S == {n \in Nat : n \in 0..depth => c[n] = w[n]}
<1>6. 0 \in S
  <2>1. 0 \in 0..depth  BY Depth
  <2> QED BY <2>1, <1>1, <1>5
<1>7. ASSUME NEW n \in Nat, n \in S PROVE n + 1 \in S
  <2> SUFFICES ASSUME n + 1 \in 0..depth PROVE c[n + 1] = w[n + 1]
    OBVIOUS
  <2>1. n \in 0..depth /\ n + 1 # 0 /\ (n + 1) - 1 = n  BY Depth
  <2>2. c[n] = w[n]  BY <1>7, <2>1
  <2>3. at(c, n + 1) = at(w, n + 1)  BY <2>1, <2>2
  <2> HIDE DEF at, S
  <2> QED BY <2>3, <1>1, <1>5
<1> HIDE DEF S
<1>8. Nat \subseteq S  BY <1>6, <1>7, SetInduction
<1>9. ASSUME NEW level \in 0..depth PROVE c[level] = w[level]
  BY <1>8, Depth DEF S
<1> QED BY <1>4, <1>9 DEF w

(* The invariant of the sparse tree: every node, stored or absent, is that *)
(* of the whole tree, and so is the root.                                  *)
SparseInv ==
  /\ leaves = [key \in Sparse!KeyBits |-> leaves[key]]
  /\ Adds(leaves)
  /\ root = WholeTree(leaves)[<<>>]

LEMMA SparseInit == Sparse!Init => SparseInv
<1> SUFFICES ASSUME Sparse!Init PROVE SparseInv  OBVIOUS
<1>1. /\ nodes = <<>> /\ root = Sparse!defaultHashes[depth]
      /\ leaves = [key \in Sparse!KeyBits |-> Padding]
  BY DEF Sparse!Init
<1>2. DOMAIN nodes = {}  BY <1>1
<1>3. \A p \in Sparse!Prefix : WholeTree(leaves)[p] = Sparse!defaultHashes[depth - Len(p)]
  <2> TAKE p \in Sparse!Prefix
  <2>1. \A key \in Under(p) : leaves[key] = Padding  BY <1>1 DEF Under
  <2> QED BY <2>1, EmptyBelow
<1>4. <<>> \in Sparse!Prefix /\ depth - Len(<<>>) = depth
  <2>1. 0 \in 0..depth /\ depth - 0 = depth  BY Depth
  <2>2. <<>> \in [1..0 -> {0, 1}] /\ Len(<<>>) = 0  OBVIOUS
  <2>3. <<>> \in Sparse!Prefix  BY <2>1, <2>2, PrefixMade
  <2> QED BY <2>1, <2>2, <2>3
<1> QED BY <1>1, <1>2, <1>3, <1>4 DEF SparseInv, Adds

LEMMA SparseUpdate ==
  ASSUME SparseInv, NEW keyBits \in Sparse!Prefix, NEW new_value,
         Sparse!update(keyBits, new_value)
  PROVE  SparseInv'
<1> DEFINE current == Sparse!path(keyBits, new_value)
           on_path == {Sparse!prefix(keyBits, level) : level \in 0..depth}
           vals == [leaves EXCEPT ![keyBits] = new_value]
<1>1. /\ Len(keyBits) = depth
      /\ nodes' = [p \in DOMAIN nodes \cup on_path |->
                     IF p \in on_path THEN current[depth - Len(p)] ELSE nodes[p]]
      /\ root' = current[depth]
      /\ leaves' = vals
  BY DEF Sparse!update
<1>2. keyBits \in Sparse!KeyBits  BY <1>1, UnderLeaf
<1>3. vals = [key \in Sparse!KeyBits |-> vals[key]] /\ vals[keyBits] = new_value
      /\ \A k \in Sparse!KeyBits \ {keyBits} : vals[k] = leaves[k]
  BY <1>2 DEF SparseInv
<1>4. \A level \in 0..depth : current[level] = WholeTree(vals)[Sparse!prefix(keyBits, level)]
  BY <1>2, <1>3, PathIsWhole DEF SparseInv
<1> HIDE DEF current, vals
<1>5. ASSUME NEW p \in Sparse!Prefix
      PROVE  WholeTree(vals)[p] = IF p \in DOMAIN nodes' THEN nodes'[p]
                              ELSE Sparse!defaultHashes[depth - Len(p)]
  <2>1. CASE p \in on_path
    <3>1. PICK level \in 0..depth : p = Sparse!prefix(keyBits, level)  BY <2>1
    <3>2. depth - Len(p) = level  BY <1>2, <3>1, PrefixOf, Depth
    <3>3. p \in DOMAIN nodes' /\ nodes'[p] = current[level]  BY <1>1, <2>1, <3>2
    <3> QED BY <1>4, <3>1, <3>3
  <2>2. CASE p \notin on_path
    <3>1. keyBits \notin Under(p)  BY <1>2, <2>2, OffPath
    <3>2. \A k \in Under(p) : vals[k] = leaves[k]  BY <1>3, <3>1 DEF Under
    <3>3. WholeTree(vals)[p] = WholeTree(leaves)[p]  BY <3>2, SameBelow
    <3> HIDE DEF on_path
    <3>4. /\ p \in DOMAIN nodes' <=> p \in DOMAIN nodes
          /\ p \in DOMAIN nodes => nodes'[p] = nodes[p]
      BY <1>1, <2>2
    <3> QED BY <3>3, <3>4 DEF SparseInv, Adds
  <2> QED BY <2>1, <2>2
<1>6. Adds(leaves)'  BY <1>1, <1>5 DEF Adds
<1>7. root' = WholeTree(vals)[<<>>]
  BY <1>1, <1>2, <1>4, PrefixEnds, Depth
<1>8. leaves' = [key \in Sparse!KeyBits |-> leaves'[key]]  BY <1>1, <1>3
<1>9. (root = WholeTree(leaves)[<<>>])'  BY <1>1, <1>7
<1> QED BY <1>6, <1>8, <1>9 DEF SparseInv

(* Whatever keys are set, again or never, in any order, whatever the depth *)
(* of the tree: the root, and every node stored or absent, is that of the  *)
(* tree in which every leaf is hashed.                                     *)
THEOREM SparseTreeIsWhole == MCSpec => []SparseIsWhole
<1>1. MCInit => SparseInv  BY SparseInit DEF MCInit
<1>2. SparseInv /\ [MCNext]_<<part, vars, builtVars, sparseVars>> => SparseInv'
  <2> SUFFICES ASSUME SparseInv, [MCNext]_<<part, vars, builtVars, sparseVars>>
               PROVE  SparseInv'
    OBVIOUS
  <2>1. ASSUME sparseVars' = sparseVars PROVE SparseInv'
    <3>1. nodes' = nodes /\ root' = root /\ leaves' = leaves  BY <2>1 DEF sparseVars
    <3>2. Adds(leaves)' <=> Adds(leaves)  BY <3>1 DEF Adds
    <3> QED BY <3>1, <3>2 DEF SparseInv
  <2>2. CASE StreamStep  BY <2>1, <2>2 DEF StreamStep
  <2>3. CASE BuiltStep  BY <2>1, <2>3 DEF BuiltStep
  <2>4. CASE SparseStep
    <3>1. PICK keyBits \in Sparse!Prefix :
            \/ Sparse!update_refused(keyBits)
            \/ \E new_value \in LeafValue : Sparse!update(keyBits, new_value)
      BY <2>4 DEF SparseStep, Sparse!Next
    <3>2. CASE Sparse!update_refused(keyBits)
      BY <2>1, <3>2 DEF Sparse!update_refused, Sparse!vars, sparseVars
    <3>3. CASE \E new_value \in LeafValue : Sparse!update(keyBits, new_value)
      BY <3>3, SparseUpdate
    <3> QED BY <3>1, <3>2, <3>3
  <2>5. CASE UNCHANGED <<part, vars, builtVars, sparseVars>>  BY <2>1, <2>5
  <2> QED BY <2>2, <2>3, <2>4, <2>5 DEF MCNext
<1>3. SparseInv => SparseIsWhole
  BY WholeIs DEF SparseInv, Adds, SparseIsWhole, Sparse!RootOfValues, Sparse!NodesOfValues
<1> QED BY <1>1, <1>2, <1>3, PTL DEF MCSpec

-----------------------------------------------------------------------------

(* Lists of anything, as the levels of the first tree are.                 *)
IsList(s) == \E n \in Nat : s = [i \in 1..n |-> s[i]]

LEMMA ListLength ==
  ASSUME NEW s, NEW n \in Nat, s = [i \in 1..n |-> s[i]]
  PROVE  IsList(s) /\ Len(s) = n
<1> DEFINE R == {s[i] : i \in 1..n}
<1>1. s \in [1..n -> R]  OBVIOUS
<1>2. s \in Seq(R)  BY <1>1, SeqDef
<1>3. Len(s) \in Nat /\ DOMAIN s = 1..Len(s) /\ DOMAIN s = 1..n
  BY <1>1, <1>2, LenProperties
<1> QED BY <1>3 DEF IsList

LEMMA ListProperties ==
  ASSUME NEW s, IsList(s)
  PROVE  /\ Len(s) \in Nat /\ DOMAIN s = 1..Len(s)
         /\ s = [i \in 1..Len(s) |-> s[i]]
         /\ s \in Seq({s[i] : i \in 1..Len(s)})
<1>1. PICK n \in Nat : s = [i \in 1..n |-> s[i]]  BY DEF IsList
<1>2. Len(s) = n  BY <1>1, ListLength
<1> DEFINE R == {s[i] : i \in 1..n}
<1>3. s \in [1..n -> R]  BY <1>1
<1>4. s \in Seq(R)  BY <1>3, SeqDef
<1> QED BY <1>1, <1>2, <1>4

LEMMA ListAppend ==
  ASSUME NEW s, IsList(s), NEW e
  PROVE  /\ IsList(Append(s, e)) /\ Len(Append(s, e)) = Len(s) + 1
         /\ \A i \in 1..Len(s) : Append(s, e)[i] = s[i]
         /\ Append(s, e)[Len(s) + 1] = e
<1> DEFINE R == {s[i] : i \in 1..Len(s)} \cup {e}
<1>1. Len(s) \in Nat /\ s = [i \in 1..Len(s) |-> s[i]]  BY ListProperties
<1>2. s \in [1..Len(s) -> R]  BY <1>1
<1>3. s \in Seq(R)  BY <1>1, <1>2, SeqDef
<1>4. e \in R  OBVIOUS
<1> HIDE DEF R
<1>5. /\ Append(s, e) \in Seq(R) /\ Len(Append(s, e)) = Len(s) + 1
      /\ \A i \in 1..Len(s) : Append(s, e)[i] = s[i]
      /\ Append(s, e)[Len(s) + 1] = e
  BY <1>3, <1>4, AppendProperties
<1>6. Append(s, e) \in [1..Len(s) + 1 -> R] /\ Len(s) + 1 \in Nat
  BY <1>1, <1>5, LenProperties
<1>7. Append(s, e) = [i \in 1..Len(s) + 1 |-> Append(s, e)[i]]  BY <1>6
<1> QED BY <1>5, <1>6, <1>7 DEF IsList

(* The nodes above a leaf.                                                 *)
LEMMA AncestorStep ==
  ASSUME NEW leaf
  PROVE  /\ Built!ancestor(leaf, 0) = leaf
         /\ \A n \in Nat : Built!ancestor(leaf, n + 1) = Built!parent(Built!ancestor(leaf, n))
<1> DEFINE at(f, k) == IF k = 0 THEN leaf ELSE Built!parent(f[k - 1])
           Up(n, f) == f = [k \in 0..n |-> at(f, k)]
           S == {n \in Nat : \E f : Up(n, f)}
<1>1. 0 \in S
  <2> DEFINE f == [k \in 0..0 |-> leaf]
  <2>1. Up(0, f)  OBVIOUS
  <2> HIDE DEF f, Up
  <2> QED BY <2>1
<1>2. ASSUME NEW n \in Nat, n \in S PROVE n + 1 \in S
  <2>1. PICK f : Up(n, f)  BY <1>2
  <2> DEFINE g == [k \in 0..n + 1 |-> at(f, k)]
  <2>2. ASSUME NEW k \in 0..n + 1 PROVE g[k] = at(g, k)
    <3>1. CASE k = 0  BY <3>1
    <3>2. CASE k # 0
      <4>1. k - 1 \in 0..n /\ k - 1 \in 0..n + 1  BY <3>2
      <4>2. f[k - 1] = at(f, k - 1) /\ g[k - 1] = at(f, k - 1)  BY <2>1, <4>1
      <4>3. g[k] = at(f, k)  OBVIOUS
      <4> HIDE DEF g
      <4> QED BY <3>2, <4>2, <4>3
    <3> QED BY <3>1, <3>2
  <2>3. g = [k \in 0..n + 1 |-> g[k]]  OBVIOUS
  <2> HIDE DEF g
  <2>4. Up(n + 1, g)
    <3> HIDE DEF at
    <3> QED BY <2>2, <2>3
  <2> HIDE DEF Up
  <2> QED BY <2>4
<1> HIDE DEF S
<1>3. Nat \subseteq S  BY <1>1, <1>2, SetInduction
<1> DEFINE up(n) == CHOOSE f : Up(n, f)
<1>4. ASSUME NEW n \in Nat PROVE Up(n, up(n))
  <2> HIDE DEF Up
  <2> QED BY <1>3 DEF S
<1>5. \A n : Built!ancestor(leaf, n) = up(n)[n]  BY DEF Built!ancestor
<1> HIDE DEF up
<1>6. ASSUME NEW n \in Nat, NEW k \in 0..n PROVE up(n)[k] = at(up(n), k)
  BY <1>4
<1> DEFINE T == {k \in Nat : \A n \in Nat : k <= n => up(n)[k] = up(k)[k]}
<1>7. 0 \in T  BY <1>6
<1>8. ASSUME NEW k \in Nat, k \in T PROVE k + 1 \in T
  <2> SUFFICES ASSUME NEW n \in Nat, k + 1 <= n PROVE up(n)[k + 1] = up(k + 1)[k + 1]
    OBVIOUS
  <2>1. /\ k + 1 \in 0..n /\ k + 1 \in 0..k + 1 /\ k + 1 \in Nat /\ k + 1 # 0
        /\ (k + 1) - 1 = k /\ k <= n /\ k <= k + 1
    OBVIOUS
  <2>2. up(n)[k] = up(k)[k] /\ up(k + 1)[k] = up(k)[k]  BY <1>8, <2>1
  <2> HIDE DEF T
  <2> QED BY <2>1, <2>2, <1>6
<1> HIDE DEF T
<1>9. Nat \subseteq T  BY <1>7, <1>8, SetInduction
<1>10. ASSUME NEW n \in Nat
       PROVE  Built!ancestor(leaf, n + 1) = Built!parent(Built!ancestor(leaf, n))
  <2>1. /\ n + 1 \in 0..n + 1 /\ n + 1 \in Nat /\ n + 1 # 0 /\ (n + 1) - 1 = n /\ n <= n + 1
    OBVIOUS
  <2>2. up(n + 1)[n] = up(n)[n]  BY <1>9, <2>1 DEF T
  <2> QED BY <2>1, <2>2, <1>5, <1>6
<1>11. Built!ancestor(leaf, 0) = leaf  BY <1>5, <1>6
<1> QED BY <1>10, <1>11

(* The hashes of two children, in the order of the build.                  *)
Joined(level, j) == sha256(Built!concat(level[2 * j - 1], level[2 * j]))
Turned(level, j) == sha256(Built!concat(level[2 * j], level[2 * j - 1]))

(* What any levels are, the last one apart: pairs, each with a node above. *)
Stacked(lv) ==
  /\ IsList(lv) /\ Len(lv) \in Nat \ {0}
  /\ \A l \in 1..Len(lv) : IsList(lv[l]) /\ Len(lv[l]) \in Nat \ {0}
  /\ \A l \in 1..Len(lv) - 1 :
       Len(lv[l]) % 2 = 0 /\ 2 * Len(lv[l + 1]) >= Len(lv[l])

LEMMA FilledUp ==
  ASSUME NEW level, IsList(level)
  PROVE  /\ IsList(Built!filled(level)) /\ Len(Built!filled(level)) % 2 = 0
         /\ Len(Built!filled(level)) \in Len(level)..Len(level) + 1
         /\ \A i \in 1..Len(level) : Built!filled(level)[i] = level[i]
<1>1. Len(level) \in Nat  BY ListProperties
<1>2. CASE Len(level) % 2 = 1
  <2>1. Built!filled(level) = Append(level, sha256(Built!text(Padding)))
    BY <1>2 DEF Built!filled
  <2>2. (Len(level) + 1) % 2 = 0  BY <1>1, <1>2
  <2> QED BY <1>1, <2>1, <2>2, ListAppend
<1>3. CASE Len(level) % 2 # 1
  <2>1. Built!filled(level) = level  BY <1>3 DEF Built!filled
  <2>2. Len(level) % 2 = 0  BY <1>1, <1>3
  <2> QED BY <1>1, <2>1, <2>2
<1> QED BY <1>2, <1>3

LEMMA ParentsOf ==
  ASSUME NEW level, IsList(level)
  PROVE  /\ IsList(Built!parents(level)) /\ Len(Built!parents(level)) = Len(level) \div 2
         /\ \A j \in 1..Len(level) \div 2 : Built!parents(level)[j] = Joined(level, j)
<1> DEFINE p == [i \in 1..Len(level) \div 2 |-> Joined(level, i)]
<1>1. Len(level) \div 2 \in Nat  BY ListProperties
<1>2. Built!parents(level) = p  BY DEF Built!parents, Joined
<1>3. p = [i \in 1..Len(level) \div 2 |-> p[i]]  OBVIOUS
<1>4. \A j \in 1..Len(level) \div 2 : p[j] = Joined(level, j)  OBVIOUS
<1> HIDE DEF p
<1> QED BY <1>1, <1>2, <1>3, <1>4, ListLength

(* The build after some of its turns: the last level has one node, or is   *)
(* shorter with every turn.                                                *)
Growing(data_block, lv, n) ==
  /\ Stacked(lv)
  /\ lv[1] = Built!filled([i \in DOMAIN data_block |-> sha256(Built!text(data_block[i]))])
  /\ \A l \in 1..Len(lv) - 1 : \A j \in 1..Len(lv[l]) \div 2 :
       lv[l + 1][j] = Joined(lv[l], j)
  /\ \/ Len(lv) >= 2 /\ Len(lv[Len(lv)]) = 1
     \/ /\ Len(lv[Len(lv)]) \in 2..MaxBlocks + 2 - n
        /\ Len(lv[Len(lv)]) % 2 = 0

(* One turn of the build.                                                  *)
Grown(below) ==
  LET top == below[Len(below)]
      next == Built!parents(top)
  IN IF Len(top) = 1 THEN below
     ELSE Append(below, IF Len(next) = 1 THEN next ELSE Built!filled(next))

LEMMA GrowingOn ==
  ASSUME NEW data_block, NEW lv, NEW n \in Nat \ {0}, Growing(data_block, lv, n)
  PROVE  Growing(data_block, Grown(lv), n + 1)
<1> DEFINE N == Len(lv)
           top == lv[N]
           next == Built!parents(top)
           new == IF Len(next) = 1 THEN next ELSE Built!filled(next)
           up == Append(lv, new)
<1>1. /\ IsList(lv) /\ N \in Nat \ {0} /\ N \in 1..N
      /\ \A l \in 1..N : IsList(lv[l]) /\ Len(lv[l]) \in Nat \ {0}
  BY DEF Growing, Stacked
<1>2. IsList(top) /\ Len(top) \in Nat \ {0}  BY <1>1
<1>3. CASE Len(top) = 1
  <2>1. Grown(lv) = lv  BY <1>3 DEF Grown
  <2>2. Len(lv[Len(lv)]) = 1 /\ Len(lv) >= 2  BY <1>3, Depth DEF Growing
  <2> QED BY <2>1, <2>2 DEF Growing
<1>4. CASE Len(top) # 1
  <2>1. Grown(lv) = up  BY <1>4 DEF Grown
  <2>2. Len(top) \in 2..MaxBlocks + 2 - n /\ Len(top) % 2 = 0  BY <1>4 DEF Growing
  <2>3. /\ IsList(next) /\ Len(next) = Len(top) \div 2
        /\ \A j \in 1..Len(top) \div 2 : next[j] = Joined(top, j)
    BY <1>2, ParentsOf
  <2>4. /\ IsList(new) /\ \A j \in 1..Len(next) : new[j] = next[j]
        /\ Len(new) \in Nat \ {0} /\ 2 * Len(new) >= Len(top)
        /\ Len(new) = 1 \/ (Len(new) \in 2..MaxBlocks + 2 - (n + 1) /\ Len(new) % 2 = 0)
    <3> DEFINE m == Len(top)
    <3>0. m \in 2..MaxBlocks + 2 - n /\ m % 2 = 0 /\ MaxBlocks \in Nat  BY <2>2, Depth
    <3>2. Len(next) = m \div 2  BY <2>3
    <3> HIDE DEF m, next
    <3>1. m \in Nat /\ m >= 2 /\ m <= MaxBlocks + 2 - n /\ m % 2 = 0 /\ MaxBlocks \in Nat
      BY <3>0
    <3>3. CASE Len(next) = 1
      <4>1. new = next  BY <3>3
      <4>2. m \div 2 = 1  BY <3>2, <3>3
      <4>3. \A x \in Nat : x \div 2 = 1 /\ x % 2 = 0 => x = 2  OBVIOUS
      <4>4. m = 2  BY <3>1, <4>2, <4>3
      <4>5. IsList(next)  BY <2>3
      <4> HIDE DEF new
      <4>6. Len(new) = 1 /\ 2 * Len(new) >= m  BY <3>3, <4>1, <4>4
      <4> QED BY <4>1, <4>5, <4>6 DEF m
    <3>4. CASE Len(next) # 1
      <4>1. new = Built!filled(next)  BY <3>4
      <4>2. /\ IsList(new) /\ Len(new) % 2 = 0 /\ Len(new) \in Len(next)..Len(next) + 1
            /\ \A i \in 1..Len(next) : new[i] = next[i]
        <5>1. IsList(next)  BY <2>3
        <5> HIDE DEF new
        <5> QED BY <4>1, <5>1, FilledUp
      <4> DEFINE k == Len(new)
      <4>3. k % 2 = 0 /\ k \in (m \div 2)..(m \div 2) + 1  BY <3>2, <4>2
      <4>4. m \div 2 # 1  BY <3>2, <3>4
      <4> HIDE DEF k, new
      <4>5. k \in Nat /\ k >= 2 /\ 2 * k >= m /\ k <= m - 1  BY <3>1, <4>3, <4>4
      <4>6. k \in 2..MaxBlocks + 2 - (n + 1)  BY <3>1, <4>5
      <4> QED BY <4>2, <4>3, <4>5, <4>6 DEF k, m
    <3> QED BY <3>3, <3>4
  <2> HIDE DEF new
  <2>5. /\ IsList(up) /\ Len(up) = N + 1
        /\ \A l \in 1..N : up[l] = lv[l]
        /\ up[N + 1] = new
    BY <1>1, ListAppend
  <2> HIDE DEF up, next
  <2>6. Stacked(up)
    <3>1. ASSUME NEW l \in 1..N + 1 PROVE IsList(up[l]) /\ Len(up[l]) \in Nat \ {0}
      <4>1. l = N + 1 \/ l \in 1..N  BY <1>1
      <4> QED BY <4>1, <1>1, <2>4, <2>5
    <3>2. ASSUME NEW l \in 1..(N + 1) - 1
          PROVE  Len(up[l]) % 2 = 0 /\ 2 * Len(up[l + 1]) >= Len(up[l])
      <4>1. CASE l = N
        <5>1. up[l] = top /\ up[l + 1] = new  BY <4>1, <1>1, <2>5
        <5> QED BY <5>1, <2>2, <2>4
      <4>2. CASE l # N
        <5>1. l \in 1..N - 1 /\ l \in 1..N /\ l + 1 \in 1..N  BY <4>2, <1>1
        <5>2. Len(lv[l]) % 2 = 0 /\ 2 * Len(lv[l + 1]) >= Len(lv[l])
          BY <5>1 DEF Growing, Stacked
        <5> QED BY <5>1, <5>2, <2>5
      <4> QED BY <4>1, <4>2
    <3>3. N + 1 \in Nat \ {0}  BY <1>1
    <3> HIDE DEF N
    <3> QED BY <2>5, <3>1, <3>2, <3>3 DEF Stacked
  <2>7. up[1] = lv[1]  BY <1>1, <2>5
  <2>8. ASSUME NEW l \in 1..(N + 1) - 1, NEW j \in 1..Len(up[l]) \div 2
        PROVE  up[l + 1][j] = Joined(up[l], j)
    <3>1. CASE l = N
      <4>1. up[l] = top /\ up[l + 1] = new  BY <3>1, <1>1, <2>5
      <4> QED BY <4>1, <2>3, <2>4
    <3>2. CASE l # N
      <4>1. l \in 1..N - 1 /\ l \in 1..N /\ l + 1 \in 1..N  BY <3>2, <1>1
      <4>2. up[l] = lv[l] /\ up[l + 1] = lv[l + 1]  BY <2>5, <4>1
      <4>3. \A i \in 1..Len(lv[l]) \div 2 : lv[l + 1][i] = Joined(lv[l], i)
        BY <4>1 DEF Growing
      <4> QED BY <4>2, <4>3
    <3> QED BY <3>1, <3>2
  <2>9. up[Len(up)] = new /\ Len(up) >= 2  BY <1>1, <2>5
  <2>10. \A l \in 1..Len(up) - 1 : \A j \in 1..Len(up[l]) \div 2 :
           up[l + 1][j] = Joined(up[l], j)
    BY <2>5, <2>8
  <2>11. Growing(data_block, up, n + 1)
    BY <2>4, <2>6, <2>7, <2>9, <2>10 DEF Growing
  <2> QED BY <2>1, <2>11
<1> QED BY <1>3, <1>4

LEMMA BuildStarts ==
  ASSUME NEW n \in 1..MaxBlocks, NEW data_block \in [1..n -> BlockValue]
  PROVE  Growing(data_block,
           <<Built!filled([i \in DOMAIN data_block |-> sha256(Built!text(data_block[i]))])>>, 1)
<1> DEFINE given == [i \in DOMAIN data_block |-> sha256(Built!text(data_block[i]))]
           hashed == Built!filled(given)
           lv == <<hashed>>
<1>1. n \in Nat \ {0} /\ MaxBlocks \in Nat /\ DOMAIN data_block = 1..n  BY Depth
<1>2. given = [i \in 1..n |-> given[i]]  BY <1>1
<1> HIDE DEF given
<1>3. IsList(given) /\ Len(given) = n  BY <1>1, <1>2, ListLength
<1>4. IsList(hashed) /\ Len(hashed) % 2 = 0 /\ Len(hashed) \in n..n + 1
  BY <1>3, FilledUp
<1> DEFINE m == Len(hashed)
<1> HIDE DEF hashed
<1>5. m \in 2..MaxBlocks + 1 /\ m % 2 = 0 /\ m \in Nat \ {0}
  <2> HIDE DEF m
  <2>1. m \in n..n + 1 /\ m % 2 = 0  BY <1>4 DEF m
  <2> QED BY <1>1, <2>1
<1>6. lv = [i \in 1..1 |-> lv[i]] /\ lv[1] = hashed  OBVIOUS
<1>7. IsList(lv) /\ Len(lv) = 1  BY <1>6, ListLength
<1> HIDE DEF lv
<1>8. Stacked(lv)  BY <1>4, <1>5, <1>6, <1>7 DEF Stacked
<1>9. Len(lv[Len(lv)]) \in 2..MaxBlocks + 2 - 1 /\ Len(lv[Len(lv)]) % 2 = 0
  BY <1>5, <1>6, <1>7, Depth
<1>10. Growing(data_block, lv, 1)
  <2>1. 1..Len(lv) - 1 = {}  BY <1>7
  <2>2. lv[1] = Built!filled([i \in DOMAIN data_block |-> sha256(Built!text(data_block[i]))])
    BY <1>6 DEF hashed, given
  <2> QED BY <1>8, <1>9, <2>1, <2>2 DEF Growing
<1> QED BY <1>10 DEF lv, hashed, given

(* After the turns the build takes at most, one node is left.              *)
LEMMA BuildEnds ==
  ASSUME NEW n \in 1..MaxBlocks, NEW data_block \in [1..n -> BlockValue]
  PROVE  Growing(data_block, Built!buildMerkleTree(data_block), MaxBlocks + 1)
<1> DEFINE hashed == Built!filled([i \in DOMAIN data_block |-> sha256(Built!text(data_block[i]))])
           at(f, k) == IF k = 1 THEN <<hashed>> ELSE Grown(f[k - 1])
           Turns(k, f) == f = [t \in 1..k |-> at(f, t)]
           S == {k \in Nat : \E f : Turns(k + 1, f)}
<1>1. 0 \in S
  <2> DEFINE f == [t \in 1..1 |-> <<hashed>>]
  <2>1. Turns(0 + 1, f)  OBVIOUS
  <2> HIDE DEF f, Turns
  <2> QED BY <2>1
<1>2. ASSUME NEW k \in Nat, k \in S PROVE k + 1 \in S
  <2>1. PICK f : Turns(k + 1, f)  BY <1>2
  <2> DEFINE g == [t \in 1..(k + 1) + 1 |-> at(f, t)]
  <2>2. ASSUME NEW t \in 1..(k + 1) + 1 PROVE g[t] = at(g, t)
    <3>1. CASE t = 1  BY <3>1
    <3>2. CASE t # 1
      <4>1. t - 1 \in 1..k + 1 /\ t - 1 \in 1..(k + 1) + 1  BY <3>2
      <4>2. f[t - 1] = at(f, t - 1) /\ g[t - 1] = at(f, t - 1)  BY <2>1, <4>1
      <4>3. g[t] = at(f, t)  OBVIOUS
      <4> HIDE DEF g, hashed
      <4> QED BY <3>2, <4>2, <4>3
    <3> QED BY <3>1, <3>2
  <2>3. g = [t \in 1..(k + 1) + 1 |-> g[t]]  OBVIOUS
  <2> HIDE DEF g
  <2>4. Turns((k + 1) + 1, g)
    <3> HIDE DEF at
    <3> QED BY <2>2, <2>3
  <2> HIDE DEF Turns
  <2> QED BY <2>4
<1> HIDE DEF S
<1> DEFINE grow == CHOOSE f : Turns(MaxBlocks + 1, f)
<1>3. Turns(MaxBlocks + 1, grow)
  <2>1. MaxBlocks \in S  BY <1>1, <1>2, SetInduction, Depth
  <2> HIDE DEF Turns
  <2> QED BY <2>1 DEF S
<1>4. Built!buildMerkleTree(data_block) = grow[MaxBlocks + 1]
  BY DEF Built!buildMerkleTree, Grown
<1> HIDE DEF grow
<1>5. \A t \in 1..MaxBlocks + 1 : grow[t] = at(grow, t)  BY <1>3
<1> DEFINE T == {k \in Nat : k + 1 <= MaxBlocks + 1 => Growing(data_block, grow[k + 1], k + 1)}
<1>6. 0 \in T
  <2>1. 1 \in 1..MaxBlocks + 1  BY Depth
  <2>2. Growing(data_block, <<hashed>>, 1)  BY BuildStarts
  <2> HIDE DEF hashed
  <2>3. grow[1] = <<hashed>>  BY <1>5, <2>1
  <2>4. 0 + 1 = 1  OBVIOUS
  <2> QED BY <2>2, <2>3, <2>4
<1> HIDE DEF hashed
<1>7. ASSUME NEW k \in Nat, k \in T PROVE k + 1 \in T
  <2> SUFFICES ASSUME (k + 1) + 1 <= MaxBlocks + 1
               PROVE  Growing(data_block, grow[(k + 1) + 1], (k + 1) + 1)
    OBVIOUS
  <2>1. /\ k + 1 <= MaxBlocks + 1 /\ (k + 1) + 1 \in 1..MaxBlocks + 1 /\ (k + 1) + 1 # 1
        /\ ((k + 1) + 1) - 1 = k + 1 /\ k + 1 \in Nat \ {0}
    BY Depth
  <2>2. Growing(data_block, grow[k + 1], k + 1)  BY <1>7, <2>1
  <2>3. grow[(k + 1) + 1] = Grown(grow[k + 1])  BY <1>5, <2>1
  <2> HIDE DEF T
  <2> QED BY <2>1, <2>2, <2>3, GrowingOn
<1> HIDE DEF T
<1>8. MaxBlocks \in T  BY <1>6, <1>7, SetInduction, Depth
<1> QED BY <1>4, <1>8, Depth DEF T

(* Neighbours, and the node above them.                                    *)
LEMMA Neighbours ==
  ASSUME NEW a \in Nat \ {0}
  PROVE  LET j == Built!parent(a) IN
         /\ j \in Nat \ {0} /\ Built!sibling(a) # a
         /\ Built!is_left(a) => a = 2 * j - 1 /\ Built!sibling(a) = 2 * j
         /\ ~Built!is_left(a) => a = 2 * j /\ Built!sibling(a) = 2 * j - 1
<1>1. CASE a % 2 = 1
  <2>1. Built!parent(a) = (a + 1) \div 2 /\ Built!sibling(a) = a + 1 /\ Built!is_left(a)
    BY <1>1 DEF Built!parent, Built!sibling, Built!is_left
  <2>2. (a + 1) \div 2 \in Nat \ {0} /\ a = 2 * ((a + 1) \div 2) - 1  BY <1>1
  <2>3. a + 1 = 2 * ((a + 1) \div 2)  BY <2>2
  <2> QED BY <2>1, <2>2, <2>3
<1>2. CASE a % 2 # 1
  <2>1. Built!parent(a) = (a + 1) \div 2 /\ Built!sibling(a) = a - 1 /\ ~Built!is_left(a)
    BY <1>2 DEF Built!parent, Built!sibling, Built!is_left
  <2>2. a % 2 = 0  BY <1>2
  <2>3. (a + 1) \div 2 \in Nat \ {0} /\ a = 2 * ((a + 1) \div 2)  BY <2>2
  <2> QED BY <2>1, <2>3
<1> QED BY <1>1, <1>2

LEMMA NeighboursIn ==
  ASSUME NEW m \in Nat, m % 2 = 0, NEW a \in 1..m
  PROVE  /\ a \in Nat \ {0} /\ Built!sibling(a) \in 1..m
         /\ Built!parent(a) \in 1..m \div 2
<1> DEFINE j == Built!parent(a)
           k == m \div 2
<1>1. a \in Nat \ {0}  OBVIOUS
<1>2. k \in Nat /\ m = 2 * k  OBVIOUS
<1>3. /\ j \in Nat \ {0}
      /\ Built!is_left(a) => a = 2 * j - 1 /\ Built!sibling(a) = 2 * j
      /\ ~Built!is_left(a) => a = 2 * j /\ Built!sibling(a) = 2 * j - 1
  BY <1>1, Neighbours
<1> HIDE DEF j, k
<1>4. j \in 1..k /\ Built!sibling(a) \in 1..m
  <2>1. CASE Built!is_left(a)
    <3>1. a = 2 * j - 1 /\ Built!sibling(a) = 2 * j  BY <1>3, <2>1
    <3> QED BY <3>1, <1>2, <1>3
  <2>2. CASE ~Built!is_left(a)
    <3>1. a = 2 * j /\ Built!sibling(a) = 2 * j - 1  BY <1>3, <2>2
    <3> QED BY <3>1, <1>2, <1>3
  <2> QED BY <2>1, <2>2
<1> QED BY <1>1, <1>4 DEF j, k

LEMMA AncestorIn ==
  ASSUME NEW lv, Stacked(lv), NEW leaf \in 1..Len(lv[1])
  PROVE  \A k \in 0..Len(lv) - 1 : Built!ancestor(leaf, k) \in 1..Len(lv[k + 1])
<1> DEFINE S == {k \in Nat : k \in 0..Len(lv) - 1 => Built!ancestor(leaf, k) \in 1..Len(lv[k + 1])}
<1>1. 0 \in S
  <2>1. 0 + 1 = 1  OBVIOUS
  <2> QED BY <2>1, AncestorStep
<1>2. ASSUME NEW k \in Nat, k \in S PROVE k + 1 \in S
  <2> SUFFICES ASSUME k + 1 \in 0..Len(lv) - 1
               PROVE  Built!ancestor(leaf, k + 1) \in 1..Len(lv[(k + 1) + 1])
    OBVIOUS
  <2>1. Len(lv) \in Nat  BY DEF Stacked
  <2>2. k \in 0..Len(lv) - 1 /\ k + 1 \in 1..Len(lv) - 1 /\ (k + 1) + 1 \in 1..Len(lv)
        /\ k + 1 \in 1..Len(lv)
    BY <2>1
  <2> DEFINE m == Len(lv[k + 1])
             n == Len(lv[(k + 1) + 1])
  <2>3. m \in Nat /\ n \in Nat /\ m % 2 = 0 /\ 2 * n >= m  BY <2>2 DEF Stacked
  <2>4. Built!ancestor(leaf, k) \in 1..m  BY <1>2, <2>2
  <2>5. Built!ancestor(leaf, k + 1) = Built!parent(Built!ancestor(leaf, k))  BY AncestorStep
  <2> HIDE DEF m, n, S
  <2>6. Built!parent(Built!ancestor(leaf, k)) \in 1..m \div 2  BY <2>3, <2>4, NeighboursIn
  <2>7. m \div 2 <= n /\ m \div 2 \in Nat  BY <2>3
  <2>8. Built!ancestor(leaf, k + 1) \in 1..n  BY <2>3, <2>5, <2>6, <2>7
  <2> QED BY <2>8 DEF n
<1> HIDE DEF S
<1>3. Nat \subseteq S  BY <1>1, <1>2, SetInduction
<1>4. ASSUME NEW k \in 0..Len(lv) - 1 PROVE Built!ancestor(leaf, k) \in 1..Len(lv[k + 1])
  <2>1. k \in S  BY <1>3
  <2> QED BY <2>1 DEF S
<1> QED BY <1>4

(* The hashes on the path of a leaf, from one level to the next.           *)
Climbed(leaf, verifying, below, level) ==
  sha256(IF verifying
           THEN Built!by_side(Built!ancestor(leaf, level - 1), below,
                              Built!sibling_hash(leaf, level - 1))
           ELSE Built!current_first(below, Built!sibling_hash(leaf, level - 1)))

LEMMA PathClimbs ==
  ASSUME Len(levels) \in Nat \ {0}, NEW leaf, NEW hash, NEW verifying
  PROVE  /\ Built!path(leaf, hash, verifying)[0] = hash
         /\ \A level \in 1..Built!height :
              Built!path(leaf, hash, verifying)[level] =
                Climbed(leaf, verifying, Built!path(leaf, hash, verifying)[level - 1], level)
<1> DEFINE at(f, level) ==
             IF level = 0 THEN hash ELSE Climbed(leaf, verifying, f[level - 1], level)
           Climbs(n, f) == f = [level \in 0..n |-> at(f, level)]
           S == {n \in Nat : \E f : Climbs(n, f)}
<1>0. Built!height \in Nat  BY DEF Built!height
<1>1. 0 \in S
  <2> DEFINE f == [level \in 0..0 |-> hash]
  <2>1. Climbs(0, f)  OBVIOUS
  <2> HIDE DEF f, Climbs
  <2> QED BY <2>1
<1>2. ASSUME NEW n \in Nat, n \in S PROVE n + 1 \in S
  <2>1. PICK f : Climbs(n, f)  BY <1>2
  <2> DEFINE g == [level \in 0..n + 1 |-> at(f, level)]
  <2>2. ASSUME NEW level \in 0..n + 1 PROVE g[level] = at(g, level)
    <3>1. CASE level = 0  BY <3>1
    <3>2. CASE level # 0
      <4>1. level - 1 \in 0..n /\ level - 1 \in 0..n + 1  BY <3>2
      <4>2. f[level - 1] = at(f, level - 1) /\ g[level - 1] = at(f, level - 1)  BY <2>1, <4>1
      <4>3. g[level] = at(f, level)  OBVIOUS
      <4> HIDE DEF g
      <4> QED BY <3>2, <4>2, <4>3
    <3> QED BY <3>1, <3>2
  <2>3. g = [level \in 0..n + 1 |-> g[level]]  OBVIOUS
  <2> HIDE DEF g
  <2>4. Climbs(n + 1, g)
    <3> HIDE DEF at
    <3> QED BY <2>2, <2>3
  <2> HIDE DEF Climbs
  <2> QED BY <2>4
<1> HIDE DEF S
<1> DEFINE c == CHOOSE f : Climbs(Built!height, f)
<1>3. Climbs(Built!height, c)
  <2>1. Built!height \in S  BY <1>0, <1>1, <1>2, SetInduction
  <2> HIDE DEF Climbs
  <2> QED BY <2>1 DEF S
<1>4. Built!path(leaf, hash, verifying) = c  BY DEF Built!path, Climbed
<1> HIDE DEF c
<1>5. \A level \in 0..Built!height : c[level] = at(c, level)  BY <1>3
<1>6. 0 \in 0..Built!height /\ \A level \in 1..Built!height : level \in 0..Built!height /\ level # 0
  BY <1>0
<1> QED BY <1>4, <1>5, <1>6

LEMMA PathUpdates ==
  ASSUME Len(levels) \in Nat \ {0}, NEW leaf, NEW hash
  PROVE  /\ Built!path(leaf, hash, FALSE)[0] = hash
         /\ \A level \in 1..Built!height :
              Built!path(leaf, hash, FALSE)[level] =
                Climbed(leaf, FALSE, Built!path(leaf, hash, FALSE)[level - 1], level)
<1>1. ASSUME NEW v, v = FALSE
      PROVE  /\ Built!path(leaf, hash, v)[0] = hash
             /\ \A level \in 1..Built!height :
                  Built!path(leaf, hash, v)[level] =
                    Climbed(leaf, v, Built!path(leaf, hash, v)[level - 1], level)
  BY PathClimbs
<1>2. \E v : v = FALSE  OBVIOUS
<1> QED BY <1>1, <1>2

LEMMA PathVerifies ==
  ASSUME Len(levels) \in Nat \ {0}, NEW leaf, NEW hash
  PROVE  /\ Built!path(leaf, hash, TRUE)[0] = hash
         /\ \A level \in 1..Built!height :
              Built!path(leaf, hash, TRUE)[level] =
                Climbed(leaf, TRUE, Built!path(leaf, hash, TRUE)[level - 1], level)
<1>1. ASSUME NEW v, v = TRUE
      PROVE  /\ Built!path(leaf, hash, v)[0] = hash
             /\ \A level \in 1..Built!height :
                  Built!path(leaf, hash, v)[level] =
                    Climbed(leaf, v, Built!path(leaf, hash, v)[level - 1], level)
  BY PathClimbs
<1>2. \E v : v = TRUE  OBVIOUS
<1> QED BY <1>1, <1>2

(* The invariant of the first tree: a node is the hash of its children, in *)
(* one order or the other, the wrong one only if the last update under it  *)
(* came from its right; and the leaves are those of what the blocks hold.  *)
BuiltInv ==
  /\ DOMAIN latest = DOMAIN levels
  /\ \A l \in DOMAIN levels : latest[l] = [node \in DOMAIN levels[l] |-> latest[l][node]]
  /\ Stacked(levels) /\ Len(levels) >= 2 /\ Len(levels[Len(levels)]) = 1
  /\ IsList(value) /\ Len(value) <= Len(levels[1])
  /\ \A i \in 1..Len(value) : levels[1][i] = sha256(Built!text(value[i]))
  /\ \A l \in 1..Len(levels) - 1 : \A j \in 1..Len(levels[l]) \div 2 :
       \/ levels[l + 1][j] = Joined(levels[l], j)
       \/ levels[l + 1][j] = Turned(levels[l], j) /\ ~Built!from_left(l, j)

LEMMA BuiltStarts == Built!Init => BuiltInv
<1> SUFFICES ASSUME Built!Init PROVE BuiltInv  OBVIOUS
<1>1. PICK n \in 1..MaxBlocks : value \in [1..n -> BlockValue]  BY DEF Built!Init
<1>2. levels = Built!buildMerkleTree(value)  BY DEF Built!Init
<1>3. Growing(value, levels, MaxBlocks + 1)  BY <1>1, <1>2, BuildEnds
<1>4. n \in Nat /\ value = [i \in 1..n |-> value[i]]  BY <1>1, Depth
<1>5. IsList(value) /\ Len(value) = n /\ DOMAIN value = 1..n  BY <1>4, ListLength
<1>6. Stacked(levels) /\ Len(levels) >= 2 /\ Len(levels[Len(levels)]) = 1
  <2>1. 2..MaxBlocks + 2 - (MaxBlocks + 1) = {}  BY Depth
  <2> QED BY <1>3, <2>1 DEF Growing
<1> DEFINE given == [i \in DOMAIN value |-> sha256(Built!text(value[i]))]
<1>7. levels[1] = Built!filled(given)  BY <1>3 DEF Growing
<1>8. /\ given = [i \in 1..n |-> given[i]]
      /\ \A i \in 1..n : given[i] = sha256(Built!text(value[i]))
  BY <1>5
<1> HIDE DEF given
<1>9. IsList(given) /\ Len(given) = n  BY <1>4, <1>8, ListLength
<1>10. Len(levels[1]) >= n /\ \A i \in 1..n : levels[1][i] = given[i]
  BY <1>4, <1>7, <1>9, FilledUp
<1>11. /\ DOMAIN latest = DOMAIN levels
       /\ \A l \in DOMAIN levels : latest[l] = [node \in DOMAIN levels[l] |-> latest[l][node]]
  BY DEF Built!Init
<1>12. Len(value) <= Len(levels[1])
       /\ \A i \in 1..Len(value) : levels[1][i] = sha256(Built!text(value[i]))
  BY <1>5, <1>8, <1>10
<1>13. \A l \in 1..Len(levels) - 1 : \A j \in 1..Len(levels[l]) \div 2 :
         levels[l + 1][j] = Joined(levels[l], j)
  BY <1>3 DEF Growing
<1> QED BY <1>5, <1>6, <1>11, <1>12, <1>13 DEF BuiltInv

(* What a step of the path means for the levels it is about.               *)
LEMMA OnPath ==
  ASSUME BuiltInv, NEW leaf \in 1..Len(value), NEW level \in 1..Built!height
  PROVE  LET node == Built!ancestor(leaf, level - 1)
             above == Built!ancestor(leaf, level)
         IN /\ level \in 1..Len(levels) - 1 /\ level \in 1..Len(levels)
            /\ level + 1 \in 1..Len(levels) /\ level - 1 \in 0..Built!height
            /\ Len(levels[level]) \in Nat /\ Len(levels[level]) % 2 = 0
            /\ node \in 1..Len(levels[level]) /\ above \in 1..Len(levels[level + 1])
            /\ above = Built!parent(node) /\ above \in 1..Len(levels[level]) \div 2
            /\ Built!sibling(node) \in 1..Len(levels[level])
            /\ Built!sibling_hash(leaf, level - 1) = levels[level][Built!sibling(node)]
<1>1. Len(levels) \in Nat \ {0} /\ Built!height = Len(levels) - 1
  BY DEF BuiltInv, Stacked, Built!height
<1>2. /\ level \in 1..Len(levels) - 1 /\ level \in 1..Len(levels) /\ level + 1 \in 1..Len(levels)
      /\ level - 1 \in 0..Len(levels) - 1 /\ level \in 0..Len(levels) - 1
      /\ level - 1 \in Nat /\ (level - 1) + 1 = level /\ level - 1 \in 0..Built!height
  BY <1>1
<1>3. Len(levels[level]) \in Nat /\ Len(levels[level]) % 2 = 0  BY <1>2 DEF BuiltInv, Stacked
<1>4. leaf \in 1..Len(levels[1])
  <2>1. Len(value) \in Nat /\ Len(levels[1]) \in Nat
    BY <1>1, ListProperties DEF BuiltInv, Stacked
  <2> QED BY <2>1 DEF BuiltInv
<1> DEFINE node == Built!ancestor(leaf, level - 1)
           above == Built!ancestor(leaf, level)
<1>5. node \in 1..Len(levels[level])
  <2>1. \A k \in 0..Len(levels) - 1 : Built!ancestor(leaf, k) \in 1..Len(levels[k + 1])
    BY <1>4, AncestorIn DEF BuiltInv
  <2> QED BY <2>1, <1>2
<1>6. above \in 1..Len(levels[level + 1])
  <2>1. \A k \in 0..Len(levels) - 1 : Built!ancestor(leaf, k) \in 1..Len(levels[k + 1])
    BY <1>4, AncestorIn DEF BuiltInv
  <2> QED BY <2>1, <1>2
<1>7. above = Built!parent(node)
  <2>1. Built!ancestor(leaf, (level - 1) + 1) = Built!parent(node)  BY <1>2, AncestorStep
  <2> QED BY <2>1, <1>2
<1>8. Built!sibling_hash(leaf, level - 1) = levels[level][Built!sibling(node)]
  BY <1>2 DEF Built!sibling_hash
<1> HIDE DEF node, above
<1>9. Built!parent(node) \in 1..Len(levels[level]) \div 2
      /\ Built!sibling(node) \in 1..Len(levels[level])
  BY <1>3, <1>5, NeighboursIn
<1> QED BY <1>2, <1>3, <1>5, <1>6, <1>7, <1>8, <1>9 DEF node, above

LEMMA BuiltUpdate ==
  ASSUME BuiltInv, Built!Next PROVE BuiltInv'
<1>1. PICK leaf \in DOMAIN value, new_value \in BlockValue :
        /\ Built!updateMerkleTree(leaf, new_value)
        /\ value' = [value EXCEPT ![leaf] = new_value]
        /\ latest' = [l \in DOMAIN latest |->
                        [latest[l] EXCEPT ![Built!ancestor(leaf, l - 1)] = leaf]]
  BY DEF Built!Next, Built!Update
<1> DEFINE N == Len(levels)
           c == Built!path(leaf, sha256(Built!text(new_value)), FALSE)
           on(l) == Built!ancestor(leaf, l - 1)
<1>2. /\ IsList(levels) /\ N \in Nat \ {0} /\ DOMAIN levels = 1..N
      /\ levels = [l \in 1..N |-> levels[l]]
      /\ IsList(value) /\ Len(value) \in Nat /\ DOMAIN value = 1..Len(value)
      /\ value = [i \in 1..Len(value) |-> value[i]]
      /\ leaf \in 1..Len(value)
  BY <1>1, ListProperties DEF BuiltInv, Stacked
<1>3. levels' = [l \in 1..N |-> [levels[l] EXCEPT ![on(l)] = c[l - 1]]]
  BY <1>1, <1>2 DEF Built!updateMerkleTree
<1>4. /\ c[0] = sha256(Built!text(new_value))
      /\ \A level \in 1..Built!height : c[level] = Climbed(leaf, FALSE, c[level - 1], level)
  <2>1. Len(levels) \in Nat \ {0}  BY <1>2
  <2> QED BY <2>1, PathUpdates
<1> HIDE DEF c
<1>5. Built!height = N - 1  BY DEF Built!height
<1>6. /\ IsList(levels') /\ Len(levels') = N
      /\ \A l \in 1..N : levels'[l] = [levels[l] EXCEPT ![on(l)] = c[l - 1]]
  <2> HIDE DEF on, N
  <2>1. levels' = [l \in 1..N |-> levels'[l]]  BY <1>3
  <2>2. N \in Nat  BY <1>2
  <2> QED BY <1>3, <2>1, <2>2, ListLength
<1>7. ASSUME NEW l \in 1..N
      PROVE  /\ IsList(levels'[l]) /\ Len(levels'[l]) = Len(levels[l])
             /\ on(l) \in 1..Len(levels[l]) => levels'[l][on(l)] = c[l - 1]
             /\ \A i \in 1..Len(levels[l]) : i # on(l) => levels'[l][i] = levels[l][i]
  <2> DEFINE s == levels[l]
             t == levels'[l]
  <2>1. IsList(s)  BY DEF BuiltInv, Stacked
  <2>2. Len(s) \in Nat /\ s = [i \in 1..Len(s) |-> s[i]]  BY <2>1, ListProperties
  <2>3. t = [s EXCEPT ![on(l)] = c[l - 1]]  BY <1>6
  <2> HIDE DEF s, t, on
  <2>4. /\ t = [i \in 1..Len(s) |-> t[i]]
        /\ on(l) \in 1..Len(s) => t[on(l)] = c[l - 1]
        /\ \A i \in 1..Len(s) : i # on(l) => t[i] = s[i]
    BY <2>2, <2>3
  <2>5. IsList(t) /\ Len(t) = Len(s)  BY <2>2, <2>4, ListLength
  <2> QED BY <2>4, <2>5 DEF s, t
<1>17. ASSUME NEW l \in 1..N
       PROVE  /\ latest'[l] = [node \in 1..Len(levels[l]) |-> latest'[l][node]]
              /\ \A node \in 1..Len(levels[l]) :
                   latest'[l][node] = IF node = on(l) THEN leaf ELSE latest[l][node]
  <2> DEFINE s == latest[l]
             t == latest'[l]
             m == Len(levels[l])
  <2>1. DOMAIN levels[l] = 1..m  BY ListProperties DEF BuiltInv, Stacked
  <2>2. s = [node \in 1..m |-> s[node]]  BY <1>2, <2>1 DEF BuiltInv
  <2>3. t = [s EXCEPT ![on(l)] = leaf]  BY <1>1, <1>2 DEF BuiltInv
  <2> HIDE DEF s, t, on, m
  <2>4. /\ t = [node \in 1..m |-> t[node]]
        /\ \A node \in 1..m : t[node] = IF node = on(l) THEN leaf ELSE s[node]
    BY <2>2, <2>3
  <2> QED BY <2>4 DEF s, t, m
<1>18. /\ DOMAIN latest' = DOMAIN levels'
       /\ \A l \in DOMAIN levels' :
            latest'[l] = [node \in DOMAIN levels'[l] |-> latest'[l][node]]
  <2>1. DOMAIN latest' = 1..N /\ DOMAIN levels' = 1..N
    BY <1>1, <1>2, <1>3 DEF BuiltInv
  <2>2. ASSUME NEW l \in 1..N
        PROVE latest'[l] = [node \in DOMAIN levels'[l] |-> latest'[l][node]]
    <3>1. DOMAIN levels'[l] = 1..Len(levels[l])  BY <1>7, ListProperties
    <3> QED BY <1>17, <3>1
  <2> QED BY <2>1, <2>2
<1>8. Stacked(levels') /\ Len(levels') >= 2 /\ Len(levels'[Len(levels')]) = 1
  <2>1. \A l \in 1..N - 1 : l \in 1..N /\ l + 1 \in 1..N  BY <1>2
  <2>2. N \in 1..N  BY <1>2
  <2>3. Stacked(levels)  BY DEF BuiltInv
  <2>4. \A l \in 1..N : IsList(levels'[l]) /\ Len(levels'[l]) = Len(levels[l])
    BY <1>7
  <2> QED BY <1>2, <1>6, <2>1, <2>2, <2>3, <2>4 DEF Stacked, BuiltInv
<1>9. IsList(value') /\ Len(value') = Len(value)
      /\ value'[leaf] = new_value /\ \A i \in 1..Len(value) : i # leaf => value'[i] = value[i]
  <2>1. value' = [i \in 1..Len(value) |-> value'[i]]  BY <1>1, <1>2
  <2> QED BY <1>1, <1>2, <2>1, ListLength
<1>10. on(1) = leaf /\ 1 \in 1..N /\ leaf \in 1..Len(levels[1])
  <2>1. 1 - 1 = 0  OBVIOUS
  <2>2. Len(levels[1]) \in Nat /\ Len(value) <= Len(levels[1])
    BY <1>2 DEF BuiltInv, Stacked
  <2> QED BY <1>2, <2>1, <2>2, AncestorStep
<1>11. ASSUME NEW i \in 1..Len(value)
       PROVE  levels'[1][i] = sha256(Built!text(value'[i]))
  <2>1. CASE i = leaf
    <3>1. levels'[1][leaf] = c[1 - 1]  BY <1>7, <1>10
    <3> QED BY <2>1, <3>1, <1>4, <1>9
  <2>2. CASE i # leaf
    <3>1. i \in 1..Len(levels[1])
      <4>1. Len(levels[1]) \in Nat /\ Len(value) <= Len(levels[1])
        BY <1>2 DEF BuiltInv, Stacked
      <4> QED BY <4>1, <1>2
    <3>2. levels'[1][i] = levels[1][i]  BY <2>2, <3>1, <1>7, <1>10
    <3> QED BY <2>2, <3>2, <1>9 DEF BuiltInv
  <2> QED BY <2>1, <2>2
<1>12. ASSUME NEW l \in 1..N - 1, NEW j \in 1..Len(levels[l]) \div 2
       PROVE  \/ levels'[l + 1][j] = Joined(levels'[l], j)
              \/ levels'[l + 1][j] = Turned(levels'[l], j) /\ ~Built!from_left(l, j)'
  <2> DEFINE node == Built!ancestor(leaf, l - 1)
             above == Built!ancestor(leaf, l)
             m == Len(levels[l])
  <2>1. /\ l \in 1..N /\ l + 1 \in 1..N /\ m \in Nat /\ m % 2 = 0
        /\ node \in 1..m /\ above \in 1..Len(levels[l + 1])
        /\ above = Built!parent(node) /\ Built!sibling(node) \in 1..m
        /\ Built!sibling_hash(leaf, l - 1) = levels[l][Built!sibling(node)]
        /\ node \in Nat \ {0} /\ l - 1 \in Nat
    <3>1. l \in 1..Built!height  BY <1>5
    <3>2. l \in 1..N /\ l + 1 \in 1..N /\ l - 1 \in Nat  BY <1>2
    <3>3. /\ m \in Nat /\ m % 2 = 0
          /\ node \in 1..m /\ above \in 1..Len(levels[l + 1])
          /\ above = Built!parent(node) /\ Built!sibling(node) \in 1..m
          /\ Built!sibling_hash(leaf, l - 1) = levels[l][Built!sibling(node)]
      BY <1>2, <3>1, OnPath
    <3>4. node \in Nat \ {0}
      <4> HIDE DEF node, m
      <4> QED BY <3>3
    <3> QED BY <3>2, <3>3, <3>4
  <2>2. /\ Built!sibling(node) # node
        /\ Built!is_left(node) => node = 2 * above - 1 /\ Built!sibling(node) = 2 * above
        /\ ~Built!is_left(node) => node = 2 * above /\ Built!sibling(node) = 2 * above - 1
    BY <2>1, Neighbours
  <2>3. on(l) = node /\ on(l + 1) = above /\ l - 1 + 1 = l  BY <2>1
  <2>4. /\ levels'[l][node] = c[l - 1]
        /\ \A i \in 1..m : i # node => levels'[l][i] = levels[l][i]
    BY <1>7, <2>1, <2>3
  <2>5. /\ levels'[l + 1][above] = c[l]
        /\ \A i \in 1..Len(levels[l + 1]) : i # above => levels'[l + 1][i] = levels[l + 1][i]
    BY <1>7, <2>1, <2>3
  <2>6. leaf # 0
    <3>1. leaf \in Nat \ {0}  BY <1>2
    <3> QED BY <3>1
  <2>8. CASE j = above
    <3>1. c[l] = sha256(Built!concat(c[l - 1], levels[l][Built!sibling(node)]))
      BY <1>4, <1>5, <2>1 DEF Climbed, Built!current_first
    <3>2. levels'[l][Built!sibling(node)] = levels[l][Built!sibling(node)]
      BY <2>1, <2>2, <2>4
    <3>3. levels'[l + 1][j] =
            sha256(Built!concat(levels'[l][node], levels'[l][Built!sibling(node)]))
      BY <2>4, <2>5, <2>8, <3>1, <3>2
    <3>4. CASE Built!is_left(node)
      <4>1. node = 2 * j - 1 /\ Built!sibling(node) = 2 * j  BY <2>2, <2>8, <3>4
      <4> HIDE DEF node, above
      <4> QED BY <3>3, <4>1 DEF Joined
    <3>5. CASE ~Built!is_left(node)
      <4>1. node = 2 * j /\ Built!sibling(node) = 2 * j - 1  BY <2>2, <2>8, <3>5
      <4>2. latest'[l + 1][j] = leaf  BY <1>17, <2>1, <2>3, <2>8
      <4>3. ~Built!from_left(l, j)'  BY <2>6, <3>5, <4>2 DEF Built!from_left
      <4> HIDE DEF node, above
      <4> QED BY <3>3, <4>1, <4>3 DEF Turned
    <3> QED BY <3>4, <3>5
  <2>9. CASE j # above
    <3> HIDE DEF node, above, m
    <3>1. j \in Nat \ {0} /\ 2 * j - 1 \in 1..m /\ 2 * j \in 1..m
      <4>1. j \in 1..m \div 2  BY DEF m
      <4> QED BY <4>1, <2>1
    <3>2. above \in Nat \ {0}  BY <2>1, Neighbours
    <3>3. 2 * j - 1 # node /\ 2 * j # node
      <4>1. node = 2 * above - 1 \/ node = 2 * above  BY <2>2
      <4> QED BY <4>1, <3>1, <3>2, <2>9
    <3>4. levels'[l][2 * j - 1] = levels[l][2 * j - 1] /\ levels'[l][2 * j] = levels[l][2 * j]
      BY <2>4, <3>1, <3>3
    <3>5. j \in 1..Len(levels[l + 1])
      <4>1. 2 * Len(levels[l + 1]) >= m /\ Len(levels[l + 1]) \in Nat
        BY <2>1 DEF BuiltInv, Stacked, m
      <4> DEFINE n == Len(levels[l + 1])
      <4> HIDE DEF n
      <4>2. 2 * n >= m /\ n \in Nat  BY <4>1 DEF n
      <4>3. j \in 1..n  BY <2>1, <3>1, <4>2
      <4> QED BY <4>3 DEF n
    <3>6. levels'[l + 1][j] = levels[l + 1][j]  BY <2>5, <2>9, <3>5
    <3>7. \/ levels[l + 1][j] = Joined(levels[l], j)
          \/ levels[l + 1][j] = Turned(levels[l], j) /\ ~Built!from_left(l, j)
      BY DEF BuiltInv
    <3>8. Joined(levels'[l], j) = Joined(levels[l], j) /\ Turned(levels'[l], j) = Turned(levels[l], j)
      BY <3>4 DEF Joined, Turned
    <3>9. Built!from_left(l, j)' = Built!from_left(l, j)
      <4>1. latest'[l + 1][j] = latest[l + 1][j]  BY <1>17, <2>1, <2>3, <2>9, <3>5
      <4> QED BY <4>1 DEF Built!from_left
    <3> QED BY <3>6, <3>7, <3>8, <3>9
  <2> QED BY <2>8, <2>9
<1>13. Len(value') <= Len(levels'[1])  BY <1>7, <1>9, <1>10 DEF BuiltInv
<1>14. \A l \in 1..N : Len(levels'[l]) = Len(levels[l])  BY <1>7
<1>15. \A l \in 1..Len(levels') - 1 : \A j \in 1..Len(levels'[l]) \div 2 :
         \/ levels'[l + 1][j] = Joined(levels'[l], j)
         \/ levels'[l + 1][j] = Turned(levels'[l], j) /\ ~Built!from_left(l, j)'
  <2>1. \A l \in 1..N - 1 : l \in 1..N  BY <1>2
  <2> QED BY <2>1, <1>6, <1>12, <1>14
<1>16. \A i \in 1..Len(value') : levels'[1][i] = sha256(Built!text(value'[i]))
  BY <1>9, <1>11
<1>19. (\A l \in 1..Len(levels) - 1 : \A j \in 1..Len(levels[l]) \div 2 :
          \/ levels[l + 1][j] = Joined(levels[l], j)
          \/ levels[l + 1][j] = Turned(levels[l], j) /\ ~Built!from_left(l, j))'
  BY <1>15
<1> QED BY <1>8, <1>9, <1>13, <1>16, <1>18, <1>19 DEF BuiltInv

(* What a verification computes from one level to the next.  What the      *)
(* level below must have been can only be told from a hash that tells      *)
(* strings apart.                                                          *)
TellsApart == \A s, t : sha256(s) = sha256(t) => s = t

LEMMA VerifyStep ==
  ASSUME BuiltInv, NEW i \in 1..Len(value), NEW hash, NEW level \in 1..Built!height
  PROVE  LET c == Built!path(i, hash, TRUE)
             node == Built!ancestor(i, level - 1)
             above == Built!ancestor(i, level)
         IN /\ c[level - 1] = levels[level][node] =>
                 c[level] = Joined(levels[level], above)
            /\ TellsApart /\ (\/ c[level] = Joined(levels[level], above)
                               \/ c[level] = Turned(levels[level], above))
                 => c[level - 1] = levels[level][node]
<1> DEFINE c == Built!path(i, hash, TRUE)
           node == Built!ancestor(i, level - 1)
           above == Built!ancestor(i, level)
           s == levels[level]
<1>1. c[level] = Climbed(i, TRUE, c[level - 1], level)
  <2>1. Len(levels) \in Nat \ {0}  BY DEF BuiltInv, Stacked
  <2> QED BY <2>1, PathVerifies
<1>2. /\ Len(s) \in Nat /\ node \in 1..Len(s) /\ above = Built!parent(node)
      /\ Built!sibling_hash(i, level - 1) = s[Built!sibling(node)]
  BY OnPath
<1>3. c[level] = sha256(Built!by_side(node, c[level - 1], s[Built!sibling(node)]))
  BY <1>1, <1>2 DEF Climbed
<1> HIDE DEF c, node, above, s
<1>4. /\ above \in Nat \ {0}
      /\ Built!is_left(node) => node = 2 * above - 1 /\ Built!sibling(node) = 2 * above
      /\ ~Built!is_left(node) => node = 2 * above /\ Built!sibling(node) = 2 * above - 1
  <2>1. node \in Nat \ {0}  BY <1>2
  <2> QED BY <2>1, <1>2, Neighbours
<1>5. CASE Built!is_left(node)
  <2>1. c[level] = sha256(Built!concat(c[level - 1], s[2 * above]))
    BY <1>3, <1>4, <1>5 DEF Built!by_side
  <2>2. node = 2 * above - 1  BY <1>4, <1>5
  <2>3. TellsApart /\ c[level] = Joined(s, above) => c[level - 1] = s[node]
    BY <2>1, <2>2 DEF Joined, TellsApart, Built!concat
  <2>4. TellsApart /\ c[level] = Turned(s, above) => c[level - 1] = s[2 * above] /\ s[2 * above] = s[node]
    BY <2>1, <2>2 DEF Turned, TellsApart, Built!concat
  <2>5. c[level - 1] = s[node] => c[level] = Joined(s, above)
    BY <2>1, <2>2 DEF Joined
  <2> QED BY <2>3, <2>4, <2>5 DEF c, node, above, s
<1>6. CASE ~Built!is_left(node)
  <2>1. c[level] = sha256(Built!concat(s[2 * above - 1], c[level - 1]))
    BY <1>3, <1>4, <1>6 DEF Built!by_side
  <2>2. node = 2 * above  BY <1>4, <1>6
  <2>3. TellsApart /\ c[level] = Joined(s, above) => c[level - 1] = s[node]
    BY <2>1, <2>2 DEF Joined, TellsApart, Built!concat
  <2>4. TellsApart /\ c[level] = Turned(s, above) => c[level - 1] = s[2 * above - 1] /\ s[2 * above - 1] = s[node]
    BY <2>1, <2>2 DEF Turned, TellsApart, Built!concat
  <2>5. c[level - 1] = s[node] => c[level] = Joined(s, above)
    BY <2>1, <2>2 DEF Joined
  <2> QED BY <2>3, <2>4, <2>5 DEF c, node, above, s
<1> QED BY <1>5, <1>6

(* The top of the path is the root.                                        *)
LEMMA PathEnds ==
  ASSUME BuiltInv, NEW i \in 1..Len(value)
  PROVE  /\ Built!height \in Nat \ {0} /\ Built!height = Len(levels) - 1
         /\ Built!ancestor(i, Built!height) = 1 /\ Built!ancestor(i, 0) = i
<1>1. Len(levels) \in Nat /\ Len(levels) >= 2 /\ Built!height = Len(levels) - 1
  BY DEF BuiltInv, Stacked, Built!height
<1>2. Built!height \in 1..Built!height  BY <1>1
<1>3. Built!ancestor(i, Built!height) \in 1..Len(levels[Built!height + 1])
  BY <1>2, OnPath
<1>4. Built!height + 1 = Len(levels)  BY <1>1
<1>5. Built!ancestor(i, Built!height) \in 1..1  BY <1>3, <1>4 DEF BuiltInv
<1> QED BY <1>1, <1>5, AncestorStep

LEMMA Refuses == BuiltInv /\ TellsApart => Built!OthersRefused
<1> SUFFICES ASSUME BuiltInv, TellsApart, NEW i \in DOMAIN value, NEW v \in BlockValue,
                    Built!verifyElement(i, v)
             PROVE  v = value[i]
  BY DEF Built!OthersRefused
<1> DEFINE c == Built!path(i, sha256(Built!text(v)), TRUE)
           H == Built!height
           on(k) == levels[k + 1][Built!ancestor(i, k)]
<1>1. i \in 1..Len(value)  BY ListProperties DEF BuiltInv
<1>2. H \in Nat \ {0} /\ H = Len(levels) - 1
      /\ Built!ancestor(i, H) = 1 /\ Built!ancestor(i, 0) = i
  BY <1>1, PathEnds
<1>3. c[H] = on(H)  BY <1>2 DEF Built!verifyElement
<1>4. c[0] = sha256(Built!text(v))
  <2>1. Len(levels) \in Nat \ {0}  BY DEF BuiltInv, Stacked
  <2> QED BY <2>1, PathVerifies
<1>5. ASSUME NEW k \in 1..H, c[k] = on(k) PROVE c[k - 1] = on(k - 1)
  <2>1. /\ k \in 1..Len(levels) - 1 /\ (k - 1) + 1 = k
        /\ Built!ancestor(i, k) \in 1..Len(levels[k]) \div 2
    <3>1. k \in Nat /\ (k - 1) + 1 = k  OBVIOUS
    <3> QED BY <1>1, <3>1, OnPath
  <2>2. \/ c[k] = Joined(levels[k], Built!ancestor(i, k))
        \/ c[k] = Turned(levels[k], Built!ancestor(i, k))
    BY <2>1, <1>5 DEF BuiltInv
  <2>3. c[k - 1] = levels[k][Built!ancestor(i, k - 1)]  BY <1>1, <2>2, VerifyStep
  <2> QED BY <2>1, <2>3
<1> HIDE DEF c, on, H
<1> DEFINE S == {n \in Nat : n <= H => c[H - n] = on(H - n)}
<1>6. 0 \in S
  <2>1. H - 0 = H  BY <1>2
  <2> QED BY <2>1, <1>3
<1>7. ASSUME NEW n \in Nat, n \in S PROVE n + 1 \in S
  <2> SUFFICES ASSUME n + 1 <= H PROVE c[H - (n + 1)] = on(H - (n + 1))
    OBVIOUS
  <2>1. n <= H /\ H - n \in 1..H /\ H - (n + 1) = (H - n) - 1  BY <1>2
  <2>2. c[H - n] = on(H - n)  BY <1>7, <2>1
  <2> HIDE DEF S
  <2> QED BY <2>1, <2>2, <1>5
<1> HIDE DEF S
<1>8. H \in S  BY <1>2, <1>6, <1>7, SetInduction
<1>9. c[0] = on(0)
  <2>1. H - H = 0 /\ H <= H  BY <1>2
  <2> QED BY <2>1, <1>8 DEF S
<1>10. on(0) = sha256(Built!text(value[i]))  BY <1>1, <1>2 DEF on, BuiltInv
<1> QED BY <1>4, <1>9, <1>10 DEF TellsApart, Built!text

LEMMA Verifies == BuiltInv => Built!OwnVerified
<1> SUFFICES ASSUME BuiltInv, NEW i \in DOMAIN value,
                    \A level \in 1..Built!height :
                      Built!from_left(level, Built!ancestor(i, level))
             PROVE  Built!verifyElement(i, value[i])
  BY DEF Built!OwnVerified
<1> DEFINE c == Built!path(i, sha256(Built!text(value[i])), TRUE)
           H == Built!height
           on(k) == levels[k + 1][Built!ancestor(i, k)]
<1>1. i \in 1..Len(value)  BY ListProperties DEF BuiltInv
<1>2. H \in Nat \ {0} /\ H = Len(levels) - 1
      /\ Built!ancestor(i, H) = 1 /\ Built!ancestor(i, 0) = i
  BY <1>1, PathEnds
<1>3. c[0] = on(0)
  <2>1. Len(levels) \in Nat \ {0}  BY DEF BuiltInv, Stacked
  <2>2. c[0] = sha256(Built!text(value[i]))  BY <2>1, PathVerifies
  <2>3. on(0) = sha256(Built!text(value[i]))  BY <1>1, <1>2 DEF BuiltInv
  <2> QED BY <2>2, <2>3
<1>4. ASSUME NEW k \in 1..H, c[k - 1] = on(k - 1) PROVE c[k] = on(k)
  <2>1. /\ k \in 1..Len(levels) - 1 /\ (k - 1) + 1 = k
        /\ Built!ancestor(i, k) \in 1..Len(levels[k]) \div 2
    <3>1. k \in Nat /\ (k - 1) + 1 = k  OBVIOUS
    <3> QED BY <1>1, <3>1, OnPath
  <2>2. c[k] = Joined(levels[k], Built!ancestor(i, k))
    <3>1. c[k - 1] = levels[k][Built!ancestor(i, k - 1)]  BY <2>1, <1>4
    <3>2. k \in 1..H  BY <1>4
    <3> QED BY <1>1, <3>1, <3>2, VerifyStep
  <2>3. levels[k + 1][Built!ancestor(i, k)] = Joined(levels[k], Built!ancestor(i, k))
    BY <2>1 DEF BuiltInv
  <2> QED BY <2>2, <2>3
<1>5. c[H] = on(H) => Built!verifyElement(i, value[i])
  BY <1>2 DEF Built!verifyElement
<1> HIDE DEF c, on, H
<1> DEFINE S == {n \in Nat : n <= H => c[n] = on(n)}
<1>6. 0 \in S  BY <1>3
<1>7. ASSUME NEW n \in Nat, n \in S PROVE n + 1 \in S
  <2> SUFFICES ASSUME n + 1 <= H PROVE c[n + 1] = on(n + 1)
    OBVIOUS
  <2>1. n <= H /\ n + 1 \in 1..H /\ (n + 1) - 1 = n  BY <1>2
  <2>2. c[n] = on(n)  BY <1>7, <2>1
  <2> HIDE DEF S
  <2> QED BY <2>1, <2>2, <1>4
<1> HIDE DEF S
<1>8. H \in S  BY <1>2, <1>6, <1>7, SetInduction
<1> QED BY <1>2, <1>5, <1>8 DEF S

LEMMA BuiltKept == MCSpec => []BuiltInv
<1>1. MCInit => BuiltInv  BY BuiltStarts DEF MCInit
<1>2. BuiltInv /\ [MCNext]_<<part, vars, builtVars, sparseVars>> => BuiltInv'
  <2> SUFFICES ASSUME BuiltInv, [MCNext]_<<part, vars, builtVars, sparseVars>>
               PROVE  BuiltInv'
    OBVIOUS
  <2>1. ASSUME builtVars' = builtVars PROVE BuiltInv'
    <3>1. levels' = levels /\ value' = value /\ latest' = latest  BY <2>1 DEF builtVars
    <3> QED BY <3>1 DEF BuiltInv, Built!from_left
  <2>2. CASE StreamStep  BY <2>1, <2>2 DEF StreamStep
  <2>3. CASE BuiltStep  BY <2>3, BuiltUpdate DEF BuiltStep
  <2>4. CASE SparseStep  BY <2>1, <2>4 DEF SparseStep
  <2>5. CASE UNCHANGED <<part, vars, builtVars, sparseVars>>  BY <2>1, <2>5
  <2> QED BY <2>2, <2>3, <2>4, <2>5 DEF MCNext
<1> QED BY <1>1, <1>2, PTL DEF MCSpec

(* Whatever number of blocks there is, whatever sha256 makes of a string   *)
(* and whatever was updated, in any order: what a block holds is verified, *)
(* by verifyElement of mkt-sha256.cpp, unless the last update under one of *)
(* its ancestors came from the right of it.                                *)
THEOREM ElementsVerified == MCSpec => []OwnVerified
<1>1. BuiltInv => OwnVerified  BY Verifies DEF OwnVerified
<1> QED BY <1>1, BuiltKept, PTL

(* What the tree would be worth with a sha256 that tells strings apart,    *)
(* which the program's does not: data other than what a block was last     *)
(* given is refused, whatever was updated and in whatever order.           *)
THEOREM OthersAreRefused == TellsApart => (MCSpec => []Built!OthersRefused)
<1> SUFFICES ASSUME TellsApart PROVE MCSpec => []Built!OthersRefused
  OBVIOUS
<1>1. BuiltInv => Built!OthersRefused  BY Refuses
<1> QED BY <1>1, BuiltKept, PTL

=============================================================================
