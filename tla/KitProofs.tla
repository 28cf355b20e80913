----------------------------- MODULE KitProofs -----------------------------
(***************************************************************************)
(* The parts of the kit, for every instance of them.  The heap: headers    *)
(* lie one behind the other and never inside a block, and a program of one *)
(* size has all that it is refused for.  The reception: what the loop      *)
(* printed is cleared before it prints again, and the routine stores only  *)
(* what is new.  The interrupt controller, for every set of pins, width of *)
(* a priority and use of the driver: a claim returns a pending pin, and a  *)
(* pin in service is not pending again.  The controller is two clocks      *)
(* late: after a claim its wire may still stand for the claimed pin, but   *)
(* no longer than the handler takes to complete it, and that is what its   *)
(* invariant says.                                                         *)
(***************************************************************************)
EXTENDS MCKit, SequenceTheorems, FiniteSetTheorems, WellFoundedInduction, TLAPS

(* A set of naturals that is not empty has a least element: the intervals  *)
(* below an element are well-founded under inclusion.                      *)
LEMMA LeastNat ==
  ASSUME NEW T, T \subseteq Nat, T # {}
  PROVE  \E m \in T : \A y \in T : m <= y
<1>1. PICK x \in T : TRUE
  OBVIOUS
<1>2. x \in Nat
  OBVIOUS
<1> DEFINE S == 0..x
           F == {0..m : m \in T \cap S}
<1>3. IsFiniteSet(S)
  BY <1>2, FS_Interval
<1>4. IsWellFoundedOn(StrictSubsetOrdering(S), SUBSET S)
  <2> HIDE DEF S
  <2> QED BY <1>3, FS_StrictSubsetOrderingWellFounded, FS_FiniteSubsetsOfFinite
<1>5. F \subseteq SUBSET S /\ F # {}
  BY <1>2
<1>6. PICK A \in F : \A B \in F : ~(<<B, A>> \in StrictSubsetOrdering(S))
  <2> HIDE DEF F, S
  <2> QED BY <1>4, <1>5, WFMin
<1>7. PICK m \in T \cap S : A = 0..m
  OBVIOUS
<1>8. ASSUME NEW y \in T, y < m PROVE FALSE
  <2>1. 0..y \in F /\ 0..y \subseteq 0..m /\ m \in 0..m /\ m \notin 0..y /\ 0..y # 0..m
    BY <1>8, <1>2
  <2>2. <<0..y, A>> \in StrictSubsetOrdering(S)
    BY <2>1, <1>7, <1>5 DEF StrictSubsetOrdering
  <2> QED BY <2>1, <2>2, <1>6
<1> QED BY <1>7, <1>8

(* Induction over the naturals, for a set.                                 *)
LEMMA SetInduction ==
  ASSUME NEW S, 0 \in S, \A n \in Nat : n \in S => n + 1 \in S
  PROVE  Nat \subseteq S
<1> SUFFICES ASSUME NEW x \in Nat, x \notin S PROVE FALSE
  OBVIOUS
<1>1. PICK m \in Nat \ S : \A y \in Nat \ S : m <= y
  BY LeastNat
<1>2. m # 0 /\ m - 1 \in Nat
  BY <1>1
<1>3. m - 1 \in S
  BY <1>1, <1>2
<1>4. (m - 1) + 1 \in S
  BY <1>2, <1>3
<1> QED BY <1>1, <1>4

-----------------------------------------------------------------------------
(* The heap.  As long as every split fits, each header lies behind the     *)
(* block before it, and the list only leads upwards.                       *)
Measures == 0..SizeMod - 1

Laid(headers, top) ==
  LET D == DOMAIN headers IN
  /\ D \subseteq 0..top
  /\ headers \in [D -> [size : Measures, free : BOOLEAN, next : D \union {-1}]]
  /\ \A a \in D : /\ a + headers[a].size <= top
                  /\ headers[a].next # -1 => headers[a].next > a
  /\ \A a, b \in D : a < b => a + 24 + headers[a].size <= b

(* The search is the walk along the list that it reads as.                 *)
Finds(headers, size, f) ==
  \A a \in DOMAIN headers \union {-1} :
    f[a] = IF a = -1 \/ (headers[a].free /\ headers[a].size >= size) THEN a ELSE f[headers[a].next]

LEMMA Search ==
  ASSUME NEW headers, NEW top \in Nat, NEW size, NEW base,
         DOMAIN headers \subseteq 0..top,
         \A a \in DOMAIN headers : headers[a].next = -1 \/
           (headers[a].next \in DOMAIN headers /\ headers[a].next > a)
  PROVE  \E f : Finds(headers, size, f) /\ NodeHeap!find_free_block(headers, base, size) = f[base]
<1> DEFINE E == DOMAIN headers \union {-1}
           next(a) == headers[a].next
           stops(a) == a = -1 \/ (headers[a].free /\ headers[a].size >= size)
           at(f, a) == IF stops(a) THEN a ELSE f[next(a)]
           part_of(n) == {a \in E : a = -1 \/ a > top - n}
           S == {n \in Nat : \E f : f = [a \in part_of(n) |-> at(f, a)]}
<1>1. \A a \in E : a \in -1..top
  OBVIOUS
<1>2. ASSUME NEW n \in Nat, NEW a \in part_of(n + 1), ~stops(a)
      PROVE  next(a) \in part_of(n)
  <2>1. a \in DOMAIN headers /\ a > top - (n + 1) /\ a \in Int  BY <1>1, <1>2
  <2>2. next(a) = -1 \/ (next(a) \in DOMAIN headers /\ next(a) > a)  BY <2>1
  <2>3. next(a) \in E  BY <2>2
  <2>4. next(a) \in Int  BY <1>1, <2>3
  <2> HIDE DEF next, stops
  <2>5. next(a) = -1 \/ next(a) > top - n  BY <2>1, <2>2, <2>4
  <2> QED BY <2>3, <2>5
<1>3. part_of(0) = {-1}  BY <1>1
<1>4. part_of(top + 1) = E  BY <1>1
<1>5. 0 \in S
  <2> DEFINE f == [a \in {-1} |-> a]
  <2>1. f = [a \in {-1} |-> at(f, a)]  OBVIOUS
  <2> HIDE DEF f, at, part_of
  <2> QED BY <1>3, <2>1
<1>6. ASSUME NEW n \in Nat, n \in S PROVE n + 1 \in S
  <2>1. PICK f : f = [a \in part_of(n) |-> at(f, a)]  BY <1>6
  <2> DEFINE g == [a \in part_of(n + 1) |-> at(f, a)]
  <2>2. part_of(n) \subseteq part_of(n + 1)  BY <1>1
  <2> HIDE DEF part_of
  <2>3. ASSUME NEW a \in part_of(n + 1) PROVE g[a] = at(g, a)
    <3>1. g[a] = at(f, a)  OBVIOUS
    <3>2. CASE stops(a)
      <4> HIDE DEF g, stops
      <4> QED BY <3>1, <3>2
    <3>3. CASE ~stops(a)
      <4>1. next(a) \in part_of(n)  BY <1>2, <3>3
      <4>2. f[next(a)] = at(f, next(a)) /\ g[next(a)] = at(f, next(a))
        <5> HIDE DEF at
        <5> QED BY <2>1, <2>2, <4>1
      <4> HIDE DEF g, stops, next
      <4>3. at(f, a) = f[next(a)] /\ at(g, a) = g[next(a)]  BY <3>3
      <4> HIDE DEF at
      <4> QED BY <3>1, <4>2, <4>3
    <3> QED BY <3>2, <3>3
  <2>4. g = [a \in part_of(n + 1) |-> g[a]]  OBVIOUS
  <2> HIDE DEF g, at
  <2>5. g = [a \in part_of(n + 1) |-> at(g, a)]  BY <2>3, <2>4
  <2> QED BY <2>5
<1> DEFINE from == CHOOSE f : f = [a \in E |-> at(f, a)]
<1>7. from = [a \in E |-> at(from, a)]
  <2> HIDE DEF S
  <2>1. top + 1 \in S  BY <1>5, <1>6, SetInduction
  <2> HIDE DEF at, part_of, E
  <2>2. \E f : f = [a \in E |-> at(f, a)]  BY <1>4, <2>1 DEF S
  <2> QED BY <2>2
<1>8. NodeHeap!find_free_block(headers, base, size) = from[base]
  BY DEF NodeHeap!find_free_block, NodeHeap!NULL
<1> HIDE DEF from, S
<1>9. \A a \in E : from[a] = at(from, a)  BY <1>7
<1>10. Finds(headers, size, from)  BY <1>9 DEF Finds
<1> QED BY <1>8, <1>10

(* Whatever list is searched, what is found is free and large enough.      *)
LEMMA FindFree ==
  ASSUME NEW headers, NEW top \in Nat, NEW size, NEW base \in DOMAIN headers \union {-1},
         DOMAIN headers \subseteq 0..top,
         \A a \in DOMAIN headers : headers[a].next = -1 \/
           (headers[a].next \in DOMAIN headers /\ headers[a].next > a)
  PROVE  LET r == NodeHeap!find_free_block(headers, base, size)
         IN r = -1 \/ (r \in DOMAIN headers /\ headers[r].free /\ headers[r].size >= size)
<1> DEFINE E == DOMAIN headers \union {-1}
           next(a) == headers[a].next
           stops(a) == a = -1 \/ (headers[a].free /\ headers[a].size >= size)
           at(f, a) == IF stops(a) THEN a ELSE f[next(a)]
           part_of(n) == {a \in E : a = -1 \/ a > top - n}
           Good(r) == r = -1 \/ (r \in DOMAIN headers /\ headers[r].free /\ headers[r].size >= size)
<1>1. \A a \in E : a \in -1..top
  OBVIOUS
<1>2. ASSUME NEW n \in Nat, NEW a \in part_of(n + 1), ~stops(a)
      PROVE  next(a) \in part_of(n)
  <2>1. a \in DOMAIN headers /\ a > top - (n + 1) /\ a \in Int  BY <1>1, <1>2
  <2>2. next(a) = -1 \/ (next(a) \in DOMAIN headers /\ next(a) > a)  BY <2>1
  <2>3. next(a) \in E  BY <2>2
  <2>4. next(a) \in Int  BY <1>1, <2>3
  <2> HIDE DEF next, stops
  <2>5. next(a) = -1 \/ next(a) > top - n  BY <2>1, <2>2, <2>4
  <2> QED BY <2>3, <2>5
<1>3. part_of(0) = {-1}  BY <1>1
<1>4. part_of(top + 1) = E  BY <1>1
<1>5. PICK from : /\ Finds(headers, size, from)
                 /\ NodeHeap!find_free_block(headers, base, size) = from[base]
  BY Search
<1>9. \A a \in E : from[a] = at(from, a)  BY <1>5 DEF Finds
<1> DEFINE T == {n \in Nat : \A a \in part_of(n) : Good(from[a])}
<1>10. 0 \in T
  <2>1. -1 \in E /\ stops(-1)  OBVIOUS
  <2>2. from[-1] = -1  BY <1>9, <2>1
  <2> QED BY <1>3, <2>2
<1>11. ASSUME NEW n \in Nat, n \in T PROVE n + 1 \in T
  <2> SUFFICES ASSUME NEW a \in part_of(n + 1) PROVE Good(from[a])
    OBVIOUS
  <2>1. a \in E  OBVIOUS
  <2>2. CASE stops(a)
    <3>1. from[a] = a  BY <1>9, <2>1, <2>2
    <3> QED BY <2>1, <2>2, <3>1
  <2>3. CASE ~stops(a)
    <3>1. next(a) \in part_of(n)  BY <1>2, <2>3
    <3>2. from[a] = from[next(a)]  BY <1>9, <2>1, <2>3
    <3> HIDE DEF next, part_of, Good
    <3>3. Good(from[next(a)])  BY <1>11, <3>1
    <3> QED BY <3>2, <3>3
  <2> QED BY <2>2, <2>3
<1> HIDE DEF T, part_of, Good
<1>12. top + 1 \in T  BY <1>10, <1>11, SetInduction
<1>13. Good(from[base])  BY <1>4, <1>12 DEF T
<1> QED BY <1>5, <1>13 DEF Good

(* Where every header is the first, or next of one before it, a search     *)
(* that fails has met them all.                                            *)
LEMMA FailedSearch ==
  ASSUME NEW headers, NEW top \in Nat, NEW size, NEW base \in DOMAIN headers,
         DOMAIN headers \subseteq 0..top,
         \A a \in DOMAIN headers : headers[a].next = -1 \/
           (headers[a].next \in DOMAIN headers /\ headers[a].next > a),
         \A a \in DOMAIN headers : a = base \/ \E b \in DOMAIN headers : headers[b].next = a,
         NodeHeap!find_free_block(headers, base, size) = -1
  PROVE  \A a \in DOMAIN headers : ~(headers[a].free /\ headers[a].size >= size)
<1> DEFINE D == DOMAIN headers
           stops(a) == headers[a].free /\ headers[a].size >= size
<1>1. PICK f : /\ Finds(headers, size, f)
               /\ NodeHeap!find_free_block(headers, base, size) = f[base]
  BY Search
<1>2. \A a \in D : a \in Nat /\ a # -1  OBVIOUS
<1>3. \A a \in D : f[a] = IF stops(a) THEN a ELSE f[headers[a].next]  BY <1>1, <1>2 DEF Finds
<1>4. f[base] = -1  BY <1>1
<1> HIDE DEF stops
<1> DEFINE Met == {a \in D : f[a] = -1}
           Unmet == {a \in D : f[a] # -1}
<1>5. ASSUME Unmet # {} PROVE FALSE
  <2>1. PICK m \in Unmet : \A y \in Unmet : m <= y
    <3>1. Unmet \subseteq Nat  BY <1>2
    <3> HIDE DEF Unmet
    <3> QED BY <1>5, <3>1, LeastNat
  <2>2. m \in D /\ f[m] # -1 /\ m # base  BY <1>4
  <2>3. PICK b \in D : headers[b].next = m  BY <2>2
  <2>4. b < m
    <3>1. m # -1  BY <1>2, <2>2
    <3> QED BY <2>3, <3>1
  <2>5. f[b] = -1
    <3>1. b \in Nat /\ m \in Nat /\ ~(m <= b)  BY <1>2, <2>2, <2>4
    <3> QED BY <2>1, <3>1
  <2>6. ~stops(b)  BY <1>2, <1>3, <2>5
  <2>7. f[b] = f[m]  BY <1>3, <2>3, <2>6
  <2> QED BY <2>2, <2>5, <2>7
<1>6. ASSUME NEW a \in D PROVE ~stops(a)
  <2>1. f[a] = -1  BY <1>5
  <2> QED BY <1>2, <1>3, <2>1
<1> QED BY <1>6 DEF stops

(* The list the allocator walks is of headers it has written.              *)
LEMMA ListedAreHeaders ==
  ASSUME NEW top \in Nat, DOMAIN hdr \subseteq 0..top, global_base \in DOMAIN hdr \union {-1},
         \A a \in DOMAIN hdr : hdr[a].next = -1 \/ (hdr[a].next \in DOMAIN hdr /\ hdr[a].next > a)
  PROVE  NodeHeap!listed \subseteq DOMAIN hdr
<1> DEFINE D == DOMAIN hdr
           E == D \union {-1}
           next(a) == hdr[a].next
           at(f, a) == IF a = -1 THEN {} ELSE {a} \union f[next(a)]
           part_of(n) == {a \in E : a = -1 \/ a > top - n}
           S == {n \in Nat : \E f : f = [a \in part_of(n) |-> at(f, a)]}
<1>1. \A a \in E : a \in -1..top
  OBVIOUS
<1>2. ASSUME NEW n \in Nat, NEW a \in part_of(n + 1), a # -1
      PROVE  next(a) \in part_of(n)
  <2>1. a \in D /\ a > top - (n + 1) /\ a \in Int  BY <1>1, <1>2
  <2>2. next(a) = -1 \/ (next(a) \in D /\ next(a) > a)  BY <2>1
  <2>3. next(a) \in E  BY <2>2
  <2>4. next(a) \in Int  BY <1>1, <2>3
  <2> HIDE DEF next
  <2>5. next(a) = -1 \/ next(a) > top - n  BY <2>1, <2>2, <2>4
  <2> QED BY <2>3, <2>5
<1>3. part_of(0) = {-1}  BY <1>1
<1>4. part_of(top + 1) = E  BY <1>1
<1>5. 0 \in S
  <2> DEFINE f == [a \in {-1} |-> {}]
  <2>1. f = [a \in {-1} |-> at(f, a)]  OBVIOUS
  <2> HIDE DEF f, at, part_of
  <2> QED BY <1>3, <2>1
<1>6. ASSUME NEW n \in Nat, n \in S PROVE n + 1 \in S
  <2>1. PICK f : f = [a \in part_of(n) |-> at(f, a)]  BY <1>6
  <2> DEFINE g == [a \in part_of(n + 1) |-> at(f, a)]
  <2>2. part_of(n) \subseteq part_of(n + 1)  BY <1>1
  <2> HIDE DEF part_of
  <2>3. ASSUME NEW a \in part_of(n + 1) PROVE g[a] = at(g, a)
    <3>1. g[a] = at(f, a)  OBVIOUS
    <3>2. CASE a = -1
      <4> HIDE DEF g
      <4> QED BY <3>1, <3>2
    <3>3. CASE a # -1
      <4>1. next(a) \in part_of(n)  BY <1>2, <3>3
      <4>2. f[next(a)] = at(f, next(a)) /\ g[next(a)] = at(f, next(a))
        <5> HIDE DEF at
        <5> QED BY <2>1, <2>2, <4>1
      <4> HIDE DEF g, next
      <4>3. at(f, a) = {a} \union f[next(a)] /\ at(g, a) = {a} \union g[next(a)]  BY <3>3
      <4> HIDE DEF at
      <4> QED BY <3>1, <4>2, <4>3
    <3> QED BY <3>2, <3>3
  <2>4. g = [a \in part_of(n + 1) |-> g[a]]  OBVIOUS
  <2> HIDE DEF g, at
  <2>5. g = [a \in part_of(n + 1) |-> at(g, a)]  BY <2>3, <2>4
  <2> QED BY <2>5
<1> DEFINE from == CHOOSE f : f = [a \in E |-> at(f, a)]
<1>7. from = [a \in E |-> at(from, a)]
  <2> HIDE DEF S
  <2>1. top + 1 \in S  BY <1>5, <1>6, SetInduction
  <2> HIDE DEF at, part_of, E
  <2>2. \E f : f = [a \in E |-> at(f, a)]  BY <1>4, <2>1 DEF S
  <2> QED BY <2>2
<1>8. NodeHeap!listed = from[global_base]
  BY DEF NodeHeap!listed, NodeHeap!NULL, NodeHeap!Headers
<1> HIDE DEF from, S
<1>9. \A a \in E : from[a] = at(from, a)  BY <1>7
<1> DEFINE T == {n \in Nat : \A a \in part_of(n) : from[a] \subseteq D}
<1>10. 0 \in T
  <2>1. -1 \in E  OBVIOUS
  <2>2. from[-1] = {}  BY <1>9, <2>1
  <2> QED BY <1>3, <2>2
<1>11. ASSUME NEW n \in Nat, n \in T PROVE n + 1 \in T
  <2> SUFFICES ASSUME NEW a \in part_of(n + 1) PROVE from[a] \subseteq D
    OBVIOUS
  <2>1. a \in E  OBVIOUS
  <2>2. CASE a = -1
    <3>1. from[a] = {}  BY <1>9, <2>1, <2>2
    <3> QED BY <3>1
  <2>3. CASE a # -1
    <3>1. next(a) \in part_of(n)  BY <1>2, <2>3
    <3>2. from[a] = {a} \union from[next(a)]  BY <1>9, <2>1, <2>3
    <3>3. a \in D  BY <2>1, <2>3
    <3> HIDE DEF next, part_of, D
    <3>4. from[next(a)] \subseteq D  BY <1>11, <3>1
    <3> QED BY <3>2, <3>3, <3>4
  <2> QED BY <2>2, <2>3
<1> HIDE DEF T, part_of
<1>12. top + 1 \in T  BY <1>10, <1>11, SetInduction
<1>13. from[global_base] \subseteq D  BY <1>4, <1>12 DEF T
<1> QED BY <1>8, <1>13

LEMMA ModBelow == \A x, m \in Nat : x < m => x % m = x
OBVIOUS

(* A block that is larger is split behind what was asked for.  A split     *)
(* that fits rounded nothing and wrapped nothing: the new header is right  *)
(* behind the block, and what is left is what the two leave over.          *)
Splits(headers, H, block, size) ==
  H = [a \in DOMAIN headers \union {block + size + 24} |->
         IF a = block + size + 24
         THEN [size |-> headers[block].size - size - 24, free |-> TRUE, next |-> -1]
         ELSE IF a = block THEN [size |-> size, free |-> FALSE, next |-> block + size + 24]
         ELSE headers[a]]

LEMMA RoundedUp == \A x \in Nat : ((x + 7) \div 8) * 8 \in Nat /\ ((x + 7) \div 8) * 8 >= x
OBVIOUS

LEMMA ModRange == \A x \in Int, m \in Nat \ {0} : x % m \in 0..m - 1
OBVIOUS

LEMMA Splitting ==
  ASSUME NEW headers, NEW block \in Nat, NEW size \in Nat, SizeMod \in Nat,
         headers[block].size \in Nat, headers[block].size < SizeMod,
         headers[block].size > size, NodeHeap!fits(headers, block, size)
  PROVE  /\ Splits(headers, NodeHeap!take(headers, block, size), block, size)
         /\ headers[block].size - size - 24 \in Nat
<1> DEFINE H == NodeHeap!take(headers, block, size)
           old == headers[block].size
           new == block + size + 24
           left == old - size - 24
           at == NodeHeap!newblock_at(block, size)
           rest == NodeHeap!rest(old, size)
<1>1. old \in Nat /\ old < SizeMod /\ old > size /\ new \in Nat /\ left \in Int
  OBVIOUS
<1>2. at \in Nat /\ at >= new
  <2>1. (new + 8 - 1) \div 8 = (new + 7) \div 8
    <3> HIDE DEF new
    <3>1. new + 8 - 1 = new + 7  BY <1>1
    <3> QED BY <3>1
  <2>2. NodeHeap!round_up(new) = ((new + 8 - 1) \div 8) * 8
    BY DEF NodeHeap!round_up, NodeHeap!REGSIZE
  <2>3. at = NodeHeap!round_up(new)  BY DEF NodeHeap!newblock_at, NodeHeap!HeaderSize
  <2> HIDE DEF new, at
  <2> QED BY <1>1, <2>1, <2>2, <2>3, RoundedUp
<1>3. rest = left % SizeMod /\ rest \in 0..SizeMod - 1
  <2>1. rest = left % SizeMod  BY DEF NodeHeap!rest, NodeHeap!HeaderSize
  <2>2. SizeMod \in Nat \ {0}  BY <1>1
  <2> HIDE DEF rest, left, old
  <2> QED BY <1>1, <2>1, <2>2, ModRange
<1>4. at + rest <= block + old  BY <1>1 DEF NodeHeap!fits
<1> HIDE DEF at, rest, H
<1>5. left \in Nat /\ left < SizeMod
  <2>1. rest \in Nat  BY <1>3
  <2>2. new + rest <= block + old  BY <1>1, <1>2, <1>4, <2>1
  <2> QED BY <1>1, <2>1, <2>2
<1>6. rest = left
  <2> HIDE DEF left
  <2> QED BY <1>3, <1>5, ModBelow
<1>7. at = new  BY <1>1, <1>2, <1>4, <1>5, <1>6
<1>8. H = [a \in DOMAIN headers \union {new} |->
             IF a = new THEN [size |-> left, free |-> TRUE, next |-> -1]
             ELSE IF a = block THEN [size |-> size, free |-> FALSE, next |-> new]
             ELSE headers[a]]
  <2>1. H = NodeHeap!allocate_block(headers, block, size)  BY <1>1 DEF H, NodeHeap!take
  <2> HIDE DEF new, left
  <2> QED BY <1>6, <1>7, <2>1
      DEF at, rest, NodeHeap!allocate_block, NodeHeap!Header, NodeHeap!NULL
<1> QED BY <1>5, <1>8 DEF Splits, H

(* To hand out a block, whole or split, keeps the headers as they lie.     *)
Taken(headers, H, size, block) ==
  /\ DOMAIN headers \subseteq DOMAIN H
  /\ H[block].size = size /\ H[block].free = FALSE
  /\ \A a \in DOMAIN headers \ {block} : H[a] = headers[a]

LEMMA Taking ==
  ASSUME NEW headers, NEW top \in Nat, Laid(headers, top), SizeMod \in Nat, NEW size \in Nat
  PROVE  \A block \in DOMAIN headers :
           headers[block].size >= size /\ NodeHeap!fits(headers, block, size) =>
           /\ Laid(NodeHeap!take(headers, block, size), top)
           /\ Taken(headers, NodeHeap!take(headers, block, size), size, block)
<1> SUFFICES ASSUME NEW block \in DOMAIN headers, headers[block].size >= size,
                    NodeHeap!fits(headers, block, size)
             PROVE  /\ Laid(NodeHeap!take(headers, block, size), top)
                    /\ Taken(headers, NodeHeap!take(headers, block, size), size, block)
  OBVIOUS
<1> DEFINE D == DOMAIN headers
           H == NodeHeap!take(headers, block, size)
           old == headers[block].size
           new == block + size + 24
           left == old - size - 24
           Record == [size : Measures, free : BOOLEAN, next : D \union {-1}]
<1>1. /\ D \subseteq 0..top /\ headers \in [D -> Record]
      /\ \A a \in D : /\ a + headers[a].size <= top
                      /\ headers[a].next # -1 => headers[a].next > a
      /\ \A a, b \in D : a < b => a + 24 + headers[a].size <= b
  BY DEF Laid
<1>2. /\ block \in Nat /\ size \in Measures
      /\ old \in Nat /\ old < SizeMod /\ old \in Measures /\ old >= size /\ block + old <= top
  <2>1. headers[block] \in Record  BY <1>1
  <2>2. old \in Measures  BY <2>1
  <2> QED BY <1>1, <2>2 DEF Measures
<1>3. CASE old > size
  <2>2. Splits(headers, H, block, size) /\ left \in Nat  BY <1>2, <1>3, Splitting
  <2>1. left \in Measures /\ left \in Nat /\ left < SizeMod  BY <1>2, <2>2 DEF Measures
  <2>4. H = [a \in D \union {new} |->
               IF a = new THEN [size |-> left, free |-> TRUE, next |-> -1]
               ELSE IF a = block THEN [size |-> size, free |-> FALSE, next |-> new]
               ELSE headers[a]]
    <3> HIDE DEF H
    <3> QED BY <2>2 DEF Splits
  <2>5. new \in Nat /\ new > block /\ new + 24 + left = block + 24 + old
        /\ new + left <= top /\ new \in 0..top /\ block + size <= top
    BY <1>2, <2>1
  <2>6. \A a \in D : a > block => a >= new + 24 + left
    <3> SUFFICES ASSUME NEW a \in D, a > block PROVE a >= new + 24 + left
      OBVIOUS
    <3>1. block + 24 + old <= a  BY <1>1
    <3>2. a \in Nat  BY <1>1
    <3> QED BY <1>2, <2>1, <2>5, <3>1, <3>2
  <2>7. new \notin D  BY <2>1, <2>5, <2>6
  <2> HIDE DEF H, new, left, old
  <2>8. DOMAIN H = D \union {new}  BY <2>4
  <2>9. H[new] = [size |-> left, free |-> TRUE, next |-> -1]  BY <2>4
  <2>10. H[block] = [size |-> size, free |-> FALSE, next |-> new]  BY <2>4, <2>7
  <2>11. \A a \in D \ {block} : H[a] = headers[a]  BY <2>4, <2>7
  <2>12. H \in [D \union {new} -> [size : Measures, free : BOOLEAN, next : D \union {new, -1}]]
    <3> DEFINE R == [size : Measures, free : BOOLEAN, next : D \union {new, -1}]
    <3>1. H[new] \in R  BY <2>1, <2>9
    <3>2. H[block] \in R  BY <1>2, <2>10
    <3>3. \A a \in D \ {block} : H[a] \in R
      <4>1. \A a \in D : headers[a] \in Record  BY <1>1
      <4>2. Record \subseteq R  OBVIOUS
      <4> HIDE DEF R, Record
      <4> QED BY <2>11, <4>1, <4>2
    <3> HIDE DEF R
    <3>4. \A a \in D \union {new} : H[a] \in R  BY <3>1, <3>2, <3>3
    <3>5. H = [a \in D \union {new} |-> H[a]]  BY <2>4
    <3>6. H \in [D \union {new} -> R]  BY <3>4, <3>5
    <3> QED BY <3>6 DEF R
  <2>13. ASSUME NEW a \in D \union {new}
         PROVE  /\ a + H[a].size <= top
                /\ H[a].next # -1 => H[a].next > a
    <3>1. CASE a = new  BY <2>5, <2>9, <3>1
    <3>2. CASE a = block  BY <1>2, <2>5, <2>10, <3>2
    <3>3. CASE a \in D \ {block}  BY <1>1, <2>11, <3>3
    <3> QED BY <3>1, <3>2, <3>3
  <2>14. ASSUME NEW a \in D \union {new}, NEW b \in D \union {new}, a < b
         PROVE  a + 24 + H[a].size <= b
    <3>0. a \in Nat /\ b \in Nat  BY <1>1, <2>5
    <3>1. CASE a = new
      <4>1. b \in D /\ b > block  BY <1>2, <2>5, <2>14, <3>0, <3>1
      <4> QED BY <2>6, <2>9, <3>1, <4>1
    <3>2. CASE a = block /\ b = new  BY <1>2, <2>10, <3>2 DEF new
    <3>3. CASE a = block /\ b # new
      <4>1. b \in D /\ b >= new + 24 + left  BY <2>6, <2>14, <3>3
      <4>2. H[a].size = size  BY <2>10, <3>3
      <4> QED BY <1>2, <2>1, <3>0, <3>3, <4>1, <4>2 DEF new
    <3>4. CASE a \in D \ {block} /\ b \in D
      <4>1. H[a].size = headers[a].size  BY <2>11, <3>4
      <4> QED BY <1>1, <2>14, <3>4, <4>1
    <3>5. CASE a \in D \ {block} /\ b = new
      <4>1. H[a].size = headers[a].size  BY <2>11, <3>5
      <4>2. ~(a > block)
        <5>1. a > block => a >= new + 24 + left  BY <2>6, <3>5
        <5> QED BY <2>1, <2>5, <2>14, <3>0, <3>5, <5>1
      <4>3. a < block  BY <1>2, <3>0, <3>5, <4>2
      <4>4. a + 24 + headers[a].size <= block  BY <1>1, <3>5, <4>3
      <4>5. headers[a].size \in Nat
        <5>1. headers[a] \in Record  BY <1>1, <3>5
        <5> QED BY <1>2, <5>1 DEF Measures
      <4> QED BY <1>2, <2>5, <3>0, <3>5, <4>1, <4>4, <4>5
    <3> QED BY <3>1, <3>2, <3>3, <3>4, <3>5
  <2>15. D \union {new} \subseteq 0..top  BY <1>1, <2>5
  <2>16. Laid(H, top)
    <3>1. D \union {new, -1} = (D \union {new}) \union {-1}  OBVIOUS
    <3>2. /\ DOMAIN H \subseteq 0..top
          /\ H \in [DOMAIN H -> [size : Measures, free : BOOLEAN, next : DOMAIN H \union {-1}]]
      BY <2>8, <2>12, <2>15, <3>1
    <3>3. \A a \in DOMAIN H : /\ a + H[a].size <= top
                              /\ H[a].next # -1 => H[a].next > a
      BY <2>8, <2>13
    <3>4. \A a, b \in DOMAIN H : a < b => a + 24 + H[a].size <= b  BY <2>8, <2>14
    <3> QED BY <3>2, <3>3, <3>4 DEF Laid
  <2> QED BY <2>8, <2>10, <2>11, <2>16 DEF H, Taken
<1>4. CASE old = size
  <2>1. H = [headers EXCEPT ![block].free = FALSE]  BY <1>2, <1>4 DEF NodeHeap!take
  <2> HIDE DEF H
  <2>2. DOMAIN H = D /\ \A a \in D \ {block} : H[a] = headers[a]  BY <2>1
  <2>3. H[block] = [headers[block] EXCEPT !.free = FALSE]  BY <1>1, <2>1
  <2>4. headers[block] \in Record  BY <1>1
  <2>5. /\ H[block] \in Record /\ H[block].free = FALSE /\ H[block].size = old
        /\ H[block].next = headers[block].next
    BY <2>3, <2>4
  <2>6. H \in [D -> Record]
    <3>1. H = [a \in D |-> H[a]]  BY <2>1
    <3>2. \A a \in D : H[a] \in Record
      <4>1. \A a \in D : headers[a] \in Record  BY <1>1
      <4> HIDE DEF Record
      <4> QED BY <2>2, <2>5, <4>1
    <3> HIDE DEF Record
    <3> QED BY <3>1, <3>2
  <2>7. \A a \in D : H[a].size = headers[a].size /\ H[a].next = headers[a].next
    BY <2>2, <2>5
  <2> HIDE DEF D
  <2>8. Laid(H, top)
    <3>1. D \subseteq 0..top /\ DOMAIN H = D  BY <1>1, <2>2
    <3>2. \A a \in D : /\ a + H[a].size <= top
                       /\ H[a].next # -1 => H[a].next > a
      BY <1>1, <2>7
    <3>3. \A a, b \in D : a < b => a + 24 + H[a].size <= b  BY <1>1, <2>7
    <3> QED BY <2>6, <3>1, <3>2, <3>3 DEF Laid
  <2> QED BY <1>4, <2>2, <2>5, <2>8 DEF H, D, Taken
<1>5. old > size \/ old = size
  <2>1. old \in Nat /\ size \in Nat /\ old >= size  BY <1>2
  <2> HIDE DEF old
  <2> QED BY <2>1
<1> QED BY <1>3, <1>4, <1>5

(* A heap as the allocator and the program leave it.                       *)
HeapInv ==
  /\ heap_ptr \in Nat
  /\ Laid(hdr, heap_ptr)
  /\ global_base \in DOMAIN hdr \union {-1}
  /\ global_base = -1 => DOMAIN hdr = {}
  /\ DOMAIN live \subseteq DOMAIN hdr
  /\ \A a \in DOMAIN live : live[a] = hdr[a].size /\ hdr[a].free = FALSE

(* What malloc does, whichever heap it is the malloc of.                   *)
Allocates(size, heapSize) ==
  LET first == global_base = -1
      headers == IF first THEN [a \in {heap_ptr} |-> [size |-> heapSize, free |-> TRUE, next |-> -1]]
                 ELSE hdr
      base == IF first THEN heap_ptr ELSE global_base
      block == NodeHeap!find_free_block(headers, base, size)
  IN /\ heap_ptr' = IF first THEN heap_ptr + heapSize ELSE heap_ptr
     /\ \/ UNCHANGED <<global_base, hdr, live>>
        \/ first /\ global_base' = base /\ hdr' = headers /\ UNCHANGED live
        \/ /\ block # -1
           /\ global_base' = base
           /\ hdr' = NodeHeap!take(headers, block, size)
           /\ fitted' = NodeHeap!fits(headers, block, size)
           /\ live' = [a \in DOMAIN live \union {block} |-> IF a = block THEN size ELSE live[a]]

LEMMA LaidMore ==
  ASSUME NEW headers, NEW top \in Nat, NEW more \in Nat, more >= top, SizeMod \in Nat,
         Laid(headers, top)
  PROVE  Laid(headers, more)
<1> DEFINE D == DOMAIN headers
<1>1. /\ D \subseteq 0..top
      /\ headers \in [D -> [size : Measures, free : BOOLEAN, next : D \union {-1}]]
      /\ \A a \in D : /\ a + headers[a].size <= top
                      /\ headers[a].next # -1 => headers[a].next > a
      /\ \A a, b \in D : a < b => a + 24 + headers[a].size <= b
  BY DEF Laid
<1>2. D \subseteq 0..more  BY <1>1
<1>3. ASSUME NEW a \in D PROVE a + headers[a].size <= more
  <2>1. headers[a] \in [size : Measures, free : BOOLEAN, next : D \union {-1}]  BY <1>1
  <2>2. headers[a].size \in Nat /\ a \in Nat  BY <1>1, <2>1 DEF Measures
  <2>3. a + headers[a].size <= top  BY <1>1
  <2> QED BY <2>2, <2>3
<1> QED BY <1>1, <1>2, <1>3 DEF Laid

(* A block found is free, so the program does not have it.                 *)
LEMMA AllocatesInv ==
  ASSUME NEW heapSize \in Measures, NEW size \in Nat, HeapInv, SizeMod \in Nat,
         Allocates(size, heapSize), fitted'
  PROVE  HeapInv'
<1> DEFINE first == global_base = -1
           one == [a \in {heap_ptr} |-> [size |-> heapSize, free |-> TRUE, next |-> -1]]
           headers == IF first THEN one ELSE hdr
           base == IF first THEN heap_ptr ELSE global_base
           top == IF first THEN heap_ptr + heapSize ELSE heap_ptr
           block == NodeHeap!find_free_block(headers, base, size)
<1>1. /\ heap_ptr \in Nat /\ Laid(hdr, heap_ptr)
      /\ global_base \in DOMAIN hdr \union {-1} /\ (first => DOMAIN hdr = {})
      /\ DOMAIN live \subseteq DOMAIN hdr
      /\ \A a \in DOMAIN live : live[a] = hdr[a].size /\ hdr[a].free = FALSE
  BY DEF HeapInv
<1>2. heapSize \in Nat /\ top \in Nat /\ top >= heap_ptr
  <2>1. heapSize \in Nat  BY DEF Measures
  <2> QED BY <1>1, <2>1
<1>3. heap_ptr' = top  BY DEF Allocates
<1>4. Laid(headers, top) /\ base \in DOMAIN headers
  <2>1. CASE first
    <3>1. headers = one /\ base = heap_ptr /\ top = heap_ptr + heapSize  BY <2>1
    <3>2. DOMAIN one = {heap_ptr} /\ one[heap_ptr] = [size |-> heapSize, free |-> TRUE, next |-> -1]
      OBVIOUS
    <3>3. one \in [{heap_ptr} -> [size : Measures, free : BOOLEAN, next : {heap_ptr} \union {-1}]]
      OBVIOUS
    <3> HIDE DEF one
    <3>4. Laid(one, top)  BY <1>1, <1>2, <3>1, <3>2, <3>3 DEF Laid
    <3> QED BY <3>1, <3>2, <3>4
  <2>2. CASE ~first  BY <1>1, <2>2
  <2> QED BY <2>1, <2>2
<1>5. DOMAIN live \subseteq DOMAIN headers
      /\ \A a \in DOMAIN live : live[a] = headers[a].size /\ headers[a].free = FALSE
  BY <1>1
<1>6. CASE UNCHANGED <<global_base, hdr, live>>
  <2>1. Laid(hdr, top)  BY <1>1, <1>2, LaidMore
  <2>2. Laid(hdr', heap_ptr')  BY <1>3, <1>6, <2>1
  <2> HIDE DEF top
  <2> QED BY <1>1, <1>2, <1>3, <1>6, <2>2 DEF HeapInv
<1> HIDE DEF one, headers, base, top, block
<1>7. CASE first /\ global_base' = base /\ hdr' = headers /\ UNCHANGED live
  <2>1. base # -1  BY <1>1, <1>7 DEF base
  <2>2. Laid(hdr', heap_ptr')  BY <1>3, <1>4, <1>7
  <2>3. DOMAIN live' \subseteq DOMAIN hdr'
        /\ \A a \in DOMAIN live' : live'[a] = hdr'[a].size /\ hdr'[a].free = FALSE
    BY <1>5, <1>7
  <2> QED BY <1>2, <1>3, <1>4, <1>7, <2>1, <2>2, <2>3 DEF HeapInv
<1>8. CASE /\ block # -1 /\ global_base' = base
           /\ hdr' = NodeHeap!take(headers, block, size)
           /\ NodeHeap!fits(headers, block, size)
           /\ live' = [a \in DOMAIN live \union {block} |-> IF a = block THEN size ELSE live[a]]
  <2> DEFINE H == NodeHeap!take(headers, block, size)
  <2>1. block \in DOMAIN headers /\ headers[block].free /\ headers[block].size >= size
    <3>1. DOMAIN headers \subseteq 0..top
          /\ headers \in [DOMAIN headers -> [size : Measures, free : BOOLEAN, next : DOMAIN headers \union {-1}]]
          /\ \A a \in DOMAIN headers : headers[a].next # -1 => headers[a].next > a
      BY <1>4 DEF Laid
    <3>2. \A a \in DOMAIN headers : headers[a].next = -1 \/
            (headers[a].next \in DOMAIN headers /\ headers[a].next > a)
      <4> SUFFICES ASSUME NEW a \in DOMAIN headers
                   PROVE  headers[a].next = -1 \/
                            (headers[a].next \in DOMAIN headers /\ headers[a].next > a)
        OBVIOUS
      <4>1. headers[a] \in [size : Measures, free : BOOLEAN, next : DOMAIN headers \union {-1}]
        BY <3>1
      <4> QED BY <3>1, <4>1
    <3> QED BY <1>2, <1>4, <1>8, <3>1, <3>2, FindFree DEF block
  <2>2. /\ Laid(H, top) /\ DOMAIN headers \subseteq DOMAIN H
        /\ H[block].size = size /\ H[block].free = FALSE
        /\ \A a \in DOMAIN headers \ {block} : H[a] = headers[a]
    <3>1. Laid(H, top) /\ Taken(headers, H, size, block)  BY <1>2, <1>4, <1>8, <2>1, Taking
    <3> HIDE DEF H
    <3> QED BY <3>1 DEF Taken
  <2> HIDE DEF H
  <2>3. hdr' = H  BY <1>8 DEF H
  <2>4. block \notin DOMAIN live  BY <1>5, <2>1
  <2>5. DOMAIN live' = DOMAIN live \union {block} /\ live'[block] = size
        /\ \A a \in DOMAIN live : live'[a] = live[a]
    BY <1>8, <2>4
  <2>6. DOMAIN live' \subseteq DOMAIN hdr'  BY <1>5, <2>1, <2>2, <2>3, <2>5
  <2>7. \A a \in DOMAIN live' : live'[a] = hdr'[a].size /\ hdr'[a].free = FALSE
    BY <1>5, <2>2, <2>3, <2>4, <2>5
  <2>8. Laid(hdr', heap_ptr')  BY <1>3, <2>2, <2>3
  <2>9. global_base' \in DOMAIN hdr' /\ global_base' # -1
    <3>1. base # -1
      <4>1. -1 \notin DOMAIN headers
        <5>1. DOMAIN headers \subseteq 0..top  BY <1>4 DEF Laid
        <5> QED BY <1>2, <5>1
      <4> QED BY <1>4, <4>1
    <3> QED BY <1>4, <1>8, <2>2, <2>3, <3>1
  <2> QED BY <1>2, <1>3, <2>6, <2>7, <2>8, <2>9 DEF HeapInv
<1>9. \/ UNCHANGED <<global_base, hdr, live>>
      \/ first /\ global_base' = base /\ hdr' = headers /\ UNCHANGED live
      \/ /\ block # -1 /\ global_base' = base
         /\ hdr' = NodeHeap!take(headers, block, size)
         /\ NodeHeap!fits(headers, block, size)
         /\ live' = [a \in DOMAIN live \union {block} |-> IF a = block THEN size ELSE live[a]]
  BY DEF Allocates, one, headers, base, block
<1> QED BY <1>6, <1>7, <1>8, <1>9

(* The program frees what it has: its block turns free and stays in place. *)
LEMMA FreeInv ==
  ASSUME HeapInv, NEW at \in DOMAIN live,
         UNCHANGED <<heap_ptr, global_base>>,
         hdr' = [hdr EXCEPT ![at] = [@ EXCEPT !.free = TRUE]],
         live' = [a \in DOMAIN live \ {at} |-> live[a]]
  PROVE  HeapInv'
<1> DEFINE D == DOMAIN hdr
           Record == [size : Measures, free : BOOLEAN, next : D \union {-1}]
<1>1. /\ heap_ptr \in Nat /\ D \subseteq 0..heap_ptr /\ hdr \in [D -> Record]
      /\ \A a \in D : /\ a + hdr[a].size <= heap_ptr
                      /\ hdr[a].next # -1 => hdr[a].next > a
      /\ \A a, b \in D : a < b => a + 24 + hdr[a].size <= b
      /\ global_base \in D \union {-1} /\ (global_base = -1 => D = {})
      /\ DOMAIN live \subseteq D
      /\ \A a \in DOMAIN live : live[a] = hdr[a].size /\ hdr[a].free = FALSE
  BY DEF HeapInv, Laid
<1>2. at \in D  BY <1>1
<1>3. /\ DOMAIN hdr' = D /\ \A a \in D \ {at} : hdr'[a] = hdr[a]
      /\ hdr'[at] = [hdr[at] EXCEPT !.free = TRUE]
      /\ hdr' = [a \in D |-> hdr'[a]]
  BY <1>2
<1>4. \A a \in D : hdr[a] \in Record  BY <1>1
<1>5. /\ hdr'[at] \in Record /\ hdr'[at].size = hdr[at].size /\ hdr'[at].next = hdr[at].next
  BY <1>2, <1>3, <1>4
<1>6. \A a \in D : /\ hdr'[a] \in Record /\ hdr'[a].size = hdr[a].size
                   /\ hdr'[a].next = hdr[a].next
  <2> HIDE DEF Record, D
  <2> QED BY <1>3, <1>4, <1>5
<1> HIDE DEF D
<1>7. Laid(hdr', heap_ptr')
  <2>1. hdr' \in [D -> Record]
    <3> HIDE DEF Record
    <3> QED BY <1>3, <1>6
  <2>2. \A a \in D : /\ a + hdr'[a].size <= heap_ptr'
                     /\ hdr'[a].next # -1 => hdr'[a].next > a
    BY <1>1, <1>6
  <2>3. \A a, b \in D : a < b => a + 24 + hdr'[a].size <= b  BY <1>1, <1>6
  <2>4. D \subseteq 0..heap_ptr'  BY <1>1
  <2> QED BY <1>3, <2>1, <2>2, <2>3, <2>4 DEF Laid
<1>8. DOMAIN live' = DOMAIN live \ {at} /\ \A a \in DOMAIN live \ {at} : live'[a] = live[a]
  OBVIOUS
<1>9. \A a \in DOMAIN live' : live'[a] = hdr'[a].size /\ hdr'[a].free = FALSE
  BY <1>1, <1>3, <1>6, <1>8
<1> QED BY <1>1, <1>3, <1>7, <1>8, <1>9 DEF HeapInv

(* What the two heaps are given.                                           *)
LEMMA HeapsGiven ==
  /\ SizeMod \in Nat /\ NodesHeapSize \in Measures /\ SizesHeapSize \in Measures
  /\ NodesSizes \subseteq Nat /\ SizesSizes \subseteq Nat
BY KitAssumptions DEF Measures, NodeHeap!HeapAssumption, SizesHeap!HeapAssumption

LEMMA NodesStep ==
  ASSUME HeapInv, NodeHeap!Next, fitted' PROVE HeapInv'
<1>1. ASSUME NEW size \in NodesSizes, NodeHeap!malloc(size) PROVE HeapInv'
  <2>1. Allocates(size, NodesHeapSize)
    BY <1>1 DEF NodeHeap!malloc, Allocates, NodeHeap!request_heap, NodeHeap!Header, NodeHeap!NULL
  <2> QED BY <1>1, <2>1, HeapsGiven, AllocatesInv
<1>2. ASSUME NEW at \in DOMAIN live, NodeHeap!free(at) PROVE HeapInv'
  <2>1. /\ UNCHANGED <<heap_ptr, global_base>>
        /\ hdr' = [hdr EXCEPT ![at] = [@ EXCEPT !.free = TRUE]]
        /\ live' = [a \in DOMAIN live \ {at} |-> live[a]]
    BY <1>2 DEF NodeHeap!free, NodeHeap!freed, NodeHeap!Restrict
  <2> QED BY <2>1, FreeInv
<1> QED BY <1>1, <1>2 DEF NodeHeap!Next

LEMMA SizesStep ==
  ASSUME HeapInv, SizesHeap!Next, fitted' PROVE HeapInv'
<1>1. ASSUME NEW size \in SizesSizes, SizesHeap!malloc(size) PROVE HeapInv'
  <2>1. Allocates(size, SizesHeapSize)
    <3>1. \A headers, base :
            SizesHeap!find_free_block(headers, base, size) = NodeHeap!find_free_block(headers, base, size)
      BY DEF SizesHeap!find_free_block, NodeHeap!find_free_block, SizesHeap!NULL, NodeHeap!NULL
    <3>2. \A headers, block :
            SizesHeap!take(headers, block, size) = NodeHeap!take(headers, block, size)
      BY DEF SizesHeap!take, NodeHeap!take, SizesHeap!allocate_block, NodeHeap!allocate_block,
             SizesHeap!newblock_at, NodeHeap!newblock_at, SizesHeap!rest, NodeHeap!rest,
             SizesHeap!Header, NodeHeap!Header, SizesHeap!NULL, NodeHeap!NULL,
             SizesHeap!round_up, NodeHeap!round_up, SizesHeap!REGSIZE, NodeHeap!REGSIZE,
             SizesHeap!HeaderSize, NodeHeap!HeaderSize
    <3>7. \A headers, block :
            SizesHeap!fits(headers, block, size) = NodeHeap!fits(headers, block, size)
      BY DEF SizesHeap!fits, NodeHeap!fits,
             SizesHeap!newblock_at, NodeHeap!newblock_at, SizesHeap!rest, NodeHeap!rest,
             SizesHeap!round_up, NodeHeap!round_up, SizesHeap!REGSIZE, NodeHeap!REGSIZE,
             SizesHeap!HeaderSize, NodeHeap!HeaderSize
    <3> DEFINE first == global_base = -1
               headers == IF first
                          THEN [a \in {heap_ptr} |-> [size |-> SizesHeapSize, free |-> TRUE, next |-> -1]]
                          ELSE hdr
               base == IF first THEN heap_ptr ELSE global_base
               block == SizesHeap!find_free_block(headers, base, size)
    <3>3. /\ heap_ptr' = IF first THEN heap_ptr + SizesHeapSize ELSE heap_ptr
          /\ \/ UNCHANGED <<global_base, hdr, live>>
             \/ first /\ global_base' = base /\ hdr' = headers /\ UNCHANGED live
             \/ /\ block # -1 /\ global_base' = base
                /\ hdr' = SizesHeap!take(headers, block, size)
                /\ fitted' = SizesHeap!fits(headers, block, size)
                /\ live' = [a \in DOMAIN live \union {block} |-> IF a = block THEN size ELSE live[a]]
      BY <1>1 DEF SizesHeap!malloc, SizesHeap!request_heap, SizesHeap!Header, SizesHeap!NULL
    <3>4. block = NodeHeap!find_free_block(headers, base, size)  BY <3>1
    <3>5. /\ SizesHeap!take(headers, block, size) = NodeHeap!take(headers, block, size)
          /\ SizesHeap!fits(headers, block, size) = NodeHeap!fits(headers, block, size)
      BY <3>2, <3>7
    <3> HIDE DEF headers, base, block
    <3>6. /\ heap_ptr' = IF first THEN heap_ptr + SizesHeapSize ELSE heap_ptr
          /\ \/ UNCHANGED <<global_base, hdr, live>>
             \/ first /\ global_base' = base /\ hdr' = headers /\ UNCHANGED live
             \/ /\ block # -1 /\ global_base' = base
                /\ hdr' = NodeHeap!take(headers, block, size)
                /\ fitted' = NodeHeap!fits(headers, block, size)
                /\ live' = [a \in DOMAIN live \union {block} |-> IF a = block THEN size ELSE live[a]]
      BY <3>3, <3>5
    <3> QED BY <3>4, <3>6 DEF Allocates, headers, base
  <2> QED BY <1>1, <2>1, HeapsGiven, AllocatesInv
<1>2. ASSUME NEW at \in DOMAIN live, SizesHeap!free(at) PROVE HeapInv'
  <2>1. /\ UNCHANGED <<heap_ptr, global_base>>
        /\ hdr' = [hdr EXCEPT ![at] = [@ EXCEPT !.free = TRUE]]
        /\ live' = [a \in DOMAIN live \ {at} |-> live[a]]
    BY <1>2 DEF SizesHeap!free, SizesHeap!freed, SizesHeap!Restrict
  <2> QED BY <2>1, FreeInv
<1> QED BY <1>1, <1>2 DEF SizesHeap!Next

LEMMA HeapStutters ==
  ASSUME HeapInv, UNCHANGED heapVars PROVE HeapInv'
BY DEF heapVars, HeapInv

LEMMA HeapInitially == NodeHeap!Init => HeapInv
<1> SUFFICES ASSUME NodeHeap!Init PROVE HeapInv
  OBVIOUS
<1>1. heap_ptr = 0 /\ global_base = -1 /\ DOMAIN hdr = {} /\ DOMAIN live = {}
  BY DEF NodeHeap!Init, NodeHeap!NULL
<1>2. hdr \in [{} -> [size : Measures, free : BOOLEAN, next : {} \union {-1}]]
  BY DEF NodeHeap!Init
<1>3. Laid(hdr, heap_ptr)  BY <1>1, <1>2 DEF Laid
<1> QED BY <1>1, <1>3 DEF HeapInv

(* Blocks that lie apart do not overlap, and every header lies before one. *)
LEMMA ApartMeansDisjoint ==
  ASSUME SizeMod \in Nat, HeapInv
  PROVE  NodeHeap!BlocksApart
<1> DEFINE D == DOMAIN hdr
<1>1. /\ heap_ptr \in Nat /\ D \subseteq 0..heap_ptr
      /\ hdr \in [D -> [size : Measures, free : BOOLEAN, next : D \union {-1}]]
      /\ \A a \in D : hdr[a].next # -1 => hdr[a].next > a
      /\ \A a, b \in D : a < b => a + 24 + hdr[a].size <= b
      /\ global_base \in D \union {-1} /\ DOMAIN live \subseteq D
      /\ \A a \in DOMAIN live : live[a] = hdr[a].size
  BY DEF HeapInv, Laid
<1>2. ASSUME NEW a \in D
      PROVE  /\ a \in Nat /\ hdr[a].size \in Nat
             /\ hdr[a].next = -1 \/ (hdr[a].next \in D /\ hdr[a].next > a)
  <2>1. hdr[a] \in [size : Measures, free : BOOLEAN, next : D \union {-1}]  BY <1>1
  <2> QED BY <1>1, <2>1 DEF Measures
<1>3. NodeHeap!listed \subseteq D  BY <1>1, <1>2, ListedAreHeaders
<1>4. \A a \in DOMAIN live : NodeHeap!After(a) = a + 24 + hdr[a].size
  BY <1>1 DEF NodeHeap!After, NodeHeap!HeaderSize
<1>5. ASSUME NEW a \in D, NEW b \in D, a # b
      PROVE  a + 24 + hdr[a].size <= b \/ b + 24 + hdr[b].size <= a
  <2>1. a < b \/ b < a  BY <1>2, <1>5
  <2>2. a < b => a + 24 + hdr[a].size <= b  BY <1>1
  <2>3. b < a => b + 24 + hdr[b].size <= a  BY <1>1
  <2> QED BY <2>1, <2>2, <2>3
<1> HIDE DEF D
<1>6. ASSUME NEW a \in DOMAIN live, NEW b \in DOMAIN live \ {a}
      PROVE  ~NodeHeap!Overlap(a, NodeHeap!After(a), b, NodeHeap!After(b))
  <2>1. a \in D /\ b \in D /\ a # b  BY <1>1
  <2> QED BY <1>2, <1>4, <1>5, <2>1 DEF NodeHeap!Overlap
<1>7. ASSUME NEW a \in DOMAIN live, NEW c \in NodeHeap!listed \ {a}
      PROVE  ~NodeHeap!Overlap(a, NodeHeap!After(a), c, c + NodeHeap!HeaderSize)
  <2>1. a \in D /\ c \in D /\ a # c  BY <1>1, <1>3
  <2> QED BY <1>2, <1>4, <1>5, <2>1 DEF NodeHeap!Overlap, NodeHeap!HeaderSize
<1> QED BY <1>6, <1>7 DEF NodeHeap!BlocksApart


-----------------------------------------------------------------------------
(* A heap of blocks of one size: all but the last header are of blocks of  *)
(* that size, one behind the other from the start of the heap, and what    *)
(* is not free the program has.                                            *)
OneSize == CHOOSE size : NodesSizes = {size}
Pitch == OneSize + 24

Chain(headers, end) ==
  /\ IsFiniteSet(DOMAIN headers)
  /\ 0 \in DOMAIN headers /\ end \in DOMAIN headers
  /\ headers[end].next = -1 /\ headers[end].size = NodesHeapSize - end
  /\ end = Pitch * (Cardinality(DOMAIN headers) - 1)
  /\ \A a \in DOMAIN headers \ {end} : headers[a].size = OneSize /\ headers[a].next # -1
  /\ \A a \in DOMAIN headers : a = 0 \/ \E b \in DOMAIN headers : headers[b].next = a

Full == Pitch * Cardinality(DOMAIN live) + OneSize + 24 > NodesHeapSize

NodesInv ==
  /\ global_base = -1 => heap_ptr = 0
  /\ global_base # -1 => global_base = 0 /\ \E end \in DOMAIN hdr : Chain(hdr, end)
  /\ \A a \in DOMAIN hdr : hdr[a].free = FALSE => a \in DOMAIN live
  /\ \A a \in DOMAIN live : live[a] = OneSize
  /\ last.op = "malloc" /\ last.at = -1 => last.size = OneSize /\ Full

(* Blocks of one size: what they take is the size times their number.      *)
LEMMA UsedIs ==
  ASSUME NEW w \in Nat, IsFiniteSet(DOMAIN live), \A a \in DOMAIN live : NodeHeap!After(a) - a = w
  PROVE  NodeHeap!Used = w * Cardinality(DOMAIN live)
<1> DEFINE D == DOMAIN live
           f(a) == NodeHeap!After(a) - a
           one(s) == CHOOSE x \in s : TRUE
           at(i, s) == IF s = {} THEN 0 ELSE f(one(s)) + i[s \ {one(s)}]
           iter == CHOOSE i : i = [s \in SUBSET D |-> at(i, s)]
           g == [s \in SUBSET D |-> w * Cardinality(s)]
<1>1. NodeHeap!Used = iter[D]
  BY DEF NodeHeap!Used, NodeHeap!MapThenSumSet, NodeHeap!MapThenFoldSet
<1>2. ASSUME NEW s \in SUBSET D, s # {}
      PROVE  /\ one(s) \in s /\ s \ {one(s)} \in SUBSET D /\ f(one(s)) = w
             /\ Cardinality(s) \in Nat /\ Cardinality(s \ {one(s)}) \in Nat
             /\ Cardinality(s) = Cardinality(s \ {one(s)}) + 1
  <2>1. one(s) \in s  BY <1>2
  <2>2. IsFiniteSet(s)  BY FS_Subset
  <2> HIDE DEF one
  <2>3. Cardinality(s \ {one(s)}) = Cardinality(s) - 1 /\ IsFiniteSet(s \ {one(s)})
    BY <2>1, <2>2, FS_RemoveElement
  <2>4. Cardinality(s) \in Nat /\ Cardinality(s \ {one(s)}) \in Nat
    BY <2>2, <2>3, FS_CardinalityType
  <2>5. f(one(s)) = w  BY <2>1
  <2> HIDE DEF f
  <2> QED BY <2>1, <2>3, <2>4, <2>5
<1>3. ASSUME NEW s \in SUBSET D PROVE g[s] = at(g, s)
  <2>1. CASE s = {}
    <3>1. Cardinality(s) = 0  BY <2>1, FS_EmptySet
    <3>2. w * 0 = 0  OBVIOUS
    <3> QED BY <2>1, <3>1, <3>2
  <2>2. CASE s # {}
    <3> DEFINE t == s \ {one(s)}
               n == Cardinality(t)
    <3>1. t \in SUBSET D /\ f(one(s)) = w /\ n \in Nat /\ Cardinality(s) = n + 1
      BY <1>2, <2>2
    <3>2. g[s] = w * (n + 1) /\ g[t] = w * n
      <4> HIDE DEF t, n
      <4>1. g[s] = w * Cardinality(s) /\ g[t] = w * Cardinality(t)  BY <3>1
      <4> QED BY <3>1, <4>1 DEF n
    <3>3. at(g, s) = w + g[t]  BY <2>2, <3>1
    <3> HIDE DEF t, n, g, at
    <3>4. w * (n + 1) = w + w * n  BY <3>1
    <3> QED BY <3>2, <3>3, <3>4
  <2> QED BY <2>1, <2>2
<1>4. iter = [s \in SUBSET D |-> at(iter, s)]
  <2>1. g = [s \in SUBSET D |-> g[s]]  OBVIOUS
  <2> HIDE DEF g, at
  <2>2. g = [s \in SUBSET D |-> at(g, s)]  BY <1>3, <2>1
  <2> QED BY <2>2
<1> HIDE DEF iter
<1> DEFINE T == {n \in Nat : \A s \in SUBSET D : Cardinality(s) = n => iter[s] = g[s]}
<1>5. \A s \in SUBSET D : iter[s] = at(iter, s)  BY <1>4
<1>6. 0 \in T
  <2> SUFFICES ASSUME NEW s \in SUBSET D, Cardinality(s) = 0 PROVE iter[s] = g[s]
    OBVIOUS
  <2>1. s = {}  BY FS_Subset, FS_EmptySet
  <2>2. at(iter, s) = 0 /\ at(g, s) = 0  BY <2>1
  <2> HIDE DEF at, g
  <2> QED BY <1>3, <1>5, <2>2
<1> HIDE DEF g
<1>7. ASSUME NEW n \in Nat, n \in T PROVE n + 1 \in T
  <2> SUFFICES ASSUME NEW s \in SUBSET D, Cardinality(s) = n + 1 PROVE iter[s] = g[s]
    OBVIOUS
  <2>1. s # {}  BY FS_EmptySet
  <2> DEFINE t == s \ {one(s)}
  <2>2. t \in SUBSET D /\ Cardinality(t) = n
    <3>1. t \in SUBSET D /\ Cardinality(t) \in Nat /\ Cardinality(s) = Cardinality(t) + 1  BY <1>2, <2>1
    <3> HIDE DEF t
    <3> QED BY <3>1
  <2>3. iter[t] = g[t]
    <3> HIDE DEF t, g
    <3> QED BY <1>7, <2>2
  <2> HIDE DEF g
  <2>4. at(iter, s) = f(one(s)) + iter[t] /\ at(g, s) = f(one(s)) + g[t]  BY <2>1
  <2> HIDE DEF at, g, t, f
  <2>5. at(iter, s) = at(g, s)  BY <2>3, <2>4
  <2> QED BY <1>3, <1>5, <2>5
<1>8. Cardinality(D) \in Nat  BY FS_CardinalityType
<1> HIDE DEF g, T
<1>9. Cardinality(D) \in T  BY <1>6, <1>7, <1>8, SetInduction
<1>10. iter[D] = g[D]  BY <1>9 DEF T
<1>11. g[D] = w * Cardinality(D)  BY DEF g
<1> QED BY <1>1, <1>10, <1>11

LEMMA OneSizeIs ==
  /\ NodesSizes = {OneSize} /\ OneSize \in Nat
  /\ NodesHeapSize \in Measures /\ NodesHeapSize \in Nat /\ SizeMod \in Nat
<1>1. NodesSizes = {OneSize}  BY KitAssumptions DEF OneSize
<1> QED BY <1>1, HeapsGiven DEF Measures

(* A block of that size is only split off the last.                        *)
LEMMA ChainTaking ==
  ASSUME NEW headers, NEW top \in Nat, Laid(headers, top),
         NEW end \in DOMAIN headers, Chain(headers, end)
  PROVE  \A block \in DOMAIN headers :
           headers[block].size >= OneSize /\ NodeHeap!fits(headers, block, OneSize) =>
           /\ \E e \in DOMAIN NodeHeap!take(headers, block, OneSize) :
                Chain(NodeHeap!take(headers, block, OneSize), e)
           /\ \A a \in DOMAIN NodeHeap!take(headers, block, OneSize) \ {block} :
                NodeHeap!take(headers, block, OneSize)[a].free = FALSE =>
                  a \in DOMAIN headers /\ headers[a].free = FALSE
<1> SUFFICES ASSUME NEW block \in DOMAIN headers, headers[block].size >= OneSize,
                    NodeHeap!fits(headers, block, OneSize)
             PROVE  LET H == NodeHeap!take(headers, block, OneSize)
                    IN /\ \E e \in DOMAIN H : Chain(H, e)
                       /\ \A a \in DOMAIN H \ {block} :
                            H[a].free = FALSE => a \in DOMAIN headers /\ headers[a].free = FALSE
  OBVIOUS
<1> DEFINE D == DOMAIN headers
           H == NodeHeap!take(headers, block, OneSize)
           new == block + OneSize + 24
           Record == [size : Measures, free : BOOLEAN, next : D \union {-1}]
<1>1. /\ D \subseteq 0..top /\ headers \in [D -> Record]
      /\ \A a \in D : a + headers[a].size <= top
      /\ \A a, b \in D : a < b => a + 24 + headers[a].size <= b
  BY DEF Laid
<1>2. /\ IsFiniteSet(D) /\ 0 \in D /\ end \in D
      /\ headers[end].next = -1 /\ headers[end].size = NodesHeapSize - end
      /\ end = Pitch * (Cardinality(D) - 1)
      /\ \A a \in D \ {end} : headers[a].size = OneSize /\ headers[a].next # -1
      /\ \A a \in D : a = 0 \/ \E b \in D : headers[b].next = a
  BY DEF Chain
<1>3. /\ block \in Nat /\ end \in Nat /\ headers[block] \in Record
      /\ headers[block].size \in Nat /\ headers[block].size < SizeMod
  <2>1. headers[block] \in Record  BY <1>1
  <2>2. headers[block].size \in Measures  BY <2>1
  <2> HIDE DEF Record
  <2>3. headers[block].size \in Nat /\ headers[block].size < SizeMod  BY <2>2, OneSizeIs DEF Measures
  <2>4. block \in Nat /\ end \in Nat  BY <1>1
  <2> QED BY <2>1, <2>2, <2>3, <2>4
<1>4. OneSize \in Nat /\ Pitch = OneSize + 24 /\ SizeMod \in Nat
      /\ NodesHeapSize \in Nat
  BY OneSizeIs DEF Pitch
<1>5. Cardinality(D) \in Nat /\ Cardinality(D) >= 1
  <2>1. Cardinality(D) \in Nat  BY <1>2, FS_CardinalityType
  <2>2. Cardinality(D) # 0  BY <1>2, FS_EmptySet
  <2> QED BY <2>1, <2>2
<1>6. CASE headers[block].size > OneSize
  <2>1. block = end  BY <1>2, <1>4, <1>6
  <2>3. Splits(headers, H, block, OneSize)  BY <1>3, <1>4, <1>6, Splitting
  <2>4. new \in Nat /\ new = end + Pitch /\ new > block  BY <1>3, <1>4, <2>1
  <2>5. new \notin D
    <3> SUFFICES ASSUME new \in D PROVE FALSE
      OBVIOUS
    <3>1. block + 24 + headers[block].size <= new  BY <1>1, <2>4
    <3> QED BY <3>1, <1>3, <1>4, <1>6
  <2> HIDE DEF H, new
  <2>6. /\ DOMAIN H = D \union {new} /\ new \in DOMAIN H
        /\ H[new] = [size |-> headers[block].size - OneSize - 24, free |-> TRUE, next |-> -1]
        /\ H[block] = [size |-> OneSize, free |-> FALSE, next |-> new]
        /\ \A a \in D \ {block} : H[a] = headers[a]
    BY <2>3, <2>5 DEF Splits, new
  <2>7. IsFiniteSet(DOMAIN H) /\ Cardinality(DOMAIN H) = Cardinality(D) + 1
    BY <1>2, <2>5, <2>6, FS_AddElement
  <2>8. new = Pitch * (Cardinality(DOMAIN H) - 1)
    <3> DEFINE n == Cardinality(D)
    <3>1. n \in Nat /\ end = Pitch * (n - 1) /\ Cardinality(DOMAIN H) - 1 = n
      BY <1>2, <1>5, <2>7
    <3> HIDE DEF n
    <3>2. Pitch \in Nat /\ new = Pitch * (n - 1) + Pitch  BY <1>4, <2>4, <3>1
    <3>3. Pitch * (n - 1) + Pitch = Pitch * n  BY <3>1, <3>2
    <3> QED BY <3>1, <3>2, <3>3
  <2>9. H[new].size = NodesHeapSize - new /\ H[new].next = -1 /\ H[new].free = TRUE
    <3>1. H[new].size = NodesHeapSize - end - OneSize - 24  BY <1>2, <2>1, <2>6
    <3>2. new = end + OneSize + 24  BY <2>1 DEF new
    <3> QED BY <1>3, <1>4, <2>6, <3>1, <3>2
  <2>10. ASSUME NEW a \in DOMAIN H \ {new} PROVE H[a].size = OneSize /\ H[a].next # -1
    <3>1. CASE a = block  BY <2>4, <2>6, <3>1
    <3>2. CASE a # block  BY <1>2, <2>1, <2>6, <3>2
    <3> QED BY <3>1, <3>2
  <2>11. ASSUME NEW a \in DOMAIN H PROVE a = 0 \/ \E b \in DOMAIN H : H[b].next = a
    <3>1. CASE a = new  BY <2>6, <3>1
    <3>2. CASE a \in D /\ a # 0
      <4>1. PICK b \in D : headers[b].next = a  BY <1>2, <3>2
      <4>2. b # block
        <5>1. a # -1  BY <1>1, <3>2
        <5> QED BY <1>2, <2>1, <4>1, <5>1
      <4> QED BY <2>6, <4>1, <4>2
    <3> QED BY <2>6, <3>1, <3>2
  <2>12. Chain(H, new)  BY <1>2, <2>6, <2>7, <2>8, <2>9, <2>10, <2>11 DEF Chain
  <2>13. ASSUME NEW a \in DOMAIN H \ {block}, H[a].free = FALSE
         PROVE  a \in D /\ headers[a].free = FALSE
    <3>1. a # new  BY <2>9, <2>13
    <3> QED BY <2>6, <2>13, <3>1
  <2> QED BY <2>6, <2>12, <2>13 DEF H
<1>7. CASE headers[block].size = OneSize
  <2>1. H = [headers EXCEPT ![block].free = FALSE]
    BY <1>4, <1>7 DEF NodeHeap!take
  <2> HIDE DEF H
  <2>2. DOMAIN H = D /\ \A a \in D \ {block} : H[a] = headers[a]  BY <2>1
  <2>3. H[block] = [headers[block] EXCEPT !.free = FALSE]  BY <1>1, <2>1
  <2>4. H[block].size = headers[block].size /\ H[block].next = headers[block].next
    BY <1>3, <2>3
  <2>5. \A a \in D : H[a].size = headers[a].size /\ H[a].next = headers[a].next
    BY <2>2, <2>4
  <2> HIDE DEF D
  <2>6. Chain(H, end)
    <3>1. \A a \in DOMAIN H \ {end} : H[a].size = OneSize /\ H[a].next # -1  BY <1>2, <2>2, <2>5
    <3>2. \A a \in DOMAIN H : a = 0 \/ \E b \in DOMAIN H : H[b].next = a  BY <1>2, <2>2, <2>5
    <3> QED BY <1>2, <2>2, <2>5, <3>1, <3>2 DEF Chain
  <2>7. end \in DOMAIN H  BY <1>2, <2>2
  <2>8. \A a \in DOMAIN H \ {block} : H[a].free = FALSE => a \in D /\ headers[a].free = FALSE
    BY <2>2
  <2> QED BY <2>6, <2>7, <2>8 DEF H, D
<1>8. headers[block].size > OneSize \/ headers[block].size = OneSize  BY <1>3, <1>4
<1> QED BY <1>6, <1>7, <1>8

(* A program that is refused has every block but the last, and the last    *)
(* unless it is too small.                                                 *)
LEMMA ChainFull ==
  ASSUME NEW headers, NEW top \in Nat, Laid(headers, top),
         NEW end \in DOMAIN headers, Chain(headers, end),
         DOMAIN live \subseteq DOMAIN headers,
         \A a \in DOMAIN headers : headers[a].free = FALSE => a \in DOMAIN live,
         \A a \in DOMAIN live : headers[a].size = OneSize,
         NodeHeap!find_free_block(headers, 0, OneSize) = -1
  PROVE  Full
<1> DEFINE D == DOMAIN headers
           L == DOMAIN live
           n == Cardinality(D)
           Record == [size : Measures, free : BOOLEAN, next : D \union {-1}]
<1>1. /\ D \subseteq 0..top /\ headers \in [D -> Record]
      /\ \A a \in D : headers[a].next # -1 => headers[a].next > a
  BY DEF Laid
<1>2. /\ IsFiniteSet(D) /\ 0 \in D /\ end \in D
      /\ headers[end].size = NodesHeapSize - end /\ end = Pitch * (n - 1)
      /\ \A a \in D \ {end} : headers[a].size = OneSize
      /\ \A a \in D : a = 0 \/ \E b \in D : headers[b].next = a
  BY DEF Chain
<1>3. OneSize \in Nat /\ NodesHeapSize \in Nat /\ Pitch \in Nat /\ Pitch = OneSize + 24
  BY OneSizeIs DEF Pitch
<1>4. n \in Nat /\ IsFiniteSet(L) /\ Cardinality(L) \in Nat
  BY <1>2, FS_CardinalityType, FS_Subset
<1>5. \A a \in D : /\ headers[a].free \in BOOLEAN
                   /\ headers[a].next = -1 \/ (headers[a].next \in D /\ headers[a].next > a)
  <2> SUFFICES ASSUME NEW a \in D
               PROVE /\ headers[a].free \in BOOLEAN
                     /\ headers[a].next = -1 \/ (headers[a].next \in D /\ headers[a].next > a)
    OBVIOUS
  <2>1. headers[a] \in Record  BY <1>1
  <2> QED BY <1>1, <2>1
<1>6. \A a \in D : ~(headers[a].free /\ headers[a].size >= OneSize)
  <2> HIDE DEF Record
  <2> QED BY <1>1, <1>2, <1>5, FailedSearch
<1> HIDE DEF D, Record
<1>7. D \ {end} \subseteq L
  <2> SUFFICES ASSUME NEW a \in D \ {end} PROVE a \in L
    OBVIOUS
  <2>1. headers[a].size >= OneSize  BY <1>2, <1>3
  <2>2. headers[a].free = FALSE  BY <1>5, <1>6, <2>1
  <2> QED BY <2>2 DEF D
<1>8. L \subseteq D  BY DEF D
<1> HIDE DEF L
<1>9. CASE end \in L
  <2>1. L = D  BY <1>7, <1>8, <1>9
  <2>2. Cardinality(L) = n  BY <2>1
  <2>3. Pitch * n + OneSize + 24 > NodesHeapSize
    <3>1. headers[end].size = OneSize  BY <1>9 DEF L
    <3>2. NodesHeapSize = OneSize + Pitch * (n - 1)
      <4>1. end \in Int
        BY <1>3, <1>4, <1>2
      <4> QED BY <1>2, <1>3, <3>1, <4>1
    <3>3. Pitch * n = Pitch * (n - 1) + Pitch  BY <1>3, <1>4
    <3>4. Pitch * (n - 1) \in Int /\ Pitch * n \in Int  BY <1>3, <1>4
    <3> QED BY <1>3, <3>2, <3>3, <3>4
  <2> QED BY <2>2, <2>3 DEF Full, L
<1>10. CASE end \notin L
  <2>1. L = D \ {end}  BY <1>7, <1>8, <1>10
  <2>2. Cardinality(L) = n - 1  BY <1>2, <2>1, FS_RemoveElement
  <2>3. headers[end].free
    <3>1. headers[end].free # FALSE  BY <1>2, <1>10 DEF L, D
    <3> QED BY <1>2, <1>5, <3>1
  <2>4. ~(headers[end].size >= OneSize)  BY <1>2, <1>6, <2>3
  <2>5. end \in Int  BY <1>3, <1>4, <1>2
  <2>6. NodesHeapSize - end < OneSize  BY <1>2, <1>3, <2>4, <2>5
  <2>7. end + OneSize + 24 > NodesHeapSize  BY <1>3, <2>5, <2>6
  <2> QED BY <1>2, <2>2, <2>7 DEF Full, L
<1> QED BY <1>9, <1>10

LEMMA NodesInitially == NodeHeap!Init => NodesInv
<1> SUFFICES ASSUME NodeHeap!Init PROVE NodesInv
  OBVIOUS
<1>1. heap_ptr = 0 /\ global_base = -1 /\ DOMAIN hdr = {} /\ DOMAIN live = {} /\ last.op = "none"
  BY DEF NodeHeap!Init, NodeHeap!NULL
<1> QED BY <1>1 DEF NodesInv

LEMMA NodesStutter == NodesInv /\ UNCHANGED heapVars => NodesInv'
<1> SUFFICES ASSUME NodesInv, UNCHANGED heapVars PROVE NodesInv'
  OBVIOUS
<1>1. /\ heap_ptr' = heap_ptr /\ global_base' = global_base /\ hdr' = hdr /\ live' = live
      /\ last' = last
  BY DEF heapVars
<1> QED BY <1>1 DEF NodesInv, Full

LEMMA NodesFree ==
  ASSUME NodesInv, HeapInv, NEW at \in DOMAIN live, NodeHeap!free(at)
  PROVE  NodesInv'
<1>1. /\ heap_ptr' = heap_ptr /\ global_base' = global_base
      /\ hdr' = [hdr EXCEPT ![at] = [@ EXCEPT !.free = TRUE]]
      /\ live' = [a \in DOMAIN live \ {at} |-> live[a]]
      /\ last'.op = "free"
  BY DEF NodeHeap!free, NodeHeap!freed, NodeHeap!Restrict
<1>2. /\ hdr \in [DOMAIN hdr -> [size : Measures, free : BOOLEAN, next : DOMAIN hdr \union {-1}]]
      /\ at \in DOMAIN hdr
  BY DEF HeapInv, Laid
<1>3. hdr[at] \in [size : Measures, free : BOOLEAN, next : DOMAIN hdr \union {-1}]
  BY <1>2
<1>4. DOMAIN hdr' = DOMAIN hdr /\ \A a \in DOMAIN hdr \ {at} : hdr'[a] = hdr[a]  BY <1>1
<1>5. hdr'[at] = [hdr[at] EXCEPT !.free = TRUE]  BY <1>1, <1>2
<1>6. hdr'[at].free = TRUE /\ hdr'[at].size = hdr[at].size /\ hdr'[at].next = hdr[at].next
  BY <1>3, <1>5
<1>7. \A a \in DOMAIN hdr : hdr'[a].size = hdr[a].size /\ hdr'[a].next = hdr[a].next
  BY <1>4, <1>6
<1>8. ASSUME NEW end \in DOMAIN hdr, Chain(hdr, end) PROVE Chain(hdr', end)
  <2>1. \A a \in DOMAIN hdr' \ {end} : hdr'[a].size = OneSize /\ hdr'[a].next # -1
    BY <1>4, <1>7, <1>8 DEF Chain
  <2>2. \A a \in DOMAIN hdr' : a = 0 \/ \E b \in DOMAIN hdr' : hdr'[b].next = a
    BY <1>4, <1>7, <1>8 DEF Chain
  <2>3. /\ IsFiniteSet(DOMAIN hdr') /\ 0 \in DOMAIN hdr' /\ end \in DOMAIN hdr'
        /\ hdr'[end].next = -1 /\ hdr'[end].size = NodesHeapSize - end
        /\ end = Pitch * (Cardinality(DOMAIN hdr') - 1)
    BY <1>4, <1>7, <1>8 DEF Chain
  <2> QED BY <2>1, <2>2, <2>3 DEF Chain
<1>9. global_base' # -1 => global_base' = 0 /\ \E end \in DOMAIN hdr' : Chain(hdr', end)
  BY <1>1, <1>4, <1>8 DEF NodesInv
<1>10. global_base' = -1 => heap_ptr' = 0  BY <1>1 DEF NodesInv
<1>11. \A a \in DOMAIN hdr' : hdr'[a].free = FALSE => a \in DOMAIN live'
  BY <1>1, <1>4, <1>6 DEF NodesInv
<1>12. \A a \in DOMAIN live' : live'[a] = OneSize  BY <1>1 DEF NodesInv
<1>13. ~(last'.op = "malloc")  BY <1>1
<1> QED BY <1>9, <1>10, <1>11, <1>12, <1>13 DEF NodesInv

LEMMA NodesMalloc ==
  ASSUME NodesInv, HeapInv, NodeHeap!malloc(OneSize), fitted'
  PROVE  NodesInv'
<1> DEFINE first == global_base = -1
           one == [a \in {heap_ptr} |-> [size |-> NodesHeapSize, free |-> TRUE, next |-> -1]]
           headers == IF first THEN one ELSE hdr
           base == IF first THEN heap_ptr ELSE global_base
           top == IF first THEN heap_ptr + NodesHeapSize ELSE heap_ptr
           block == NodeHeap!find_free_block(headers, base, OneSize)
           H == NodeHeap!take(headers, block, OneSize)
<1>1. /\ heap_ptr \in Nat /\ Laid(hdr, heap_ptr)
      /\ (first => DOMAIN hdr = {}) /\ DOMAIN live \subseteq DOMAIN hdr
      /\ \A a \in DOMAIN live : live[a] = hdr[a].size /\ hdr[a].free = FALSE
  BY DEF HeapInv
<1>2. /\ first => heap_ptr = 0
      /\ ~first => global_base = 0 /\ \E end \in DOMAIN hdr : Chain(hdr, end)
      /\ \A a \in DOMAIN hdr : hdr[a].free = FALSE => a \in DOMAIN live
      /\ \A a \in DOMAIN live : live[a] = OneSize
  BY DEF NodesInv
<1>3. NodesHeapSize \in Nat /\ NodesHeapSize \in Measures /\ OneSize \in Nat
  BY OneSizeIs
<1>4. base = 0 /\ top \in Nat  BY <1>1, <1>2, <1>3
<1>5. first => /\ DOMAIN one = {0}
               /\ one[0] = [size |-> NodesHeapSize, free |-> TRUE, next |-> -1]
               /\ one \in [{0} -> [size : Measures, free : BOOLEAN, next : {0} \union {-1}]]
  BY <1>2, <1>3
<1> HIDE DEF one
<1>6. Laid(headers, top)
  <2>1. CASE first
    <3>1. headers = one /\ top = NodesHeapSize  BY <1>2, <1>3, <2>1
    <3>2. Laid(one, NodesHeapSize)  BY <1>3, <1>5, <2>1 DEF Laid
    <3> QED BY <3>1, <3>2
  <2>2. CASE ~first  BY <1>1, <2>2
  <2> QED BY <2>1, <2>2
<1>7. \E end \in DOMAIN headers : Chain(headers, end)
  <2>1. CASE first
    <3>1. IsFiniteSet({0}) /\ Cardinality({0}) = 1  BY FS_Singleton
    <3>2. Pitch * (1 - 1) = 0
      <4>1. Pitch \in Nat  BY <1>3 DEF Pitch
      <4>2. 1 - 1 = 0 /\ Pitch * 0 = 0  BY <4>1
      <4> QED BY <4>2
    <3>3. /\ one[0].next = -1 /\ one[0].size = NodesHeapSize - 0 /\ DOMAIN one = {0}
      BY <1>3, <1>5, <2>1
    <3>4. Chain(one, 0)  BY <3>1, <3>2, <3>3 DEF Chain
    <3>5. 0 \in DOMAIN one /\ headers = one  BY <3>3, <2>1
    <3> HIDE DEF headers
    <3> QED BY <3>4, <3>5
  <2>2. CASE ~first  BY <1>2, <2>2
  <2> QED BY <2>1, <2>2
<1>8. \A a \in DOMAIN headers : headers[a].free = FALSE => a \in DOMAIN live
  <2>1. CASE first
    <3>1. headers = one  BY <2>1
    <3> HIDE DEF headers
    <3> QED BY <1>5, <2>1, <3>1
  <2>2. CASE ~first  BY <1>2, <2>2
  <2> QED BY <2>1, <2>2
<1>9. /\ DOMAIN live \subseteq DOMAIN headers
      /\ \A a \in DOMAIN live : headers[a].size = OneSize /\ headers[a].free = FALSE
  BY <1>1, <1>2
<1>10. DOMAIN headers \subseteq 0..top
       /\ \A a \in DOMAIN headers : headers[a].next = -1 \/
            (headers[a].next \in DOMAIN headers /\ headers[a].next > a)
  <2> HIDE DEF headers, top
  <2>1. /\ DOMAIN headers \subseteq 0..top
        /\ headers \in [DOMAIN headers -> [size : Measures, free : BOOLEAN, next : DOMAIN headers \union {-1}]]
        /\ \A a \in DOMAIN headers : headers[a].next # -1 => headers[a].next > a
    BY <1>6 DEF Laid
  <2>2. ASSUME NEW a \in DOMAIN headers
        PROVE headers[a].next = -1 \/
                (headers[a].next \in DOMAIN headers /\ headers[a].next > a)
    <3>1. headers[a] \in [size : Measures, free : BOOLEAN, next : DOMAIN headers \union {-1}]
      BY <2>1
    <3> QED BY <2>1, <3>1
  <2> QED BY <2>1, <2>2
<1>11. first => heap_ptr + NodesHeapSize <= NodesHeapSize  BY <1>2, <1>3
<1>12. \/ /\ block = -1
          /\ last' = [op |-> "malloc", size |-> OneSize, at |-> -1]
          /\ global_base' = base /\ hdr' = headers /\ live' = live
       \/ /\ block # -1
          /\ global_base' = base /\ hdr' = H
          /\ live' = [a \in DOMAIN live \union {block} |-> IF a = block THEN OneSize ELSE live[a]]
          /\ last' = [op |-> "malloc", size |-> OneSize, at |-> block]
          /\ NodeHeap!fits(headers, block, OneSize)
  BY <1>11
     DEF NodeHeap!malloc, NodeHeap!request_heap, NodeHeap!Header, NodeHeap!NULL, NodeHeap!granted, one
<1> HIDE DEF headers, base, top, block, H
<1>13. global_base' = 0 /\ global_base' # -1  BY <1>4, <1>12
<1>14. CASE block = -1
  <2>1. /\ last' = [op |-> "malloc", size |-> OneSize, at |-> -1] /\ hdr' = headers /\ live' = live
    BY <1>12, <1>14
  <2>2. NodeHeap!find_free_block(headers, 0, OneSize) = -1  BY <1>4, <1>14 DEF block
  <2>3. Full  BY <1>4, <1>6, <1>7, <1>8, <1>9, <2>2, ChainFull
  <2>4. Full'  BY <2>1, <2>3 DEF Full
  <2>5. \E end \in DOMAIN hdr' : Chain(hdr', end)  BY <1>7, <2>1
  <2>6. \A a \in DOMAIN hdr' : hdr'[a].free = FALSE => a \in DOMAIN live'  BY <1>8, <2>1
  <2>7. \A a \in DOMAIN live' : live'[a] = OneSize  BY <1>2, <2>1
  <2>8. last'.size = OneSize  BY <2>1
  <2> QED BY <1>13, <2>4, <2>5, <2>6, <2>7, <2>8 DEF NodesInv
<1>15. CASE block # -1
  <2>1. /\ last' = [op |-> "malloc", size |-> OneSize, at |-> block] /\ hdr' = H
        /\ NodeHeap!fits(headers, block, OneSize)
        /\ live' = [a \in DOMAIN live \union {block} |-> IF a = block THEN OneSize ELSE live[a]]
    BY <1>12, <1>15
  <2>2. block \in DOMAIN headers /\ headers[block].size >= OneSize
    <3>1. base \in DOMAIN headers \union {-1}
      <4>1. 0 \in DOMAIN headers  BY <1>7 DEF Chain
      <4> QED BY <1>4, <4>1
    <3> QED BY <1>4, <1>10, <1>15, <3>1, FindFree DEF block
  <2>3. /\ \E end \in DOMAIN H : Chain(H, end)
        /\ \A a \in DOMAIN H \ {block} :
             H[a].free = FALSE => a \in DOMAIN headers /\ headers[a].free = FALSE
    BY <1>4, <1>6, <1>7, <2>1, <2>2, ChainTaking DEF H
  <2>4. \A a \in DOMAIN hdr' : hdr'[a].free = FALSE => a \in DOMAIN live'
    BY <1>8, <2>1, <2>3
  <2>5. \A a \in DOMAIN live' : live'[a] = OneSize  BY <1>2, <2>1
  <2>6. last'.at # -1  BY <1>15, <2>1
  <2>7. \E end \in DOMAIN hdr' : Chain(hdr', end)  BY <2>1, <2>3
  <2> QED BY <1>13, <2>4, <2>5, <2>6, <2>7 DEF NodesInv
<1> QED BY <1>14, <1>15

LEMMA NodesSteps == NodesInv /\ HeapInv /\ NodeHeap!Next /\ fitted' => NodesInv'
BY NodesFree, NodesMalloc, OneSizeIs DEF NodeHeap!Next

LEMMA NodesRefused == NodesInv /\ HeapInv => NodeHeap!RefusedWhenFull
<1> SUFFICES ASSUME NodesInv, HeapInv, last.op = "malloc", last.at = -1
             PROVE  NodeHeap!Used + last.size + 24 > NodesHeapSize
  BY DEF NodeHeap!RefusedWhenFull, NodeHeap!NULL, NodeHeap!HeaderSize
<1>1. last.size = OneSize /\ Full /\ \A a \in DOMAIN live : live[a] = OneSize  BY DEF NodesInv
<1>2. OneSize \in Nat /\ Pitch \in Nat  BY OneSizeIs DEF Pitch
<1>3. DOMAIN live \subseteq DOMAIN hdr /\ DOMAIN hdr \subseteq 0..heap_ptr /\ heap_ptr \in Nat
  BY DEF HeapInv, Laid
<1>4. IsFiniteSet(DOMAIN live)
  <2>1. IsFiniteSet(0..heap_ptr)  BY <1>3, FS_Interval
  <2> QED BY <1>3, <2>1, FS_Subset
<1>5. \A a \in DOMAIN live : NodeHeap!After(a) - a = Pitch
  <2> SUFFICES ASSUME NEW a \in DOMAIN live PROVE NodeHeap!After(a) - a = Pitch
    OBVIOUS
  <2>1. a \in Nat /\ live[a] = OneSize  BY <1>1, <1>3
  <2> QED BY <1>2, <2>1 DEF NodeHeap!After, NodeHeap!HeaderSize, Pitch
<1>6. NodeHeap!Used = Pitch * Cardinality(DOMAIN live)  BY <1>2, <1>4, <1>5, UsedIs
<1> QED BY <1>1, <1>6 DEF Full
-----------------------------------------------------------------------------
(* The reception.  A character is in the FIFO, or was taken from it; those *)
(* in the buffer were taken, and are in one place of it each.              *)
Members(s) == {s[i] : i \in DOMAIN s}
Distinct(s) == \A i, j \in DOMAIN s : s[i] = s[j] => i = j
Chars == Nat \ {0}
Cells == 0..MaxChars + 1

UartTypes ==
  /\ fifoRecv \in Seq(Chars) /\ taken \in Seq(Chars) /\ shown \in Seq(Chars)
  /\ u1_rcv_char \in [Cells -> Nat]
  /\ index \in Nat /\ uart1_rcv_isr_count \in Nat

InOrder ==
  /\ arrived \in 0..MaxChars
  /\ \A x \in Members(fifoRecv) \union Members(taken) : x \in 1..arrived
  /\ \A i, j \in DOMAIN fifoRecv : i < j => fifoRecv[i] < fifoRecv[j]
  /\ \A x \in Members(taken), y \in Members(fifoRecv) : x < y

Buffered ==
  /\ \A k \in Cells : u1_rcv_char[k] # 0 => u1_rcv_char[k] \in Members(taken)
  /\ \A k, j \in Cells : u1_rcv_char[k] # 0 /\ u1_rcv_char[k] = u1_rcv_char[j] => k = j

Printed == Members(shown) \subseteq Members(taken) /\ Distinct(shown)

(* A place is behind printf when it has read it, or finished; main clears  *)
(* what it printed, from the first byte on, before it prints again.  The   *)
(* routine only stores what is new, in front of printf or behind it.       *)
Ahead(k) ==
  /\ uart_pc # "reset"
  /\ uart_pc = "print" => index <= k
  /\ uart_pc = "clear" => k < index
Unprinted ==
  \A k \in Cells : u1_rcv_char[k] # 0 /\ Ahead(k) => u1_rcv_char[k] \notin Members(shown)

(* printf moves on with every character it prints, and never prints one    *)
(* twice: there are fewer of them than places.                             *)
Scanning == uart_pc = "print" => index <= Len(shown)

UartInv == UartTypes /\ InOrder /\ Buffered /\ Printed /\ Unprinted /\ Scanning

LEMMA MembersOfSeq ==
  ASSUME NEW S, NEW s \in Seq(S) PROVE Members(s) \subseteq S /\ DOMAIN s = 1..Len(s) /\ Len(s) \in Nat
<1>1. \A i \in DOMAIN s : s[i] \in S  BY ElementOfSeq, LenProperties
<1> QED BY <1>1, LenProperties DEF Members

LEMMA AppendMembers ==
  ASSUME NEW S, NEW s \in Seq(S), NEW x \in S
  PROVE  /\ Append(s, x) \in Seq(S) /\ Members(Append(s, x)) = Members(s) \union {x}
         /\ \A i \in 1..Len(s) : Append(s, x)[i] = s[i]
         /\ Append(s, x)[Len(s) + 1] = x /\ Len(Append(s, x)) = Len(s) + 1
<1> DEFINE t == Append(s, x)
<1>1. /\ t \in Seq(S) /\ Len(t) = Len(s) + 1 /\ t[Len(s) + 1] = x
      /\ \A i \in 1..Len(s) : t[i] = s[i]
  BY AppendProperties
<1>2. DOMAIN s = 1..Len(s) /\ Len(s) \in Nat  BY MembersOfSeq
<1> HIDE DEF t
<1>3. DOMAIN t = 1..Len(s) + 1  BY <1>1, MembersOfSeq
<1>4. 1..Len(s) + 1 = (1..Len(s)) \union {Len(s) + 1}  BY <1>2
<1>5. Members(t) = {t[i] : i \in 1..Len(s)} \union {t[Len(s) + 1]}
  BY <1>3, <1>4 DEF Members
<1>6. {t[i] : i \in 1..Len(s)} = {s[i] : i \in 1..Len(s)}  BY <1>1
<1>7. Members(t) = Members(s) \union {x}  BY <1>1, <1>2, <1>5, <1>6 DEF Members
<1> QED BY <1>1, <1>7 DEF t

LEMMA TailMembers ==
  ASSUME NEW S, NEW s \in Seq(S), s # <<>>
  PROVE  /\ Tail(s) \in Seq(S) /\ Head(s) = s[1] /\ Len(s) \in Nat \ {0}
         /\ DOMAIN Tail(s) = 1..Len(s) - 1 /\ \A i \in 1..Len(s) - 1 : Tail(s)[i] = s[i + 1]
         /\ Members(Tail(s)) \subseteq Members(s) /\ s[1] \in Members(s)
<1>1. DOMAIN s = 1..Len(s) /\ Len(s) \in Nat  BY MembersOfSeq
<1>2. Len(s) # 0  BY EmptySeq
<1>3. /\ Tail(s) \in Seq(S) /\ Len(Tail(s)) = Len(s) - 1 /\ Head(s) = s[1]
      /\ \A i \in 1..Len(Tail(s)) : Tail(s)[i] = s[i + 1]
  BY HeadTailProperties
<1>4. DOMAIN Tail(s) = 1..Len(s) - 1  BY <1>3, MembersOfSeq
<1>5. \A i \in 1..Len(s) - 1 : i + 1 \in 1..Len(s)  BY <1>1
<1>6. 1 \in 1..Len(s)  BY <1>1, <1>2
<1> QED BY <1>1, <1>2, <1>3, <1>4, <1>5, <1>6 DEF Members

(* printf runs on over what the routine stored behind the end main wrote,  *)
(* but never past the buffer: it would have printed a character twice.     *)
LEMMA Inside ==
  ASSUME UartInv, uart_pc = "print"
  PROVE  index \in Cells
<1> DEFINE n == Len(shown)
<1>1. /\ MaxChars \in Nat /\ shown \in Seq(Chars) /\ index \in Nat /\ index <= n
      /\ Distinct(shown) /\ \A x \in Members(shown) : x \in 1..MaxChars
  <2>1. MaxChars \in Nat  BY KitAssumptions DEF Uart!UartAssumption
  <2>2. \A x \in 1..arrived : x \in 1..MaxChars  BY <2>1 DEF UartInv, InOrder
  <2> QED BY <2>1, <2>2 DEF UartInv, UartTypes, InOrder, Printed, Scanning
<1>2. DOMAIN shown = 1..n /\ n \in Nat  BY <1>1, MembersOfSeq
<1> HIDE DEF n
<1>3. \A i \in 1..n : shown[i] \in 1..MaxChars  BY <1>1, <1>2 DEF Members
<1>4. ASSUME MaxChars < n PROVE FALSE
  <2>1. shown \in [1..n -> 1..MaxChars]
    <3>1. shown = [i \in 1..n |-> shown[i]]  BY <1>1, <1>2
    <3> QED BY <1>3, <3>1
  <2>2. IsFiniteSet(1..n) /\ Cardinality(1..n) = n
    <3>1. 1 \in Int /\ n \in Int /\ (IF 1 > n THEN 0 ELSE n - 1 + 1) = n  BY <1>2
    <3> QED BY <3>1, FS_Interval
  <2>3. IsFiniteSet(1..MaxChars) /\ Cardinality(1..MaxChars) = MaxChars
    <3>1. 1 \in Int /\ MaxChars \in Int /\ (IF 1 > MaxChars THEN 0 ELSE MaxChars - 1 + 1) = MaxChars
      BY <1>1
    <3> QED BY <3>1, FS_Interval
  <2>4. \E i, j \in 1..n : i # j /\ shown[i] = shown[j]
    BY <1>4, <2>1, <2>2, <2>3, FS_PigeonHole
  <2> QED BY <2>4, <1>1, <1>2 DEF Distinct
<1> QED BY <1>1, <1>2, <1>4 DEF Cells

-----------------------------------------------------------------------------
(* The reception keeps its invariant, step by step.                        *)
LEMMA UartInitially == Uart!Init => UartInv
<1> SUFFICES ASSUME Uart!Init PROVE UartInv
  OBVIOUS
<1>1. MaxChars \in Nat  BY KitAssumptions DEF Uart!UartAssumption
<1>2. /\ fifoRecv = <<>> /\ taken = <<>> /\ shown = <<>> /\ arrived = 0
      /\ u1_rcv_char = [k \in Cells |-> 0] /\ index = 0 /\ uart1_rcv_isr_count = 0
      /\ uart_pc = "delay"
  BY DEF Uart!Init, Uart!Indices, Uart!NUL, Cells
<1>3. <<>> \in Seq(Chars) /\ DOMAIN <<>> = {}  BY EmptySeq
<1>4. Members(<<>>) = {}  BY <1>3 DEF Members
<1>5. UartTypes  BY <1>2, <1>3 DEF UartTypes
<1>6. InOrder  BY <1>1, <1>2, <1>3, <1>4 DEF InOrder
<1>7. Buffered  BY <1>2 DEF Buffered
<1>8. Printed  BY <1>2, <1>3, <1>4 DEF Printed, Distinct
<1>9. Unprinted /\ Scanning  BY <1>2 DEF Unprinted, Scanning
<1> QED BY <1>5, <1>6, <1>7, <1>8, <1>9 DEF UartInv

LEMMA UartStutters == UartInv /\ UNCHANGED uartVars => UartInv'
<1> SUFFICES ASSUME UartInv, UNCHANGED uartVars PROVE UartInv'
  OBVIOUS
<1>1. /\ fifoRecv' = fifoRecv /\ taken' = taken /\ shown' = shown /\ arrived' = arrived
      /\ u1_rcv_char' = u1_rcv_char /\ index' = index
      /\ uart1_rcv_isr_count' = uart1_rcv_isr_count /\ uart_pc' = uart_pc
  BY DEF uartVars
<1>2. UartTypes'  BY <1>1 DEF UartInv, UartTypes
<1>3. InOrder'  BY <1>1 DEF UartInv, InOrder
<1>4. Buffered'  BY <1>1 DEF UartInv, Buffered
<1>5. Printed'  BY <1>1 DEF UartInv, Printed
<1>6. Unprinted' /\ Scanning'  BY <1>1 DEF UartInv, Unprinted, Ahead, Scanning
<1> QED BY <1>2, <1>3, <1>4, <1>5, <1>6 DEF UartInv

LEMMA Arrival == UartInv /\ Uart!receive_stop_last_bit => UartInv'
<1> SUFFICES ASSUME UartInv, Uart!receive_stop_last_bit PROVE UartInv'
  OBVIOUS
<1> DEFINE n == arrived + 1
           f == fifoRecv
           g == Append(fifoRecv, n)
<1>1. /\ arrived < MaxChars /\ arrived' = n /\ (fifoRecv' = f \/ fifoRecv' = g)
      /\ taken' = taken /\ shown' = shown /\ u1_rcv_char' = u1_rcv_char /\ index' = index
      /\ uart1_rcv_isr_count' = uart1_rcv_isr_count /\ uart_pc' = uart_pc
  BY DEF Uart!receive_stop_last_bit, Uart!shared, Uart!main
<1>2. MaxChars \in Nat /\ arrived \in 0..MaxChars
  BY KitAssumptions DEF Uart!UartAssumption, UartInv, InOrder
<1>3. n \in 0..MaxChars /\ n \in Chars /\ n \in 1..n /\ \A x \in 1..arrived : x \in 1..n /\ x < n
  BY <1>1, <1>2 DEF Chars
<1>4. f \in Seq(Chars)  BY DEF UartInv, UartTypes
<1>5. /\ g \in Seq(Chars) /\ Members(g) = Members(f) \union {n}
      /\ \A i \in 1..Len(f) : g[i] = f[i]
      /\ g[Len(f) + 1] = n /\ Len(g) = Len(f) + 1
  BY <1>3, <1>4, AppendMembers
<1>6. DOMAIN f = 1..Len(f) /\ Len(f) \in Nat  BY <1>4, MembersOfSeq
<1>7. DOMAIN g = 1..Len(f) + 1  BY <1>5, MembersOfSeq
<1>8. /\ \A x \in Members(f) \union Members(taken) : x \in 1..arrived
      /\ \A i, j \in DOMAIN f : i < j => f[i] < f[j]
      /\ \A x \in Members(taken), y \in Members(f) : x < y
  BY DEF UartInv, InOrder
<1> HIDE DEF f, g, n
<1>9. UartTypes'  BY <1>1, <1>4, <1>5 DEF UartInv, UartTypes
<1>10. InOrder'
  <2>1. \A x \in Members(fifoRecv') \union Members(taken') : x \in 1..n
    BY <1>1, <1>3, <1>5, <1>8
  <2>2. \A i, j \in DOMAIN fifoRecv' : i < j => fifoRecv'[i] < fifoRecv'[j]
    <3>1. CASE fifoRecv' = f  BY <1>8, <3>1
    <3>2. CASE fifoRecv' = g
      <4> SUFFICES ASSUME NEW i \in 1..Len(f) + 1, NEW j \in 1..Len(f) + 1, i < j
                   PROVE  g[i] < g[j]
        BY <1>7, <3>2
      <4>1. i \in 1..Len(f) /\ g[i] = f[i]  BY <1>5, <1>6
      <4>2. CASE j = Len(f) + 1
        <5>1. f[i] \in Members(f)  BY <4>1, <1>6 DEF Members
        <5>2. f[i] < n  BY <5>1, <1>3, <1>8
        <5> QED BY <5>2, <4>1, <4>2, <1>5
      <4>3. CASE j # Len(f) + 1
        <5>1. j \in 1..Len(f)  BY <4>3, <1>6
        <5>2. g[j] = f[j]  BY <5>1, <1>5
        <5> QED BY <5>1, <5>2, <4>1, <1>6, <1>8
      <4> QED BY <4>2, <4>3
    <3> QED BY <1>1, <3>1, <3>2
  <2>3. \A x \in Members(taken'), y \in Members(fifoRecv') : x < y
    BY <1>1, <1>3, <1>5, <1>8
  <2> QED BY <1>1, <1>3, <2>1, <2>2, <2>3 DEF InOrder
<1>11. Buffered'  BY <1>1 DEF UartInv, Buffered
<1>12. Printed'  BY <1>1 DEF UartInv, Printed
<1>13. Unprinted' /\ Scanning'  BY <1>1 DEF UartInv, Unprinted, Ahead, Scanning
<1> QED BY <1>9, <1>10, <1>11, <1>12, <1>13 DEF UartInv

LEMMA Reading == UartInv /\ Uart!uart1_isr_read => UartInv'
<1> SUFFICES ASSUME UartInv, Uart!uart1_isr_read PROVE UartInv'
  OBVIOUS
<1> DEFINE f == fifoRecv
           h == Head(fifoRecv)
           t == Append(taken, Head(fifoRecv))
           b == u1_rcv_char
           c == uart1_rcv_isr_count
<1>1. /\ f # <<>> /\ fifoRecv' = Tail(f) /\ b' = [b EXCEPT ![c] = h] /\ c' = c + 1
      /\ taken' = t /\ arrived' = arrived /\ shown' = shown
      /\ index' = index /\ uart_pc' = uart_pc
  BY DEF Uart!uart1_isr_read, Uart!receiver_not_empty, Uart!main
<1>2. /\ f \in Seq(Chars) /\ taken \in Seq(Chars) /\ b \in [Cells -> Nat] /\ c \in Nat
      /\ arrived \in 0..MaxChars
  BY DEF UartInv, UartTypes, InOrder
<1>3. /\ \A x \in Members(f) \union Members(taken) : x \in 1..arrived
      /\ \A i, j \in DOMAIN f : i < j => f[i] < f[j]
      /\ \A x \in Members(taken), y \in Members(f) : x < y
  BY DEF UartInv, InOrder
<1>4. /\ Tail(f) \in Seq(Chars) /\ h = f[1] /\ Len(f) \in Nat \ {0}
      /\ DOMAIN Tail(f) = 1..Len(f) - 1 /\ \A i \in 1..Len(f) - 1 : Tail(f)[i] = f[i + 1]
      /\ Members(Tail(f)) \subseteq Members(f) /\ f[1] \in Members(f)
  BY <1>1, <1>2, TailMembers
<1>5. DOMAIN f = 1..Len(f)  BY <1>2, MembersOfSeq
<1>6. Members(f) \subseteq Chars  BY <1>2, MembersOfSeq
<1>7. h \in Chars /\ h \in Members(f)  BY <1>4, <1>6
<1>8. t \in Seq(Chars) /\ Members(t) = Members(taken) \union {h}  BY <1>2, <1>7, AppendMembers
<1>9. h \notin Members(taken)
  <2>1. h \in Int  BY <1>7 DEF Chars
  <2> QED BY <2>1, <1>3, <1>7
<1>10. /\ \A k \in Cells : b[k] # 0 => b[k] \in Members(taken)
       /\ \A k, j \in Cells : b[k] # 0 /\ b[k] = b[j] => k = j
  BY DEF UartInv, Buffered
<1>11. Members(shown) \subseteq Members(taken) /\ Distinct(shown)  BY DEF UartInv, Printed
<1> HIDE DEF f, h, t
<1>12. h \in Nat  BY <1>7 DEF Chars
<1>13. /\ b' \in [Cells -> Nat]
       /\ \A k \in Cells : b'[k] = h \/ b'[k] = b[k]
       /\ \A k \in Cells : k # c => b'[k] = b[k]
  BY <1>1, <1>2, <1>12
<1>14. UartTypes'  BY <1>1, <1>2, <1>4, <1>8, <1>13 DEF UartInv, UartTypes
<1>15. InOrder'
  <2>1. \A x \in Members(fifoRecv') \union Members(taken') : x \in 1..arrived
    BY <1>1, <1>3, <1>4, <1>7, <1>8
  <2>2. ASSUME NEW i \in 1..Len(f) - 1, NEW j \in 1..Len(f) - 1, i < j
        PROVE  Tail(f)[i] < Tail(f)[j]
    <3>1. i + 1 \in 1..Len(f) /\ j + 1 \in 1..Len(f) /\ i + 1 < j + 1  BY <1>4, <2>2
    <3>2. f[i + 1] < f[j + 1]  BY <3>1, <1>3, <1>5
    <3> QED BY <3>2, <1>4
  <2>3. ASSUME NEW x \in Members(taken'), NEW y \in Members(fifoRecv') PROVE x < y
    <3>1. y \in Members(f)  BY <1>1, <1>4
    <3>2. CASE x \in Members(taken)  BY <3>1, <3>2, <1>3
    <3>3. CASE x = h
      <4>1. PICK i \in 1..Len(f) - 1 : y = f[i + 1]  BY <1>1, <1>4 DEF Members
      <4>2. 1 \in 1..Len(f) /\ i + 1 \in 1..Len(f) /\ 1 < i + 1  BY <1>4
      <4>3. f[1] < f[i + 1]  BY <4>2, <1>3, <1>5
      <4> QED BY <4>1, <4>3, <3>3, <1>4
    <3> QED BY <1>1, <1>8, <3>2, <3>3
  <2>4. \A i, j \in DOMAIN fifoRecv' : i < j => fifoRecv'[i] < fifoRecv'[j]
    BY <1>1, <1>4, <2>2
  <2> QED BY <1>1, <1>2, <2>1, <2>3, <2>4 DEF InOrder
<1>16. Buffered'
  <2>1. \A k \in Cells : b'[k] # 0 => b'[k] \in Members(t)  BY <1>8, <1>10, <1>13
  <2>2. ASSUME NEW k \in Cells, NEW j \in Cells, b'[k] # 0, b'[k] = b'[j] PROVE k = j
    <3>1. CASE k # c /\ j # c  BY <1>10, <1>13, <2>2, <3>1
    <3>2. CASE k = c /\ j # c
      <4>1. b'[k] = h \/ (b'[k] = b[k] /\ b'[j] = b[j])  BY <1>13, <3>2
      <4>2. b'[j] = b[j]  BY <1>13, <3>2
      <4>3. b'[k] # h  BY <4>2, <2>2, <1>9, <1>10
      <4> QED BY <4>1, <4>3, <2>2, <1>10
    <3>3. CASE k # c /\ j = c
      <4>1. b'[k] = b[k]  BY <1>13, <3>3
      <4>2. b'[j] # h  BY <4>1, <2>2, <1>9, <1>10
      <4>3. b'[j] = b[j]  BY <4>2, <1>13
      <4> QED BY <4>1, <4>3, <2>2, <1>10
    <3> QED BY <3>1, <3>2, <3>3
  <2> QED BY <1>1, <2>1, <2>2 DEF Buffered
<1>17. Printed'  BY <1>1, <1>8, <1>11 DEF Printed
<1>18. Unprinted'
  <2>1. h \notin Members(shown)  BY <1>9, <1>11
  <2>2. ASSUME NEW k \in Cells, b'[k] # 0, Ahead(k)' PROVE b'[k] \notin Members(shown)
    <3>1. Ahead(k)  BY <2>2, <1>1 DEF Ahead
    <3> QED BY <2>1, <2>2, <3>1, <1>13 DEF UartInv, Unprinted
  <2> QED BY <2>2, <1>1 DEF Unprinted
<1>19. Scanning'  BY <1>1 DEF UartInv, Scanning
<1> QED BY <1>14, <1>15, <1>16, <1>17, <1>18, <1>19 DEF UartInv

(* The routine enters and leaves without touching a character.             *)
LEMMA Interrupted == UartInv /\ (Uart!uart1_isr_enter \/ Uart!uart1_isr_drained) => UartInv'
<1> SUFFICES ASSUME UartInv, Uart!uart1_isr_enter \/ Uart!uart1_isr_drained PROVE UartInv'
  OBVIOUS
<1>1. UNCHANGED <<fifoRecv, arrived, u1_rcv_char, uart1_rcv_isr_count, uart_pc, index, taken, shown>>
  BY DEF Uart!uart1_isr_enter, Uart!uart1_isr_drained, Uart!shared, Uart!main
<1>2. UartTypes'  BY <1>1 DEF UartInv, UartTypes
<1>3. InOrder'  BY <1>1 DEF UartInv, InOrder
<1>4. Buffered'  BY <1>1 DEF UartInv, Buffered
<1>5. Printed'  BY <1>1 DEF UartInv, Printed
<1>6. Unprinted' /\ Scanning'  BY <1>1 DEF UartInv, Unprinted, Ahead, Scanning
<1> QED BY <1>2, <1>3, <1>4, <1>5, <1>6 DEF UartInv

(* main takes no character; where it writes the buffer, it clears.         *)
ClearedAt(k) == u1_rcv_char' = u1_rcv_char \/ u1_rcv_char' = [u1_rcv_char EXCEPT ![k] = 0]

LEMMA Clearing ==
  ASSUME UartInv, NEW c, ClearedAt(c)
  PROVE  /\ u1_rcv_char' \in [Cells -> Nat]
         /\ \A k \in Cells : u1_rcv_char'[k] = 0 \/ u1_rcv_char'[k] = u1_rcv_char[k]
<1>1. u1_rcv_char \in [Cells -> Nat]  BY DEF UartInv, UartTypes
<1> QED BY <1>1 DEF ClearedAt

LEMMA LoopKeeps ==
  ASSUME UartInv, UNCHANGED <<fifoRecv, arrived, taken>>,
         NEW c, ClearedAt(c),
         shown' \in Seq(Chars), index' \in Nat, uart1_rcv_isr_count' \in Nat,
         Printed', Unprinted', Scanning'
  PROVE  UartInv'
<1>1. /\ u1_rcv_char' \in [Cells -> Nat]
      /\ \A k \in Cells : u1_rcv_char'[k] = 0 \/ u1_rcv_char'[k] = u1_rcv_char[k]
  BY Clearing
<1>2. fifoRecv' = fifoRecv /\ arrived' = arrived /\ taken' = taken  OBVIOUS
<1>3. UartTypes'  BY <1>1, <1>2 DEF UartInv, UartTypes
<1>4. InOrder'  BY <1>2 DEF UartInv, InOrder
<1>5. Buffered'  BY <1>1, <1>2 DEF UartInv, Buffered
<1> QED BY <1>3, <1>4, <1>5 DEF UartInv

LEMMA Counting == UartInv /\ (Uart!load_count \/ Uart!store_count) => UartInv'
<1> SUFFICES ASSUME UartInv, Uart!load_count \/ Uart!store_count PROVE UartInv'
  OBVIOUS
<1>1. /\ UNCHANGED <<fifoRecv, arrived, taken>> /\ shown' = shown /\ u1_rcv_char' = u1_rcv_char
      /\ uart_pc \in {"delay", "store"} /\ uart_pc' \in {"store", "end"}
      /\ index' = index \/ index' = uart1_rcv_isr_count + 1
      /\ uart1_rcv_isr_count' = uart1_rcv_isr_count \/ uart1_rcv_isr_count' = index
  BY DEF Uart!load_count, Uart!store_count, Uart!Step, Uart!shared
<1>2. index' \in Nat /\ uart1_rcv_isr_count' \in Nat /\ shown' \in Seq(Chars)
  BY <1>1 DEF UartInv, UartTypes
<1>3. Printed'  BY <1>1 DEF UartInv, Printed
<1>4. Unprinted' /\ Scanning'  BY <1>1 DEF UartInv, Unprinted, Ahead, Scanning
<1>5. ClearedAt(0)  BY <1>1 DEF ClearedAt
<1> QED BY <1>1, <1>2, <1>3, <1>4, <1>5, LoopKeeps

LEMMA Ending == UartInv /\ Uart!end_string => UartInv'
<1> SUFFICES ASSUME UartInv, Uart!end_string PROVE UartInv'
  OBVIOUS
<1>1. /\ UNCHANGED <<fifoRecv, arrived, taken>> /\ shown' = shown
      /\ uart_pc = "end" /\ uart_pc' = "print" /\ ClearedAt(index)
      /\ index' = 0 /\ uart1_rcv_isr_count' = uart1_rcv_isr_count
  BY DEF Uart!end_string, Uart!Step, Uart!NUL, ClearedAt
<1>2. index' \in Nat /\ uart1_rcv_isr_count' \in Nat /\ shown' \in Seq(Chars)
  BY <1>1 DEF UartInv, UartTypes
<1>3. Printed'  BY <1>1 DEF UartInv, Printed
<1>4. \A k \in Cells : u1_rcv_char'[k] = 0 \/ u1_rcv_char'[k] = u1_rcv_char[k]
  BY <1>1, Clearing
<1>5. Unprinted'  BY <1>1, <1>4 DEF UartInv, Unprinted, Ahead
<1>6. Scanning'
  <2>1. Len(shown) \in Nat  BY <1>2, <1>1, LenProperties
  <2> QED BY <2>1, <1>1 DEF Scanning
<1> QED BY <1>1, <1>2, <1>3, <1>5, <1>6, LoopKeeps

(* The character in front of printf was not printed; behind it, nothing    *)
(* is promised until main has cleared.                                     *)
LEMMA Printing == UartInv /\ Uart!putchar => UartInv'
<1> SUFFICES ASSUME UartInv, Uart!putchar PROVE UartInv'
  OBVIOUS
<1> DEFINE x == u1_rcv_char[index]
           t == Append(shown, x)
<1>1. /\ UNCHANGED <<fifoRecv, arrived, taken>> /\ shown' = t /\ x # 0
      /\ uart_pc = "print" /\ uart_pc' = "print" /\ u1_rcv_char' = u1_rcv_char
      /\ index' = index + 1 /\ uart1_rcv_isr_count' = uart1_rcv_isr_count
  BY DEF Uart!putchar, Uart!Step, Uart!shared, Uart!NUL
<1>2. /\ shown \in Seq(Chars) /\ Distinct(shown) /\ Members(shown) \subseteq Members(taken)
      /\ index \in Nat /\ uart1_rcv_isr_count \in Nat /\ u1_rcv_char \in [Cells -> Nat]
      /\ index <= Len(shown) /\ MaxChars \in Nat
  BY <1>1, KitAssumptions DEF UartInv, UartTypes, Printed, Scanning, Uart!UartAssumption
<1>3. index \in Cells  BY <1>1, Inside
<1>4. x \in Chars /\ x \in Members(taken)  BY <1>1, <1>2, <1>3 DEF UartInv, Buffered, Chars
<1>5. x \notin Members(shown)
  <2>1. Ahead(index)  BY <1>1, <1>2 DEF Ahead
  <2> QED BY <2>1, <1>1, <1>3 DEF UartInv, Unprinted
<1>6. /\ t \in Seq(Chars) /\ Members(t) = Members(shown) \union {x}
      /\ \A i \in 1..Len(shown) : t[i] = shown[i]
      /\ t[Len(shown) + 1] = x /\ Len(t) = Len(shown) + 1
  BY <1>2, <1>4, AppendMembers
<1>7. DOMAIN shown = 1..Len(shown) /\ Len(shown) \in Nat  BY <1>2, MembersOfSeq
<1>8. DOMAIN t = 1..Len(shown) + 1  BY <1>6, MembersOfSeq
<1> HIDE DEF t, x
<1>9. Distinct(t)
  <2>1. ASSUME NEW i \in 1..Len(shown) PROVE t[i] # x
    <3>1. t[i] \in Members(shown)  BY <1>6, <1>7 DEF Members
    <3> QED BY <3>1, <1>5
  <2>2. \A i \in DOMAIN t : i \in 1..Len(shown) \/ i = Len(shown) + 1  BY <1>7, <1>8
  <2>3. \A i, j \in 1..Len(shown) : t[i] = t[j] => i = j  BY <1>2, <1>6, <1>7 DEF Distinct
  <2> QED BY <2>1, <2>2, <2>3, <1>6 DEF Distinct
<1>10. Printed'  BY <1>1, <1>2, <1>4, <1>6, <1>9 DEF Printed
<1>11. Unprinted'
  <2>1. ASSUME NEW k \in Cells, u1_rcv_char[k] # 0, Ahead(k)'
        PROVE  u1_rcv_char[k] \notin Members(t)
    <3>1. k \in Nat  BY <1>2 DEF Cells
    <3>2. index + 1 <= k  BY <2>1, <1>1 DEF Ahead
    <3>3. index <= k /\ k # index  BY <3>1, <3>2, <1>2
    <3>4. Ahead(k)  BY <3>3, <1>1 DEF Ahead
    <3>5. u1_rcv_char[k] \notin Members(shown)  BY <2>1, <3>4 DEF UartInv, Unprinted
    <3>6. u1_rcv_char[k] # x  BY <2>1, <3>3, <1>3 DEF UartInv, Buffered, x
    <3> QED BY <3>5, <3>6, <1>6
  <2> QED BY <2>1, <1>1 DEF Unprinted
<1>12. Scanning'  BY <1>1, <1>2, <1>6, <1>7 DEF Scanning
<1>13. ClearedAt(0)  BY <1>1 DEF ClearedAt
<1>14. index' \in Nat /\ uart1_rcv_isr_count' \in Nat  BY <1>1, <1>2
<1>15. shown' \in Seq(Chars)  BY <1>1, <1>6
<1> QED BY <1>1, <1>10, <1>11, <1>12, <1>13, <1>14, <1>15, LoopKeeps

LEMMA Finished == UartInv /\ Uart!end_print => UartInv'
<1> SUFFICES ASSUME UartInv, Uart!end_print PROVE UartInv'
  OBVIOUS
<1>1. /\ UNCHANGED <<fifoRecv, arrived, taken>> /\ shown' = shown
      /\ uart_pc' = "reset" /\ u1_rcv_char' = u1_rcv_char
      /\ index' = index /\ uart1_rcv_isr_count' = uart1_rcv_isr_count
  BY DEF Uart!end_print, Uart!Step, Uart!shared
<1>2. index' \in Nat /\ uart1_rcv_isr_count' \in Nat /\ shown' \in Seq(Chars)
  BY <1>1 DEF UartInv, UartTypes
<1>3. Printed' /\ Unprinted' /\ Scanning'
  BY <1>1 DEF UartInv, Printed, Unprinted, Ahead, Scanning
<1>4. ClearedAt(0)  BY <1>1 DEF ClearedAt
<1> QED BY <1>1, <1>2, <1>3, <1>4, LoopKeeps

LEMMA Resetting == UartInv /\ Uart!reset_count => UartInv'
<1> SUFFICES ASSUME UartInv, Uart!reset_count PROVE UartInv'
  OBVIOUS
<1>1. /\ UNCHANGED <<fifoRecv, arrived, taken>> /\ shown' = shown
      /\ uart_pc' = "clear" /\ u1_rcv_char' = u1_rcv_char
      /\ index' = 0 /\ uart1_rcv_isr_count' = 0
  BY DEF Uart!reset_count, Uart!Step, Uart!restart
<1>2. shown' \in Seq(Chars) /\ Printed'  BY <1>1 DEF UartInv, UartTypes, Printed
<1>3. ASSUME NEW k \in Cells PROVE ~(k < index')
  <2>1. MaxChars \in Nat  BY KitAssumptions DEF Uart!UartAssumption
  <2> QED BY <1>1, <2>1 DEF Cells
<1>4. Unprinted' /\ Scanning'  BY <1>1, <1>3 DEF Unprinted, Ahead, Scanning
<1>5. ClearedAt(0)  BY <1>1 DEF ClearedAt
<1> QED BY <1>1, <1>2, <1>4, <1>5, LoopKeeps

LEMMA Wiping == UartInv /\ Uart!memset => UartInv'
<1> SUFFICES ASSUME UartInv, Uart!memset PROVE UartInv'
  OBVIOUS
<1>1. /\ UNCHANGED <<fifoRecv, arrived, taken>> /\ shown' = shown /\ uart_pc = "clear"
      /\ uart_pc' = (IF index = MaxChars + 1 THEN "delay" ELSE "clear")
      /\ u1_rcv_char' = [u1_rcv_char EXCEPT ![index] = 0]
      /\ index' = (IF index = MaxChars + 1 THEN 0 ELSE index + 1)
      /\ uart1_rcv_isr_count' = uart1_rcv_isr_count
  BY DEF Uart!memset, Uart!Step, Uart!cleared, Uart!NUL
<1>2. MaxChars \in Nat  BY KitAssumptions DEF Uart!UartAssumption
<1>3. /\ index \in Nat /\ uart1_rcv_isr_count \in Nat /\ shown \in Seq(Chars)
      /\ u1_rcv_char \in [Cells -> Nat]
  BY DEF UartInv, UartTypes
<1>4. index' \in Nat  BY <1>1, <1>2, <1>3
<1>5. Printed'  BY <1>1 DEF UartInv, Printed
<1>6. ClearedAt(index)  BY <1>1 DEF ClearedAt
<1>7. Unprinted'
  <2> SUFFICES ASSUME NEW k \in Cells, u1_rcv_char'[k] # 0, uart_pc' = "clear" => k < index'
               PROVE  u1_rcv_char'[k] \notin Members(shown)
    BY <1>1 DEF Unprinted, Ahead
  <2>1. k # index /\ u1_rcv_char'[k] = u1_rcv_char[k]  BY <1>1, <1>3
  <2>2. k \in Nat /\ k <= MaxChars + 1  BY <1>2 DEF Cells
  <2>3. k < index
    <3>1. CASE index = MaxChars + 1  BY <2>1, <2>2, <3>1, <1>2
    <3>2. CASE index # MaxChars + 1
      <4>1. k < index + 1  BY <3>2, <1>1
      <4> QED BY <4>1, <2>1, <2>2, <1>3
    <3> QED BY <3>1, <3>2
  <2>4. Ahead(k)  BY <1>1, <2>3 DEF Ahead
  <2> QED BY <2>1, <2>4 DEF UartInv, Unprinted
<1>8. Scanning'  BY <1>1 DEF Scanning
<1> QED BY <1>1, <1>3, <1>4, <1>5, <1>6, <1>7, <1>8, LoopKeeps

LEMMA UartSteps == UartInv /\ Uart!Next => UartInv'
BY Arrival, Reading, Interrupted, Counting, Ending, Printing, Finished, Resetting, Wiping
   DEF Uart!Next, Uart!uart1_isr, Uart!loop

LEMMA UartShows == UartInv => Uart!ShownOnce
<1> SUFFICES ASSUME UartInv PROVE Uart!ShownOnce
  OBVIOUS
<1>1. Members(shown) \subseteq Members(taken) /\ Distinct(shown)  BY DEF UartInv, Printed
<1>2. Uart!IsInjective(shown)  BY <1>1 DEF Uart!IsInjective, Distinct
<1>3. Uart!ToSet(shown) \subseteq Uart!ToSet(taken)  BY <1>1 DEF Uart!ToSet, Members
<1> QED BY <1>2, <1>3 DEF Uart!ShownOnce

-----------------------------------------------------------------------------
(* A behaviour of MCSpec exercises one part; the others keep their state.  *)
(* The heap is followed up to the split that reaches beyond its block, and *)
(* the call that made it did not refuse.                                   *)
KitInv ==
  /\ part \in {"plic", "bursts", "identity", "uart", "nodes", "sizes"}
  /\ UartInv
  /\ fitted => HeapInv /\ (part # "sizes" => NodesInv)
  /\ ~fitted => last.at # -1

kitVars == <<part, vars, i2cVars, uartVars, heapVars>>

LEMMA KitInitially == MCInit => KitInv
<1> SUFFICES ASSUME MCInit PROVE KitInv
  OBVIOUS
<1>1. Uart!Init /\ NodeHeap!Init  BY DEF MCInit
<1>2. part \in {"plic", "bursts", "identity", "uart", "nodes", "sizes"}  BY DEF MCInit
<1>3. UartInv  BY <1>1, UartInitially
<1>4. HeapInv  BY <1>1, HeapInitially
<1>5. NodesInv  BY <1>1, NodesInitially
<1>6. fitted  BY <1>1 DEF NodeHeap!Init
<1> QED BY <1>2, <1>3, <1>4, <1>5, <1>6 DEF KitInv

(* The call after which the heap is no longer followed handed out a block. *)
LEMMA NodesUnfit == NodeHeap!Next => fitted' \/ last'.at # -1
<1> SUFFICES ASSUME NodeHeap!Next, ~fitted' PROVE last'.at # -1
  OBVIOUS
<1>1. fitted  BY DEF NodeHeap!Next
<1>2. PICK size \in NodesSizes : NodeHeap!malloc(size)
  BY <1>1 DEF NodeHeap!Next, NodeHeap!free
<1> DEFINE first == global_base = -1
           block == NodeHeap!find_free_block(IF first THEN NodeHeap!request_heap ELSE hdr,
                      IF first THEN heap_ptr ELSE global_base, size)
<1>3. \/ fitted' = fitted
      \/ block # -1 /\ last' = [op |-> "malloc", size |-> size, at |-> block]
  BY <1>2 DEF NodeHeap!malloc, NodeHeap!NULL
<1> HIDE DEF block
<1>4. fitted' # fitted  BY <1>1, Zenon
<1>5. block # -1 /\ last' = [op |-> "malloc", size |-> size, at |-> block]  BY <1>3, <1>4
<1> QED BY <1>5

LEMMA SizesUnfit == SizesHeap!Next => fitted' \/ last'.at # -1
<1> SUFFICES ASSUME SizesHeap!Next, ~fitted' PROVE last'.at # -1
  OBVIOUS
<1>1. fitted  BY DEF SizesHeap!Next
<1>2. PICK size \in SizesSizes : SizesHeap!malloc(size)
  BY <1>1 DEF SizesHeap!Next, SizesHeap!free
<1> DEFINE first == global_base = -1
           block == SizesHeap!find_free_block(IF first THEN SizesHeap!request_heap ELSE hdr,
                      IF first THEN heap_ptr ELSE global_base, size)
<1>3. \/ fitted' = fitted
      \/ block # -1 /\ last' = [op |-> "malloc", size |-> size, at |-> block]
  BY <1>2 DEF SizesHeap!malloc, SizesHeap!NULL
<1> HIDE DEF block
<1>4. fitted' # fitted  BY <1>1, Zenon
<1>5. block # -1 /\ last' = [op |-> "malloc", size |-> size, at |-> block]  BY <1>3, <1>4
<1> QED BY <1>5

LEMMA KitPreserved == KitInv /\ [MCNext]_kitVars => KitInv'
<1> SUFFICES ASSUME KitInv, [MCNext]_kitVars PROVE KitInv'
  OBVIOUS
<1>1. part' = part
  BY DEF MCNext, PlicStep, I2cStep, UartStep, HeapStep, In, kitVars
<1>2. UartInv /\ part \in {"plic", "bursts", "identity", "uart", "nodes", "sizes"}  BY DEF KitInv
<1>3. UartInv'
  <2>1. Uart!Next \/ UNCHANGED uartVars
    BY DEF MCNext, PlicStep, I2cStep, UartStep, HeapStep, kitVars
  <2> QED BY <2>1, <1>2, UartSteps, UartStutters
<1>4. CASE UNCHANGED heapVars
  <2>1. fitted' = fitted /\ last' = last  BY <1>4 DEF heapVars
  <2>2. fitted => HeapInv'  BY <1>4, HeapStutters DEF KitInv
  <2>3. fitted /\ part # "sizes" => NodesInv'  BY <1>4, NodesStutter DEF KitInv
  <2>4. ~fitted => last.at # -1  BY DEF KitInv
  <2> QED BY <1>1, <1>2, <1>3, <2>1, <2>2, <2>3, <2>4 DEF KitInv
<1>5. CASE part = "sizes" /\ SizesHeap!Next
  <2>1. HeapInv  BY <1>5 DEF KitInv, SizesHeap!Next
  <2>2. fitted' => HeapInv'  BY <1>5, <2>1, SizesStep
  <2>3. ~fitted' => last'.at # -1  BY <1>5, SizesUnfit
  <2> QED BY <1>1, <1>2, <1>3, <1>5, <2>2, <2>3 DEF KitInv
<1>6. CASE part # "sizes" /\ NodeHeap!Next
  <2>1. HeapInv /\ NodesInv  BY <1>6 DEF KitInv, NodeHeap!Next
  <2>2. fitted' => HeapInv' /\ NodesInv'  BY <1>6, <2>1, NodesStep, NodesSteps
  <2>3. ~fitted' => last'.at # -1  BY <1>6, NodesUnfit
  <2> QED BY <1>1, <1>2, <1>3, <1>6, <2>2, <2>3 DEF KitInv
<1>7. UNCHANGED heapVars \/ (part = "sizes" /\ SizesHeap!Next) \/ (part # "sizes" /\ NodeHeap!Next)
  BY DEF MCNext, PlicStep, I2cStep, UartStep, HeapStep, In, kitVars
<1> QED BY <1>4, <1>5, <1>6, <1>7

(* Of whatever sizes a program asks for blocks, and however it frees them, *)
(* none it has overlaps another or a header on the list, up to the split   *)
(* that reaches beyond the block it splits: what else malloc and free of   *)
(* malloc_firstfit.c do never brings two blocks together.                  *)
THEOREM BlocksNeverOverlap == MCSpec => []LiveDisjoint
<1>1. KitInv => LiveDisjoint
  <2> SUFFICES ASSUME KitInv, fitted PROVE NodeHeap!BlocksApart
    BY DEF LiveDisjoint, NodeHeap!LiveDisjoint
  <2>1. HeapInv  BY DEF KitInv
  <2> QED BY <2>1, HeapsGiven, ApartMeansDisjoint
<1> QED BY <1>1, KitInitially, KitPreserved, PTL DEF MCSpec, kitVars

(* However blocks come back, a program of one size is refused only when    *)
(* its blocks leave no room for another: free of malloc_firstfit.c never   *)
(* joins two blocks, which costs such a program nothing.                   *)
THEOREM RefusedOnlyWhenFull == MCSpec => []RefusedWhenFull
<1>1. KitInv => RefusedWhenFull
  <2> SUFFICES ASSUME KitInv, part = "nodes" PROVE NodeHeap!RefusedWhenFull
    BY DEF RefusedWhenFull
  <2>1. CASE fitted
    <3>1. HeapInv /\ NodesInv  BY <2>1 DEF KitInv
    <3> QED BY <3>1, NodesRefused
  <2>2. CASE ~fitted  BY <2>2 DEF KitInv, NodeHeap!RefusedWhenFull, NodeHeap!NULL
  <2> QED BY <2>1, <2>2
<1> QED BY <1>1, KitInitially, KitPreserved, PTL DEF MCSpec, kitVars

(* Wherever uart1_isr interrupts main, between two characters of a printf  *)
(* too, and whatever it overwrites, no character is printed twice, and     *)
(* none that was not received.                                             *)
THEOREM CharactersShownOnce == MCSpec => []ShownOnce
<1>1. KitInv => ShownOnce  BY UartShows DEF KitInv, ShownOnce
<1> QED BY <1>1, KitInitially, KitPreserved, PTL DEF MCSpec, kitVars

-----------------------------------------------------------------------------
(* The interrupt controller and the program that uses it.                  *)
Program == {"main", "enable", "disable", "disabled"}

Shape ==
  /\ line \in [Pins -> BOOLEAN] /\ gateway \in [Pins -> BOOLEAN]
  /\ ip \in [Pins -> BOOLEAN]
  /\ valid \in BOOLEAN /\ phase \in {"prioritise", "encode"}
  /\ total \in SUBSET Pins /\ (phase = "encode" => total # {})
  /\ id \in Pins \union {NoPin} /\ completion \in Pins \union {NoPin}
  /\ pc \in Program \union {"claim", "active", "isr", "complete", "mret"}
  /\ back \in Program

GatewayShut == \A i \in Pins : ip[i] => gateway[i]

(* A completion is the handler's, and is taken within a clock.             *)
Completing ==
  completion # NoPin =>
    /\ pc = "mret" /\ completion = claimed
    /\ gateway[claimed] /\ ~ip[claimed]

Serving == InService => claimed \in Pins /\ gateway[claimed] /\ ~ip[claimed]

(* Latched pins are pending, but for the one claimed in that very clock.   *)
Latched ==
  phase = "encode" =>
    \A i \in total : ip[i] \/ (i = claimed /\ pc = "active")

(* The wire stands for a pending pin, or for the one in service.           *)
Signalled ==
  valid => /\ id # NoPin
           /\ \/ ip[id]
              \/ /\ id = claimed
                 /\ \/ pc \in {"active", "isr"}
                    \/ pc = "complete" /\ phase = "encode"

(* No threshold changes while a pin is served.                             *)
WinnerPasses == valid /\ phase = "encode" /\ InService => passes(winner)

IInv ==
  /\ Shape /\ GatewayShut /\ Completing /\ Serving
  /\ Latched /\ Signalled /\ WinnerPasses /\ ClaimPending

-----------------------------------------------------------------------------
LEMMA Initially == Init => IInv
<1> SUFFICES ASSUME Init PROVE IInv
  OBVIOUS
<1>1. Shape
  BY DEF Init, Shape, Program, NoPin
<1>2. GatewayShut /\ Completing /\ Serving
  BY DEF Init, GatewayShut, Completing, Serving, InService, NoPin
<1>3. Latched /\ Signalled /\ WinnerPasses /\ ClaimPending
  BY DEF Init, Latched, Signalled, WinnerPasses, ClaimPending, InService
<1> QED
  BY <1>1, <1>2, <1>3 DEF IInv

(* What a clock does to the choice of the controller.                      *)
LEMMA Choice ==
  ASSUME Shape, NEW a, NEW served, Clock(a, served)
  PROVE /\ phase = "prioritise" =>
             /\ id' = id /\ (valid' => valid /\ phase' = "encode")
             /\ phase' = "encode" => /\ total' \subseteq ready /\ total' # {}
                                     /\ valid' => passes(winner')
        /\ phase = "encode" =>
             /\ phase' = "prioritise" /\ total' = total
             /\ passes(winner) => id' \in total /\ valid'
             /\ ~passes(winner) => id' = id /\ valid' = valid
        /\ phase' \in {"prioritise", "encode"} /\ valid' \in BOOLEAN
        /\ total' \in SUBSET Pins /\ id' \in Pins \union {NoPin}
<1>1. CASE phase = "prioritise"
  <2>1. rl_prioritise
    BY <1>1 DEF Clock, rl_encoder
  <2> DEFINE top == encode(UNION {Bits(prio[i]) : i \in ready})
             chosen == {i \in ready : top \in Bits(prio[i])}
  <2>2. id' = id /\ valid' = still_valid(chosen, top) /\ chosen \subseteq ready
    BY <2>1 DEF rl_prioritise
  <2>3. ready \subseteq Pins
    BY DEF ready
  <2> HIDE DEF chosen, top
  <2>4. CASE chosen = {}
    <3>1. UNCHANGED <<phase, total, winner>>
      BY <2>1, <2>4 DEF rl_prioritise, chosen, top
    <3>2. ~valid' /\ valid' \in BOOLEAN
      BY <2>2, <2>4 DEF still_valid, Shape
    <3> QED BY <1>1, <2>2, <3>1, <3>2 DEF Shape
  <2>5. CASE chosen # {}
    <3>1. total' = chosen /\ winner' = 2^top /\ phase' = "encode"
      BY <2>1, <2>5 DEF rl_prioritise, chosen, top
    <3>2. valid' \in BOOLEAN /\ (valid' => valid /\ passes(2^top))
      BY <2>2 DEF still_valid, Shape
    <3> QED BY <1>1, <2>2, <2>3, <2>5, <3>1, <3>2 DEF Shape
  <2> QED BY <2>4, <2>5
<1>2. CASE phase = "encode"
  BY <1>2 DEF Clock, rl_prioritise, rl_encoder, highest, Shape
<1> QED
  BY <1>1, <1>2 DEF Shape

(* What a clock does to the pins.                                          *)
LEMMA Gateways ==
  ASSUME Shape, GatewayShut, Completing, NEW a, NEW served, Clock(a, served)
  PROVE /\ line' \in [Pins -> BOOLEAN] /\ gateway' \in [Pins -> BOOLEAN]
        /\ ip' \in [Pins -> BOOLEAN]
        /\ GatewayShut'
        /\ \A i \in ready : ip'[i] \/ claims(a, i)
        /\ \A i \in Pins : ip[i] => ip'[i] \/ claims(a, i)
        /\ \A i \in Pins : claims(a, i) => ~ip'[i]
        /\ \A i \in Pins : gateway[i] /\ completion # i => gateway'[i]
        /\ \A i \in Pins : gateway[i] /\ ~ip[i] => ~ip'[i]
<1>1. gateway' = gateway_after
  BY DEF Clock
<1>2. ip' = [i \in Pins |-> pending[i] /\ ~claims(a, i)]
  BY DEF Clock, prog_reg
<1>3. \A i \in Pins : pending[i] <=> ip[i] \/ (line[i] /\ ~gateway[i])
  BY DEF pending
<1>4. \A i \in Pins : gateway'[i] <=> (gateway[i] \/ line[i]) /\ completion # i
  BY <1>1 DEF gateway_after
<1>5. \A i \in Pins : ip'[i] <=> pending[i] /\ ~claims(a, i)
  BY <1>2
<1>6. line' \in [Pins -> BOOLEAN] /\ gateway' \in [Pins -> BOOLEAN] /\ ip' \in [Pins -> BOOLEAN]
  <2>1. PICK up \in SUBSET Pins :
          line' = [i \in Pins |-> (line[i] /\ i # served) \/ i \in up]
    BY DEF Clock, Wires
  <2>2. line' \in [Pins -> BOOLEAN]
    BY <2>1
  <2>3. gateway' \in [Pins -> BOOLEAN]
    BY <1>1 DEF gateway_after
  <2>4. ip' \in [Pins -> BOOLEAN]
    BY <1>2
  <2> QED BY <2>2, <2>3, <2>4
<1>7. GatewayShut'
  <2>1. SUFFICES ASSUME NEW i \in Pins, ip'[i] PROVE gateway'[i]
    BY DEF GatewayShut
  <2>2. pending[i]
    BY <1>5, <2>1
  <2>3. completion # i
    BY <1>3, <2>2, PlicAssumption DEF Completing, Shape, NoPin
  <2> QED BY <1>3, <1>4, <2>2, <2>3 DEF GatewayShut
<1>8. \A i \in ready : i \in Pins /\ pending[i]
  BY DEF ready
<1> QED
  BY <1>3, <1>4, <1>5, <1>6, <1>7, <1>8

(* The accesses of the hart, and where they leave it.                      *)
Stays == pc' = pc
Drives == pc \in Program /\ pc' \in Program
Traps == pc \in Program /\ valid /\ pc' = "claim"
Works == (pc = "active" /\ pc' = "isr") \/ (pc = "isr" /\ pc' = "complete")
Returns == pc = "mret" /\ pc' \in Program
Claims(a) == a.op = "claim" /\ pc = "claim" /\ pc' = "active" /\ claimed' = id
Completes(a) ==
  a.op = "complete" /\ a.pin = claimed /\ pc = "complete" /\ pc' = "mret"
  /\ claimed' = claimed
Others(a) ==
  /\ a.op \notin {"claim", "complete"} /\ claimed' = claimed
  /\ Stays \/ Drives \/ Traps \/ Works \/ Returns

LEMMA Moves ==
  ASSUME Shape, Next
  PROVE /\ back' \in Program
        /\ \E a, served :
             /\ Clock(a, served)
             /\ threshold' = threshold \/ Drives
             /\ Others(a) \/ Claims(a) \/ Completes(a)
<1> USE DEF Program, InProgram, Shape, matrix, program
<1>1. ASSUME NEW a, NEW served, Clock(a, served), a.op # "threshold"
      PROVE threshold' = threshold
  BY <1>1 DEF Clock, prog_reg
<1>2. none.op = "none" /\ \A i, s : enables(i, s).op = "ie"
  BY DEF none, enables
<1>3. CASE Idle
  BY <1>1, <1>2, <1>3 DEF Idle, Others, Stays
<1>4. CASE \E i \in Pins : read_enables(i, "enable") \/ read_enables(i, "disable")
  BY <1>1, <1>2, <1>4 DEF read_enables, Others, Drives
<1>5. CASE write_enables
  BY <1>1, <1>2, <1>5 DEF write_enables, Others, Drives
<1>6. CASE note_disabled
  BY <1>1, <1>2, <1>6 DEF note_disabled, Others, Drives
<1>7. CASE \E i \in Pins, value \in Priorities : set_interrupt_priority(value, i)
  <2>1. PICK i \in Pins, value \in Priorities : set_interrupt_priority(value, i)
    BY <1>7
  <2> DEFINE a == [op |-> "priority", pin |-> i, value |-> value]
  <2>2. Clock(a, NoPin) /\ pc = "main" /\ UNCHANGED <<pc, back, claimed>>
    BY <2>1 DEF set_interrupt_priority
  <2>3. a.op = "priority"
    OBVIOUS
  <2>4. threshold' = threshold
    BY <1>1, <2>2, <2>3
  <2> HIDE DEF a
  <2> QED BY <2>2, <2>3, <2>4 DEF Others, Stays
<1>8. CASE \E value \in Thresholds : set_interrupt_threshold(value)
  <2>1. PICK value \in Thresholds : set_interrupt_threshold(value)
    BY <1>8
  <2> DEFINE a == [op |-> "threshold", value |-> value]
  <2>2. Clock(a, NoPin) /\ pc = "main" /\ UNCHANGED <<pc, back, claimed>>
    BY <2>1 DEF set_interrupt_threshold
  <2>3. a.op = "threshold"
    OBVIOUS
  <2> HIDE DEF a
  <2> QED BY <2>2, <2>3 DEF Others, Drives
<1>9. CASE trap_entry
  BY <1>1, <1>2, <1>9 DEF trap_entry, Others, Traps
<1>10. CASE interrupt_claim_request
  <2> DEFINE a == [op |-> "claim"]
  <2>1. Clock(a, NoPin) /\ pc = "claim" /\ pc' = "active" /\ claimed' = id /\ back' = back
    BY <1>10 DEF interrupt_claim_request
  <2>2. a.op = "claim"
    OBVIOUS
  <2>3. threshold' = threshold
    BY <1>1, <2>1, <2>2
  <2> HIDE DEF a
  <2> QED BY <2>1, <2>2, <2>3 DEF Claims
<1>11. CASE set_active \/ isr
  BY <1>1, <1>2, <1>11 DEF set_active, isr, Others, Works
<1>12. CASE interrupt_complete
  <2> DEFINE a == [op |-> "complete", pin |-> completed]
  <2>1. Clock(a, NoPin) /\ pc = "complete" /\ pc' = "mret" /\ UNCHANGED <<claimed, back>>
    BY <1>12 DEF interrupt_complete
  <2>2. a.op = "complete" /\ a.pin = claimed
    BY DEF completed
  <2>3. threshold' = threshold
    BY <1>1, <2>1, <2>2
  <2> HIDE DEF a
  <2> QED BY <2>1, <2>2, <2>3 DEF Completes
<1>13. CASE mret
  BY <1>1, <1>2, <1>13 DEF mret, Others, Returns
<1> QED
  BY <1>3, <1>4, <1>5, <1>6, <1>7, <1>8, <1>9, <1>10, <1>11, <1>12, <1>13
  DEF Next, Driver, Handler

LEMMA Preserved == IInv /\ [Next]_vars => IInv'
<1> SUFFICES ASSUME IInv, [Next]_vars PROVE IInv'
  OBVIOUS
<1>1. CASE UNCHANGED vars
  BY <1>1 DEF vars, devices, latches, program, matrix, IInv, Shape, GatewayShut, Completing,
    Serving, Latched, Signalled, WinnerPasses, ClaimPending, InService, passes
<1>2. CASE Next
  <2> USE DEF IInv
  <2>1. back' \in Program /\ \E a, served :
             /\ Clock(a, served)
             /\ threshold' = threshold \/ Drives
             /\ Others(a) \/ Claims(a) \/ Completes(a)
    BY <1>2, Moves
  <2>2. PICK a, served :
             /\ Clock(a, served)
             /\ threshold' = threshold \/ Drives
             /\ Others(a) \/ Claims(a) \/ Completes(a)
    BY <2>1
  <2>3. /\ phase = "prioritise" =>
             /\ id' = id /\ (valid' => valid /\ phase' = "encode")
             /\ phase' = "encode" => /\ total' \subseteq ready /\ total' # {}
                                     /\ valid' => passes(winner')
        /\ phase = "encode" =>
             /\ phase' = "prioritise" /\ total' = total
             /\ passes(winner) => id' \in total /\ valid'
             /\ ~passes(winner) => id' = id /\ valid' = valid
        /\ phase' \in {"prioritise", "encode"} /\ valid' \in BOOLEAN
        /\ total' \in SUBSET Pins /\ id' \in Pins \union {NoPin}
    BY <2>2, Choice
  <2>4. /\ line' \in [Pins -> BOOLEAN] /\ gateway' \in [Pins -> BOOLEAN]
        /\ ip' \in [Pins -> BOOLEAN]
        /\ GatewayShut'
        /\ \A i \in ready : ip'[i] \/ claims(a, i)
        /\ \A i \in Pins : ip[i] => ip'[i] \/ claims(a, i)
        /\ \A i \in Pins : claims(a, i) => ~ip'[i]
        /\ \A i \in Pins : gateway[i] /\ completion # i => gateway'[i]
        /\ \A i \in Pins : gateway[i] /\ ~ip[i] => ~ip'[i]
    BY <2>2, Gateways
  <2>5. completion' = IF a.op = "complete" THEN a.pin ELSE NoPin
    BY <2>2 DEF Clock, prog_reg
  <2>6. \A i : claims(a, i) <=> a.op = "claim" /\ i = id
    BY DEF claims
  <2>7. Shape'
    BY <2>1, <2>2, <2>3, <2>4, <2>5, PlicAssumption DEF Shape, Serving, InService, Others, Claims, Completes, Stays, Drives, Traps, Works, Returns, Program
  <2>8. Completing'
    BY <2>2, <2>4, <2>5, PlicAssumption DEF Completing, Serving, InService, Shape, NoPin, Others, Claims, Completes, Stays, Drives, Traps, Works, Returns, Program
  <2>9. Serving'
    <3>1. CASE Claims(a)
      <4>1. completion # id /\ id \in Pins /\ gateway[id]
        BY <3>1, PlicAssumption
        DEF Claims, Completing, ClaimPending, GatewayShut, Shape, NoPin
      <4> QED BY <2>4, <2>6, <3>1, <4>1 DEF Claims, Serving, InService
    <3>2. CASE Others(a) \/ Completes(a)
      <4>1. SUFFICES ASSUME InService' PROVE Serving'
        BY DEF Serving
      <4>2. InService /\ claimed' = claimed
        BY <3>2, <4>1
        DEF Others, Completes, Stays, Drives, Traps, Works, Returns, Program, InService
      <4>3. claimed \in Pins /\ completion # claimed
        BY <4>2, PlicAssumption DEF Serving, Completing, InService, NoPin
      <4> QED BY <2>4, <4>2, <4>3 DEF Serving
    <3> QED BY <2>2, <3>1, <3>2
  <2>10. Latched'
    BY <2>2, <2>3, <2>4, <2>6 DEF Latched, Shape, Others, Claims, Completes, Stays, Drives, Traps, Works, Returns, Program
  <2>11. Signalled'
    <3>1. SUFFICES ASSUME valid'
                   PROVE /\ id' # NoPin
                         /\ \/ ip'[id']
                            \/ /\ id' = claimed'
                               /\ \/ pc' \in {"active", "isr"}
                                  \/ pc' = "complete" /\ phase' = "encode"
      BY DEF Signalled
    <3>2. id' \in Pins
      <4>1. CASE phase = "prioritise"
        BY <2>3, <3>1, <4>1 DEF Signalled, Shape
      <4>2. CASE phase = "encode" /\ passes(winner)
        BY <2>3, <4>2 DEF Shape
      <4>3. CASE phase = "encode" /\ ~passes(winner)
        BY <2>3, <3>1, <4>3 DEF Signalled, Shape
      <4> QED BY <4>1, <4>2, <4>3 DEF Shape
    <3>3. CASE Claims(a)
      <4>1. id' # NoPin
        BY <3>2, PlicAssumption DEF NoPin
      <4>2. CASE id' = id
        BY <3>3, <4>1, <4>2 DEF Claims
      <4>3. CASE id' # id
        <5>1. id' \in total /\ phase = "encode"
          BY <2>3, <4>3 DEF Shape
        <5>2. ip[id'] /\ ~claims(a, id')
          BY <2>6, <3>3, <4>3, <5>1 DEF Latched, Claims
        <5> QED BY <2>4, <3>2, <4>1, <5>2
      <4> QED BY <4>2, <4>3
    <3>4. CASE Others(a) \/ Completes(a)
      <4>1. \A i \in Pins : (ip[i] => ip'[i]) /\ (i \in ready => ip'[i])
        BY <2>4, <2>6, <3>4 DEF Others, Completes
      <4>2. claimed' = claimed
        BY <3>4 DEF Others, Completes
      <4>3. CASE phase = "encode" /\ passes(winner)
        BY <2>3, <3>1, <3>2, <3>4, <4>1, <4>2, <4>3, PlicAssumption
        DEF Latched, Others, Completes, Stays, Drives, Traps, Works, Returns, Program, Shape, NoPin
      <4>4. CASE phase = "encode" /\ ~passes(winner)
        BY <2>3, <3>1, <3>2, <3>4, <4>1, <4>2, <4>4, PlicAssumption
        DEF Signalled, WinnerPasses, InService, Others, Completes, Stays, Drives, Traps, Works, Returns, Program, Shape, NoPin
      <4>5. CASE phase = "prioritise"
        BY <2>3, <3>1, <3>2, <3>4, <4>1, <4>2, <4>5, PlicAssumption
        DEF Signalled, Others, Completes, Stays, Drives, Traps, Works, Returns, Program, Shape, NoPin
      <4> QED BY <4>3, <4>4, <4>5 DEF Shape
    <3> QED BY <2>2, <3>3, <3>4
  <2>12. WinnerPasses'
    BY <2>2, <2>3 DEF WinnerPasses, InService, Shape, passes, Others, Claims, Completes, Stays, Drives, Traps, Works, Returns, Program
  <2>13. ClaimPending'
    BY <2>2, <2>3, <2>4, <2>6, PlicAssumption DEF ClaimPending, Signalled, Latched, Shape, NoPin, Others, Claims, Completes, Stays, Drives, Traps, Works, Returns, Program
  <2> QED BY <2>4, <2>7, <2>8, <2>9, <2>10, <2>11, <2>12, <2>13
<1> QED
  BY <1>1, <1>2

(* A claim returns a pending pin, whatever the pins, the priorities and    *)
(* the calls of the program.                                               *)
THEOREM ClaimFindsPending == Spec => []ClaimPending
<1>1. IInv => ClaimPending
  BY DEF IInv
<1> QED
  BY <1>1, Initially, Preserved, PTL DEF Spec

(* A pin in service is not pending again.                                  *)
THEOREM ClaimedOnce == Spec => []ServedOnceAtATime
<1>1. IInv => ServedOnceAtATime
  BY DEF IInv, Serving, ServedOnceAtATime
<1> QED
  BY <1>1, Initially, Preserved, PTL DEF Spec

-----------------------------------------------------------------------------
(* How a disabled pin leaves the choice, clock by clock.                   *)
Fading ==
  \A i \in Pins :
    /\ off[i] \in 0..Settled
    /\ off[i] > 0 => ~ie[i]
    /\ off[i] > 0 /\ valid /\ phase = "encode" => passes(winner)
    /\ off[i] >= 2 /\ phase = "encode" => i \notin total
    /\ off[i] = 3 /\ phase = "prioritise" => ~(valid /\ id = i)
    /\ off[i] = 4 => ~(valid /\ id = i)

LEMMA FadingStep == IInv /\ Fading /\ [Next]_vars => Fading'
<1> SUFFICES ASSUME IInv, Fading, [Next]_vars PROVE Fading'
  OBVIOUS
<1>1. CASE UNCHANGED vars
  BY <1>1 DEF vars, devices, latches, program, matrix, Fading, passes
<1>2. CASE Next
  <2>1. Shape
    BY DEF IInv
  <2>2. PICK a, served :
          /\ Clock(a, served)
          /\ threshold' = threshold \/ Drives
          /\ Others(a) \/ Claims(a) \/ Completes(a)
    BY <1>2, <2>1, Moves
  <2>3. /\ phase = "prioritise" =>
             /\ id' = id /\ (valid' => valid /\ phase' = "encode")
             /\ phase' = "encode" => /\ total' \subseteq ready /\ total' # {}
                                     /\ valid' => passes(winner')
        /\ phase = "encode" =>
             /\ phase' = "prioritise" /\ total' = total
             /\ passes(winner) => id' \in total /\ valid'
             /\ ~passes(winner) => id' = id /\ valid' = valid
        /\ phase' \in {"prioritise", "encode"} /\ valid' \in BOOLEAN
        /\ total' \in SUBSET Pins /\ id' \in Pins \union {NoPin}
    BY <2>1, <2>2, Choice
  <2>4. SUFFICES ASSUME NEW i \in Pins
                 PROVE /\ off'[i] \in 0..Settled
                       /\ off'[i] > 0 => ~ie'[i]
                       /\ off'[i] > 0 /\ valid' /\ phase' = "encode" => threshold' <= winner'
                       /\ off'[i] >= 2 /\ phase' = "encode" => i \notin total'
                       /\ off'[i] = 3 /\ phase' = "prioritise" => ~(valid' /\ id' = i)
                       /\ off'[i] = 4 => ~(valid' /\ id' = i)
    BY DEF Fading, passes
  <2>5. /\ off'[i] = IF ie'[i] \/ a.op = "threshold" THEN 0
                    ELSE IF off[i] < Settled THEN off[i] + 1 ELSE Settled
        /\ a.op # "threshold" => threshold' = threshold
    BY <2>2 DEF Clock, prog_reg
  <2>6. i \in ready => ie[i]
    BY DEF ready
  <2>7. /\ off[i] \in 0..Settled
        /\ off[i] > 0 => ~ie[i]
        /\ off[i] > 0 /\ valid /\ phase = "encode" => passes(winner)
        /\ off[i] >= 2 /\ phase = "encode" => i \notin total
        /\ off[i] = 3 /\ phase = "prioritise" => ~(valid /\ id = i)
        /\ off[i] = 4 => ~(valid /\ id = i)
    BY DEF Fading
  <2>8. CASE off'[i] = 0
    BY <2>8 DEF Settled
  <2>9. CASE off'[i] # 0
    <3>1. /\ ~ie'[i] /\ threshold' = threshold
          /\ off'[i] = IF off[i] < 4 THEN off[i] + 1 ELSE 4
      BY <2>5, <2>9 DEF Settled
    <3>2. CASE phase = "prioritise"
      BY <2>3, <2>6, <2>7, <3>1, <3>2 DEF Settled, passes
    <3>3. CASE phase = "encode"
      BY <2>3, <2>6, <2>7, <3>1, <3>3 DEF Settled, passes
    <3> QED BY <2>1, <3>2, <3>3 DEF Shape
  <2> QED BY <2>8, <2>9
<1> QED
  BY <1>1, <1>2

(* A disabled pin leaves the wire, however often the program calls.        *)
THEOREM DisabledQuiet == Spec => []QuietWhenDisabled
<1>1. Init => Fading
  BY DEF Init, Fading, Settled
<1>2. Fading => QuietWhenDisabled
  BY DEF Fading, QuietWhenDisabled, Settled
<1> QED
  BY <1>1, <1>2, Initially, Preserved, FadingStep, PTL DEF Spec

-----------------------------------------------------------------------------
(* Where an interrupt is between its line and its service.                 *)
One(b) == IF b THEN 1 ELSE 0
Raised ==
  \A i \in Pins :
    /\ raises[i] \in Nat /\ count[i] \in Nat
    /\ count[i] + One(line[i]) + One(pc = "complete" /\ claimed = i) <= raises[i]
    /\ ip[i] => line[i]
    /\ pc \in {"active", "isr"} /\ claimed = i => line[i]

Away == {"active", "isr", "complete"}
LEMMA Services ==
  ASSUME Shape, Next
  PROVE \E a, served :
          /\ Clock(a, served)
          /\ \/ pc = "isr" /\ pc' = "complete" /\ served = claimed
                /\ UNCHANGED <<claimed, count>>
             \/ pc = "complete" /\ pc' = "mret" /\ served = NoPin /\ claimed' = claimed
                /\ count' = [count EXCEPT ![claimed] = @ + 1]
             \/ pc = "claim" /\ pc' = "active" /\ served = NoPin /\ claimed' = id
                /\ count' = count
             \/ /\ served = NoPin /\ UNCHANGED <<claimed, count>>
                /\ pc' = pc \/ (pc = "active" /\ pc' = "isr")
                   \/ (pc \notin Away /\ pc' \notin Away)
<1> USE DEF Away, Shape, Program, InProgram, matrix
<1>1. CASE Idle
  BY <1>1 DEF Idle
<1>2. CASE Driver
  <2>1. CASE \E i \in Pins : read_enables(i, "enable") \/ read_enables(i, "disable")
    BY <2>1 DEF read_enables
  <2>2. CASE write_enables
    BY <2>2 DEF write_enables
  <2>3. CASE note_disabled
    BY <2>3 DEF note_disabled
  <2>4. CASE \E i \in Pins, value \in Priorities : set_interrupt_priority(value, i)
    BY <2>4 DEF set_interrupt_priority
  <2>5. CASE \E value \in Thresholds : set_interrupt_threshold(value)
    BY <2>5 DEF set_interrupt_threshold
  <2> QED BY <1>2, <2>1, <2>2, <2>3, <2>4, <2>5 DEF Driver
<1>3. CASE trap_entry \/ set_active \/ mret
  BY <1>3 DEF trap_entry, set_active, mret
<1>4. CASE interrupt_claim_request
  BY <1>4 DEF interrupt_claim_request
<1>5. CASE isr
  BY <1>5 DEF isr
<1>6. CASE interrupt_complete
  BY <1>6 DEF interrupt_complete
<1> QED
  BY <1>1, <1>2, <1>3, <1>4, <1>5, <1>6 DEF Next, Handler

LEMMA RaisedStep == IInv /\ Raised /\ [Next]_vars => Raised'
<1> SUFFICES ASSUME IInv, Raised, [Next]_vars PROVE Raised'
  OBVIOUS
<1>1. CASE UNCHANGED vars
  BY <1>1 DEF vars, devices, latches, program, matrix, Raised
<1>2. CASE Next
  <2>1. Shape /\ Serving /\ ClaimPending
    BY DEF IInv
  <2>2. PICK a, served :
          /\ Clock(a, served)
          /\ \/ pc = "isr" /\ pc' = "complete" /\ served = claimed
                /\ UNCHANGED <<claimed, count>>
             \/ pc = "complete" /\ pc' = "mret" /\ served = NoPin /\ claimed' = claimed
                /\ count' = [count EXCEPT ![claimed] = @ + 1]
             \/ pc = "claim" /\ pc' = "active" /\ served = NoPin /\ claimed' = id
                /\ count' = count
             \/ /\ served = NoPin /\ UNCHANGED <<claimed, count>>
                /\ pc' = pc \/ (pc = "active" /\ pc' = "isr")
                   \/ (pc \notin Away /\ pc' \notin Away)
    BY <1>2, <2>1, Services
  <2>3. PICK up \in SUBSET {i \in Pins : ~line[i] /\ raises[i] < MaxRaises} :
          /\ line' = [i \in Pins |-> (line[i] /\ i # served) \/ i \in up]
          /\ raises' = [i \in Pins |-> IF i \in up THEN raises[i] + 1 ELSE raises[i]]
    BY <2>2 DEF Clock, Wires
  <2>4. ip' = [i \in Pins |-> (ip[i] \/ (line[i] /\ ~gateway[i])) /\ ~claims(a, i)]
    BY <2>2 DEF Clock, prog_reg, pending
  <2>5. SUFFICES ASSUME NEW i \in Pins
                 PROVE /\ raises'[i] \in Nat /\ count'[i] \in Nat
                       /\ count'[i] + One(line'[i]) + One(pc' = "complete" /\ claimed' = i)
                            <= raises'[i]
                       /\ ip'[i] => line'[i]
                       /\ pc' \in {"active", "isr"} /\ claimed' = i => line'[i]
    BY DEF Raised, One
  <2>6. /\ raises[i] \in Nat /\ count[i] \in Nat
        /\ count[i] + One(line[i]) + One(pc = "complete" /\ claimed = i) <= raises[i]
        /\ ip[i] => line[i]
        /\ pc \in {"active", "isr"} /\ claimed = i => line[i]
    BY DEF Raised
  <2>7. /\ line'[i] <=> (line[i] /\ i # served) \/ i \in up
        /\ raises'[i] = IF i \in up THEN raises[i] + 1 ELSE raises[i]
        /\ ip'[i] => ip[i] \/ line[i]
        /\ i \in up => ~line[i]
        /\ i # NoPin
    <3>1. line'[i] = ((line[i] /\ i # served) \/ i \in up)
      BY <2>3
    <3>2. raises'[i] = IF i \in up THEN raises[i] + 1 ELSE raises[i]
      BY <2>3
    <3>3. ip'[i] = ((ip[i] \/ (line[i] /\ ~gateway[i])) /\ ~claims(a, i))
      BY <2>4
    <3>4. i \in up => ~line[i]
      OBVIOUS
    <3>5. i # NoPin
      BY PlicAssumption DEF NoPin
    <3> QED BY <3>1, <3>2, <3>3, <3>4, <3>5
  <2>8. ip'[i] => line'[i]
    BY <2>1, <2>2, <2>4, <2>6, <2>7 DEF Serving, InService
  <2>9. pc' \in {"active", "isr"} /\ claimed' = i => line'[i]
    BY <2>1, <2>2, <2>6, <2>7 DEF ClaimPending, Away
  <2>10. /\ raises'[i] \in Nat /\ count'[i] \in Nat
         /\ count'[i] + One(line'[i]) + One(pc' = "complete" /\ claimed' = i) <= raises'[i]
    <3>1. CASE pc = "isr" /\ pc' = "complete" /\ served = claimed /\ UNCHANGED <<claimed, count>>
      BY <2>6, <2>7, <3>1 DEF One
    <3>2. CASE pc = "complete" /\ pc' = "mret" /\ served = NoPin /\ claimed' = claimed
               /\ count' = [count EXCEPT ![claimed] = @ + 1]
      BY <2>6, <2>7, <3>2 DEF One
    <3>3. CASE served = NoPin /\ count' = count /\ pc # "complete" /\ pc' # "complete"
      BY <2>6, <2>7, <3>3 DEF One
    <3>4. CASE served = NoPin /\ UNCHANGED <<claimed, count, pc>>
      BY <2>6, <2>7, <3>4 DEF One
    <3> QED BY <2>2, <3>1, <3>2, <3>3, <3>4 DEF Away
  <2> QED BY <2>8, <2>9, <2>10
<1> QED
  BY <1>1, <1>2

(* No interrupt is served more often than its line rose.                   *)
THEOREM NoServiceTwice == Spec => []AtMostOnce
<1>1. Init => Raised
  BY DEF Init, Raised, One
<1>2. Raised => AtMostOnce
  BY DEF Raised, AtMostOnce, One
<1> QED
  BY <1>1, <1>2, Initially, Preserved, RaisedStep, PTL DEF Spec
=============================================================================
