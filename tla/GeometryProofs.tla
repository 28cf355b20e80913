-------------------------- MODULE GeometryProofs --------------------------
(***************************************************************************)
(* Lemmas on the index and address arithmetic of TreeGeometry, for every   *)
(* arity and height: a walk that starts at a leaf only names nodes and     *)
(* slots that exist, and a burst stays in its line.                        *)
(***************************************************************************)
EXTENDS TreeGeometry, FiniteSetTheorems, WellFoundedInduction, TLAPS

(* A positive multiple of A is at least A, a negative one at most -A.      *)
LEMMA MultipleUp == ASSUME NEW A \in Nat, NEW d \in Int, d >= 1 PROVE A * d >= A
  OBVIOUS
LEMMA MultipleDown == ASSUME NEW A \in Nat, NEW d \in Int, d <= -1 PROVE A * d <= -A
  OBVIOUS

(* What dividing by A yields.                                              *)
LEMMA Division ==
  ASSUME NEW A \in Nat, A > 0, NEW x \in Int
  PROVE x \div A \in Int /\ x % A \in 0..A-1 /\ x = A * (x \div A) + (x % A)
  OBVIOUS

(* Quotient and remainder are the only ones.                               *)
LEMMA DivisionUnique ==
  ASSUME NEW A \in Nat, A > 0, NEW q \in Int, NEW r \in 0..A-1
  PROVE (A * q + r) \div A = q /\ (A * q + r) % A = r
<1> DEFINE x == A * q + r
           p == x \div A
           s == x % A
<1>1. x \in Int
  OBVIOUS
<1>2. p \in Int /\ s \in 0..A-1 /\ x = A * p + s
  BY <1>1, Division
<1>3. x = A * q + r
  OBVIOUS
<1> HIDE DEF x, p, s
<1>4. A * (q - p) = s - r
  BY <1>2, <1>3
<1>5. ~(q - p >= 1) /\ ~(q - p <= -1)
  BY <1>2, <1>4, MultipleUp, MultipleDown
<1>6. q = p /\ r = s
  BY <1>2, <1>4, <1>5
<1> QED
  BY <1>6 DEF p, s, x

(* The parent of one of the first A * n nodes is one of the first n.       *)
LEMMA DivisionRange ==
  ASSUME NEW A \in Nat, A > 0, NEW n \in Nat, NEW x \in 0..(A * n - 1)
  PROVE x \div A \in 0..(n - 1)
<1> DEFINE p == x \div A
           s == x % A
<1>1. p \in Int /\ s \in 0..A-1 /\ x = A * p + s
  BY Division
<1> HIDE DEF p, s
<1>2. ~(p <= -1)
  BY <1>1, MultipleDown
<1>3. p - n \in Int /\ A * (p - n) = x - s - A * n
  BY <1>1
<1>4. ~(p - n >= 0)
  <2>1. ASSUME p - n >= 0 PROVE A * (p - n) >= 0
    BY <1>1, <2>1
  <2> QED BY <2>1, <1>3, <1>1
<1>5. p \in 0..(n - 1)
  BY <1>1, <1>2, <1>4
<1> QED
  BY <1>5 DEF p

(* A slot of one of n groups is below A * n.                               *)
LEMMA MultipleRange ==
  ASSUME NEW A \in Nat, A > 0, NEW n \in Nat, NEW p \in 0..(n - 1), NEW k \in 0..A-1
  PROVE p * A + k \in 0..(A * n - 1)
<1>1. A * (n - p) >= A
  BY MultipleUp
<1>2. p * A \in Nat /\ A * n \in Nat /\ A * (n - p) = A * n - p * A
  OBVIOUS
<1> QED
  BY <1>1, <1>2
-----------------------------------------------------------------------------

(* GeometryAssumption, in the form the other lemmas use.                   *)
LEMMA Shape ==
  /\ Arity \in Nat /\ Arity >= 2 /\ Arity <= 16
  /\ Height \in Nat /\ MinHwLevel \in 2..Height
  /\ \A l \in 0..Height : NodeCount[l] \in Nat /\ NodeCount[l] > 0
  /\ NodeCount[Height] = 1
  BY GeometryAssumption

(* child_position of a node is a position of a group.                      *)
LEMMA PositionInPos == ASSUME NEW i \in Nat PROVE child_position(i) \in Pos
  BY Shape, Division DEF child_position, Pos

(* The parent of a node of a level is a node of the next level.            *)
LEMMA ParentIsNode ==
  ASSUME NEW l \in 0..Height-1, NEW i \in NodesOf(l)
  PROVE parent_index(i) \in NodesOf(l + 1)
<1>1. l \in 0..Height /\ l + 1 \in 0..Height
  BY Shape
<1> DEFINE n == NodeCount[l + 1]
<1>2. n \in Nat /\ NodeCount[l] \in Nat /\ NodeCount[l] <= Arity * n
  BY <1>1, Shape, GeometryAssumption
<1>3. i \in 0..(Arity * n - 1)
  <2>1. Arity * n \in Nat BY <1>2, Shape
  <2> QED BY <1>2, <2>1 DEF NodesOf
<1> HIDE DEF n
<1>4. i \div Arity \in 0..(n - 1)
  BY <1>2, <1>3, Shape, DivisionRange
<1> QED
  BY <1>4 DEF parent_index, NodesOf, n

(* Every slot of a node's group has storage.                               *)
LEMMA GroupInSlots ==
  ASSUME NEW l \in 1..Height-1, NEW i \in NodesOf(l), NEW k \in Pos
  PROVE sibling_group_base(i) + k \in Slots(l)
<1>1. parent_index(i) \in 0..(NodeCount[l + 1] - 1)
  <2>1. l \in 0..Height-1 BY Shape
  <2> QED BY <2>1, ParentIsNode DEF NodesOf
<1>2. NodeCount[l + 1] \in Nat
  BY Shape
<1>3. parent_index(i) * Arity + k \in 0..(Arity * NodeCount[l + 1] - 1)
  BY <1>1, <1>2, Shape, MultipleRange DEF Pos
<1> QED
  BY <1>3, Shape DEF sibling_group_base, Slots

(* The scan of a group stays in it.                                        *)
LEMMA NextPosition == ASSUME NEW k \in Pos PROVE (k + 1) % Arity \in Pos
<1>1. k + 1 \in Int
  BY Shape DEF Pos
<1> QED
  BY <1>1, Shape, Division DEF Pos

(* Every node of a level is a slot of it.                                  *)
LEMMA NodeInSlots ==
  ASSUME NEW l \in 1..Height, NEW i \in NodesOf(l)
  PROVE i \in Slots(l)
<1>1. CASE l = Height
  BY <1>1, Shape DEF NodesOf, Slots
<1>2. CASE l # Height
  <2>1. l \in 0..Height-1 /\ l \in 0..Height /\ l + 1 \in 0..Height
    BY <1>2, Shape
  <2>2. NodeCount[l] <= Arity * NodeCount[l + 1] /\ NodeCount[l + 1] \in Nat
    BY <2>1, Shape, GeometryAssumption
  <2>3. Arity * NodeCount[l + 1] \in Nat /\ NodeCount[l] \in Nat
    BY <2>1, <2>2, Shape
  <2> QED
    BY <1>2, <2>2, <2>3 DEF NodesOf, Slots
<1> QED
  BY <1>1, <1>2

(* Membership in HwNode and MemNode.                                       *)
LEMMA HwNodeHas ==
  ASSUME NEW l \in MinHwLevel..Height, NEW i \in Slots(l)
  PROVE <<l, i>> \in HwNode
  BY DEF HwNode

LEMMA MemNodeHas ==
  ASSUME NEW l \in 1..MinHwLevel-1, NEW i \in Slots(l)
  PROVE <<l, i>> \in MemNode
  BY DEF MemNode

(* Slots are numbered from 0.                                              *)
LEMMA SlotsInNat == ASSUME NEW l \in 1..Height, NEW i \in Slots(l) PROVE i \in Nat
  BY DEF Slots
-----------------------------------------------------------------------------

(* addr_to_leaf_index of a protected address is a leaf.                    *)
LEMMA LeafIndexIsNode ==
  ASSUME NEW a \in Addr, is_protected(a)
  PROVE addr_to_leaf_index(a) \in NodesOf(0)
<1>1. ProtectedBase \in Nat /\ NodeCount[0] \in Nat
  BY Shape, GeometryAssumption
<1> QED
  BY <1>1 DEF Addr, is_protected, addr_to_leaf_index, NodesOf, ProtectedLimit

(* The address space is a whole number of lines.                           *)
LEMMA LineCount ==
  \E n \in Nat : ProtectedLimit = Arity * n /\ Line = 0..(n - 1)
<1> DEFINE b == ProtectedBase \div Arity
           n == b + NodeCount[1]
<1>1. ProtectedBase \in Nat /\ ProtectedBase % Arity = 0 /\ Arity \in Nat /\ Arity > 0
  BY Shape, GeometryAssumption
<1>2. b \in Int /\ ProtectedBase = Arity * b
  BY <1>1, Division
<1>3. NodeCount[1] \in Nat /\ NodeCount[0] = Arity * NodeCount[1]
  <2>1. 0 \in 0..MinHwLevel-1 /\ 1 \in 0..Height BY Shape
  <2> QED BY <2>1, Shape, GeometryAssumption
<1> HIDE DEF b
<1>4. b \in Nat
  BY <1>1, <1>2, MultipleDown
<1>5. ProtectedLimit = Arity * n /\ n \in Nat
  <2>1. \A c \in Nat : Arity * (b + c) = Arity * b + Arity * c
    BY <1>1, <1>4
  <2>2. Arity * n = Arity * b + NodeCount[0]
    BY <2>1, <1>3
  <2> QED
    BY <2>2, <1>2, <1>3, <1>4 DEF ProtectedLimit
<1>6. ProtectedLimit \div Arity = n
  <2>1. 0 \in 0..Arity-1 /\ Arity * n + 0 = ProtectedLimit
    BY <1>1, <1>5
  <2> HIDE DEF n
  <2> QED BY <2>1, <1>1, <1>5, DivisionUnique
<1> QED
  BY <1>5, <1>6 DEF Line

(* Every address is in a line.                                             *)
LEMMA LineOfAddr == ASSUME NEW a \in Addr PROVE line_of(a) \in Line
<1>1. PICK n \in Nat : ProtectedLimit = Arity * n /\ Line = 0..(n - 1)
  BY LineCount
<1> QED
  BY <1>1, Shape, DivisionRange DEF Addr, line_of

(* The words of a line are addresses, and they belong to that line.        *)
LEMMA WordOfLine ==
  ASSUME NEW line \in Line, NEW k \in Pos
  PROVE /\ line_base(line) + k \in Addr
        /\ line_of(line_base(line) + k) = line
        /\ (line_base(line) + k) % Arity = k
<1>1. PICK n \in Nat : ProtectedLimit = Arity * n /\ Line = 0..(n - 1)
  BY LineCount
<1>2. line * Arity + k \in 0..(Arity * n - 1)
  BY <1>1, Shape, MultipleRange DEF Pos
<1>3. line * Arity = Arity * line /\ line \in Int
  BY <1>1, Shape
<1>4. (Arity * line + k) \div Arity = line /\ (Arity * line + k) % Arity = k
  BY <1>3, Shape, DivisionUnique DEF Pos
<1> QED
  BY <1>1, <1>2, <1>3, <1>4 DEF Addr, line_base, line_of

(* A word is protected when its line is.                                   *)
LEMMA ProtectedWord ==
  ASSUME NEW a \in Addr PROVE is_protected(a) <=> line_of(a) \in ProtectedLine
<1> DEFINE p == line_of(a)
           r == a % Arity
           b == ProtectedBase \div Arity
<1>1. /\ ProtectedBase \in Nat /\ ProtectedBase % Arity = 0
      /\ Arity \in Nat /\ Arity > 0 /\ NodeCount[0] \in Nat
  BY Shape, GeometryAssumption
<1>2. a \in Int /\ 0 <= a /\ a < ProtectedLimit /\ ProtectedLimit \in Int
  BY <1>1 DEF Addr, ProtectedLimit
<1>3. p \in Int /\ r \in 0..Arity-1 /\ a = Arity * p + r
  BY <1>1, <1>2, Division DEF line_of
<1>4. b \in Int /\ ProtectedBase = Arity * b
  BY <1>1, Division
<1>5. line_base(p) = Arity * p /\ Arity * p \in Int /\ Arity * p <= a
  <2>1. p * Arity = Arity * p BY <1>1, <1>3
  <2>2. Arity * p \in Int BY <1>1, <1>3
  <2> HIDE DEF p, r
  <2> QED BY <1>1, <1>3, <2>1, <2>2 DEF line_base
<1>6. p \in Line
  BY LineOfAddr
<1> HIDE DEF p, r, b
<1>7. ASSUME is_protected(a) PROVE Arity * p >= ProtectedBase
  <2>1. SUFFICES ASSUME ~(p >= b) PROVE FALSE
    <3>1. CASE p = b
      BY <1>4, <1>5, <3>1
    <3>2. CASE p > b
      <4>1. Arity * (p - b) >= Arity
        BY <1>1, <1>3, <1>4, <3>2, MultipleUp
      <4>2. Arity * (p - b) = Arity * p - Arity * b
        BY <1>1, <1>3, <1>4
      <4> QED BY <1>1, <1>4, <1>5, <4>1, <4>2
    <3> QED BY <1>3, <1>4, <3>1, <3>2
  <2>2. Arity * (b - p) >= Arity
    BY <1>1, <1>3, <1>4, <2>1, MultipleUp
  <2>3. Arity * (b - p) = Arity * b - Arity * p
    BY <1>1, <1>3, <1>4
  <2>4. a >= ProtectedBase
    BY <1>7 DEF is_protected
  <2> QED BY <1>1, <1>2, <1>3, <1>4, <1>5, <2>2, <2>3, <2>4
<1>8. is_protected(a) <=> is_protected(line_base(p))
  BY <1>1, <1>2, <1>5, <1>7 DEF is_protected
<1> QED
  BY <1>6, <1>8 DEF ProtectedLine, p
-----------------------------------------------------------------------------

(* A set of naturals that is not empty has a least element: the intervals  *)
(* below an element are well-founded under inclusion.                      *)
LEMMA LeastNat ==
  ASSUME NEW T, T \subseteq Nat, T # {}
  PROVE  \E m \in T : \A y \in T : m <= y
<1>1. PICK x \in T : TRUE
  OBVIOUS
<1>2. x \in Nat
  OBVIOUS
<1> DEFINE S == 0..x
           F == {0..m : m \in T \cap S}
<1>3. IsFiniteSet(S)
  BY <1>2, FS_Interval
<1>4. IsWellFoundedOn(StrictSubsetOrdering(S), SUBSET S)
  <2> HIDE DEF S
  <2> QED BY <1>3, FS_StrictSubsetOrderingWellFounded, FS_FiniteSubsetsOfFinite
<1>5. F \subseteq SUBSET S /\ F # {}
  BY <1>2
<1>6. PICK A \in F : \A B \in F : ~(<<B, A>> \in StrictSubsetOrdering(S))
  <2> HIDE DEF F, S
  <2> QED BY <1>4, <1>5, WFMin
<1>7. PICK m \in T \cap S : A = 0..m
  OBVIOUS
<1>8. ASSUME NEW y \in T, y < m PROVE FALSE
  <2>1. 0..y \in F /\ 0..y \subseteq 0..m /\ m \in 0..m /\ m \notin 0..y /\ 0..y # 0..m
    BY <1>8, <1>2
  <2>2. <<0..y, A>> \in StrictSubsetOrdering(S)
    BY <2>1, <1>7, <1>5 DEF StrictSubsetOrdering
  <2> QED BY <2>1, <2>2, <1>6
<1> QED BY <1>7, <1>8

(* Induction over the naturals, for a set.                                 *)
LEMMA SetInduction ==
  ASSUME NEW S, 0 \in S, \A n \in Nat : n \in S => n + 1 \in S
  PROVE  Nat \subseteq S
<1> SUFFICES ASSUME NEW x \in Nat, x \notin S PROVE FALSE
  OBVIOUS
<1>1. PICK m \in Nat \ S : \A y \in Nat \ S : m <= y
  BY LeastNat
<1>2. m # 0 /\ m - 1 \in Nat
  BY <1>1
<1>3. m - 1 \in S
  BY <1>1, <1>2
<1>4. (m - 1) + 1 \in S
  BY <1>2, <1>3
<1> QED BY <1>1, <1>4

(* The functions that climb from a leaf to a level.                        *)
Climb(leaf, f, n) ==
  /\ f = [l \in 0..n |-> f[l]]
  /\ f[0] = leaf
  /\ \A l \in 1..n : f[l] = parent_index(f[l-1])

LEMMA ClimbExists ==
  ASSUME NEW leaf PROVE \A n \in Nat : \E f : Climb(leaf, f, n)
<1> DEFINE S == {n \in Nat : \E f : Climb(leaf, f, n)}
<1>1. 0 \in S
  <2> DEFINE f == [l \in 0..0 |-> leaf]
  <2>1. Climb(leaf, f, 0) BY DEF Climb
  <2> QED BY <2>1
<1>2. ASSUME NEW n \in Nat, n \in S PROVE n + 1 \in S
  <2>1. PICK f : Climb(leaf, f, n) BY <1>2
  <2> DEFINE g == [l \in 0..(n+1) |-> IF l = n + 1 THEN parent_index(f[n]) ELSE f[l]]
  <2>2. Climb(leaf, g, n + 1)
    <3>1. g[0] = leaf BY <2>1 DEF Climb
    <3>2. ASSUME NEW l \in 1..(n+1) PROVE g[l] = parent_index(g[l-1])
      <4>1. CASE l = n + 1
        <5>1. g[l] = parent_index(f[n]) /\ g[l-1] = f[n] BY <4>1
        <5> QED BY <5>1
      <4>2. CASE l # n + 1
        <5>1. l \in 1..n /\ g[l] = f[l] /\ g[l-1] = f[l-1] BY <4>2
        <5> QED BY <5>1, <2>1 DEF Climb
      <4> QED BY <4>1, <4>2
    <3> QED BY <3>1, <3>2 DEF Climb
  <2> QED BY <2>2
<1> HIDE DEF S
<1>3. Nat \subseteq S
  BY <1>1, <1>2, SetInduction
<1> QED BY <1>3 DEF S

(* The ancestors of a leaf, level by level: what the recursive definition  *)
(* of ancestor stands for.                                                 *)
LEMMA AncestorStep ==
  ASSUME NEW leaf
  PROVE /\ ancestor(leaf)[0] = leaf
        /\ \A l \in 1..Height : ancestor(leaf)[l] = parent_index(ancestor(leaf)[l-1])
<1> DEFINE Def(f) == f = [l \in 0..Height |-> IF l = 0 THEN leaf ELSE parent_index(f[l-1])]
           up == CHOOSE f : Def(f)
<1>1. PICK f : Climb(leaf, f, Height)
  BY ClimbExists, Shape
<1>2. Def(f)
  <2>1. ASSUME NEW l \in 0..Height
        PROVE f[l] = IF l = 0 THEN leaf ELSE parent_index(f[l-1])
    <3>1. l = 0 \/ l \in 1..Height BY Shape
    <3> QED BY <3>1, <1>1 DEF Climb
  <2> QED BY <2>1, <1>1 DEF Climb
<1>3. Def(up)
  BY <1>2
<1>4. ancestor(leaf) = up
  BY DEF ancestor
<1>5. up[0] = leaf /\ \A l \in 1..Height : up[l] = parent_index(up[l-1])
  <2> HIDE DEF up
  <2>1. up[0] = leaf BY <1>3, Shape
  <2>2. ASSUME NEW l \in 1..Height PROVE up[l] = parent_index(up[l-1])
    <3>1. l \in 0..Height /\ l # 0 BY Shape
    <3> QED BY <3>1, <1>3
  <2> QED BY <2>1, <2>2
<1> QED BY <1>4, <1>5

(* Two leaves under one level-1 node have the same ancestors above.        *)
LEMMA AncestorOfLine ==
  ASSUME NEW i, NEW j, parent_index(i) = parent_index(j)
  PROVE \A l \in 1..Height : ancestor(i)[l] = ancestor(j)[l]
<1> DEFINE S == {n \in Nat : n + 1 \in 1..Height => ancestor(i)[n+1] = ancestor(j)[n+1]}
<1>1. 0 \in S
  <2>1. 1 \in 1..Height /\ 1 - 1 = 0 BY Shape
  <2> QED BY <2>1, AncestorStep
<1>2. ASSUME NEW n \in Nat, n \in S PROVE n + 1 \in S
  <2>1. SUFFICES ASSUME (n + 1) + 1 \in 1..Height
                 PROVE ancestor(i)[(n+1)+1] = ancestor(j)[(n+1)+1]
    OBVIOUS
  <2>2. n + 1 \in 1..Height /\ ((n + 1) + 1) - 1 = n + 1 BY <2>1, Shape
  <2>3. ancestor(i)[n+1] = ancestor(j)[n+1] BY <1>2, <2>2
  <2> HIDE DEF S
  <2> QED BY <2>1, <2>2, <2>3, AncestorStep
<1> HIDE DEF S
<1>3. Nat \subseteq S
  BY <1>1, <1>2, SetInduction
<1> TAKE l \in 1..Height
<1>4. l - 1 \in Nat /\ (l - 1) + 1 = l BY Shape
<1>5. l - 1 \in S BY <1>3, <1>4
<1> QED BY <1>4, <1>5 DEF S

(* An ancestor of a leaf is a node of its level.                           *)
LEMMA AncestorIsNode ==
  ASSUME NEW leaf \in NodesOf(0)
  PROVE \A l \in 0..Height : ancestor(leaf)[l] \in NodesOf(l)
<1> DEFINE S == {n \in Nat : n \in 0..Height => ancestor(leaf)[n] \in NodesOf(n)}
<1>1. 0 \in S
  BY AncestorStep
<1>2. ASSUME NEW n \in Nat, n \in S PROVE n + 1 \in S
  <2>1. SUFFICES ASSUME n + 1 \in 0..Height
                 PROVE ancestor(leaf)[n+1] \in NodesOf(n+1)
    OBVIOUS
  <2>2. n \in 0..Height-1 /\ n \in 0..Height /\ n + 1 \in 1..Height /\ (n + 1) - 1 = n
    BY <2>1, Shape
  <2>3. ancestor(leaf)[n] \in NodesOf(n) BY <1>2, <2>2
  <2>4. ancestor(leaf)[n+1] = parent_index(ancestor(leaf)[n]) BY <2>2, AncestorStep
  <2> HIDE DEF S
  <2> QED BY <2>2, <2>3, <2>4, ParentIsNode
<1> HIDE DEF S
<1>3. Nat \subseteq S
  BY <1>1, <1>2, SetInduction
<1> TAKE l \in 0..Height
<1>4. l \in Nat BY Shape
<1>5. l \in S BY <1>3, <1>4
<1> QED BY <1>5 DEF S

(* The child slots of a node have storage, and they know their parent.     *)
LEMMA ChildInSlots ==
  ASSUME NEW l \in 2..Height, NEW i \in NodesOf(l), NEW k \in Pos
  PROVE child_index(i, k) \in Slots(l - 1)
<1>1. l - 1 # Height /\ (l - 1) + 1 = l /\ NodeCount[l] \in Nat
  BY Shape
<1>2. i * Arity + k \in 0..(Arity * NodeCount[l] - 1)
  BY <1>1, Shape, MultipleRange DEF Pos, NodesOf
<1> QED
  BY <1>1, <1>2 DEF child_index, Slots

LEMMA ParentOfChild ==
  ASSUME NEW i \in Nat, NEW k \in Pos
  PROVE parent_index(child_index(i, k)) = i /\ child_position(child_index(i, k)) = k
<1>1. i * Arity = Arity * i /\ i \in Int
  BY Shape
<1> QED
  BY <1>1, Shape, DivisionUnique DEF Pos, parent_index, child_index, child_position

(* A node is the child of its parent at its own position, and a sibling    *)
(* group is the children of the parent.                                    *)
LEMMA OwnSlot ==
  ASSUME NEW i \in Nat
  PROVE /\ sibling_group_base(i) + child_position(i) = i
        /\ \A k \in Pos : child_index(parent_index(i), k) = sibling_group_base(i) + k
        /\ parent_index(i) \in Nat
<1>1. i = Arity * parent_index(i) + child_position(i) /\ parent_index(i) \in Int
  BY Shape, Division DEF parent_index, child_position
<1>2. parent_index(i) * Arity = Arity * parent_index(i)
  BY <1>1, Shape
<1>3. parent_index(i) \in Nat
  <2>1. child_position(i) \in 0..Arity-1 BY PositionInPos DEF Pos
  <2>2. \A p \in Int : p <= -1 => Arity * p <= -Arity BY Shape, MultipleDown
  <2> QED BY <2>1, <2>2, <1>1, Shape
<1> QED
  BY <1>1, <1>2, <1>3 DEF sibling_group_base, child_index

(* The leaves of a line share their level-1 node, and lines differ there.  *)
LEMMA LeafParent ==
  ASSUME NEW a \in Addr
  PROVE parent_index(addr_to_leaf_index(a)) = line_of(a) - ProtectedBase \div Arity
<1> DEFINE p == line_of(a)
           r == a % Arity
           b == ProtectedBase \div Arity
<1>1. /\ ProtectedBase \in Nat /\ ProtectedBase % Arity = 0
      /\ Arity \in Nat /\ Arity > 0 /\ NodeCount[0] \in Nat
  BY Shape, GeometryAssumption
<1>2. a \in Int
  BY <1>1 DEF Addr, ProtectedLimit
<1>3. p \in Int /\ r \in 0..Arity-1 /\ a = Arity * p + r
  BY <1>1, <1>2, Division DEF line_of
<1>4. b \in Int /\ ProtectedBase = Arity * b
  BY <1>1, Division
<1> HIDE DEF p, r, b
<1>5. a - ProtectedBase = Arity * (p - b) + r /\ p - b \in Int
  <2>1. Arity * (p - b) = Arity * p - Arity * b BY <1>1, <1>3, <1>4
  <2>2. Arity * p \in Int /\ Arity * b \in Int BY <1>1, <1>3, <1>4
  <2> QED BY <2>1, <2>2, <1>1, <1>3, <1>4
<1>6. (a - ProtectedBase) \div Arity = p - b
  BY <1>1, <1>3, <1>5, DivisionUnique
<1> QED
  BY <1>6 DEF p, b, parent_index, addr_to_leaf_index
=============================================================================
