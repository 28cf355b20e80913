--------------------------- MODULE NodeStoresProofs ---------------------------
(***************************************************************************)
(* The two stores of tree nodes implement what the unit takes them for.    *)
(* The register file of the HCache is a map from nodes to hashes, for      *)
(* every tree and every storage that has room for it.  The tree memory is  *)
(* NodeStore: whatever the adapter, the bridge and DRAM are at, the unit   *)
(* sees zeroed nodes, and a group read or a node write that takes effect   *)
(* at one moment.  The argument is IInv of TreeMemoryInv: which beats of   *)
(* the one burst under way are where.                                      *)
(***************************************************************************)
EXTENDS TreeMemoryInv, HCacheStore, GeometryProofs, SequenceTheorems

-----------------------------------------------------------------------------
(* The register file.                                                      *)

(* The offset of a stored level is below StoredLevels and its own.         *)
LEMMA ChipOffset ==
  ASSUME NEW l \in MinHwLevel..Height
  PROVE level_to_offset(l) = Height - l /\ level_to_offset(l) \in 0..StoredLevels - 1
<1>1. Height - l \in 0..StoredLevels - 1
  BY Shape, StorageAssumption
<1>2. StoredLevels \in Nat /\ StoredLevels > 0
  BY StorageAssumption
<1>3. (Height - l) % StoredLevels = Height - l
  <2>1. (StoredLevels * 0 + (Height - l)) % StoredLevels = Height - l
    BY <1>1, <1>2, DivisionUnique
  <2>2. StoredLevels * 0 + (Height - l) = Height - l
    BY <1>1, <1>2
  <2> QED BY <2>1, <2>2
<1> QED
  BY <1>1, <1>3 DEF level_to_offset

(* No index of a stored level is cut.                                      *)
LEMMA ChipIndex ==
  ASSUME NEW l \in MinHwLevel..Height, NEW i \in Slots(l)
  PROVE i \in 0..StoredIndices - 1 /\ i % StoredIndices = i
<1>1. i \in Nat /\ i < StoredIndices /\ StoredIndices \in Nat /\ StoredIndices > 0
  <2>1. Slots(l) \subseteq Nat
    BY Shape DEF Slots
  <2> QED BY <2>1, StorageAssumption
<1>2. (StoredIndices * 0 + i) % StoredIndices = i
  BY <1>1, DivisionUnique
<1>3. StoredIndices * 0 + i = i
  BY <1>1
<1> QED
  BY <1>1, <1>2, <1>3

(* A node is in the hardware exactly when its level is.                    *)
LEMMA ChipNodes ==
  ASSUME NEW l \in Levels, NEW i \in Slots(l)
  PROVE /\ is_hw_level(l) <=> l \in MinHwLevel..Height
        /\ is_hw_level(l) <=> <<l, i>> \in HwNode
<1>1. l \in Nat
  BY Shape DEF Levels
<1>2. is_hw_level(l) <=> l \in MinHwLevel..Height
  BY <1>1, Shape DEF is_hw_level
<1>3. <<l, i>> \in HwNode <=> l \in MinHwLevel..Height
  BY DEF HwNode
<1> QED
  BY <1>2, <1>3

(* pack_addr names an entry.                                               *)
LEMMA PackRange ==
  ASSUME NEW n \in HwNode
  PROVE pack_addr(n[1], n[2]) \in HAddr
<1>1. PICK l \in MinHwLevel..Height : n \in {l} \X Slots(l)
  BY DEF HwNode
<1>2. n[1] = l /\ n[2] \in Slots(l)
  BY <1>1
<1>3. pack_addr(n[1], n[2]) = level_to_offset(l) * StoredIndices + n[2]
  BY <1>2, ChipIndex DEF pack_addr
<1>4. level_to_offset(l) * StoredIndices + n[2] \in 0..(StoredIndices * StoredLevels - 1)
  <2> DEFINE p == level_to_offset(l)
             i == n[2]
  <2>1. p \in 0..StoredLevels - 1 /\ i \in 0..StoredIndices - 1
    BY <1>2, ChipOffset, ChipIndex
  <2> HIDE DEF p, i
  <2>2. p * StoredIndices + i \in 0..(StoredIndices * StoredLevels - 1)
    BY <2>1, StorageAssumption, MultipleRange
  <2> QED BY <2>2 DEF p, i
<1>5. StoredIndices * StoredLevels = StoredLevels * StoredIndices
  BY StorageAssumption
<1> QED
  BY <1>3, <1>4, <1>5 DEF HAddr

(* Two nodes never share an entry.                                         *)
LEMMA PackInjective ==
  ASSUME NEW m \in HwNode, NEW n \in HwNode,
         pack_addr(m[1], m[2]) = pack_addr(n[1], n[2])
  PROVE m = n
<1>1. PICK l \in MinHwLevel..Height : m \in {l} \X Slots(l)
  BY DEF HwNode
<1>2. PICK k \in MinHwLevel..Height : n \in {k} \X Slots(k)
  BY DEF HwNode
<1>3. m[1] = l /\ m[2] \in Slots(l) /\ n[1] = k /\ n[2] \in Slots(k)
  BY <1>1, <1>2
<1>4. /\ m[2] \in 0..StoredIndices - 1 /\ n[2] \in 0..StoredIndices - 1
      /\ StoredIndices \in Nat /\ StoredIndices > 0
  BY <1>3, ChipIndex, StorageAssumption
<1> DEFINE p == level_to_offset(l)
           q == level_to_offset(k)
<1>5. p \in Nat /\ q \in Nat /\ p = Height - l /\ q = Height - k
  BY ChipOffset, StorageAssumption
<1>6. p * StoredIndices + m[2] = q * StoredIndices + n[2]
  BY <1>3, ChipIndex DEF pack_addr
<1> HIDE DEF p, q
<1>7. StoredIndices * p + m[2] = StoredIndices * q + n[2]
  BY <1>4, <1>5, <1>6
<1>8. /\ (StoredIndices * p + m[2]) \div StoredIndices = p
      /\ (StoredIndices * p + m[2]) % StoredIndices = m[2]
      /\ (StoredIndices * q + n[2]) \div StoredIndices = q
      /\ (StoredIndices * q + n[2]) % StoredIndices = n[2]
  <2> DEFINE i == m[2]
             j == n[2]
  <2>1. i \in 0..StoredIndices - 1 /\ j \in 0..StoredIndices - 1
    BY <1>4
  <2> HIDE DEF i, j
  <2>2. /\ (StoredIndices * p + i) \div StoredIndices = p
        /\ (StoredIndices * p + i) % StoredIndices = i
    BY <1>4, <1>5, <2>1, DivisionUnique
  <2>3. /\ (StoredIndices * q + j) \div StoredIndices = q
        /\ (StoredIndices * q + j) % StoredIndices = j
    BY <1>4, <1>5, <2>1, DivisionUnique
  <2> QED BY <2>2, <2>3 DEF i, j
<1>9. p = q /\ m[2] = n[2]
  BY <1>7, <1>8
<1>10. l = k
  BY <1>5, <1>9, Shape
<1> QED
  BY <1>1, <1>2, <1>3, <1>9, <1>10

-----------------------------------------------------------------------------
(* The entries, as numbers.                                                *)
LEMMA ChipEntries == StoredLevels * StoredIndices \in Nat /\ StoredLevels * StoredIndices > 0
<1>1. StoredLevels \in Nat /\ StoredLevels >= 1 /\ StoredIndices \in Nat /\ StoredIndices >= 1
  BY StorageAssumption
<1>2. StoredIndices * StoredLevels >= StoredIndices
  BY <1>1, MultipleUp
<1> QED
  BY <1>1, <1>2

LEMMA HashOfEntry ==
  ASSUME NEW e \in Stored
  PROVE entry_hash(e) \in Word \cup {Invalid}
  BY DEF Stored, entry_hash

LEMMA ChipStart == ChipInit => ChipIInv
<1> SUFFICES ASSUME ChipInit PROVE ChipIInv
  OBVIOUS
<1>1. 0 \in HAddr
  BY ChipEntries DEF HAddr
<1>2. 0..rg_init_idx - 1 = {}
  BY DEF ChipInit
<1> QED
  BY <1>1, <1>2 DEF ChipInit, ChipIInv, ChipTypeOK, Cleared

LEMMA ChipStep == ChipIInv /\ [ChipNext]_chipVars => ChipIInv'
<1> SUFFICES ASSUME ChipIInv, [ChipNext]_chipVars PROVE ChipIInv'
  OBVIOUS
<1> USE DEF ChipIInv, ChipTypeOK
<1>1. CASE rl_initialize
  <2>0. StoredLevels * StoredIndices \in Nat /\ HAddr = 0..StoredLevels * StoredIndices - 1
    BY ChipEntries DEF HAddr
  <2>1. [valid |-> FALSE, hash |-> Zero] \in Stored
    BY StorageAssumption DEF Stored
  <2>2. rf_nodes' \in [HAddr -> Stored] /\ found' = found
    BY <1>1, <2>1 DEF rl_initialize
  <2>3. CASE init_last
    BY <1>1, <2>2, <2>3 DEF rl_initialize, Cleared
  <2>4. CASE ~init_last
    <3>1. rg_init_idx' = rg_init_idx + 1 /\ rg_initialized' = rg_initialized
      BY <1>1, <2>4 DEF rl_initialize
    <3>2. rg_init_idx' \in HAddr
      BY <2>0, <2>4, <3>1 DEF init_last
    <3>3. \A a \in 0..rg_init_idx' - 1 : ~rf_nodes'[a].valid
      BY <1>1, <2>0, <3>1 DEF rl_initialize, Cleared
    <3> QED BY <2>2, <3>1, <3>2, <3>3 DEF Cleared
  <2> QED BY <2>3, <2>4
<1>2. ASSUME NEW l \in Levels, NEW i \in Slots(l), get_hash(l, i) PROVE ChipIInv'
  <2>1. is_hw_level(l) => rf_nodes[pack_addr(l, i)] \in Stored
    <3> SUFFICES ASSUME is_hw_level(l) PROVE rf_nodes[pack_addr(l, i)] \in Stored
      OBVIOUS
    <3>1. <<l, i>> \in HwNode
      BY ChipNodes
    <3>2. pack_addr(l, i) \in HAddr
      BY <3>1, PackRange
    <3> QED BY <3>2
  <2>2. found' \in Word \cup {Invalid}
    BY <1>2, <2>1, HashOfEntry DEF get_hash
  <2> QED BY <1>2, <2>2 DEF get_hash, Cleared
<1>3. ASSUME NEW l \in Levels, NEW i \in Slots(l), NEW h \in Word, set_hash(l, i, h)
      PROVE ChipIInv'
  <2>1. [valid |-> TRUE, hash |-> h] \in Stored
    BY DEF Stored
  <2> QED BY <1>3, <2>1 DEF set_hash, Cleared
<1>4. CASE UNCHANGED chipVars
  BY <1>4 DEF chipVars, Cleared
<1> QED
  BY <1>1, <1>2, <1>3, <1>4 DEF ChipNext

(* The walk of rl_initialize stays in the register file and leaves cleared *)
(* entries behind it, and what get_hash returns is a hash or Invalid.      *)
THEOREM ChipInvariant == ChipSpec => []ChipIInv
<1> QED BY ChipStart, ChipStep, PTL DEF ChipSpec

-----------------------------------------------------------------------------
LEMMA MapInit == ChipInit => Map!Init
<1> SUFFICES ASSUME ChipInit PROVE Map!Init
  OBVIOUS
<1> QED
  BY DEF ChipInit, Map!Init, nodes, HwNode, Map!HwNode, Slots, Map!Slots

LEMMA MapStep == ChipIInv /\ ChipIInv' /\ [ChipNext]_chipVars => [Map!Next]_(Map!vars)
<1> SUFFICES ASSUME ChipIInv, ChipIInv', [ChipNext]_chipVars PROVE [Map!Next]_(Map!vars)
  OBVIOUS
<1>1. CASE rl_initialize
  <2>1. nodes' = nodes
    <3>1. CASE ~init_last
      BY <1>1, <3>1 DEF rl_initialize, nodes
    <3>2. CASE init_last
      <4>1. \A a \in HAddr : ~rf_nodes'[a].valid
        <5>1. rg_init_idx = StoredLevels * StoredIndices - 1
          BY <3>2 DEF init_last
        <5>2. rf_nodes \in [HAddr -> Stored] /\ rg_init_idx \in HAddr
          BY DEF ChipIInv, ChipTypeOK
        <5>3. rf_nodes' = [rf_nodes EXCEPT ![rg_init_idx] = [valid |-> FALSE, hash |-> Zero]]
          BY <1>1 DEF rl_initialize
        <5>4. \A a \in 0..rg_init_idx - 1 : ~rf_nodes[a].valid
          BY <1>1 DEF rl_initialize, ChipIInv, Cleared
        <5>5. \A a \in HAddr : a = rg_init_idx \/ a \in 0..rg_init_idx - 1
          BY <5>1, ChipEntries DEF HAddr
        <5> QED BY <5>2, <5>3, <5>4, <5>5
      <4>2. \A n \in HwNode : entry_hash(rf_nodes'[pack_addr(n[1], n[2])]) = Invalid
        BY <4>1, PackRange DEF entry_hash
      <4>3. ~rg_initialized /\ rg_initialized'
        BY <1>1, <3>2 DEF rl_initialize
      <4> QED BY <4>2, <4>3 DEF nodes
    <3> QED BY <3>1, <3>2
  <2> QED BY <1>1, <2>1 DEF rl_initialize, Map!vars
<1>2. ASSUME NEW l \in Levels, NEW i \in Slots(l), get_hash(l, i) PROVE Map!Next
  <2>1. nodes' = nodes
    BY <1>2 DEF get_hash, nodes
  <2>2. found' = IF is_hw_level(l) THEN nodes[<<l, i>>] ELSE Invalid
    <3>1. CASE is_hw_level(l)
      <4>1. <<l, i>> \in HwNode
        BY <3>1, ChipNodes
      <4>2. nodes[<<l, i>>] = entry_hash(rf_nodes[pack_addr(l, i)])
        BY <1>2, <4>1 DEF nodes, get_hash
      <4> QED BY <1>2, <3>1, <4>2 DEF get_hash
    <3>2. CASE ~is_hw_level(l)
      BY <1>2, <3>2 DEF get_hash
    <3> QED BY <3>1, <3>2
  <2>3. Map!Get(l, i)
    BY <2>1, <2>2 DEF Map!Get, Map!is_hw_level, is_hw_level
  <2> QED BY <2>3 DEF Map!Next, Map!Slots, Slots, Map!Levels, Levels
<1>3. ASSUME NEW l \in Levels, NEW i \in Slots(l), NEW h \in Word, set_hash(l, i, h)
      PROVE Map!Next
  <2>1. nodes' = IF is_hw_level(l) THEN [nodes EXCEPT ![<<l, i>>] = h] ELSE nodes
    <3>1. CASE is_hw_level(l)
      <4>1. <<l, i>> \in HwNode
        BY <3>1, ChipNodes
      <4>2. rg_initialized /\ rg_initialized' = rg_initialized
        BY <1>3 DEF set_hash
      <4>3. rf_nodes' = [rf_nodes EXCEPT ![pack_addr(l, i)] = [valid |-> TRUE, hash |-> h]]
        BY <1>3, <3>1 DEF set_hash
      <4>4. rf_nodes \in [HAddr -> Stored] /\ pack_addr(l, i) \in HAddr
        BY <4>1, PackRange DEF ChipIInv, ChipTypeOK
      <4>5. ASSUME NEW n \in HwNode
            PROVE entry_hash(rf_nodes'[pack_addr(n[1], n[2])]) =
                    IF n = <<l, i>> THEN h ELSE entry_hash(rf_nodes[pack_addr(n[1], n[2])])
        <5>1. CASE n = <<l, i>>
          BY <4>3, <4>4, <5>1 DEF entry_hash
        <5>2. CASE n # <<l, i>>
          <6>1. pack_addr(n[1], n[2]) # pack_addr(l, i)
            BY <4>1, <5>2, PackInjective
          <6>2. pack_addr(n[1], n[2]) \in HAddr
            BY PackRange
          <6> QED BY <4>3, <4>4, <5>2, <6>1, <6>2
        <5> QED BY <5>1, <5>2
      <4>6. nodes = [n \in HwNode |-> entry_hash(rf_nodes[pack_addr(n[1], n[2])])]
        BY <4>2 DEF nodes
      <4>7. nodes' = [n \in HwNode |-> entry_hash(rf_nodes'[pack_addr(n[1], n[2])])]
        BY <4>2 DEF nodes
      <4> QED BY <3>1, <4>5, <4>6, <4>7
    <3>2. CASE ~is_hw_level(l)
      BY <1>3, <3>2 DEF set_hash, nodes
    <3> QED BY <3>1, <3>2
  <2>2. Map!Set(l, i, h)
    BY <1>3, <2>1 DEF set_hash, Map!Set, Map!is_hw_level, is_hw_level
  <2> QED BY <2>2 DEF Map!Next, Map!Slots, Slots, Map!Levels, Levels
<1>4. CASE UNCHANGED chipVars
  BY <1>4 DEF chipVars, Map!vars, nodes
<1> QED
  BY <1>1, <1>2, <1>3, <1>4 DEF ChipNext

(* The packed, truncated addresses and the clearing at reset give the      *)
(* rules of mkmvu the map they are written for.                            *)
THEOREM ChipImplementation == ChipSpec => MapImplemented
<1>1. ChipSpec => []ChipIInv
  BY ChipInvariant
<1> QED
  BY <1>1, MapInit, MapStep, PTL DEF ChipSpec, Map!Spec, MapImplemented

-----------------------------------------------------------------------------
(* Tree memory.                                                            *)
USE DEF unitFifos, readFifos, writeFifos, boot, acc, busRead, busWrite, mem, unit, vars

-----------------------------------------------------------------------------
(* Part of a sequence: what is in a FIFO of the beats m+1..n of a burst.   *)
LEMMA Span ==
  ASSUME NEW S, NEW s \in Seq(S), NEW m \in 0..Len(s), NEW n \in m..Len(s)
  PROVE  /\ SubSeq(s, m + 1, n) \in Seq(S)
         /\ Len(SubSeq(s, m + 1, n)) = n - m
         /\ SubSeq(s, m + 1, n) = <<>> <=> m = n
         /\ \A i \in 1..(n - m) : SubSeq(s, m + 1, n)[i] = s[m + i]
<1>1. Len(s) \in Nat /\ \A i \in 1..Len(s) : s[i] \in S
  BY LenProperties
<1>2. /\ SubSeq(s, m + 1, n) \in Seq(S)
      /\ Len(SubSeq(s, m + 1, n)) = IF m + 1 <= n THEN n - (m + 1) + 1 ELSE 0
      /\ \A i \in 1..(n - (m + 1) + 1) : SubSeq(s, m + 1, n)[i] = s[m + 1 + i - 1]
  <2>1. \A i \in m + 1..n : s[i] \in S
    BY <1>1
  <2>2. m + 1 \in Int /\ n \in Int
    BY <1>1
  <2> QED BY <2>1, <2>2, SubSeqProperties
<1>3. SubSeq(s, m + 1, n) = <<>> <=> Len(SubSeq(s, m + 1, n)) = 0
  BY <1>2, EmptySeq
<1> QED BY <1>1, <1>2, <1>3

LEMMA SpanTakes ==
  ASSUME NEW S, NEW s \in Seq(S), NEW m \in 0..Len(s), NEW n \in m..Len(s), m < n
  PROVE  /\ Head(SubSeq(s, m + 1, n)) = s[m + 1]
         /\ Tail(SubSeq(s, m + 1, n)) = SubSeq(s, (m + 1) + 1, n)
<1>1. Len(s) \in Nat
  BY LenProperties
<1>2. m + 1 \in 1..Len(s) /\ n \in m + 1..Len(s)
  BY <1>1
<1> QED BY <1>2, HeadTailOfSubSeq

LEMMA SpanGrows ==
  ASSUME NEW S, NEW s \in Seq(S), NEW m \in 0..Len(s), NEW n \in m..Len(s), n < Len(s)
  PROVE  Append(SubSeq(s, m + 1, n), s[n + 1]) = SubSeq(s, m + 1, n + 1)
<1>1. Len(s) \in Nat /\ s[n + 1] \in S
  BY LenProperties
<1>2. m + 1 \in 1..Len(s) /\ n + 1 \in m + 1..Len(s)
  BY <1>1
<1>3. SubSeq(s, m + 1, n + 1) = SubSeq(s, m + 1, (n + 1) - 1) \o <<s[n + 1]>>
  BY <1>2, SubSeqRecursiveSecond
<1>4. (n + 1) - 1 = n
  BY <1>1
<1> QED BY <1>1, <1>3, <1>4, Span, AppendIsConcat

LEMMA OneEntry ==
  ASSUME NEW x
  PROVE  /\ Append(<<>>, x) = <<x>> /\ Head(<<x>>) = x /\ Tail(<<x>>) = <<>>
         /\ <<x>> # <<>> /\ Len(<<x>>) = 1 /\ Len(<<>>) = 0
<1> QED OBVIOUS

-----------------------------------------------------------------------------
(* Where the nodes are.                                                    *)
LEMMA Layout ==
  ASSUME LayoutAssumption
  PROVE  /\ MemLevels = {1, 2, 3} /\ ProtectedBase \in Nat /\ InitLast \in Nat
         /\ DramAddr = ProtectedBase..(ProtectedBase + InitLast)
         /\ \A l \in 0..3 : NodeCount[l] \in Nat /\ NodeCount[l] > 0
<1>1. MemLevels = {1, 2, 3} /\ 3 \in 0..Height /\ ProtectedBase \in Nat
  BY GeometryAssumption DEF LayoutAssumption, MemLevels
<1>2. \A l \in 0..3 : NodeCount[l] \in Nat /\ NodeCount[l] > 0
  BY <1>1, Shape
<1>3. NodeCount[0] \in Nat /\ NodeCount[1] \in Nat /\ NodeCount[2] \in Nat /\ NodeCount[3] \in Nat
      /\ NodeCount[0] > 0
  BY <1>2
<1>4. InitLast \in Nat /\ DramAddr = ProtectedBase..(ProtectedBase + InitLast)
  <2>1. TreeWords = NodeCount[1] + NodeCount[2] + NodeCount[3]
    BY DEF LayoutAssumption, TreeWords
  <2>2. InitLast = NodeCount[0] + TreeWords - 1
    BY DEF LayoutAssumption
  <2>3. ProtectedBase + InitLast = tree_base + TreeWords - 1
    BY <1>1, <1>3, <2>1, <2>2 DEF tree_base, ProtectedLimit
  <2>4. InitLast \in Nat
    BY <1>3, <2>1, <2>2
  <2> QED BY <2>3, <2>4 DEF DramAddr
<1> QED BY <1>1, <1>2, <1>4

LEMMA NodeAddr ==
  ASSUME LayoutAssumption, NEW l \in MemLevels, NEW i \in NodesOf(l)
  PROVE  get_node_addr(l, i) \in DramAddr /\ get_node_addr(l, i) \in Nat
<1>1. /\ NodeCount[0] \in Nat /\ NodeCount[1] \in Nat /\ NodeCount[2] \in Nat
      /\ NodeCount[3] \in Nat /\ ProtectedBase \in Nat /\ l \in {1, 2, 3}
  BY Layout
<1>2. i \in Nat /\ i < NodeCount[l]
  BY <1>1 DEF NodesOf
<1> QED
  BY <1>1, <1>2 DEF LayoutAssumption, DramAddr, TreeWords, tree_base, ProtectedLimit,
                    get_node_addr

LEMMA NodeAddrInjective ==
  ASSUME LayoutAssumption, NEW l \in MemLevels, NEW i \in NodesOf(l),
         NEW k \in MemLevels, NEW j \in NodesOf(k),
         get_node_addr(l, i) = get_node_addr(k, j)
  PROVE  l = k /\ i = j
<1>1. /\ NodeCount[0] \in Nat /\ NodeCount[1] \in Nat /\ NodeCount[2] \in Nat
      /\ NodeCount[3] \in Nat /\ ProtectedBase \in Nat /\ l \in {1, 2, 3} /\ k \in {1, 2, 3}
  BY Layout
<1>2. i \in Nat /\ i < NodeCount[l] /\ j \in Nat /\ j < NodeCount[k]
  BY <1>1 DEF NodesOf
<1> QED
  BY <1>1, <1>2 DEF LayoutAssumption, tree_base, ProtectedLimit, get_node_addr

(* Memory holds a node for every slot of its levels.                       *)
LEMMA MemSlots ==
  ASSUME LayoutAssumption, NEW l \in MemLevels
  PROVE  Slots(l) = NodesOf(l) /\ l \in 1..MinHwLevel-1
<1>1. l \in 0..MinHwLevel-1 /\ l # Height /\ l \in 1..MinHwLevel-1
  BY Shape DEF MemLevels
<1>2. NodeCount[l] = Arity * NodeCount[l + 1]
  BY <1>1, GeometryAssumption
<1> QED BY <1>1, <1>2 DEF Slots, NodesOf

LEMMA GroupAddr ==
  ASSUME LayoutAssumption, NEW op \in ReadOp
  PROVE  /\ op.level \in MemLevels /\ op.base_index \in NodesOf(op.level)
         /\ get_node_addr(op.level, op.base_index) \in Nat
         /\ \A k \in Pos :
              /\ op.base_index + k \in NodesOf(op.level)
              /\ get_node_addr(op.level, op.base_index + k)
                   = get_node_addr(op.level, op.base_index) + k
              /\ get_node_addr(op.level, op.base_index) + k \in DramAddr
              /\ <<op.level, op.base_index + k>> \in MemNode
<1>1. op.level \in MemLevels /\ op.base_index \in NodesOf(op.level)
      /\ op.base_index % Arity = 0
  BY DEF ReadOp
<1>2. get_node_addr(op.level, op.base_index) \in Nat
  BY <1>1, NodeAddr
<1> SUFFICES ASSUME NEW k \in Pos
             PROVE  /\ op.base_index + k \in NodesOf(op.level)
                    /\ get_node_addr(op.level, op.base_index + k)
                         = get_node_addr(op.level, op.base_index) + k
                    /\ get_node_addr(op.level, op.base_index) + k \in DramAddr
                    /\ <<op.level, op.base_index + k>> \in MemNode
  BY <1>1, <1>2
<1> DEFINE l == op.level i == op.base_index n == NodeCount[l + 1] p == i \div Arity
<1>3. Arity \in Nat /\ Arity >= 2 /\ n \in Nat /\ l \in 1..MinHwLevel-1
  <2>1. l \in 1..MinHwLevel-1 /\ l + 1 \in 0..Height
    BY <1>1, Shape DEF MemLevels
  <2> QED BY <2>1, Shape
<1>4. NodesOf(l) = 0..(Arity * n - 1)
  <2>1. l \in 0..MinHwLevel-1
    BY <1>3, Shape
  <2>2. NodeCount[l] = Arity * n
    BY <2>1, GeometryAssumption
  <2> QED BY <2>2 DEF NodesOf
<1>5. p \in 0..(n - 1)
  <2>1. i \in 0..(Arity * n - 1)
    BY <1>1, <1>4
  <2> HIDE DEF n, i
  <2> QED BY <1>3, <2>1, DivisionRange
<1>6. i = p * Arity
  <2>1. i \in Int
    BY <1>1 DEF NodesOf
  <2>2. i = Arity * p + 0 /\ p \in Int
    BY <1>1, <1>3, <2>1, Division
  <2> QED BY <1>3, <2>2
<1>7. i + k \in NodesOf(l)
  <2>1. k \in 0..Arity-1
    BY DEF Pos
  <2> HIDE DEF n, p, i
  <2>2. p * Arity + k \in 0..(Arity * n - 1)
    BY <1>3, <1>5, <2>1, MultipleRange
  <2> QED BY <1>4, <1>6, <2>2
<1>8. get_node_addr(l, i + k) = get_node_addr(l, i) + k
  <2>1. /\ NodeCount[0] \in Nat /\ NodeCount[1] \in Nat /\ NodeCount[2] \in Nat
        /\ ProtectedBase \in Nat /\ l \in {1, 2, 3} /\ i \in Int /\ k \in Int
    BY <1>1, <1>3, Layout DEF NodesOf, Pos
  <2> QED BY <2>1 DEF LayoutAssumption, tree_base, ProtectedLimit, get_node_addr
<1>9. get_node_addr(l, i) + k \in DramAddr
  BY <1>1, <1>7, <1>8, NodeAddr
<1>10. <<l, i + k>> \in MemNode
  <2>1. i + k \in Slots(l) /\ l \in 1..MinHwLevel-1
    BY <1>1, <1>7, MemSlots
  <2> QED BY <2>1, MemNodeHas
<1> QED BY <1>7, <1>8, <1>9, <1>10

-----------------------------------------------------------------------------
(* A write burst, from the request in the adapter to the answer.           *)
WriteReq == [address : DramAddr, data : Word]
Beat == [data : Word, strb : BOOLEAN, last : BOOLEAN]

LEMMA Offset ==
  ASSUME LayoutAssumption, NEW req \in WriteReq
  PROVE  /\ req.address \in DramAddr /\ req.data \in Word /\ req.address \in Nat
         /\ req.address % Arity \in 0..Arity-1
         /\ aligned(req.address) + (req.address % Arity) = req.address
<1>1. req.address \in DramAddr /\ req.data \in Word
  BY DEF WriteReq
<1>2. req.address \in Nat
  BY <1>1, Layout
<1>3. req.address % Arity \in 0..Arity-1
  BY <1>2, Shape, Division
<1>4. aligned(req.address) + (req.address % Arity) = req.address
  BY <1>2, <1>3, Shape DEF aligned
<1> QED BY <1>1, <1>2, <1>3, <1>4

LEMMA WriteBeats ==
  ASSUME LayoutAssumption, StoreAssumption, NEW req \in WriteReq
  PROVE  /\ write_burst(req) \in Seq(Beat) /\ Len(write_burst(req)) = Arity
         /\ \A k \in 1..Arity : write_burst(req)[k] = write_beat(req, k - 1)
<1> DEFINE b == write_burst(req)
<1>1. Arity \in Nat
  BY Shape
<1>2. \A k \in 1..Arity : write_beat(req, k - 1) \in Beat
  BY Offset DEF write_beat, Beat, StoreAssumption
<1>3. b = [k \in 1..Arity |-> write_beat(req, k - 1)]
  BY DEF write_burst
<1>4. b \in [1..Arity -> Beat]
  BY <1>2, <1>3
<1>5. b \in Seq(Beat) /\ Len(b) = Arity
  BY <1>1, <1>4
<1> QED BY <1>3, <1>5

on_its_way(req) ==
  (ff_mem_write_req # <<>> \/ wr_addr # <<>>) /\ wr_beat <= req.address % Arity

WriteMoves(req) ==
  /\ Writing(req)' /\ TypeOK'
  /\ UNCHANGED <<unitFifos, readFifos, boot, acc, busRead, rd_beat, unit>>
  /\ \/ dram' = dram /\ (on_its_way(req)' <=> on_its_way(req))
     \/ /\ dram' = [dram EXCEPT ![req.address] = req.data]
        /\ on_its_way(req) /\ ~on_its_way(req)'

LEMMA WriteSends ==
  ASSUME LayoutAssumption, StoreAssumption, NEW req \in WriteReq, TypeOK, Writing(req),
         rl_handle_tree_write_request
  PROVE  WriteMoves(req)
<1> DEFINE b == write_burst(req)
<1>1. /\ ff_mem_write_req = <<req>> /\ rg_tree_burst_count = 0 /\ wr_beat = 0
      /\ wr_data = SubSeq(b, 0 + 1, 0) /\ wr_addr = <<>> /\ wr_resp = <<>>
      /\ ff_mem_write_resp = <<>>
  <2>1. ff_mem_write_req # <<>> /\ rg_tree_burst_count = 0
    BY DEF rl_handle_tree_write_request, NotEmpty
  <2>2. WriteBurst(req)
    BY <2>1 DEF Writing, WriteDone
  <2>3. ff_mem_write_req = <<req>> /\ sent = 0
    BY <2>1, <2>2 DEF WriteBurst, sent
  <2>4. wr_beat = 0
    BY <2>2, <2>3 DEF WriteBurst, TypeOK, Pos
  <2> QED BY <2>1, <2>2, <2>3, <2>4 DEF WriteBurst
<1>2. b \in Seq(Beat) /\ Len(b) = Arity /\ Arity >= 2 /\ Arity \in Nat
      /\ b[0 + 1] = write_beat(req, 0)
  BY WriteBeats, Shape
<1>3. wr_data' = SubSeq(b, 0 + 1, 0 + 1)
  <2>1. wr_data' = Append(wr_data, write_beat(req, 0))
    BY <1>1, OneEntry DEF rl_handle_tree_write_request
  <2> HIDE DEF b
  <2>2. Append(SubSeq(b, 0 + 1, 0), b[0 + 1]) = SubSeq(b, 0 + 1, 0 + 1)
    BY <1>2, SpanGrows
  <2> QED BY <1>1, <1>2, <2>1, <2>2
<1>4. wr_addr' = <<aligned(req.address)>>
  BY <1>1, OneEntry DEF rl_handle_tree_write_request
<1>5. rg_tree_burst_count' = 1 /\ ff_mem_write_req' = <<req>>
  BY <1>1, <1>2 DEF rl_handle_tree_write_request, next_beat
<1>6. /\ UNCHANGED <<unitFifos, readFifos, writeFifos, boot, acc, busRead, wr_resp, mem, unit>>
  BY DEF rl_handle_tree_write_request
<1>7. Writing(req)'
  <2>1. sent' = 1
    BY <1>5, OneEntry DEF sent
  <2> HIDE DEF b
  <2>2. WriteBurst(req)'
    BY <1>1, <1>3, <1>4, <1>5, <1>6, <2>1, Offset DEF WriteBurst, b
  <2> QED BY <2>2 DEF Writing
<1>8. TypeOK'
  BY <1>2, <1>5, <1>6 DEF TypeOK, Pos
<1>9. dram' = dram /\ (on_its_way(req)' <=> on_its_way(req))
  BY <1>1, <1>4, <1>5, <1>6, OneEntry DEF on_its_way
<1> QED BY <1>6, <1>7, <1>8, <1>9 DEF WriteMoves

LEMMA WriteSendsMore ==
  ASSUME LayoutAssumption, StoreAssumption, NEW req \in WriteReq, TypeOK, Writing(req),
         rl_tree_burst_write_data
  PROVE  WriteMoves(req)
<1> DEFINE b == write_burst(req)
           c == rg_tree_burst_count
<1>1. /\ ff_mem_write_req = <<req>> /\ c \in 1..Arity-1 /\ wr_beat \in 0..c
      /\ wr_data = SubSeq(b, wr_beat + 1, c) /\ wr_addr = <<aligned(req.address)>>
      /\ wr_resp = <<>> /\ ff_mem_write_resp = <<>>
      /\ wr_beat > req.address % Arity => dram[req.address] = req.data
  <2>1. ff_mem_write_req # <<>> /\ c # 0
    BY DEF rl_tree_burst_write_data, NotEmpty
  <2>2. WriteBurst(req)
    BY <2>1 DEF Writing, WriteDone
  <2>3. ff_mem_write_req = <<req>> /\ sent = c
    BY <2>1, <2>2 DEF WriteBurst, sent
  <2>4. c \in 1..Arity-1 /\ wr_beat \in 0..c
    BY <2>1, <2>2, <2>3, Shape DEF WriteBurst, TypeOK, Pos
  <2> QED BY <2>1, <2>2, <2>3, <2>4 DEF WriteBurst
<1>2. b \in Seq(Beat) /\ Len(b) = Arity /\ Arity >= 2 /\ Arity \in Nat
      /\ b[c + 1] = write_beat(req, c)
  <2>1. b \in Seq(Beat) /\ Len(b) = Arity /\ Arity >= 2 /\ Arity \in Nat
    BY WriteBeats, Shape
  <2>2. c + 1 \in 1..Arity /\ (c + 1) - 1 = c
    BY <1>1, <2>1
  <2> HIDE DEF c
  <2>3. b[c + 1] = write_beat(req, (c + 1) - 1)
    BY <2>2, WriteBeats
  <2> QED BY <2>1, <2>2, <2>3
<1>3. wr_data' = SubSeq(b, wr_beat + 1, c + 1)
  <2>1. wr_data' = Append(wr_data, write_beat(req, c))
    BY <1>1, OneEntry DEF rl_tree_burst_write_data
  <2> HIDE DEF b, c
  <2>2. wr_beat \in 0..Len(b) /\ c \in wr_beat..Len(b) /\ c < Len(b)
    BY <1>1, <1>2
  <2>3. Append(SubSeq(b, wr_beat + 1, c), b[c + 1]) = SubSeq(b, wr_beat + 1, c + 1)
    BY <1>2, <2>2, SpanGrows
  <2> QED BY <1>1, <1>2, <2>1, <2>3
<1>4. /\ UNCHANGED <<unitFifos, readFifos, ff_mem_write_resp, boot, acc, busRead, wr_addr,
                     wr_resp, mem, unit>>
  BY DEF rl_tree_burst_write_data
<1>5. write_beat(req, c).last <=> c = Arity - 1
  BY DEF write_beat
<1>6. IF c = Arity - 1
      THEN ff_mem_write_req' = <<>> /\ rg_tree_burst_count' = 0
      ELSE ff_mem_write_req' = <<req>> /\ rg_tree_burst_count' = c + 1
  BY <1>1, <1>5, OneEntry DEF rl_tree_burst_write_data, next_beat
<1>7. sent' = c + 1
  <2>1. CASE c = Arity - 1
    <3>1. sent' = Arity
      BY <1>6, <2>1 DEF sent
    <3> QED BY <1>2, <2>1, <3>1
  <2>2. CASE c # Arity - 1
    BY <1>6, <2>2, OneEntry DEF sent
  <2> QED BY <2>1, <2>2
<1>8. Writing(req)'
  <2> HIDE DEF b, c
  <2>1. wr_beat <= c + 1 /\ c + 1 # 0
    BY <1>1, <1>2
  <2>2. WriteBurst(req)'
    BY <1>1, <1>3, <1>4, <1>6, <1>7, <2>1 DEF WriteBurst, b
  <2> QED BY <2>2 DEF Writing
<1>9. TypeOK'
  BY <1>1, <1>2, <1>4, <1>6 DEF TypeOK, Pos
<1>10. dram' = dram /\ (on_its_way(req)' <=> on_its_way(req))
  BY <1>1, <1>4, OneEntry DEF on_its_way
<1> QED BY <1>4, <1>8, <1>9, <1>10 DEF WriteMoves

LEMMA WriteAnswers ==
  ASSUME LayoutAssumption, StoreAssumption, NEW req \in WriteReq, TypeOK, Writing(req),
         rl_handle_tree_write_resp
  PROVE  WriteMoves(req)
<1>1. /\ ff_mem_write_req = <<>> /\ rg_tree_burst_count = 0
      /\ wr_addr = <<>> /\ wr_data = <<>> /\ wr_beat = 0
      /\ wr_resp = <<TRUE>> /\ ff_mem_write_resp = <<>>
      /\ dram[req.address] = req.data
  BY DEF rl_handle_tree_write_resp, NotEmpty, Writing, WriteBurst, WriteDone
<1>2. wr_resp' = <<>> /\ ff_mem_write_resp' = <<TRUE>>
  BY <1>1, OneEntry DEF rl_handle_tree_write_resp
<1>3. UNCHANGED <<unitFifos, readFifos, ff_mem_write_req, boot, acc, rg_tree_burst_count,
                  busRead, wr_addr, wr_data, mem, unit>>
  BY DEF rl_handle_tree_write_resp
<1>4. Writing(req)'
  BY <1>1, <1>2, <1>3 DEF Writing, WriteDone
<1>5. TypeOK'
  BY <1>3 DEF TypeOK
<1>6. dram' = dram /\ (on_its_way(req)' <=> on_its_way(req))
  BY <1>1, <1>3 DEF on_its_way
<1> QED BY <1>3, <1>4, <1>5, <1>6 DEF WriteMoves

LEMMA WriteLands ==
  ASSUME LayoutAssumption, StoreAssumption, NEW req \in WriteReq, TypeOK, Writing(req),
         MemWriteBeat
  PROVE  WriteMoves(req)
<1> DEFINE b == write_burst(req)
           w == wr_beat
           off == req.address % Arity
           last == w = Arity - 1
<1>1. /\ ff_mem_write_req = <<req>> \/ (ff_mem_write_req = <<>> /\ rg_tree_burst_count = 0)
      /\ w \in 0..sent - 1 /\ sent \in 1..Arity
      /\ wr_data = SubSeq(b, w + 1, sent) /\ wr_addr = <<aligned(req.address)>>
      /\ wr_resp = <<>> /\ ff_mem_write_resp = <<>>
      /\ w > off => dram[req.address] = req.data
      /\ w \in Pos /\ dram \in [DramAddr -> Word]
      /\ b \in Seq(Beat) /\ Len(b) = Arity /\ Arity >= 2 /\ Arity \in Nat
      /\ \A k \in 1..Arity : b[k] = write_beat(req, k - 1)
  <2>1. wr_addr # <<>> /\ wr_data # <<>>
    BY DEF MemWriteBeat, NotEmpty
  <2>2. WriteBurst(req)
    BY <2>1 DEF Writing, WriteDone
  <2>3. /\ b \in Seq(Beat) /\ Len(b) = Arity /\ Arity >= 2 /\ Arity \in Nat
        /\ \A k \in 1..Arity : b[k] = write_beat(req, k - 1)
    BY WriteBeats, Shape
  <2>4. sent \in 1..Arity /\ w \in 0..sent
    BY <2>1, <2>2, <2>3 DEF WriteBurst, sent, TypeOK, Pos
  <2>5. w # sent
    <3> HIDE DEF b, w
    <3>1. w \in 0..Len(b) /\ sent \in w..Len(b)
      BY <2>3, <2>4
    <3>2. wr_data = SubSeq(b, w + 1, sent)
      BY <2>2 DEF WriteBurst, b, w
    <3> QED BY <2>1, <2>3, <3>1, <3>2, Span
  <2>6. w \in 0..sent - 1
    BY <2>3, <2>4, <2>5
  <2> QED BY <2>1, <2>2, <2>3, <2>4, <2>6 DEF WriteBurst, TypeOK
<1>2. Head(wr_data) = write_beat(req, w) /\ wr_data' = SubSeq(b, (w + 1) + 1, sent)
  <2> HIDE DEF b, w
  <2>1. w \in 0..Len(b) /\ sent \in w..Len(b) /\ w < sent /\ w + 1 \in 1..Arity
        /\ (w + 1) - 1 = w
    BY <1>1
  <2>2. wr_data' = Tail(wr_data)
    BY DEF MemWriteBeat
  <2>3. Head(wr_data) = b[w + 1] /\ Tail(wr_data) = SubSeq(b, (w + 1) + 1, sent)
    BY <1>1, <2>1, SpanTakes
  <2> QED BY <1>1, <2>1, <2>2, <2>3
<1>3. /\ write_beat(req, w).strb <=> w = off
      /\ write_beat(req, w).last <=> last
      /\ w = off => write_beat(req, w).data = req.data
  BY DEF write_beat
<1>4. Head(wr_addr) = aligned(req.address) /\ Tail(wr_addr) = <<>>
  BY <1>1, OneEntry
<1>5. dram' = IF w = off THEN [dram EXCEPT ![req.address] = req.data] ELSE dram
  <2>1. dram' = IF Head(wr_data).strb
                THEN [dram EXCEPT ![Head(wr_addr) + w] = Head(wr_data).data] ELSE dram
    BY DEF MemWriteBeat
  <2> HIDE DEF w
  <2>2. w = off => aligned(req.address) + w = req.address
    BY Offset
  <2> QED BY <1>2, <1>3, <1>4, <2>1, <2>2
<1>6. /\ wr_beat' = IF last THEN 0 ELSE w + 1
      /\ wr_addr' = IF last THEN <<>> ELSE <<aligned(req.address)>>
      /\ wr_resp' = IF last THEN <<TRUE>> ELSE <<>>
  <2>1. /\ wr_beat' = IF Head(wr_data).last THEN 0 ELSE wr_beat + 1
        /\ wr_addr' = IF Head(wr_data).last THEN Tail(wr_addr) ELSE wr_addr
        /\ wr_resp' = IF Head(wr_data).last THEN Append(wr_resp, TRUE) ELSE wr_resp
    BY DEF MemWriteBeat
  <2> QED BY <1>1, <1>2, <1>3, <1>4, <2>1, OneEntry
<1>7. UNCHANGED <<unitFifos, readFifos, writeFifos, boot, acc, rg_tree_burst_count,
                  busRead, rd_beat, unit>>
  BY DEF MemWriteBeat
<1>8. off \in 0..Arity-1 /\ req.address \in DramAddr /\ req.data \in Word
  BY Offset
<1>9. dram' \in [DramAddr -> Word] /\ (w >= off => dram'[req.address] = req.data)
  BY <1>1, <1>5, <1>8
<1>10. Writing(req)'
  <2>1. CASE last
    <3>1. ff_mem_write_req = <<>> /\ rg_tree_burst_count = 0 /\ sent = Arity
      BY <1>1, <2>1, OneEntry DEF sent, TypeOK, Pos
    <3>2. wr_data' = <<>>
      <4> HIDE DEF b, w
      <4>1. (w + 1) + 1 \in Int /\ sent \in Int /\ sent < (w + 1) + 1
        BY <1>1, <2>1, <3>1 DEF last
      <4> QED BY <1>2, <4>1, SubSeqEmpty
    <3>3. dram'[req.address] = req.data
      BY <1>8, <1>9, <2>1
    <3>4. WriteDone(req)'
      BY <1>1, <1>6, <1>7, <2>1, <3>1, <3>2, <3>3 DEF WriteDone
    <3> QED BY <3>4 DEF Writing
  <2>2. CASE ~last
    <3>1. sent' = sent
      BY <1>7 DEF sent
    <3>2. w + 1 <= sent /\ (w + 1 > off => dram'[req.address] = req.data) /\ sent # 0
      BY <1>1, <1>8, <1>9
    <3>3. wr_beat' = w + 1 /\ wr_addr' = <<aligned(req.address)>> /\ wr_resp' = <<>>
      BY <1>6, <2>2
    <3> HIDE DEF b, w, last
    <3>4. WriteBurst(req)'
      BY <1>1, <1>2, <1>7, <3>1, <3>2, <3>3 DEF WriteBurst, b
    <3> QED BY <3>4 DEF Writing
  <2> QED BY <2>1, <2>2
<1>11. TypeOK'
  <2>1. wr_beat' \in Pos
    BY <1>1, <1>6 DEF Pos
  <2> QED BY <1>7, <1>9, <2>1 DEF TypeOK
<1>12. IF w = off THEN on_its_way(req) /\ ~on_its_way(req)'
                  ELSE on_its_way(req)' <=> on_its_way(req)
  <2>1. on_its_way(req) <=> w <= off
    BY <1>1, OneEntry DEF on_its_way
  <2>2. CASE last
    <3>1. ff_mem_write_req' = <<>> /\ wr_addr' = <<>>
      BY <1>1, <1>6, <1>7, <2>2, OneEntry DEF sent, TypeOK, Pos
    <3> QED BY <1>1, <1>8, <2>1, <2>2, <3>1 DEF on_its_way
  <2>3. CASE ~last
    <3>1. wr_beat' = w + 1 /\ wr_addr' # <<>>
      BY <1>6, <2>3, OneEntry
    <3> QED BY <1>1, <1>8, <2>1, <3>1 DEF on_its_way
  <2> QED BY <2>2, <2>3
<1> QED BY <1>5, <1>7, <1>10, <1>11, <1>12 DEF WriteMoves

(* While it is being written, a node is stale until its beat has landed.   *)
LEMMA UnderWay ==
  ASSUME LayoutAssumption, StoreAssumption, NEW req \in WriteReq, TypeOK, Writing(req),
         ff_tree_write = <<>>
  PROVE  WriteUnderWay <=> on_its_way(req)
<1> DEFINE b == write_burst(req)
           w == wr_beat
           off == req.address % Arity
<1>1. CASE WriteDone(req)
  <2>1. ff_mem_write_req = <<>> /\ wr_addr = <<>> /\ wr_data = <<>>
    BY <1>1 DEF WriteDone
  <2>2. DOMAIN wr_data = {}
    BY <2>1
  <2> QED BY <2>1, <2>2 DEF WriteUnderWay, on_its_way, NotEmpty
<1>2. CASE WriteBurst(req)
  <2>1. /\ b \in Seq(Beat) /\ Len(b) = Arity /\ Arity >= 2 /\ Arity \in Nat
        /\ \A k \in 1..Arity : b[k] = write_beat(req, k - 1)
        /\ off \in 0..Arity-1
    BY WriteBeats, Shape, Offset
  <2>2. sent \in 0..Arity /\ w \in 0..sent /\ w \in 0..Arity-1
    BY <1>2, <2>1 DEF WriteBurst, sent, TypeOK, Pos
  <2>3. wr_data = SubSeq(b, w + 1, sent)
    BY <1>2 DEF WriteBurst
  <2>4. /\ wr_data \in Seq(Beat) /\ Len(wr_data) = sent - w
        /\ \A k \in 1..sent - w : wr_data[k] = b[w + k]
    <3> HIDE DEF b, w
    <3>1. w \in 0..Len(b) /\ sent \in w..Len(b)
      BY <2>1, <2>2
    <3>2. b \in Seq(Beat)
      BY <2>1
    <3>3. /\ SubSeq(b, w + 1, sent) \in Seq(Beat)
          /\ Len(SubSeq(b, w + 1, sent)) = sent - w
          /\ \A k \in 1..sent - w : SubSeq(b, w + 1, sent)[k] = b[w + k]
      <4> HIDE DEF b, w, sent, Beat
      <4> QED BY <3>1, <3>2, Span
    <3> QED BY <2>3, <3>3
  <2>5. DOMAIN wr_data = 1..sent - w
    BY <2>4, LenProperties
  <2>6. \A k \in 1..sent - w : wr_data[k].strb <=> (w + k) - 1 = off
    <3> SUFFICES ASSUME NEW k \in 1..sent - w PROVE wr_data[k].strb <=> (w + k) - 1 = off
      OBVIOUS
    <3>1. w + k \in 1..Arity
      BY <2>1, <2>2
    <3>2. write_beat(req, (w + k) - 1).strb <=> (w + k) - 1 = off
      BY DEF write_beat
    <3> HIDE DEF b, w, off
    <3>3. wr_data[k] = write_beat(req, (w + k) - 1)
      BY <2>1, <2>4, <3>1
    <3> QED BY <3>2, <3>3
  <2>7. (\E k \in DOMAIN wr_data : wr_data[k].strb) <=> (w <= off /\ off < sent)
    <3>1. ASSUME NEW k \in 1..sent - w, wr_data[k].strb PROVE w <= off /\ off < sent
      <4>1. (w + k) - 1 = off
        BY <2>6, <3>1
      <4> QED BY <2>1, <2>2, <4>1
    <3>2. ASSUME w <= off, off < sent PROVE \E k \in DOMAIN wr_data : wr_data[k].strb
      <4> HIDE DEF w, off
      <4>1. (off - w) + 1 \in 1..sent - w /\ (w + ((off - w) + 1)) - 1 = off
        BY <2>1, <2>2, <3>2
      <4> QED BY <2>5, <2>6, <4>1
    <3> QED BY <2>5, <3>1, <3>2
  <2>8. CASE ff_mem_write_req = <<req>>
    <3>1. ff_mem_write_req # <<>> /\ Head(ff_mem_write_req) = req
      BY <2>8, OneEntry
    <3>2. sent = rg_tree_burst_count
      BY <3>1 DEF sent
    <3>3. WriteUnderWay <=> (sent <= off \/ (w <= off /\ off < sent))
      BY <2>7, <3>1, <3>2 DEF WriteUnderWay, NotEmpty
    <3>4. on_its_way(req) <=> w <= off
      BY <3>1 DEF on_its_way
    <3> QED BY <2>1, <2>2, <3>3, <3>4
  <2>9. CASE ff_mem_write_req = <<>>
    <3>1. sent = Arity
      BY <2>9 DEF sent
    <3>2. wr_addr # <<>>
      BY <1>2, <2>1, <3>1, OneEntry DEF WriteBurst
    <3>3. WriteUnderWay <=> (w <= off /\ off < sent)
      BY <2>7, <2>9 DEF WriteUnderWay, NotEmpty
    <3>4. on_its_way(req) <=> w <= off
      BY <3>2 DEF on_its_way
    <3> QED BY <2>1, <3>1, <3>3, <3>4
  <2> QED BY <1>2, <2>8, <2>9 DEF WriteBurst
<1> QED BY <1>1, <1>2 DEF Writing

LEMMA WriteRests ==
  ASSUME WriteIdle
  PROVE  /\ ~rl_handle_tree_write_request /\ ~rl_tree_burst_write_data
         /\ ~rl_handle_tree_write_resp /\ ~MemWriteBeat
         /\ ~rl_init_ack /\ ~rl_process_write_resp
<1> QED
  BY DEF WriteIdle, NotEmpty, rl_handle_tree_write_request, rl_tree_burst_write_data,
         rl_handle_tree_write_resp, MemWriteBeat, rl_init_ack, rl_process_write_resp

-----------------------------------------------------------------------------
(* A read burst.                                                           *)
GroupAt(addr) == addr \in Nat /\ \A k \in Pos : addr + k \in DramAddr
Filled == [data : Word, last : BOOLEAN]

LEMMA ReadBeats ==
  ASSUME NEW addr, GroupAt(addr), TypeOK
  PROVE  /\ read_burst(addr) \in Seq(Filled) /\ Len(read_burst(addr)) = Arity
         /\ \A c \in Pos : read_burst(addr)[c + 1]
                             = [data |-> dram[addr + c], last |-> c = Arity - 1]
<1> DEFINE b == read_burst(addr)
           beat(k) == [data |-> dram[addr + (k - 1)], last |-> k - 1 = Arity - 1]
<1>1. Arity \in Nat
  BY Shape
<1>2. ASSUME NEW k \in 1..Arity PROVE beat(k) \in Filled
  <2>1. k - 1 \in Pos
    BY <1>1 DEF Pos
  <2>2. dram[addr + (k - 1)] \in Word
    BY <2>1 DEF GroupAt, TypeOK
  <2> QED BY <2>2 DEF Filled
<1>3. b = [k \in 1..Arity |-> beat(k)]
  BY DEF read_burst
<1>4. b \in Seq(Filled) /\ Len(b) = Arity
  <2> HIDE DEF beat, b
  <2>1. b \in [1..Arity -> Filled]
    BY <1>2, <1>3
  <2> QED BY <1>1, <2>1
<1>5. ASSUME NEW c \in Pos
      PROVE b[c + 1] = [data |-> dram[addr + c], last |-> c = Arity - 1]
  <2>1. c + 1 \in 1..Arity /\ (c + 1) - 1 = c
    BY <1>1 DEF Pos
  <2>2. b[c + 1] = beat(c + 1)
    BY <1>3, <2>1
  <2> QED BY <2>1, <2>2
<1> QED BY <1>4, <1>5

ReadMoves(addr) ==
  /\ Reading(addr)' /\ TypeOK'
  /\ UNCHANGED <<unitFifos, writeFifos, boot, rg_tree_burst_count, busWrite, dram, wr_beat,
                 unit>>

LEMMA ReadSends ==
  ASSUME NEW addr, GroupAt(addr), TypeOK, Reading(addr), rl_handle_tree_read_request
  PROVE  ReadMoves(addr)
<1> DEFINE b == read_burst(addr)
<1>1. /\ ff_mem_read_req = <<addr>> /\ ff_mem_read_resp = <<>> /\ rg_processing_read
      /\ rd_addr = <<>> /\ rd_data = <<>> /\ rd_beat = 0
      /\ rg_beat_count = 0 /\ rg_acc_hashes = <<>>
  BY DEF rl_handle_tree_read_request, NotEmpty, Reading, ReadAsked, ReadBurst
<1>2. rd_addr' = <<addr>> /\ ff_mem_read_req' = <<>>
  BY <1>1, OneEntry DEF rl_handle_tree_read_request
<1>3. UNCHANGED <<unitFifos, ff_mem_read_resp, writeFifos, boot, acc,
                  rg_tree_burst_count, rd_data, busWrite, mem, unit>>
  BY DEF rl_handle_tree_read_request
<1>4. drawn' = 0
  BY <1>1, <1>2, <1>3, OneEntry DEF drawn
<1>5. read_burst(addr)' = b
  BY <1>3 DEF read_burst
<1>6. SubSeq(b, 0 + 1, 0) = <<>>
  BY SubSeqEmpty
<1>7. rg_acc_hashes' = [k \in 0..rg_beat_count' - 1 |-> dram'[addr + k]]
  <2>1. 0..0 - 1 = {}
    OBVIOUS
  <2>2. rg_acc_hashes' = <<>> /\ rg_beat_count' = 0
    BY <1>1, <1>3
  <2> QED BY <2>1, <2>2
<1>8. Reading(addr)'
  <2> HIDE DEF b
  <2>1. ReadBurst(addr)'
    BY <1>1, <1>2, <1>3, <1>4, <1>5, <1>6, <1>7 DEF ReadBurst
  <2> QED BY <1>1, <1>3, <2>1 DEF Reading
<1>9. TypeOK'
  BY <1>3 DEF TypeOK
<1> QED BY <1>3, <1>8, <1>9 DEF ReadMoves

LEMMA ReadDraws ==
  ASSUME NEW addr, GroupAt(addr), TypeOK, Reading(addr), MemReadBeat
  PROVE  ReadMoves(addr)
<1> DEFINE b == read_burst(addr)
           d == rd_beat
           c == rg_beat_count
<1>1. rd_addr # <<>> /\ rg_processing_read /\ ReadBurst(addr)
  BY DEF MemReadBeat, NotEmpty, Reading, ReadAsked
<1>2. ff_mem_read_req = <<>> /\ rd_addr = <<addr>> /\ drawn = d
      /\ rg_acc_hashes = [k \in 0..c - 1 |-> dram[addr + k]]
  BY <1>1 DEF ReadBurst, drawn
<1>3. PICK given \in c..d : /\ ff_mem_read_resp = SubSeq(b, c + 1, given)
                            /\ rd_data = SubSeq(b, given + 1, d)
  BY <1>1, <1>2 DEF ReadBurst
<1>4. /\ c \in Pos /\ d \in Pos /\ given \in Nat /\ given <= d /\ Arity \in Nat
      /\ b \in Seq(Filled) /\ Len(b) = Arity
      /\ b[d + 1] = [data |-> dram[addr + d], last |-> d = Arity - 1]
  <2>1. c \in Pos /\ d \in Pos /\ Arity \in Nat
    BY Shape DEF TypeOK
  <2>2. given \in Nat /\ given <= d
    BY <1>3, <2>1 DEF Pos
  <2> QED BY <2>1, <2>2, ReadBeats
<1>5. Head(rd_addr) = addr /\ Tail(rd_addr) = <<>>
  BY <1>2, OneEntry
<1>6. rd_data' = SubSeq(b, given + 1, d + 1)
  <2>1. rd_data' = Append(rd_data, b[d + 1])
    BY <1>4, <1>5 DEF MemReadBeat
  <2> HIDE DEF b, d
  <2>2. given \in 0..Len(b) /\ d \in given..Len(b) /\ d < Len(b)
    BY <1>4 DEF Pos
  <2> QED BY <1>3, <1>4, <2>1, <2>2, SpanGrows
<1>7. IF d = Arity - 1 THEN rd_beat' = 0 /\ rd_addr' = <<>>
                       ELSE rd_beat' = d + 1 /\ rd_addr' = <<addr>>
  BY <1>2, <1>5 DEF MemReadBeat
<1>8. UNCHANGED <<unitFifos, readFifos, writeFifos, boot, acc, rg_tree_burst_count,
                  busWrite, dram, wr_beat, unit>>
  BY DEF MemReadBeat
<1>9. drawn' = d + 1 /\ rd_beat' \in Pos
  <2>1. CASE d = Arity - 1
    <3>1. drawn' = Arity
      BY <1>7, <2>1 DEF drawn
    <3> QED BY <1>4, <1>7, <2>1, <3>1 DEF Pos
  <2>2. CASE d # Arity - 1
    <3>1. drawn' = d + 1
      BY <1>7, <2>2, OneEntry DEF drawn
    <3> QED BY <1>4, <1>7, <2>2, <3>1 DEF Pos
  <2> QED BY <2>1, <2>2
<1>10. read_burst(addr)' = b
  BY <1>8 DEF read_burst
<1>11. Reading(addr)'
  <2> HIDE DEF b
  <2>1. rd_addr' = <<addr>> \/ (rd_addr' = <<>> /\ rd_beat' = 0)
    BY <1>7
  <2>2. given \in c..d + 1
    BY <1>3, <1>4 DEF Pos
  <2>3. ReadBurst(addr)'
    BY <1>2, <1>3, <1>6, <1>8, <1>9, <1>10, <2>1, <2>2 DEF ReadBurst
  <2> QED BY <1>1, <1>8, <2>3 DEF Reading
<1>12. TypeOK'
  BY <1>8, <1>9 DEF TypeOK
<1> QED BY <1>8, <1>11, <1>12 DEF ReadMoves

LEMMA ReadPasses ==
  ASSUME NEW addr, GroupAt(addr), TypeOK, Reading(addr), rl_handle_tree_read_resp
  PROVE  ReadMoves(addr)
<1> DEFINE b == read_burst(addr)
           c == rg_beat_count
<1>1. rd_data # <<>> /\ rg_processing_read /\ ReadBurst(addr)
  BY DEF rl_handle_tree_read_resp, NotEmpty, Reading, ReadAsked
<1>2. /\ ff_mem_read_req = <<>>
      /\ rd_addr = <<addr>> \/ (rd_addr = <<>> /\ rd_beat = 0)
      /\ rg_acc_hashes = [k \in 0..c - 1 |-> dram[addr + k]]
  BY <1>1 DEF ReadBurst
<1>3. PICK given \in c..drawn : /\ ff_mem_read_resp = SubSeq(b, c + 1, given)
                                /\ rd_data = SubSeq(b, given + 1, drawn)
  BY <1>1 DEF ReadBurst
<1>4. /\ c \in Pos /\ Arity \in Nat /\ b \in Seq(Filled) /\ Len(b) = Arity
      /\ drawn \in 0..Arity /\ given \in 0..drawn
  <2>1. c \in Pos /\ rd_beat \in Pos /\ Arity \in Nat
    BY Shape DEF TypeOK
  <2>2. drawn \in 0..Arity
    BY <2>1 DEF Pos, drawn
  <2>3. given \in 0..drawn
    BY <1>3, <2>1, <2>2 DEF Pos
  <2> QED BY <2>1, <2>2, <2>3, ReadBeats
<1>5. given \in 0..Len(b) /\ drawn \in given..Len(b) /\ c \in 0..Len(b) /\ given \in c..Len(b)
  BY <1>3, <1>4 DEF Pos
<1>6. given < drawn
  <2>1. given # drawn
    <3> HIDE DEF b
    <3> QED BY <1>1, <1>3, <1>4, <1>5, Span
  <2> QED BY <1>4, <2>1
<1>7. /\ rd_data' = SubSeq(b, (given + 1) + 1, drawn)
      /\ ff_mem_read_resp' = SubSeq(b, c + 1, given + 1)
  <2>1. rd_data' = Tail(rd_data) /\ ff_mem_read_resp' = Append(ff_mem_read_resp, Head(rd_data))
    BY DEF rl_handle_tree_read_resp
  <2> HIDE DEF b, c
  <2>2. Head(rd_data) = b[given + 1] /\ Tail(rd_data) = SubSeq(b, (given + 1) + 1, drawn)
    BY <1>3, <1>4, <1>5, <1>6, SpanTakes
  <2>3. given < Len(b)
    BY <1>4, <1>6
  <2>4. Append(SubSeq(b, c + 1, given), b[given + 1]) = SubSeq(b, c + 1, given + 1)
    BY <1>4, <1>5, <2>3, SpanGrows
  <2> QED BY <1>3, <2>1, <2>2, <2>4
<1>8. UNCHANGED <<unitFifos, ff_mem_read_req, writeFifos, boot, acc,
                  rg_tree_burst_count, rd_addr, busWrite, mem, unit>>
  BY DEF rl_handle_tree_read_resp
<1>9. read_burst(addr)' = b /\ drawn' = drawn
  BY <1>8 DEF read_burst, drawn
<1>10. Reading(addr)'
  <2> HIDE DEF b
  <2>1. given + 1 \in c..drawn
    BY <1>3, <1>4, <1>6 DEF Pos
  <2>2. ReadBurst(addr)'
    BY <1>2, <1>7, <1>8, <1>9, <2>1 DEF ReadBurst
  <2> QED BY <1>1, <1>8, <2>2 DEF Reading
<1>11. TypeOK'
  BY <1>8 DEF TypeOK
<1> QED BY <1>8, <1>10, <1>11 DEF ReadMoves

LEMMA ReadCollects ==
  ASSUME NEW addr, GroupAt(addr), TypeOK, Reading(addr), rl_process_read_resp,
         ff_tree_resp = <<>>
  PROVE  /\ TypeOK'
         /\ UNCHANGED <<ff_tree_req, ff_tree_write, ff_tree_write_resp, writeFifos, boot,
                        rg_tree_burst_count, busWrite, mem, unit>>
         /\ \/ ff_tree_resp' = <<>> /\ Reading(addr)'
            \/ ff_tree_resp' = <<words(addr)>> /\ ReadIdle'
<1> DEFINE b == read_burst(addr)
           c == rg_beat_count
           got == collected(Head(ff_mem_read_resp).data)
<1>1. ff_mem_read_resp # <<>> /\ rg_processing_read /\ ReadBurst(addr)
  BY DEF rl_process_read_resp, NotEmpty, Reading, ReadAsked
<1>2. /\ ff_mem_read_req = <<>>
      /\ rd_addr = <<addr>> \/ (rd_addr = <<>> /\ rd_beat = 0)
      /\ rg_acc_hashes = [k \in 0..c - 1 |-> dram[addr + k]]
  BY <1>1 DEF ReadBurst
<1>3. PICK given \in c..drawn : /\ ff_mem_read_resp = SubSeq(b, c + 1, given)
                                /\ rd_data = SubSeq(b, given + 1, drawn)
  BY <1>1 DEF ReadBurst
<1>4. /\ c \in Pos /\ c \in Nat /\ Arity \in Nat /\ Arity <= 16 /\ rd_beat \in Pos
      /\ drawn \in 0..Arity /\ given \in 0..drawn
      /\ b \in Seq(Filled) /\ Len(b) = Arity
      /\ b[c + 1] = [data |-> dram[addr + c], last |-> c = Arity - 1]
  <2>1. c \in Pos /\ rd_beat \in Pos /\ Arity \in Nat /\ Arity <= 16
    BY Shape DEF TypeOK
  <2>2. drawn \in 0..Arity
    BY <2>1 DEF Pos, drawn
  <2>3. c \in Nat /\ given \in 0..drawn
    BY <1>3, <2>1, <2>2 DEF Pos
  <2> QED BY <2>1, <2>2, <2>3, ReadBeats
<1>5. c \in 0..Len(b) /\ given \in c..Len(b)
  BY <1>3, <1>4 DEF Pos
<1>6. c < given
  <2>1. c # given
    <3> HIDE DEF b, c
    <3> QED BY <1>1, <1>3, <1>4, <1>5, Span
  <2> QED BY <1>3, <1>4, <2>1
<1>7. /\ Head(ff_mem_read_resp) = [data |-> dram[addr + c], last |-> c = Arity - 1]
      /\ ff_mem_read_resp' = SubSeq(b, (c + 1) + 1, given)
  <2>1. ff_mem_read_resp' = Tail(ff_mem_read_resp)
    BY DEF rl_process_read_resp
  <2> HIDE DEF b, c
  <2>2. /\ Head(ff_mem_read_resp) = b[c + 1]
        /\ Tail(ff_mem_read_resp) = SubSeq(b, (c + 1) + 1, given)
    BY <1>3, <1>4, <1>5, <1>6, SpanTakes
  <2> QED BY <1>4, <2>1, <2>2
<1>8. got = [k \in 0..c |-> dram[addr + k]]
  <2>1. Head(ff_mem_read_resp).data = dram[addr + c]
    BY <1>7
  <2>2. DOMAIN rg_acc_hashes = 0..c - 1
    BY <1>2
  <2>3. (0..c - 1) \cup {c} = 0..c
    BY <1>4
  <2>4. got = [k \in 0..c |-> IF k = c THEN dram[addr + c] ELSE rg_acc_hashes[k]]
    BY <2>1, <2>2, <2>3 DEF collected
  <2>5. \A k \in 0..c : k # c => rg_acc_hashes[k] = dram[addr + k]
    BY <1>2, <1>4
  <2> HIDE DEF got
  <2> QED BY <2>4, <2>5
<1>9. UNCHANGED <<ff_tree_req, ff_tree_write, ff_tree_write_resp, ff_mem_read_req,
                  writeFifos, boot, rg_tree_burst_count, busRead, busWrite, mem, unit>>
  BY DEF rl_process_read_resp
<1>10. rg_acc_hashes' = got
  BY DEF rl_process_read_resp
<1>11. Head(ff_mem_read_resp).last <=> c = Arity - 1
  <2>1. [data |-> dram[addr + c], last |-> c = Arity - 1].last <=> c = Arity - 1
    OBVIOUS
  <2>2. Head(ff_mem_read_resp).last = [data |-> dram[addr + c], last |-> c = Arity - 1].last
    BY <1>7
  <2> QED BY <2>1, <2>2
<1>12. CASE c = Arity - 1
  <2>1. Head(ff_mem_read_resp).last
    BY <1>12, <1>11
  <2>2. ff_tree_resp' = <<got>> /\ rg_processing_read' = FALSE /\ rg_beat_count' = c
    BY <2>1, OneEntry DEF rl_process_read_resp, read_done
  <2>3. got = words(addr)
    BY <1>8, <1>12 DEF words, Pos
  <2>4. given = Arity /\ drawn = Arity
    BY <1>4, <1>6, <1>12
  <2>5. rd_addr = <<>> /\ rd_beat = 0
    <3>1. drawn # rd_beat
      BY <1>4, <2>4 DEF Pos
    <3> QED BY <1>2, <3>1, OneEntry DEF drawn
  <2>6. ff_mem_read_resp' = <<>> /\ rd_data = <<>>
    <3> HIDE DEF b
    <3>1. SubSeq(b, (c + 1) + 1, given) = <<>>
      BY <1>4, <1>12, <2>4, SubSeqEmpty
    <3>2. SubSeq(b, given + 1, drawn) = <<>>
      BY <1>4, <2>4, SubSeqEmpty
    <3> QED BY <1>3, <1>7, <3>1, <3>2
  <2>7. ReadIdle'
    BY <1>2, <1>9, <2>2, <2>5, <2>6 DEF ReadIdle
  <2>8. TypeOK'
    <3>1. DOMAIN rg_acc_hashes' = Pos
      BY <1>8, <1>10, <1>12 DEF Pos
    <3> QED BY <1>9, <2>2, <3>1 DEF TypeOK
  <2> QED BY <1>9, <2>2, <2>3, <2>7, <2>8
<1>13. CASE c # Arity - 1
  <2>1. ~Head(ff_mem_read_resp).last
    BY <1>13, <1>11
  <2>2. UNCHANGED <<ff_tree_resp, rg_processing_read>> /\ rg_beat_count' = (c + 1) % 16
    BY <2>1 DEF rl_process_read_resp
  <2>3. c + 1 \in Pos /\ c + 1 < 16
    BY <1>4, <1>13 DEF Pos
  <2>4. rg_beat_count' = c + 1
    BY <1>4, <2>2, <2>3
  <2>5. rg_acc_hashes' = [k \in 0..rg_beat_count' - 1 |-> dram'[addr + k]]
    <3>1. (c + 1) - 1 = c
      BY <1>4
    <3> QED BY <1>8, <1>9, <1>10, <2>4, <3>1
  <2>6. read_burst(addr)' = b /\ drawn' = drawn
    BY <1>9 DEF read_burst, drawn
  <2>7. Reading(addr)'
    <3> HIDE DEF b, c
    <3>1. given \in c + 1..drawn
      BY <1>4, <1>6
    <3>2. ReadBurst(addr)'
      BY <1>2, <1>3, <1>7, <1>9, <2>4, <2>5, <2>6, <3>1 DEF ReadBurst
    <3> QED BY <1>1, <2>2, <3>2 DEF Reading
  <2>8. TypeOK'
    <3>1. DOMAIN rg_acc_hashes' \subseteq Pos
      BY <1>4, <1>8, <1>10 DEF Pos
    <3> QED BY <1>9, <2>2, <2>3, <2>4, <3>1 DEF TypeOK
  <2> QED BY <1>9, <2>2, <2>7, <2>8
<1> QED BY <1>12, <1>13

LEMMA ReadRests ==
  ASSUME ReadIdle
  PROVE  /\ ~rl_handle_tree_read_request /\ ~rl_handle_tree_read_resp /\ ~MemReadBeat
         /\ ~rl_process_read_resp
<1> QED
  BY DEF ReadIdle, NotEmpty, rl_handle_tree_read_request, rl_handle_tree_read_resp,
         MemReadBeat, rl_process_read_resp

-----------------------------------------------------------------------------
(* What the unit sees.                                                     *)
Assumptions == LayoutAssumption /\ StoreAssumption /\ NothingAssumption

LEMMA Kinds ==
  ASSUME NothingAssumption
  PROVE  /\ \A op \in ReadOp : ~Store!isWrite(op) /\ op \notin WriteOp /\ op # Nothing
         /\ \A op \in WriteOp : Store!isWrite(op) /\ op \notin ReadOp /\ op # Nothing
         /\ TRUE # Nothing /\ \A f \in [Pos -> Word] : f # Nothing
<1>1. \A op \in ReadOp : "hash" \notin DOMAIN op
  BY DEF ReadOp
<1>2. \A op \in WriteOp : "hash" \in DOMAIN op
  BY DEF WriteOp
<1> QED BY <1>1, <1>2 DEF NothingAssumption, Store!isWrite

LEMMA Requests ==
  ASSUME LayoutAssumption, StoreAssumption, TypeOK
  PROVE  /\ zero_write \in WriteReq
         /\ waiting \in WriteOp =>
              /\ node_write \in WriteReq
              /\ waiting.level \in MemLevels /\ waiting.index \in NodesOf(waiting.level)
              /\ waiting.hash \in Word
         /\ waiting \in ReadOp => GroupAt(base_addr)
<1>1. zero_write \in WriteReq
  <2>1. ProtectedBase + rg_init_count \in DramAddr
    BY Layout DEF TypeOK
  <2> QED BY <2>1 DEF zero_write, WriteReq, StoreAssumption
<1>2. ASSUME waiting \in WriteOp
      PROVE  /\ node_write \in WriteReq
             /\ waiting.level \in MemLevels /\ waiting.index \in NodesOf(waiting.level)
             /\ waiting.hash \in Word
  <2>1. /\ waiting.level \in MemLevels /\ waiting.index \in NodesOf(waiting.level)
        /\ waiting.hash \in Word
    BY <1>2 DEF WriteOp
  <2>2. node_addr \in DramAddr
    BY <2>1, NodeAddr DEF node_addr
  <2> QED BY <2>1, <2>2 DEF node_write, WriteReq
<1>3. ASSUME waiting \in ReadOp PROVE GroupAt(base_addr)
  BY <1>3, GroupAddr DEF GroupAt, base_addr
<1> QED BY <1>1, <1>2, <1>3

store_tree ==
  [n \in MemNode |-> IF rg_mem_initialized THEN dram[get_node_addr(n[1], n[2])] ELSE Zero]
store_asked ==
  IF waiting = Nothing THEN Nothing
  ELSE IF waiting \in WriteOp
  THEN IF WriteUnderWay THEN waiting ELSE Nothing
  ELSE IF NotEmpty(ff_tree_resp) THEN Nothing ELSE waiting
store_answer ==
  IF waiting = Nothing THEN Nothing
  ELSE IF waiting \in WriteOp
  THEN IF WriteUnderWay THEN Nothing ELSE TRUE
  ELSE IF NotEmpty(ff_tree_resp) THEN Head(ff_tree_resp) ELSE Nothing

StoreStep == [Store!Next]_(Store!vars)

LEMMA StoreStutters ==
  ASSUME store_tree' = store_tree, store_asked' = store_asked, store_answer' = store_answer
  PROVE  StoreStep
<1>1. Store!vars = <<store_tree, store_asked, store_answer>>
  BY DEF Store!vars, store_tree, store_asked, store_answer
<1>2. Store!vars' = <<store_tree', store_asked', store_answer'>>
  BY DEF Store!vars, store_tree, store_asked, store_answer
<1> QED BY <1>1, <1>2 DEF StoreStep

LEMMA StoreAsks ==
  ASSUME NEW op \in ReadOp \cup WriteOp,
         store_asked = Nothing, store_answer = Nothing, store_asked' = op,
         store_tree' = store_tree, store_answer' = store_answer
  PROVE  StoreStep
<1>1. Store!Ask(op)
  BY DEF Store!Ask, store_tree, store_asked, store_answer
<1>2. op \in Store!Op
  BY DEF Store!Op, Store!ReadOp, Store!WriteOp, ReadOp, WriteOp, Store!MemLevels, MemLevels,
         Store!NodesOf, NodesOf
<1> QED BY <1>1, <1>2 DEF StoreStep, Store!Next

LEMMA StoreServesRead ==
  ASSUME NothingAssumption, store_asked \in ReadOp,
         store_answer' = [k \in Pos |-> store_tree[<<store_asked.level,
                                                     store_asked.base_index + k>>]],
         store_asked' = Nothing, store_tree' = store_tree
  PROVE  StoreStep
<1>1. store_asked # Nothing /\ ~Store!isWrite(store_asked)
  BY Kinds
<1>2. Store!ServeRead
  BY <1>1 DEF Store!ServeRead, Store!isWrite, store_tree, store_asked, store_answer,
              Store!Pos, Pos
<1> QED BY <1>2 DEF StoreStep, Store!Next

LEMMA StoreServesWrite ==
  ASSUME NothingAssumption, store_asked \in WriteOp,
         store_tree' = [store_tree EXCEPT ![<<store_asked.level, store_asked.index>>]
                                            = store_asked.hash],
         store_answer' = TRUE, store_asked' = Nothing
  PROVE  StoreStep
<1>1. store_asked # Nothing /\ Store!isWrite(store_asked)
  BY Kinds
<1>2. Store!ServeWrite
  BY <1>1 DEF Store!ServeWrite, Store!isWrite, store_tree, store_asked, store_answer
<1> QED BY <1>2 DEF StoreStep, Store!Next

LEMMA StoreTakes ==
  ASSUME store_answer # Nothing, store_answer' = Nothing,
         store_tree' = store_tree, store_asked' = store_asked
  PROVE  StoreStep
<1>1. Store!Take
  BY DEF Store!Take, store_tree, store_asked, store_answer
<1> QED BY <1>1 DEF StoreStep, Store!Next

LEMMA QuietSeen ==
  NothingAssumption /\ (Resting \/ Asked) =>
    /\ store_asked = waiting /\ store_answer = Nothing
    /\ waiting \in WriteOp => WriteUnderWay
<1> SUFFICES ASSUME NothingAssumption, Resting \/ Asked
             PROVE  /\ store_asked = waiting /\ store_answer = Nothing
                    /\ waiting \in WriteOp => WriteUnderWay
  OBVIOUS
<1>1. CASE Resting
  BY <1>1, Kinds DEF Resting, store_asked, store_answer
<1>2. CASE Asked
  <2>1. waiting \in WriteOp => WriteUnderWay
    BY <1>2, Kinds, OneEntry DEF Asked, WriteUnderWay, NotEmpty
  <2> QED BY <1>2, <2>1, Kinds DEF Asked, NotEmpty, store_asked, store_answer
<1> QED BY <1>1, <1>2

(* The unit asks, before or after boot.                                    *)
LEMMA UnitAsksStep ==
  ASSUME Assumptions, TypeOK, Resting \/ Asked, UnitAsks
  PROVE  /\ TypeOK' /\ Asked' /\ StoreStep
         /\ UNCHANGED <<readFifos, writeFifos, boot, acc, rg_tree_burst_count, busRead,
                        busWrite, mem>>
<1>1. Resting
  BY Kinds DEF Assumptions, Asked, UnitAsks, put_req, put_write_req
<1>2. ASSUME NEW op \in ReadOp, put_req(op)
      PROVE  TypeOK' /\ Asked' /\ waiting' \in ReadOp \cup WriteOp
             /\ UNCHANGED <<readFifos, writeFifos, boot, acc, rg_tree_burst_count, busRead,
                            busWrite, mem>>
  <2>1. /\ waiting' = op /\ ops' = ops + 1 /\ ops < MaxOps
        /\ ff_tree_req' = <<op>>
        /\ UNCHANGED <<ff_tree_resp, ff_tree_write, ff_tree_write_resp, readFifos, writeFifos,
                       boot, acc, rg_tree_burst_count, busRead, busWrite, mem>>
    BY <1>1, <1>2, OneEntry DEF put_req, Resting
  <2>2. TypeOK'
    BY <2>1 DEF TypeOK, Assumptions, StoreAssumption
  <2>3. Asked'
    BY <1>1, <2>1 DEF Asked, Resting
  <2> QED BY <2>1, <2>2, <2>3
<1>3. ASSUME NEW op \in WriteOp, put_write_req(op)
      PROVE  TypeOK' /\ Asked' /\ waiting' \in ReadOp \cup WriteOp
             /\ UNCHANGED <<readFifos, writeFifos, boot, acc, rg_tree_burst_count, busRead,
                            busWrite, mem>>
  <2>1. /\ waiting' = op /\ ops' = ops + 1 /\ ops < MaxOps
        /\ ff_tree_write' = <<op>>
        /\ UNCHANGED <<ff_tree_req, ff_tree_resp, ff_tree_write_resp, readFifos, writeFifos,
                       boot, acc, rg_tree_burst_count, busRead, busWrite, mem>>
    BY <1>1, <1>3, OneEntry DEF put_write_req, Resting
  <2>2. TypeOK'
    BY <2>1 DEF TypeOK, Assumptions, StoreAssumption
  <2>3. Asked'
    BY <1>1, <2>1 DEF Asked, Resting
  <2> QED BY <2>1, <2>2, <2>3
<1>4. /\ TypeOK' /\ Asked' /\ waiting' \in ReadOp \cup WriteOp
      /\ UNCHANGED <<readFifos, writeFifos, boot, acc, rg_tree_burst_count, busRead,
                     busWrite, mem>>
  BY <1>2, <1>3 DEF UnitAsks
<1>5. StoreStep
  <2>1. NothingAssumption
    BY DEF Assumptions
  <2>2. store_asked = Nothing /\ store_answer = Nothing
    BY <1>1, <2>1, QuietSeen DEF Resting
  <2>3. (NothingAssumption /\ (Resting \/ Asked) =>
          /\ store_asked = waiting /\ store_answer = Nothing
          /\ waiting \in WriteOp => WriteUnderWay)'
    BY QuietSeen, PTL
  <2>4. store_asked' = waiting' /\ store_answer' = Nothing
    BY <1>4, <2>1, <2>3
  <2>5. store_tree' = store_tree
    BY <1>4 DEF store_tree
  <2>6. PICK op \in ReadOp \cup WriteOp : op = waiting'
    BY <1>4
  <2> QED BY <2>2, <2>4, <2>5, <2>6, StoreAsks
<1> QED BY <1>4, <1>5

-----------------------------------------------------------------------------
(* Boot.                                                                   *)
LEMMA BootingSeen ==
  Assumptions /\ TypeOK /\ (Resting \/ Asked) /\ ~rg_mem_initialized =>
    /\ store_tree = [n \in MemNode |-> Zero]
    /\ store_asked = waiting /\ store_answer = Nothing
<1> QED BY QuietSeen DEF Assumptions, store_tree

(* All steps of boot but the last are invisible.                           *)
LEMMA BootQuiet ==
  ASSUME Assumptions, TypeOK, Booting, IInv', Booting', UNCHANGED waiting
  PROVE  StoreStep
<1>1. (Assumptions /\ TypeOK /\ (Resting \/ Asked) /\ ~rg_mem_initialized =>
        /\ store_tree = [n \in MemNode |-> Zero]
        /\ store_asked = waiting /\ store_answer = Nothing)'
  BY BootingSeen, PTL
<1>2. Assumptions'
  BY DEF Assumptions, LayoutAssumption, StoreAssumption, NothingAssumption, TreeWords
<1>3. /\ store_tree' = [n \in MemNode |-> Zero]
      /\ store_asked' = waiting' /\ store_answer' = Nothing
  BY <1>1, <1>2 DEF IInv, Booting
<1>4. /\ store_tree = [n \in MemNode |-> Zero]
      /\ store_asked = waiting /\ store_answer = Nothing
  BY BootingSeen DEF Booting
<1> QED BY <1>3, <1>4, StoreStutters

LEMMA BootSends ==
  ASSUME Assumptions, TypeOK, Booting, rl_init_send
  PROVE  IInv' /\ Booting' /\ UNCHANGED waiting
<1>1. /\ ~rg_init_pending /\ WriteIdle
      /\ UNCHANGED <<unitFifos, readFifos, ff_mem_write_resp, rg_mem_initialized,
                     rg_init_count, acc, rg_tree_burst_count, busRead, busWrite, mem, unit>>
      /\ rg_init_pending' = TRUE
      /\ ff_mem_write_req' = <<zero_write>>
  BY OneEntry DEF rl_init_send, Booting, WriteIdle, zero_write
<1>2. TypeOK'
  BY <1>1 DEF TypeOK
<1>3. PICK z : z = zero_write
  OBVIOUS
<1>4. z \in WriteReq
  BY <1>3, Requests DEF Assumptions
<1>5. Writing(z)'
  <2>1. sent' = 0
    BY <1>1, OneEntry DEF sent, WriteIdle
  <2>2. SubSeq(write_burst(z), 0 + 1, 0) = <<>>
    BY SubSeqEmpty
  <2>3. ~(0 > z.address % Arity)
    BY <1>4, Offset DEF Assumptions
  <2>4. WriteBurst(z)'
    BY <1>1, <1>3, <2>1, <2>2, <2>3 DEF WriteBurst, WriteIdle
  <2> QED BY <2>4 DEF Writing
<1>6. Writing(zero_write)'
  <2>1. zero_write' = z
    BY <1>1, <1>3 DEF zero_write
  <2> QED BY <1>5, <2>1 DEF Writing, WriteBurst, WriteDone, write_burst, write_beat
<1>7. (Resting \/ Asked)' /\ ReadIdle'
  BY <1>1 DEF Booting, Resting, Asked, ReadIdle
<1>8. Booting'
  BY <1>1, <1>6, <1>7 DEF Booting
<1> QED BY <1>1, <1>2, <1>8 DEF IInv

LEMMA BootWrites ==
  ASSUME Assumptions, TypeOK, Booting,
         \/ rl_handle_tree_write_request \/ rl_tree_burst_write_data
         \/ rl_handle_tree_write_resp \/ MemWriteBeat
  PROVE  IInv' /\ Booting' /\ UNCHANGED waiting
<1>1. rg_init_pending /\ Writing(zero_write)
  BY WriteRests DEF Booting
<1>2. PICK z : z = zero_write
  OBVIOUS
<1>3. z \in WriteReq /\ Writing(z)
  BY <1>1, <1>2, Requests DEF Assumptions
<1>4. WriteMoves(z)
  BY <1>3, WriteSends, WriteSendsMore, WriteAnswers, WriteLands DEF Assumptions
<1>5. /\ Writing(z)' /\ TypeOK'
      /\ UNCHANGED <<unitFifos, readFifos, boot, acc, busRead, rd_beat, unit>>
      /\ dram' = dram \/ dram' = [dram EXCEPT ![z.address] = z.data]
  BY <1>4 DEF WriteMoves
<1>6. Writing(zero_write)'
  <2>1. zero_write' = z
    BY <1>2, <1>5 DEF zero_write
  <2> QED BY <1>5, <2>1 DEF Writing, WriteBurst, WriteDone, write_burst, write_beat
<1>7. \A a \in DramAddr : a < ProtectedBase + rg_init_count => dram'[a] = Zero
  <2>1. \A a \in DramAddr : a < ProtectedBase + rg_init_count => dram[a] = Zero
    BY DEF Booting
  <2>2. z.data = Zero
    BY <1>2 DEF zero_write
  <2> QED BY <1>5, <2>1, <2>2 DEF TypeOK
<1>8. (Resting \/ Asked)' /\ ReadIdle'
  BY <1>5 DEF Booting, Resting, Asked, ReadIdle
<1>9. Booting'
  BY <1>1, <1>5, <1>6, <1>7, <1>8 DEF Booting
<1> QED BY <1>5, <1>9 DEF IInv

LEMMA MemNodeAddr ==
  ASSUME LayoutAssumption, NEW n \in MemNode
  PROVE  /\ n[1] \in MemLevels /\ n[2] \in NodesOf(n[1]) /\ n = <<n[1], n[2]>>
         /\ get_node_addr(n[1], n[2]) \in DramAddr
<1>1. PICK l \in 1..MinHwLevel-1 : n \in {l} \X Slots(l)
  BY DEF MemNode
<1>2. n[1] = l /\ n[2] \in Slots(l) /\ n = <<n[1], n[2]>>
  BY <1>1
<1>3. n[1] \in MemLevels /\ n[2] \in NodesOf(n[1])
  BY <1>2, MemSlots DEF MemLevels
<1> QED BY <1>2, <1>3, NodeAddr

LEMMA BootAcks ==
  ASSUME Assumptions, TypeOK, Booting, rl_init_ack
  PROVE  IInv' /\ StoreStep
<1>1. /\ rg_init_pending /\ ff_mem_write_resp # <<>> /\ ff_mem_write_resp' = Tail(ff_mem_write_resp)
      /\ rg_init_pending' = FALSE /\ rg_mem_initialized = FALSE
      /\ UNCHANGED <<unitFifos, readFifos, ff_mem_write_req, acc, rg_tree_burst_count,
                     busRead, busWrite, mem, unit>>
      /\ IF rg_init_count = InitLast
         THEN rg_mem_initialized' = TRUE /\ UNCHANGED rg_init_count
         ELSE rg_init_count' = rg_init_count + 1 /\ UNCHANGED rg_mem_initialized
  BY DEF rl_init_ack, NotEmpty, boot_done, TypeOK
<1>2. WriteDone(zero_write) /\ ff_mem_write_resp = <<TRUE>> /\ wr_resp = <<>>
  BY <1>1 DEF Booting, Writing, WriteBurst, WriteDone
<1>3. WriteIdle'
  BY <1>1, <1>2, OneEntry DEF WriteDone, WriteIdle
<1>4. /\ (Resting \/ Asked)' /\ ReadIdle'
  BY <1>1 DEF Booting, Resting, Asked, ReadIdle
<1>5. rg_init_count \in 0..InitLast /\ InitLast \in Nat /\ ProtectedBase \in Nat
      /\ DramAddr = ProtectedBase..(ProtectedBase + InitLast)
  BY Layout DEF TypeOK, Assumptions
<1>6. \A a \in DramAddr : a < ProtectedBase + (rg_init_count + 1) => dram'[a] = Zero
  <2>1. dram[ProtectedBase + rg_init_count] = Zero
    BY <1>2 DEF WriteDone, zero_write
  <2>2. \A a \in DramAddr : a < ProtectedBase + rg_init_count => dram[a] = Zero
    BY DEF Booting
  <2>3. \A a \in DramAddr : a < ProtectedBase + (rg_init_count + 1) =>
          a < ProtectedBase + rg_init_count \/ a = ProtectedBase + rg_init_count
    BY <1>5
  <2> QED BY <1>1, <2>1, <2>2, <2>3
<1>7. TypeOK'
  <2>1. rg_init_count' \in 0..InitLast
    <3>1. CASE rg_init_count = InitLast
      BY <1>1, <1>5, <3>1
    <3>2. CASE rg_init_count # InitLast
      BY <1>1, <1>5, <3>2
    <3> QED BY <3>1, <3>2
  <2>2. rg_mem_initialized' \in BOOLEAN
    <3>1. CASE rg_init_count = InitLast
      BY <1>1, <3>1
    <3>2. CASE rg_init_count # InitLast
      BY <1>1, <3>2
    <3> QED BY <3>1, <3>2
  <2> QED BY <1>1, <2>1, <2>2 DEF TypeOK
<1>8. CASE rg_init_count # InitLast
  <2>1. rg_init_count' = rg_init_count + 1 /\ rg_mem_initialized' = FALSE
    BY <1>1, <1>8
  <2>2. Booting'
    BY <1>1, <1>3, <1>4, <1>6, <2>1 DEF Booting
  <2>3. IInv'
    BY <1>7, <2>2 DEF IInv
  <2> QED BY <1>1, <2>2, <2>3, BootQuiet
<1>9. CASE rg_init_count = InitLast
  <2>1. rg_mem_initialized' = TRUE
    BY <1>1, <1>9
  <2>2. Running'
    BY <1>1, <1>3, <1>4, <2>1 DEF Running
  <2>3. \A a \in DramAddr : dram'[a] = Zero
    <3>1. \A a \in DramAddr : a < ProtectedBase + (rg_init_count + 1)
      BY <1>5, <1>9
    <3> QED BY <1>6, <3>1
  <2>4. store_tree' = [n \in MemNode |-> Zero]
    <3>1. \A n \in MemNode : dram'[get_node_addr(n[1], n[2])] = Zero
      BY <2>3, MemNodeAddr DEF Assumptions
    <3> QED BY <2>1, <3>1 DEF store_tree
  <2>5. (NothingAssumption /\ (Resting \/ Asked) =>
          /\ store_asked = waiting /\ store_answer = Nothing
          /\ waiting \in WriteOp => WriteUnderWay)'
    BY QuietSeen, PTL
  <2>6. store_asked' = waiting' /\ store_answer' = Nothing
    BY <1>4, <2>5 DEF Assumptions
  <2>7. /\ store_tree = [n \in MemNode |-> Zero]
        /\ store_asked = waiting /\ store_answer = Nothing
    BY BootingSeen DEF Booting
  <2>8. StoreStep
    BY <1>1, <2>4, <2>6, <2>7, StoreStutters
  <2> QED BY <1>7, <2>2, <2>8 DEF IInv
<1> QED BY <1>8, <1>9

LEMMA BootingStep ==
  ASSUME Assumptions, TypeOK, Booting, Next
  PROVE  IInv' /\ StoreStep
<1>1. /\ ~rg_mem_initialized /\ ReadIdle
      /\ ff_tree_resp = <<>> /\ ff_tree_write_resp = <<>>
  BY DEF Booting, Resting, Asked
<1>2. /\ ~rl_process_read_req /\ ~rl_process_read_resp
      /\ ~rl_process_write_req /\ ~rl_process_write_resp
      /\ ~UnitTakes
  BY <1>1 DEF rl_process_read_req, rl_process_read_resp, rl_process_write_req,
              rl_process_write_resp, UnitTakes, get_resp, get_write_resp, NotEmpty
<1>3. CASE rl_init_send
  BY <1>3, BootSends, BootQuiet
<1>4. CASE rl_init_ack
  BY <1>4, BootAcks
<1>5. CASE \/ rl_handle_tree_write_request \/ rl_tree_burst_write_data
           \/ rl_handle_tree_write_resp \/ MemWriteBeat
  BY <1>5, BootWrites, BootQuiet
<1>6. CASE UnitAsks
  <2>1. Resting \/ Asked
    BY DEF Booting
  <2>2. /\ TypeOK' /\ Asked' /\ StoreStep
        /\ UNCHANGED <<readFifos, writeFifos, boot, acc, rg_tree_burst_count, busRead,
                       busWrite, mem>>
    BY <1>6, <2>1, UnitAsksStep
  <2>3. Booting'
    BY <2>2 DEF Booting, ReadIdle, WriteIdle, Writing, WriteBurst, WriteDone, zero_write,
                write_burst, write_beat, sent
  <2> QED BY <2>2, <2>3 DEF IInv
<1> QED
  BY <1>1, <1>2, <1>3, <1>4, <1>5, <1>6, ReadRests DEF Next, Adapter, Bridge, Memory

-----------------------------------------------------------------------------
(* After boot: a request is taken up.                                      *)
LEMMA TakeUpRead ==
  ASSUME Assumptions, TypeOK, rg_mem_initialized, ~rg_init_pending,
         Resting \/ Asked, ReadIdle, WriteIdle, rl_process_read_req
  PROVE  IInv' /\ StoreStep
<1>1. ff_tree_req # <<>>
  BY DEF rl_process_read_req, NotEmpty
<1>2. /\ waiting \in ReadOp /\ ff_tree_req = <<waiting>> /\ ff_tree_write = <<>>
      /\ ff_tree_resp = <<>> /\ ff_tree_write_resp = <<>>
  BY <1>1 DEF Resting, Asked
<1>3. /\ ff_mem_read_req' = <<base_addr>> /\ ff_tree_req' = <<>>
      /\ rg_processing_read' = TRUE /\ rg_beat_count' = 0 /\ rg_acc_hashes' = <<>>
      /\ UNCHANGED <<ff_tree_resp, ff_tree_write, ff_tree_write_resp, ff_mem_read_resp,
                     writeFifos, boot, rg_tree_burst_count, busRead, busWrite, mem, unit>>
  BY <1>2, OneEntry DEF rl_process_read_req, ReadIdle, base_addr
<1>4. TypeOK'
  <2>1. DOMAIN rg_acc_hashes' = {} /\ 0 \in Pos
    BY <1>3, Shape DEF Pos
  <2> QED BY <1>3, <2>1 DEF TypeOK
<1>5. base_addr' = base_addr
  BY <1>3 DEF base_addr
<1>6. ReadServed'
  <2>1. Reading(base_addr)'
    BY <1>3, <1>5 DEF Reading, ReadAsked, ReadIdle
  <2> QED BY <1>2, <1>3, <2>1 DEF ReadServed, WriteIdle
<1>7. IInv'
  BY <1>3, <1>4, <1>6 DEF IInv, Running
<1>8. StoreStep
  <2>1. store_asked = waiting /\ store_answer = Nothing
    BY QuietSeen DEF Assumptions
  <2>2. store_asked' = waiting' /\ store_answer' = Nothing
    BY <1>2, <1>3, Kinds DEF Assumptions, store_asked, store_answer, NotEmpty
  <2>3. store_tree' = store_tree
    BY <1>3 DEF store_tree
  <2> QED BY <1>3, <2>1, <2>2, <2>3, StoreStutters
<1> QED BY <1>7, <1>8

LEMMA TakeUpWrite ==
  ASSUME Assumptions, TypeOK, rg_mem_initialized, ~rg_init_pending,
         Resting \/ Asked, ReadIdle, WriteIdle, rl_process_write_req
  PROVE  IInv' /\ StoreStep
<1>1. ff_tree_write # <<>>
  BY DEF rl_process_write_req, NotEmpty
<1>2. /\ waiting \in WriteOp /\ ff_tree_req = <<>> /\ ff_tree_write = <<waiting>>
      /\ ff_tree_resp = <<>> /\ ff_tree_write_resp = <<>>
  BY <1>1 DEF Resting, Asked
<1>3. /\ ff_mem_write_req' = <<node_write>> /\ ff_tree_write' = <<>>
      /\ UNCHANGED <<ff_tree_req, ff_tree_resp, ff_tree_write_resp, readFifos,
                     ff_mem_write_resp, boot, acc, rg_tree_burst_count, busRead, busWrite,
                     mem, unit>>
  BY <1>2, OneEntry DEF rl_process_write_req, WriteIdle, node_write, node_addr
<1>4. TypeOK'
  BY <1>3 DEF TypeOK
<1>5. PICK r : r = node_write
  OBVIOUS
<1>6. r \in WriteReq /\ r.address % Arity \in 0..Arity-1
  BY <1>2, <1>5, Requests, Offset DEF Assumptions
<1>7. Writing(r)'
  <2>1. sent' = 0
    BY <1>3, OneEntry DEF sent, WriteIdle
  <2>2. SubSeq(write_burst(r), 0 + 1, 0) = <<>>
    BY SubSeqEmpty
  <2>3. ~(0 > r.address % Arity)
    BY <1>6
  <2>4. WriteBurst(r)'
    BY <1>3, <1>5, <2>1, <2>2, <2>3 DEF WriteBurst, WriteIdle
  <2> QED BY <2>4 DEF Writing
<1>8. Writing(node_write)'
  <2>1. node_write' = r
    BY <1>3, <1>5 DEF node_write, node_addr
  <2> QED BY <1>7, <2>1 DEF Writing, WriteBurst, WriteDone, write_burst, write_beat
<1>9. WriteServed'
  BY <1>2, <1>3, <1>8 DEF WriteServed, ReadIdle
<1>10. IInv'
  BY <1>3, <1>4, <1>9 DEF IInv, Running
<1>11. StoreStep
  <2>1. store_asked = waiting /\ store_answer = Nothing
    BY QuietSeen DEF Assumptions
  <2>2. WriteUnderWay'
    <3>1. ff_mem_write_req' # <<>> /\ Head(ff_mem_write_req') = r
      BY <1>3, <1>5, OneEntry
    <3>2. rg_tree_burst_count' <= r.address % Arity
      BY <1>3, <1>6 DEF WriteIdle
    <3> QED BY <3>1, <3>2 DEF WriteUnderWay, NotEmpty
  <2>3. store_asked' = waiting' /\ store_answer' = Nothing
    BY <1>2, <1>3, <2>2, Kinds DEF Assumptions, store_asked, store_answer
  <2>4. store_tree' = store_tree
    BY <1>3 DEF store_tree
  <2> QED BY <1>3, <2>1, <2>3, <2>4, StoreStutters
<1> QED BY <1>10, <1>11

LEMMA RestingStep ==
  ASSUME Assumptions, TypeOK, rg_mem_initialized, ~rg_init_pending,
         Resting \/ Asked, ReadIdle, WriteIdle, Next
  PROVE  IInv' /\ StoreStep
<1>1. ~rl_init_send /\ ~UnitTakes
  BY DEF rl_init_send, UnitTakes, get_resp, get_write_resp, NotEmpty, Resting, Asked
<1>2. CASE UnitAsks
  <2>1. /\ TypeOK' /\ Asked' /\ StoreStep
        /\ UNCHANGED <<readFifos, writeFifos, boot, acc, rg_tree_burst_count, busRead,
                       busWrite, mem>>
    BY <1>2, UnitAsksStep
  <2>2. Running'
    BY <2>1 DEF Running, ReadIdle, WriteIdle
  <2> QED BY <2>1, <2>2 DEF IInv
<1> QED
  BY <1>1, <1>2, TakeUpRead, TakeUpWrite, ReadRests, WriteRests
     DEF Next, Adapter, Bridge, Memory

-----------------------------------------------------------------------------
(* A group read is answered with the nodes as they are.                    *)
LEMMA ReadSeen ==
  Assumptions /\ ReadServed =>
    /\ store_asked = IF ff_tree_resp = <<>> THEN waiting ELSE Nothing
    /\ store_answer = IF ff_tree_resp = <<>> THEN Nothing ELSE Head(ff_tree_resp)
<1> QED
  BY Kinds DEF Assumptions, ReadServed, store_asked, store_answer, NotEmpty

LEMMA ReadGoesOn ==
  ASSUME Assumptions, TypeOK, rg_mem_initialized, ~rg_init_pending, ReadServed,
         \/ rl_handle_tree_read_request \/ rl_handle_tree_read_resp
         \/ MemReadBeat \/ rl_process_read_resp
  PROVE  IInv' /\ StoreStep
<1>1. /\ waiting \in ReadOp /\ ff_tree_req = <<>> /\ ff_tree_write = <<>>
      /\ ff_tree_write_resp = <<>> /\ WriteIdle
      /\ ff_tree_resp = <<>> /\ Reading(base_addr)
  BY ReadRests DEF ReadServed
<1>2. PICK a : a = base_addr
  OBVIOUS
<1>3. GroupAt(a) /\ Reading(a)
  BY <1>1, <1>2, Requests DEF Assumptions
<1>4. (Assumptions /\ ReadServed =>
        /\ store_asked = IF ff_tree_resp = <<>> THEN waiting ELSE Nothing
        /\ store_answer = IF ff_tree_resp = <<>> THEN Nothing ELSE Head(ff_tree_resp))'
  BY ReadSeen, PTL
<1>5. Assumptions'
  BY DEF Assumptions, LayoutAssumption, StoreAssumption, NothingAssumption, TreeWords
<1>6. store_asked = waiting /\ store_answer = Nothing
  BY <1>1, ReadSeen
<1>7. CASE \/ rl_handle_tree_read_request \/ rl_handle_tree_read_resp \/ MemReadBeat
  <2>1. ReadMoves(a)
    BY <1>3, <1>7, ReadSends, ReadPasses, ReadDraws
  <2>2. /\ Reading(a)' /\ TypeOK'
        /\ UNCHANGED <<unitFifos, writeFifos, boot, rg_tree_burst_count, busWrite, dram,
                       wr_beat, unit>>
    BY <2>1 DEF ReadMoves
  <2>3. Reading(base_addr)'
    <3>1. base_addr' = a
      BY <1>2, <2>2 DEF base_addr
    <3> QED BY <2>2, <3>1 DEF Reading, ReadAsked, ReadBurst, read_burst
  <2>4. ReadServed'
    BY <1>1, <2>2, <2>3 DEF ReadServed, WriteIdle
  <2>5. IInv'
    BY <2>2, <2>4 DEF IInv, Running
  <2>6. StoreStep
    <3>1. store_asked' = waiting' /\ store_answer' = Nothing
      BY <1>1, <1>4, <1>5, <2>2, <2>4
    <3>2. store_tree' = store_tree
      BY <2>2 DEF store_tree
    <3> QED BY <1>6, <2>2, <3>1, <3>2, StoreStutters
  <2> QED BY <2>5, <2>6
<1>8. CASE rl_process_read_resp
  <2>1. /\ TypeOK'
        /\ UNCHANGED <<ff_tree_req, ff_tree_write, ff_tree_write_resp, writeFifos, boot,
                       rg_tree_burst_count, busWrite, mem, unit>>
        /\ \/ ff_tree_resp' = <<>> /\ Reading(a)'
           \/ ff_tree_resp' = <<words(a)>> /\ ReadIdle'
    BY <1>1, <1>3, <1>8, ReadCollects
  <2>2. base_addr' = a
    BY <1>2, <2>1 DEF base_addr
  <2>3. store_tree' = store_tree
    BY <2>1 DEF store_tree
  <2>4. CASE ff_tree_resp' = <<>> /\ Reading(a)'
    <3>1. Reading(base_addr)'
      BY <2>2, <2>4 DEF Reading, ReadAsked, ReadBurst, read_burst
    <3>2. ReadServed'
      BY <1>1, <2>1, <2>4, <3>1 DEF ReadServed, WriteIdle
    <3>3. IInv'
      BY <2>1, <3>2 DEF IInv, Running
    <3>4. store_asked' = waiting' /\ store_answer' = Nothing
      BY <1>4, <1>5, <2>4, <3>2
    <3> QED BY <1>6, <2>1, <2>3, <3>3, <3>4, StoreStutters
  <2>5. CASE ff_tree_resp' = <<words(a)>> /\ ReadIdle'
    <3>1. words(base_addr)' = words(a)
      BY <2>1, <2>2 DEF words
    <3>2. ReadServed'
      BY <1>1, <2>1, <2>5, <3>1 DEF ReadServed, WriteIdle
    <3>3. IInv'
      BY <2>1, <3>2 DEF IInv, Running
    <3>4. store_asked' = Nothing /\ store_answer' = words(a)
      BY <1>4, <1>5, <2>5, <3>2, OneEntry
    <3>5. words(a) = [k \in Pos |-> store_tree[<<store_asked.level,
                                                 store_asked.base_index + k>>]]
      <4>1. ASSUME NEW k \in Pos
            PROVE  store_tree[<<waiting.level, waiting.base_index + k>>] = dram[a + k]
        <5>1. /\ <<waiting.level, waiting.base_index + k>> \in MemNode
              /\ get_node_addr(waiting.level, waiting.base_index + k) = a + k
          BY <1>1, <1>2, GroupAddr DEF Assumptions, base_addr
        <5> QED BY <5>1 DEF store_tree
      <4> QED BY <1>6, <4>1 DEF words
    <3> QED BY <1>1, <1>6, <2>3, <3>3, <3>4, <3>5, StoreServesRead DEF Assumptions
  <2> QED BY <2>1, <2>4, <2>5
<1> QED BY <1>7, <1>8

LEMMA ReadTaken ==
  ASSUME Assumptions, TypeOK, rg_mem_initialized, ~rg_init_pending, ReadServed, get_resp
  PROVE  IInv' /\ StoreStep
<1>1. /\ waiting \in ReadOp /\ ff_tree_req = <<>> /\ ff_tree_write = <<>>
      /\ ff_tree_write_resp = <<>> /\ WriteIdle
      /\ ff_tree_resp = <<words(base_addr)>> /\ ReadIdle
  BY DEF get_resp, NotEmpty, ReadServed
<1>2. /\ ff_tree_resp' = <<>> /\ waiting' = Nothing
      /\ UNCHANGED <<ff_tree_req, ff_tree_write, ff_tree_write_resp, readFifos, writeFifos,
                     boot, acc, rg_tree_burst_count, busRead, busWrite, mem, ops>>
  BY <1>1, OneEntry DEF get_resp
<1>3. TypeOK'
  BY <1>2 DEF TypeOK
<1>4. Resting' /\ ReadIdle' /\ WriteIdle'
  BY <1>1, <1>2 DEF Resting, ReadIdle, WriteIdle
<1>5. IInv'
  BY <1>2, <1>3, <1>4 DEF IInv, Running
<1>6. store_asked = Nothing /\ store_answer = words(base_addr)
  BY <1>1, ReadSeen, OneEntry
<1>7. words(base_addr) # Nothing
  <2>1. GroupAt(base_addr)
    BY <1>1, Requests DEF Assumptions
  <2>2. words(base_addr) \in [Pos -> Word]
    BY <2>1 DEF words, GroupAt, TypeOK
  <2> QED BY <2>2, Kinds DEF Assumptions
<1>8. store_asked' = Nothing /\ store_answer' = Nothing /\ store_tree' = store_tree
  BY <1>2 DEF store_asked, store_answer, store_tree
<1> QED BY <1>5, <1>6, <1>7, <1>8, StoreTakes

LEMMA ReadServedStep ==
  ASSUME Assumptions, TypeOK, rg_mem_initialized, ~rg_init_pending, ReadServed, Next
  PROVE  IInv' /\ StoreStep
<1>1. /\ waiting # Nothing /\ ff_tree_req = <<>> /\ ff_tree_write = <<>>
      /\ ff_tree_write_resp = <<>> /\ WriteIdle
  BY Kinds DEF Assumptions, ReadServed
<1>2. /\ ~rl_init_send /\ ~rl_process_read_req /\ ~rl_process_write_req
      /\ ~get_write_resp /\ ~UnitAsks
  BY <1>1 DEF rl_init_send, rl_process_read_req, rl_process_write_req, get_write_resp,
              UnitAsks, put_req, put_write_req, NotEmpty
<1> QED
  BY <1>1, <1>2, ReadGoesOn, ReadTaken, WriteRests DEF Next, Adapter, Bridge, Memory, UnitTakes

-----------------------------------------------------------------------------
(* A node write takes effect with the beat that carries the node.          *)
LEMMA WriteSeen ==
  Assumptions /\ waiting \in WriteOp =>
    /\ store_asked = IF WriteUnderWay THEN waiting ELSE Nothing
    /\ store_answer = IF WriteUnderWay THEN Nothing ELSE TRUE
<1> QED
  BY Kinds DEF Assumptions, store_asked, store_answer

LEMMA UnderWayNext ==
  ASSUME NEW req \in WriteReq
  PROVE  (Assumptions /\ TypeOK /\ Writing(req) /\ ff_tree_write = <<>> =>
            (WriteUnderWay <=> on_its_way(req)))'
<1>1. Assumptions /\ TypeOK /\ Writing(req) /\ ff_tree_write = <<>> =>
        (WriteUnderWay <=> on_its_way(req))
  BY UnderWay DEF Assumptions
<1> QED BY <1>1, PTL

LEMMA NodeLands ==
  ASSUME Assumptions, TypeOK, rg_mem_initialized, rg_mem_initialized', waiting \in WriteOp,
         dram' = [dram EXCEPT ![node_addr] = waiting.hash]
  PROVE  store_tree' = [store_tree EXCEPT ![<<waiting.level, waiting.index>>] = waiting.hash]
<1> DEFINE here == <<waiting.level, waiting.index>>
           addr(n) == get_node_addr(n[1], n[2])
<1>1. /\ waiting.level \in MemLevels /\ waiting.index \in NodesOf(waiting.level)
  BY Requests DEF Assumptions
<1>2. here \in MemNode
  <2>1. waiting.level \in 1..MinHwLevel-1 /\ waiting.index \in Slots(waiting.level)
    BY <1>1, MemSlots DEF Assumptions
  <2> QED BY <2>1, MemNodeHas
<1>3. ASSUME NEW n \in MemNode
      PROVE  dram'[addr(n)] = IF n = here THEN waiting.hash ELSE dram[addr(n)]
  <2>1. /\ n[1] \in MemLevels /\ n[2] \in NodesOf(n[1]) /\ n = <<n[1], n[2]>>
        /\ addr(n) \in DramAddr
    BY MemNodeAddr DEF Assumptions
  <2>2. addr(n) = node_addr <=> n = here
    <3>1. n = here => addr(n) = node_addr
      BY DEF node_addr
    <3>2. ASSUME addr(n) = node_addr PROVE n = here
      <4>1. get_node_addr(n[1], n[2]) = get_node_addr(waiting.level, waiting.index)
        BY <3>2 DEF node_addr
      <4>2. n[1] = waiting.level /\ n[2] = waiting.index
        BY <1>1, <2>1, <4>1, NodeAddrInjective DEF Assumptions
      <4> QED BY <2>1, <4>2
    <3> QED BY <3>1, <3>2
  <2> QED BY <2>1, <2>2 DEF TypeOK
<1>4. store_tree = [n \in MemNode |-> dram[addr(n)]]
      /\ store_tree' = [n \in MemNode |-> dram'[addr(n)]]
  BY DEF store_tree
<1> HIDE DEF addr, here
<1>5. store_tree' = [store_tree EXCEPT ![here] = waiting.hash]
  BY <1>2, <1>3, <1>4
<1> QED BY <1>5 DEF here

LEMMA WriteGoesOn ==
  ASSUME Assumptions, TypeOK, rg_mem_initialized, ~rg_init_pending, WriteServed,
         \/ rl_handle_tree_write_request \/ rl_tree_burst_write_data
         \/ rl_handle_tree_write_resp \/ MemWriteBeat
  PROVE  IInv' /\ StoreStep
<1>1. /\ waiting \in WriteOp /\ ff_tree_req = <<>> /\ ff_tree_resp = <<>>
      /\ ff_tree_write = <<>> /\ ReadIdle
      /\ ff_tree_write_resp = <<>> /\ Writing(node_write)
  BY WriteRests DEF WriteServed
<1>2. PICK r : r = node_write
  OBVIOUS
<1>3. r \in WriteReq /\ Writing(r)
  BY <1>1, <1>2, Requests DEF Assumptions
<1>4. WriteMoves(r)
  BY <1>3, WriteSends, WriteSendsMore, WriteAnswers, WriteLands DEF Assumptions
<1>5. /\ Writing(r)' /\ TypeOK'
      /\ UNCHANGED <<unitFifos, readFifos, boot, acc, busRead, rd_beat, unit>>
      /\ \/ dram' = dram /\ (on_its_way(r)' <=> on_its_way(r))
         \/ /\ dram' = [dram EXCEPT ![r.address] = r.data]
            /\ on_its_way(r) /\ ~on_its_way(r)'
  BY <1>4 DEF WriteMoves
<1>6. Writing(node_write)'
  <2>1. node_write' = r
    BY <1>2, <1>5 DEF node_write, node_addr
  <2> QED BY <1>5, <2>1 DEF Writing, WriteBurst, WriteDone, write_burst, write_beat
<1>7. WriteServed'
  BY <1>1, <1>5, <1>6 DEF WriteServed, ReadIdle
<1>8. IInv'
  BY <1>5, <1>7 DEF IInv, Running
<1>9. Assumptions'
  BY DEF Assumptions, LayoutAssumption, StoreAssumption, NothingAssumption, TreeWords
<1>10. WriteUnderWay <=> on_its_way(r)
  BY <1>1, <1>3, UnderWay DEF Assumptions
<1>11. WriteUnderWay' <=> on_its_way(r)'
  BY <1>1, <1>3, <1>5, <1>9, UnderWayNext
<1>12. /\ store_asked = IF WriteUnderWay THEN waiting ELSE Nothing
       /\ store_answer = IF WriteUnderWay THEN Nothing ELSE TRUE
  BY <1>1, WriteSeen
<1>13. /\ store_asked' = IF WriteUnderWay' THEN waiting' ELSE Nothing
       /\ store_answer' = IF WriteUnderWay' THEN Nothing ELSE TRUE
  <2>1. (Assumptions /\ waiting \in WriteOp =>
          /\ store_asked = IF WriteUnderWay THEN waiting ELSE Nothing
          /\ store_answer = IF WriteUnderWay THEN Nothing ELSE TRUE)'
    BY WriteSeen, PTL
  <2>2. (waiting \in WriteOp)'
    BY <1>7 DEF WriteServed
  <2> QED BY <1>9, <2>1, <2>2
<1>14. StoreStep
  <2>1. CASE dram' = dram /\ (on_its_way(r)' <=> on_its_way(r))
    <3>1. store_asked' = store_asked /\ store_answer' = store_answer
      BY <1>5, <1>10, <1>11, <1>12, <1>13, <2>1
    <3>2. store_tree' = store_tree
      BY <1>5, <2>1 DEF store_tree
    <3> QED BY <3>1, <3>2, StoreStutters
  <2>2. CASE /\ dram' = [dram EXCEPT ![r.address] = r.data]
             /\ on_its_way(r) /\ ~on_its_way(r)'
    <3>1. store_asked = waiting /\ store_asked' = Nothing /\ store_answer' = TRUE
      BY <1>10, <1>11, <1>12, <1>13, <2>2
    <3>2. dram' = [dram EXCEPT ![node_addr] = waiting.hash]
      BY <1>2, <2>2 DEF node_write
    <3>3. rg_mem_initialized'
      BY <1>5
    <3>4. store_tree' = [store_tree EXCEPT ![<<waiting.level, waiting.index>>] = waiting.hash]
      BY <1>1, <3>2, <3>3, NodeLands
    <3> QED BY <1>1, <3>1, <3>4, StoreServesWrite DEF Assumptions
  <2> QED BY <1>5, <2>1, <2>2
<1> QED BY <1>8, <1>14

(* Nothing is under way once the answer is on its way.                     *)
LEMMA Answered ==
  wr_data = <<>> /\ ff_mem_write_req = <<>> /\ ff_tree_write = <<>> => ~WriteUnderWay
<1>1. DOMAIN <<>> = {}
  OBVIOUS
<1> QED BY <1>1 DEF WriteUnderWay, NotEmpty

LEMMA WriteAnswered ==
  ASSUME Assumptions, TypeOK, rg_mem_initialized, ~rg_init_pending, WriteServed,
         rl_process_write_resp
  PROVE  IInv' /\ StoreStep
<1>1. /\ waiting \in WriteOp /\ ff_tree_req = <<>> /\ ff_tree_resp = <<>>
      /\ ff_tree_write = <<>> /\ ReadIdle
      /\ ff_tree_write_resp = <<>> /\ WriteDone(node_write)
      /\ wr_resp = <<>> /\ ff_mem_write_resp = <<TRUE>>
  BY DEF WriteServed, rl_process_write_resp, NotEmpty, WriteIdle, Writing, WriteBurst, WriteDone
<1>2. /\ ff_tree_write_resp' = <<TRUE>> /\ ff_mem_write_resp' = <<>>
      /\ UNCHANGED <<ff_tree_req, ff_tree_resp, ff_tree_write, readFifos, ff_mem_write_req,
                     boot, acc, rg_tree_burst_count, busRead, busWrite, mem, unit>>
  BY <1>1, OneEntry DEF rl_process_write_resp
<1>3. TypeOK'
  BY <1>2 DEF TypeOK
<1>4. WriteServed'
  <2>1. WriteIdle' /\ ReadIdle'
    BY <1>1, <1>2 DEF WriteDone, WriteIdle, ReadIdle
  <2>2. dram'[node_addr'] = waiting'.hash
    BY <1>1, <1>2 DEF WriteDone, node_write, node_addr
  <2> QED BY <1>1, <1>2, <2>1, <2>2 DEF WriteServed
<1>5. IInv'
  BY <1>2, <1>3, <1>4 DEF IInv, Running
<1>6. ~WriteUnderWay /\ ~WriteUnderWay'
  <2>1. wr_data = <<>> /\ ff_mem_write_req = <<>>
    BY <1>1 DEF WriteDone
  <2>2. (wr_data = <<>> /\ ff_mem_write_req = <<>> /\ ff_tree_write = <<>> => ~WriteUnderWay)'
    BY Answered, PTL
  <2> QED BY <1>1, <1>2, <2>1, <2>2, Answered
<1>7. store_asked' = store_asked /\ store_answer' = store_answer /\ store_tree' = store_tree
  BY <1>1, <1>2, <1>6, Kinds DEF Assumptions, store_asked, store_answer, store_tree
<1> QED BY <1>5, <1>7, StoreStutters

LEMMA WriteTaken ==
  ASSUME Assumptions, TypeOK, rg_mem_initialized, ~rg_init_pending, WriteServed,
         get_write_resp
  PROVE  IInv' /\ StoreStep
<1>1. /\ waiting \in WriteOp /\ ff_tree_req = <<>> /\ ff_tree_resp = <<>>
      /\ ff_tree_write = <<>> /\ ReadIdle
      /\ ff_tree_write_resp = <<TRUE>> /\ WriteIdle
  BY DEF WriteServed, get_write_resp, NotEmpty
<1>2. /\ ff_tree_write_resp' = <<>> /\ waiting' = Nothing
      /\ UNCHANGED <<ff_tree_req, ff_tree_resp, ff_tree_write, readFifos, writeFifos, boot,
                     acc, rg_tree_burst_count, busRead, busWrite, mem, ops>>
  BY <1>1, OneEntry DEF get_write_resp
<1>3. TypeOK'
  BY <1>2 DEF TypeOK
<1>4. Resting' /\ ReadIdle' /\ WriteIdle'
  BY <1>1, <1>2 DEF Resting, ReadIdle, WriteIdle
<1>5. IInv'
  BY <1>2, <1>3, <1>4 DEF IInv, Running
<1>6. ~WriteUnderWay
  BY <1>1, Answered DEF WriteIdle
<1>7. store_asked = Nothing /\ store_answer = TRUE
  BY <1>1, <1>6, WriteSeen
<1>8. store_asked' = Nothing /\ store_answer' = Nothing /\ store_tree' = store_tree
  BY <1>2 DEF store_asked, store_answer, store_tree
<1> QED BY <1>5, <1>7, <1>8, Kinds, StoreTakes DEF Assumptions

LEMMA WriteServedStep ==
  ASSUME Assumptions, TypeOK, rg_mem_initialized, ~rg_init_pending, WriteServed, Next
  PROVE  IInv' /\ StoreStep
<1>1. /\ waiting # Nothing /\ ff_tree_req = <<>> /\ ff_tree_write = <<>>
      /\ ff_tree_resp = <<>> /\ ReadIdle
  BY Kinds DEF Assumptions, WriteServed
<1>2. /\ ~rl_init_send /\ ~rl_init_ack /\ ~rl_process_read_req /\ ~rl_process_write_req
      /\ ~get_resp /\ ~UnitAsks
  BY <1>1 DEF rl_init_send, rl_init_ack, rl_process_read_req, rl_process_write_req, get_resp,
              UnitAsks, put_req, put_write_req, NotEmpty
<1> QED
  BY <1>1, <1>2, WriteGoesOn, WriteAnswered, WriteTaken, ReadRests
     DEF Next, Adapter, Bridge, Memory, UnitTakes

-----------------------------------------------------------------------------
LEMMA Start == Assumptions /\ Init => IInv /\ Store!Init
<1> SUFFICES ASSUME Assumptions, Init PROVE IInv /\ Store!Init
  OBVIOUS
<1>1. TypeOK
  <2>1. 0 \in Pos /\ 0 \in 0..InitLast /\ 0 \in 0..MaxOps /\ DOMAIN <<>> = {}
    BY Shape, Layout DEF Assumptions, StoreAssumption, Pos
  <2> QED BY <2>1 DEF Init, TypeOK
<1>2. Booting
  <2>1. \A a \in DramAddr : ~(a < ProtectedBase + rg_init_count)
    BY Layout DEF Assumptions, Init
  <2> QED BY <2>1 DEF Init, Booting, Resting, ReadIdle, WriteIdle
<1>3. store_tree = [n \in MemNode |-> Zero] /\ store_asked = Nothing /\ store_answer = Nothing
  BY <1>1, <1>2, BootingSeen DEF Booting, Init
<1>4. Store!Init
  BY <1>3 DEF Store!Init, store_tree, store_asked, store_answer, Store!MemNode, MemNode,
              Store!Slots, Slots
<1> QED BY <1>1, <1>2, <1>4 DEF IInv

LEMMA Step == Assumptions /\ IInv /\ [Next]_vars => IInv' /\ StoreStep
<1> SUFFICES ASSUME Assumptions, IInv, [Next]_vars PROVE IInv' /\ StoreStep
  OBVIOUS
<1>1. CASE Next
  <2>1. CASE Booting
    BY <1>1, <2>1, BootingStep DEF IInv
  <2>2. CASE Running
    BY <1>1, <2>2, RestingStep, ReadServedStep, WriteServedStep DEF IInv, Running
  <2> QED BY <2>1, <2>2 DEF IInv
<1>2. CASE UNCHANGED vars
  <2>1. IInv'
    BY <1>2 DEF IInv, TypeOK, Booting, Running, Resting, Asked, ReadServed, WriteServed,
                ReadIdle, WriteIdle, Writing, WriteBurst, WriteDone, write_burst, write_beat,
                sent, Reading, ReadAsked, ReadBurst, read_burst, drawn, words, base_addr,
                node_addr, node_write, zero_write
  <2>2. store_tree' = store_tree /\ store_asked' = store_asked /\ store_answer' = store_answer
    BY <1>2 DEF store_tree, store_asked, store_answer, WriteUnderWay
  <2> QED BY <2>1, <2>2, StoreStutters
<1> QED BY <1>1, <1>2

(* For every tree with the four levels and the offsets of the source: one  *)
(* request is under way at a time, its beats are in order wherever they    *)
(* are, no address of the adapter leaves the region tree memory owns, and  *)
(* boot has zeroed every word it has passed (tree_memory.bsv and the       *)
(* bridge in ccore.bsv).                                                   *)
THEOREM Invariant == LayoutAssumption /\ StoreAssumption /\ NothingAssumption => (Spec => []IInv)
<1> SUFFICES ASSUME Assumptions PROVE Spec => []IInv
  BY DEF Assumptions
<1>1. Init => IInv
  BY Start
<1>2. IInv /\ [Next]_vars => IInv'
  BY Step
<1> QED BY <1>1, <1>2, PTL DEF Spec

(* Bursts, strobes, alignment and the zeroing at boot are invisible to the *)
(* unit: what it sees is a store of zeroed nodes that serves each group    *)
(* read and each node write at one moment.                                 *)
THEOREM Implementation ==
  LayoutAssumption /\ StoreAssumption /\ NothingAssumption => (Spec => StoreImplemented)
<1> SUFFICES ASSUME Assumptions PROVE Spec => StoreImplemented
  BY DEF Assumptions
<1>1. Init => Store!Init
  BY Start
<1>2. IInv /\ [Next]_vars => [Store!Next]_(Store!vars)
  BY Step DEF StoreStep
<1>3. Spec => []IInv
  BY Invariant DEF Assumptions
<1> QED BY <1>1, <1>2, <1>3, PTL DEF Spec, Store!Spec, StoreImplemented
=============================================================================
