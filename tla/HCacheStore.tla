---------------------------- MODULE HCacheStore ----------------------------
(***************************************************************************)
(* The storage of mkHCache (hcache.bsv): a register file whose address is  *)
(* two bits of level offset and seven of index, cleared entry by entry     *)
(* after reset.  It is junk until then, and the methods wait.              *)
(***************************************************************************)
EXTENDS TreeGeometry

CONSTANTS
  Invalid,
  StoredLevels,    \* 2^2: level_to_offset truncates to this
  StoredIndices    \* 2^MaxStoredIndexWidth: pack_addr truncates an index to this

(* Every node the unit may name has an offset and an index of its own.     *)
ASSUME StorageAssumption ==
  /\ Zero \in Word /\ Invalid \notin Word
  /\ StoredLevels \in Nat \ {0} /\ StoredIndices \in Nat \ {0}
  /\ Height - MinHwLevel < StoredLevels
  /\ \A l \in MinHwLevel..Height : \A i \in Slots(l) : i < StoredIndices

HAddr == 0..StoredLevels * StoredIndices - 1
Stored == [valid : BOOLEAN, hash : Word]

VARIABLES rf_nodes, rg_initialized, rg_init_idx,
  found    \* what get_hash last returned

chipVars == <<rf_nodes, rg_initialized, rg_init_idx, found>>

ChipInit ==
  /\ rf_nodes \in [HAddr -> Stored]
  /\ rg_initialized = FALSE /\ rg_init_idx = 0
  /\ found = Invalid

level_to_offset(level) == (Height - level) % StoredLevels
pack_addr_mutant(level, index) ==
  level_to_offset(level) * StoredIndices + (index % (StoredIndices \div 2))
pack_addr(level, index) ==
  level_to_offset(level) * StoredIndices + (index % StoredIndices)

init_last == rg_init_idx = StoredLevels * StoredIndices - 1

rl_initialize_mutant ==
  /\ ~rg_initialized
  /\ rf_nodes' = [rf_nodes EXCEPT ![rg_init_idx].hash = Zero]
  /\ IF init_last
     THEN rg_initialized' = TRUE /\ UNCHANGED rg_init_idx
     ELSE rg_init_idx' = rg_init_idx + 1 /\ UNCHANGED rg_initialized
  /\ UNCHANGED found
rl_initialize ==
  /\ ~rg_initialized
  /\ rf_nodes' = [rf_nodes EXCEPT ![rg_init_idx] = [valid |-> FALSE, hash |-> Zero]]
  /\ IF init_last
     THEN rg_initialized' = TRUE /\ UNCHANGED rg_init_idx
     ELSE rg_init_idx' = rg_init_idx + 1 /\ UNCHANGED rg_initialized
  /\ UNCHANGED found

entry_hash(entry) == IF entry.valid THEN entry.hash ELSE Invalid

get_hash(level, index) ==
  /\ rg_initialized
  /\ found' = IF is_hw_level(level) THEN entry_hash(rf_nodes[pack_addr(level, index)])
              ELSE Invalid
  /\ UNCHANGED <<rf_nodes, rg_initialized, rg_init_idx>>

set_hash(level, index, hash) ==
  /\ rg_initialized
  /\ rf_nodes' = IF is_hw_level(level)
                 THEN [rf_nodes EXCEPT ![pack_addr(level, index)] =
                         [valid |-> TRUE, hash |-> hash]]
                 ELSE rf_nodes
  /\ UNCHANGED <<rg_initialized, rg_init_idx, found>>

ChipNext ==
  \/ rl_initialize
  \/ \E level \in Levels : \E index \in Slots(level) : get_hash(level, index)
  \/ \E level \in Levels : \E index \in Slots(level) : \E hash \in Word :
       set_hash(level, index, hash)

ChipSpec == ChipInit /\ [][ChipNext]_chipVars

-----------------------------------------------------------------------------
ChipTypeOK ==
  /\ rf_nodes \in [HAddr -> Stored]
  /\ rg_initialized \in BOOLEAN /\ rg_init_idx \in HAddr
  /\ found \in Word \cup {Invalid}

(* Entries the walk has passed are clear, and all of them were before the  *)
(* methods opened.                                                         *)
Cleared == ~rg_initialized => \A a \in 0..rg_init_idx - 1 : ~rf_nodes[a].valid

ChipIInv == ChipTypeOK /\ Cleared

nodes == [n \in HwNode |->
  IF rg_initialized THEN entry_hash(rf_nodes[pack_addr(n[1], n[2])]) ELSE Invalid]
Map == INSTANCE NodeMap

(* Two nodes never share an entry, no junk of power-up is ever returned as *)
(* a hash, and a hash set is the one returned: the store is the map from   *)
(* nodes to hashes that the rules of mkmvu take it for.                    *)
MapImplemented == Map!Spec
=============================================================================
