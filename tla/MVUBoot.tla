------------------------------ MODULE MVUBoot ------------------------------
(***************************************************************************)
(* The unit of MVUSystem while tree memory boots: DRAM holds junk, tree    *)
(* memory zeroes the protected words and then the nodes one by one         *)
(* (rl_init_send), and serves no group read or node write until it is done.*)
(* The core is not held back by it.                                        *)
(***************************************************************************)
EXTENDS MVUSystem

CONSTANT CoreWaits   \* the core leaves the protected region alone until then

ASSUME BootAssumption == CoreWaits \in BOOLEAN

VARIABLE rg_init_count   \* words zeroed so far

bootVars == <<vars, rg_init_count>>

(* Where the nodes of a level begin in the order of their addresses.       *)
level_start ==
  LET start[l \in 0..MinHwLevel] ==
        IF l = 0 THEN 0 ELSE start[l - 1] + NodeCount[l - 1] IN start
BootWords_mutant == level_start[MinHwLevel] - 1
BootWords == level_start[MinHwLevel]
rg_mem_initialized == rg_init_count = BootWords

BootInit ==
  /\ MVUInit
  /\ data \in [Addr -> Word]
  /\ tree \in [MemNode -> Word]
  /\ burst = Invalid
  /\ held = {} /\ inflight = <<>> /\ got = 0
  /\ written = [a \in Addr |-> IF is_protected(a) THEN Zero ELSE data[a]]
  /\ faults = 0 /\ errors = 0
  /\ rg_init_count = 0

rl_init_send ==
  /\ rg_init_count < BootWords
  /\ rg_init_count' = rg_init_count + 1
  /\ data' = [a \in Addr |-> IF is_protected(a) /\ addr_to_leaf_index(a) = rg_init_count
                             THEN Zero ELSE data[a]]
  /\ tree' = [n \in MemNode |-> IF level_start[n[1]] + n[2] = rg_init_count
                                THEN Zero ELSE tree[n]]
  /\ UNCHANGED <<mvuVars, burst, cacheVars, faults, errors>>

served == ~rg_mem_initialized => UNCHANGED treeFifos
patient ==
  (CoreWaits /\ ~rg_mem_initialized) => \A r \in Entries(inflight') : ~is_protected(r.addr)

BootNext ==
  \/ rl_init_send
  \/ Unit /\ UNCHANGED rg_init_count
  \/ Environment /\ served /\ patient /\ UNCHANGED rg_init_count

BootSpec == BootInit /\ [][BootNext]_bootVars

-----------------------------------------------------------------------------
(* If the core waits, nothing of what memory held at power-up ever shows:  *)
(* no beat of it is delivered as data, no hash computed from it stays, and *)
(* the unit never takes it for an attack.                                  *)
JunkNeverSeen ==
  DeliveredCorrect /\ NoFalseAlarm /\ (rg_mem_initialized => TreeConsistent)
=============================================================================
