# Formal model of the MemVer memory verification unit

MemVer adds a memory verification unit (MVU) to the data side of a Shakti
C-class core (`src/sp2020/c64-a100`). A 4 MB region of DRAM is protected by a
Merkle tree: every fill of a protected cache line is verified against the
tree before the cache sees it, and every write-back of a protected line is
folded into the tree. This directory holds TLA+ modules translated from that
code, the TLC configurations that check them, and TLAPS proofs.

To check a module: `tlc -config <run>.cfg <module>.tla` with the pairs of
section 4. To check the proofs: `tlapm <module>Proofs.tla` (a few seconds to nine
minutes each).

## 1. The system

### Components

| component | source | state it keeps | operations |
|---|---|---|---|
| Verification unit `mkmvu` | `caches_mmu/src/dcache/mvu.bsv` | nine FIFOs to cache, memory and tree memory; a 14-state session (`rg_state`); the pending read; cursor in the tree; node group, hashes, buffered line | 16 rules |
| Tree geometry | `hcache.bsv`, `mvu.bsv` | none | protected region, leaf index, sibling group, parent |
| HCache `mkHCache` | `hcache.bsv` | `rf_nodes`: levels 4 to 7 on chip, `{valid, hash}`, cleared by a walk after reset | `rl_initialize`, `get_hash`, `set_hash` |
| Tree memory `mkTreeMemory` | `tree_memory.bsv` | four request/response FIFO pairs, an accumulator of eight hashes, boot counter | boot zeroing, group read, node write |
| Data memory wrapper `mkdmem` | `dmem.bsv` | none of its own | connects cache, unit and tree memory; copies each write-back to the unit |
| Data cache `mkdcache` | `dcache1rw.bsv`, `dcache_lib.bsv` | tag and data RAMs and what they last read; fill buffer; store buffer; write-back FIFO; flags for misses, polling, release, replay and fence | tag check, response, miss, fill, release, replay, fence, commit of a store, uncached access |
| Bridge of the core | `c-class/src/ccore.bsv` 165-391 | `wr_write_req`, `rg_read_line_req`, burst counters | reads, write-backs, tree reads and writes as AXI bursts |
| AXI4 fabric | `fabrics/axi4/AXI4_Fabric.bsv` | routing FIFOs of depth 1 per master and slave | requests, write data, responses |
| Prototype trees | `src/trees/*.cpp` | a vector of levels; a map of prefixes | build, update, prove, verify |
| Hash library | `src/Hash/*.c` | streaming context: chunk, counts | init, update, finalize |
| Interrupt controller and driver | `devices/plic/plic.bsv`, `bsp/drivers/plic/plic_driver.c` | pending, enables, gateways, priorities, a choice latched over two clocks; the driver's matrix | claim, complete, enable, disable, priority, threshold |
| Software I2C | `bsp/drivers/i2c/gpio_i2c.c`, `devices/gpio` | two pins: direction and data | write a byte, read a byte, read a burst |
| UART receive interrupt | `bsp/drivers/uart/uart.c`, `uart01_interrupt_test.c` | receive FIFO; buffer and count shared with the program | `uart1_isr`, the loop that prints |
| Heap | `bsp/libs/malloc_firstfit.c`, `sys_brk.c` | a list of block headers | `malloc`, `free`, `m_sbrk` |

The rest of the repository is the core the project is built on, the rest of
its software kit, board files and two other SoC variants without the unit.

### Interactions

- A miss goes `dcache -> mvu -> bridge -> fabric -> DRAM`; the beats come
  back the same way. The unit buffers a protected line and walks the tree
  before it forwards the first beat; other beats pass it as they come.
- A write-back goes `dcache -> bridge` directly. With its last data beat the
  bridge calls `ma_write_mem_req_deq`, which hands address and data to
  `ff_evict_req` (`dmem.bsv:182-186`). Uncached stores take the same way.
- The unit walks from the leaf to the root. Siblings of levels 1 to 3 come
  from DRAM through tree memory and a bus master of its own; those of levels
  4 to 7 from the HCache.
- The pipeline puts requests into the cache in program order, takes the
  answers in order, and commits a store, by its epoch, when it retires.
- Devices raise lines of the interrupt controller; the hart claims a pin,
  runs its routine (`uart1_isr` is one) and completes it.

### What is hard

1. A read and an eviction of the same line reach the unit through two
   FIFOs, and their data through two more: nothing in the unit orders them.
2. One session register set serves both reads and updates, and
   `rl_start_update` does not look at `rg_pending_req`.
3. A session spans many rules; `rg_error`, the beat counters, the group and
   the computed hashes live across them, and one missing reset leaks into
   the next session.
4. Rules are atomic but interleave; `bsc` lifts the implicit conditions of
   the FIFOs out of a rule's branches, so a rule may wait for a queue it
   will not use.
5. The tree is half updated while an update walks: whether anything reads it
   then is a matter of ordering.
6. In the cache a line lives in the RAMs or in the fill buffer, its stores in
   the store buffer, its last version on the way to memory; each tag check
   uses what the RAM put out for some earlier request.
7. The interrupt controller, the GPIO pins and the routine of the UART all
   change between two accesses of a driver that is written as if alone.

### What makes each component correct

- *Unit*: a beat the cache gets is the word last written there or carries
  `err`; memory nobody corrupted never raises `err`; a line is poisoned as a
  whole; between updates the tree is the hash of memory; a read in flight is
  never forgotten; every read is answered and every eviction is folded in.
- *Geometry*: a walk names only nodes that exist, and reaches the root.
- *HCache*: an entry read is the last one written, for every node of its
  levels; no two nodes share an entry; no junk of power-up is returned.
- *Tree memory and its bridge*: one group read or node write appears atomic
  to the unit, a node write changes one word, boot zeroes all of it first.
- *Cache*: a load returns the newest store of its program, no committed store
  is lost, no abandoned one lands, a fence leaves nothing behind, every
  request is answered.
- *Bridge, fabric*: the orderings the unit relies on hold.
- *Trees, hash*: verification accepts what was put in, and with a hash that
  tells strings apart nothing else; the digest does not depend on how a message is cut.
- *Software kit*: no interrupt lost or served twice, no bit lost on the wire,
  no character printed twice, no two heap blocks on the same memory.

The hazards, each with its line and the properties that would catch it, are
in `PROJECT.json`.

## 2. Plan

| | module | models | status |
|---|---|---|---|
| 1 | `TreeGeometry` | tree shape and address arithmetic | done |
| 2 | `MVU` | every rule of `mkmvu`, node store of `mkHCache` | done |
| 3 | `MVUSystem`, `MVUSystemInv`, `MCMVU` | the unit with cache, memory and tree memory reduced to their contracts | done |
| 4 | `GeometryProofs`, `MVUSystemProofs` | the inductive invariant, types | done |
| 4b | `MVUTrustInv`, `MVUTrustProofs` | what the unit's verdict rests on: delivery, lines, beats, tree; its promises proved | done |
| 5 | `NodeStore`, `TreeMemory`, `TreeMemoryInv`, `NodeStoresProofs`, `MCNodeStores` | abstract node store; boot, group read, node write, tree bridge, proved to implement it | done |
| 6 | `MemVerSoC`, `SoCProofs`, `MCSoC` | cache port, bridge, fabric, DRAM and unit; proved to implement the environment of `MVUSystem` under the orderings it names | done |
| 7 | `NodeMap`, `HCacheStore`, `NodeStoresProofs` | the register file of the HCache, proved to implement the map of `MVU` | done |
| 8 | `MVUBoot`, `MCBoot` | the unit while tree memory boots; junk proved (in `MVUTrustProofs`) never to show to a core that waits | done |
| 9 | `DCache`, `DCacheInv`, `DCacheProofs`, `MCDCache` | the data cache rule by rule, with the ends of the pipeline and of the bus; its structure, the freshness of its tag checks and its data proved | done |
| 10 | `MessageDigest`, `HashStream`, `MerkleProto`, `SparseTree`, `PrototypeProofs`, `MCPrototypes` | the prototypes: chunked hashing against whole, the two trees against a reference, both proved | done |
| 11 | `Plic`, `SoftI2c`, `UartReceive`, `HeapFirstFit`, `KitProofs`, `MCKit` | interrupt controller and driver, software I2C, receive interrupt, heap; all but I2C proved | done |

Theorems still worth proving: of the safety invariants the runs check, only
the two of I2C (`WritesLand`, `ReadsAreTrue`) have none.

## 3. The modules and the code

Bluespec executes the rules of a design as if one at a time, so a rule is an
action of the same name, its guard the rule's predicate with the implicit
conditions of the FIFOs it touches. `bsc` lifts those conditions out of
branches unless told otherwise: a rule that may enqueue waits for room even
when it will not (`unit_ready` in `MemVerSoC`, `may_respond` in `DCache` are
such guards). Actions that could fire in one clock cycle appear one after the
other; every order the scheduler could serialise them in is explored, and
more. The two places where that would hide what a cycle does, the cache's tag
check and the interrupt controller, say below how they keep it.

**TreeGeometry.** Words, and the shape of the tree over them.
Addresses count 8-byte words, which are also the leaves.
A byte shift by 3 is then the identity, `>> 3` on an index a division by
`Arity`. `Slots` are the places a sibling group may name, `NodesOf` the
nodes that exist; they differ where the last group of a level is short
(level 6 of the hardware: 2 nodes).

**MVU.** The nine FIFOs and all registers of `mkmvu`, the 16 rules, and
`rf_nodes` of the HCache as a map from `<<level, index>>` to `Maybe` hash.
`rg_node_valid` is folded into `rg_node_group`: an invalid slot is zero, as
`fromMaybe(0, _)` reads it. A request for siblings carries a mask that
tree memory does not use, left out. The module leaves the environment open;
methods of the interface are used by the composing modules.

| action | code |
|---|---|
| `rl_start_update`, `rl_forward_request` | the two ways out of `IDLE` |
| `rl_accumulate`, `rl_compute_l0_parent` | buffer the burst, hash it to the level-1 node |
| `rl_fetch_siblings`, `rl_wait_siblings`, `rl_collect_hcache_siblings` | the sibling group from tree memory or the HCache |
| `rl_compute_parent`, `rl_check_parent`, `rl_verify_root` | hash a level, compare it, compare the root |
| `rl_update_node`, `rl_wait_update_ack`, `rl_propagate_up` | store a level's node, climb |
| `rl_complete`, `rl_forward_verified`, `rl_forward_unprotected` | end of a session, beats to the cache |

The hash is a constant operator with four named assumptions, all true of
the sum modulo 2^64 the unit computes: it yields a word, an all-zero group
hashes to zero (`HashZero`: boot writes zeros), rotation of a group does not
change it (`HashRotate`: a wrap burst starts anywhere in its line), and one
changed word changes it (`HashOneWord`). TLC evaluates them.

**MVUSystem.** The unit plus a contract of everything else: `CacheRead`,
`CacheEvict`, `CacheDrop`, `IoStore`, `CacheTake` for the cache;
`MemAccept`, `MemBeat` for the burst; `TreeRead`, `TreeWrite` for tree
memory; `FaultData`, `FaultNode` for corruption of protected memory;
`BeatFails`, `GroupReadFails`, `NodeWriteFails` for a bus that reports
errors: a beat of data reaches the unit with `err`; the error of a group read
is dropped by `rl_process_read_resp`, which passes on what the beats held;
that of a node write is dropped by `rl_wait_update_ack`. `MaxFaults` and
`MaxErrors` bound them, and `Together` lets one behaviour have both. An
eviction reaches memory and the unit in one step. `written` is auxiliary:
what the cache last wrote.

**MVUSystemInv, MVUTrustInv** name the parts of the two inductive invariants
(section 6): `IInv` about where the unit, the pipes and the cache are, and
`Trust` about the words, hashes and errors they hold.

**MVUBoot.** `MVUSystem` from power-up: memory and tree hold junk,
`rl_init_send` zeroes one word a step in the order of their addresses, and
tree memory serves the unit only after the last. `CoreWaits` says whether the
core leaves the protected region alone until then, as a boot loader that
polls would; nothing in the hardware makes it. The states between power-up
and the end of boot have an invariant of their own, `BootInv` in
`MVUTrustProofs`.

**NodeStore, TreeMemory.** `NodeStore` is a map from node to word with one
group read or one node write at a time. `TreeMemory` has every rule of
`mkTreeMemory`, the tree half of the bridge (`rl_handle_tree_read_request`
to `rl_handle_tree_write_resp`) and DRAM taking a burst beat by beat with
strobes. Memory starts full of junk and boot zeroes it; requests of the unit
may arrive at any time. Offsets of the levels are constants tied to the tree
by `LayoutAssumption`. `rg_current_req` is written and never read, and is
left out. `TreeMemoryInv` says what a state can look like: the write pipeline
or the read pipeline rests, and the other carries one request, whose beats
are in order wherever they wait (`WriteBurst`, `ReadBurst`).

**NodeMap, HCacheStore.** `NodeMap` is the map from node to last hash that
the rules of `mkmvu` take the HCache for. `HCacheStore` is the register file:
address of two bits of level offset and seven of index (`StoredLevels` and
`StoredIndices` are their ranges, and the truncations are there), any
contents at power-up, `rl_initialize` clearing an entry a cycle, the methods
waiting for it. Its specification is `ChipSpec`, so that one module can
extend it and `TreeMemory`.

**MemVerSoC.** The unit, the cache's memory port with its one-entry
`ff_write_mem_request`, the cache half of the bridge (`wr_write_req`,
`rg_read_line_req`, `rg_burst_count`), the AXI FIFOs, and the fabric's path
to DRAM. `v_f_wr_mis` and `v_f_rd_mis` have one entry per slave, so DRAM is
at one write and one read at a time, of the cache or of tree memory;
`write_slot` and `burst` are those, and `TreeRead` and `TreeWrite` need
them free. A response FIFO and the FIFO after it are one where they differ
only by a `mkConnection` hop. `rg_shift_amount` always equals the beat count
times the word width and is the count. `Contract` is MVUSystem seen through
a refinement mapping: memory is `written`, a line waiting in
`ff_write_mem_request` (a request of more than one beat) is still held
(`held_or_leaving`), and a read is under way from the bridge on.

**DCache.** `mkdcache` as `core_config.yaml` builds it (one way, one RAM
port, two store-buffer entries, no ECC, enabled), with the fill buffer and
store buffer of `dcache_lib.bsv`. An address is `<<tag, set, word>>`, a word
a few byte lanes. What the rules share through wires is an operator of the
wire's name (`ram_hit`, `fb_hit`, `nc_write`, `polling_after`, ...).
`rl_ram_check` and `rl_fillbuffer_check` fire in the cycle of the rule that
uses their wires, so the head of `ff_core_request` acts as soon as it can:
`put_core_req` and `rl_release_from_fillbuffer`, which change the RAM output,
wait for it unless they belong to the same cycle, which `offered` records.
The RAMs hold any tag at power-up, with the valid bits clear. Translation is
a trap bit per request. The pipeline is what the cache sees of it: three
requests in flight, answers in order, `ma_perform_store` for the store that
retires, an epoch that a trap flips (`RetireOther`, `Flush`). The bus answers
the oldest fill, never before the line's own write-back has landed
(`MemVerSoC` is about that), and lands write-backs one behind the other.
`arch` is auxiliary: the words as the retired stores leave them.
`DCacheInv` says what a state of the cache can look like while no access
traps (`NoTraps`): `Ring`, `Single` and `Fills` for the tables, `Waits`,
`Overtaken`, `FenceLast` and `Offered` for the one or two requests in
`ff_core_request`, `Output` for what the RAM last put out.
`DataInv` says where the words are while no path is abandoned either
(`Straight`): `Paired` and `Turns` relate the store buffer to the answered
stores of the pipeline (`owed`), `before(k, a)` is the word the k-th access
finds, `Placed` has each word in the fill buffer, the RAMs or memory.

| action | code |
|---|---|
| `rl_response_to_core` | answer from RAM, fill buffer or device; move a line that is stored to into the fill buffer; allocate the store |
| `rl_send_memory_request`, `rl_fill_from_memory`, `rl_capture_io_response` | miss, beat of a fill, answer of a device |
| `rl_release_from_fillbuffer`, `rl_perform_replay` | line to the RAMs in one or two cycles, victim to memory; read again what the waiting request needs |
| `rl_fence_operation` | one set a cycle to memory, then everything invalid |
| `put_core_req`, `ma_perform_store` | methods of the pipeline |
| `rl_perform_atomic`, `rl_fillbuffer_check` | result of an atomic; polling of a word under way |

**MessageDigest, HashStream.** `MessageDigest` promises the chunks of the
padded message (FIPS 180-4), however it is cut. `HashStream` is
`sha256_init`, `sha256_update`, `sha256_finalize` over the real 64-byte
chunk; `sha256_calc_chunk` is free, so `h` is the sequence of chunks it was
given, and two digests are equal only if the chunks are. `last_chunk` is
never cleared, and holds junk before the first use. The eight bytes of the
length come from the loop that shifts it (`with_size`), for messages shorter
than 2^61 bytes.

**MerkleProto, SparseTree.** The tree of `mkt-sha256.cpp` as its levels;
`parent`, `sibling` and `is_left` are arithmetic on positions, and a walk to
the root takes `parent` as often as it must (`ancestor`). `latest` is
auxiliary: the block last updated under each node. `SparseTree` has the map
from prefixes to hashes and the default hashes of `smkt-sha256.cpp`, keys of
any length. In both `sha256` is a constant operator of which nothing is
assumed: that of `mkt-sha256.cpp` prints a buffer nothing writes (finding 13),
so what is stated of the tree may not rest on a hash that works. The run gives
both one without collisions (`FreeHash`), which shows every slip of the order
hashes are joined in; the theorems are for any.

**Plic.** A step is one clock: `rl_prioritise` or `rl_encoder` (two clocks
to a choice), gateways, the lines of the devices, and at most one register
access of the hart. The driver's calls are their accesses in order
(`interrupt_enable` reads a byte, then writes it; `interrupt_disable` also
notes the state), the handler is `trap_entry` to `mret`, with interrupts off
in between, and devices raise their lines at any clock. A priority is
truncated to `Levels` bits, as the register does.

**SoftI2c.** A call is the sequence of register accesses it makes; a step is
one access and what wire and slave do in the `delay_loop` after it. `dataout`
is rewritten from what the pins show, as the read-modify-write of the driver
does. The slave (external) samples when the clock rises and drives when it
falls; where master and slave drive against each other, and where both wires
move at once, either outcome may be seen.

**UartReceive.** Receive FIFO, `uart1_isr` with its branches (the threshold
branch is dead: bit 8 of an 8-bit status), and the printing loop, one access
to shared memory a step; the routine runs between any two. The `printf` is a
step per character, as `printf.c` reads `%s`: `putchar` waits for the other
UART between two of them, which is the longest window the routine has.

**HeapFirstFit.** `malloc` and `free` with headers by address, `size_t`
modulo `SizeMod`, and an `m_sbrk` that moves `heap_ptr` even when it refuses.
`fits` says whether a split stays within the block it splits, which nothing in
the code asks; `fitted` is auxiliary, true until one did not. What headers
mean after such a split depends on what the program wrote there, so a
behaviour is followed up to it. Programs may ask for any sizes.

**MCNodeStores, MCPrototypes, MCKit.** Parts that share no state, checked in
one run each: the initial state chooses a `part`, its actions are those of
that part, and the others rest. Each property is the part's own, and
fairness is stated of the part the behaviour exercises. The sizes of the FIFO
and of the two heaps in `MCKit` are constants that `kit` gives values;
`KitAssumptions` asks what the theorems need of them.

## 4. The runs

| run | module | question | instance |
|---|---|---|---|
| `mvu_short` | `MCMVU` | do unit, pipelines and cache always agree, do the words and hashes they hold, does the tree stay the hash of memory, is honest memory never refused, does every beat carry the right word | 2 protected lines and 1 other, tree of 3 levels with a short group, 1-bit words, 2 reads in flight |
| `mvu_fault` | `MCMVU` | does a corrupted word or node, or a failed access, ever reach the cache as data without `err`, or the unit's own verdict on part of a line | 2 protected lines, one corruption at any moment or up to two bus errors of any kind |
| `mvu_full` | `MCBoot` | does junk of power-up ever show, and are full groups folded in from tree memory and from two HCache slots | 4 protected lines, 3 levels, boot of 12 words, a core that waits |
| `mvu_live` | `MCMVU` | is every read answered and every eviction folded in | an uncached line beside two protected ones, 2 reads in flight, up to two bus errors |
| `soc_contract` | `MCSoC` | does the real path of a write-back look to the unit like `MVUSystem`, and do reads, write-backs and tree accesses ever wait for each other for ever | 2 protected lines, tree of 2 levels, 1-bit words, one pattern of dirty data, `OrderWrite` but not `OrderTree` |
| `soc_queue` | `MCSoC` | can a write burst that holds DRAM's slot wait for the unit | one uncached line and two protected ones, no ordering of reads and write-backs assumed |
| `soc_fault` | `MCSoC` | finding 1 (a violation) | as `soc_contract`, without the orderings |
| `node_stores` | `MCNodeStores` | does tree memory look like an atomic store of zeroed nodes, with its beats always in order, and the register file like a map | 32 leaves, groups of two; three levels in memory behind an unprotected line, as in the hardware, 3 requests; two levels on chip, the register file of just their size |
| `dcache_conflict` | `MCDCache` | do loads see stores, is no store lost, is each tag check about the right set, does a fence flush | 4 requests out of: loads, whole and partial stores and an atomic on two words of one line, a line of the same place, one of another set, a device, the fence; 2 byte lanes |
| `dcache_live` | `MCDCache` | the same of traps, abandoned paths and failing lines, and is every request answered | 3 requests out of loads and stores of two lines for one place, a load that traps, the fence |
| `prototypes` | `MCPrototypes` | does a digest depend on the cut, which blocks does a tree verify after any updates, is the sparse tree the whole one | messages up to 130 bytes in pieces of 0, 1, 55, 64 and 130; 1 to 5 blocks; keys of 3 bits |
| `kit` | `MCKit` | is an interrupt lost or served twice, does the wire carry each bit, is a character printed twice, do blocks overlap | 2 pins of one enable byte, 2 rises each, 3 driver calls; 3 calls of I2C, 2 registers; FIFO of 2, 4 characters; a heap of 288 bytes for blocks of 16, one of 168 for blocks of 8, 16 and 40, whose splits may leave less than a header |

*Why the bounds are enough.* Arity 2 keeps a group with an own slot and a
sibling, a first and a last beat, and every rotation of a wrap burst. Three
levels give one level in memory and two in the HCache, so every state of
the unit and each crossing between the stores occurs; `ShortTree` has the
short group, `FullTree` a group with two live slots on both sides. The unit
handles one session at a time, so two lines are enough for one to be
refused, delayed or confused with the other. FIFOs keep their depth of two.
One-bit words with the sum modulo 2 satisfy every hash assumption; the
contents offered by `EvictData` include two that hash alike (`mvu_short`,
`mvu_fault`), so that an unnoticed mix-up of words is not hidden by the
hash. `MaxFaults` is 1, which is what `HashOneWord` lets the unit promise;
data is corrupted only where the HCache already holds a node above it
(`watched`), because the unit accepts and stores the first hash it sees of a
node it does not hold. Two bus errors let a second one meet the state the
first left. `MaxOutstanding` bounds the reads the cache keeps in flight; the
unit takes one at a time and its request FIFO one or two more.

In `soc_contract` a line may be read while its last eviction still waits to be
folded in, so the cache can evict faster than the unit walks: `ff_evict_req` is
full with both entries, a third eviction is being folded in and a fourth waits
in the cache (`ff_write_mem_request`) for room, which is what
`WriteBacksLeave` is about. TLC reaches that state. With `OrderTree` two lines
never fill the queue. A dirty line always has the same contents, other than
those of power-up, so evictions differ by their line only; two contents take
longer than a run may and move beats no differently.

In `node_stores` any three requests follow one another, so each kind meets
what each kind leaves. In `dcache_conflict` two lines compete for one place
and fill the fill buffer, so moves, misses, releases with and without a
dirty victim and refetches meet; two words make a line arrive in two beats;
two lanes let stores and atomics cover parts of a word; with four requests
and three places in the pipeline the fourth meets a full pipeline, and the
store buffer and fill buffer are at their limits. Values are the number of
the access, so no two stores write the same. In `dcache_live` the third
request follows a miss and an eviction, or a trap and what it abandons. The
hash runs have the real chunk, and their pieces reach the
boundaries at 55, 56, 63 and 64 bytes within one update and across several.
Two pins share the byte of enables that the driver reads and writes; a
second rise can come before, during and after the service of the first.

Runs in which the system may stop, because its number of requests, calls or
characters is bounded, do not check deadlock (`node_stores`, `dcache_*`,
`kit`); there liveness says what must still happen.

`Trust` is listed in `mvu_short` only. It also holds with the constants of
`mvu_fault`, and `BootInv` with those of `mvu_full` (2,395,135 states) and
on the short tree with one corruption and one bus error (5,520,780 states).
These were checked before the proofs were written and are not repeated.
`ChipIInv` is proved and in no list: a register file that breaks it returns
junk, which `MapImplemented` tells. So is `IInv` of `DCacheInv`: it was
checked with the constants of `dcache_conflict` (1,408,129 states), those of
`dcache_dropped_store` without the trap, and a fill buffer of three entries
with failing lines and abandoned paths, before it was proved; `DataInv` with
the constants of `dcache_conflict` as well.

The parts of `IInv` of `SoCProofs` (`WritePath`, `ReadPath`, `LinesApart`)
hold with the constants of `soc_contract` (204,289 states), `WritePath` with
those of `soc_queue` as well (1,957,227 states), and `NodesInv` of
`KitProofs` with those of `kit` and with blocks of 32 bytes, which leave a
rest too small for a header (about 188,000 states each). These too were
checked before they were proved.

Types are part of `IInv` (`mvu_short`, `prototypes`, `node_stores`) and of
`WellFormed`. `TypeOK` of `MemVerSoC` is proved and in no list; that of `Plic`
and `SoftI2c` and `InsideBuffer` of `UartReceive` hold in `kit`, and are left
out of its list, which is kept for what could go wrong.

## 5. Orderings and fairness

*Orderings the unit needs and does not enforce.* They are constants, so
each run says what it assumes.

- `OrderLine` (`MVUSystem`), `OrderTree` (`MemVerSoC`): a line is not read
  again until its last eviction is in the tree. The code has nothing that
  waits for this; `soc_fault` shows what happens without it.
- `OrderWrite` (`MemVerSoC`): a line is not read again while its write-back
  is on its way to memory. `wr_write_req` enforces it only from first to
  last beat; finding 3 shows the gap. `soc_contract`, its liveness included,
  assumes it and not `OrderTree`; `soc_queue` assumes neither. With both, and
  `OrderIO`, what
  finding 1 refutes is a theorem (`NeverAFault` of `SoCProofs`).
- `OrderIO`: a protected write-back and an unprotected read do not overlap.
  `rl_start_update` may start an update while such a read is pending, and
  `rl_complete` then clears `rg_pending_req`. In the hardware a walk of
  seven levels takes far longer than the burst it would have to outlast;
  that is timing, which an interleaving model does not have, so the
  ordering is assumed instead. Without it the read is never answered: with the
  constants of `mvu_short`, `OrderIO = FALSE` and `MaxOutstanding = 1`, TLC ends
  in a state where the beats wait in `ff_resp_from_mem` and `rg_pending_req` is
  invalid. The ordering is stronger than the code needs, the theorems about the
  unit and all its runs depend on it, and none of them says anything of this
  hazard.
- `CoreWaits` (`MVUBoot`): the core leaves the protected region alone until
  it is zeroed; finding 5 is what happens otherwise.
- `IoLine` is disjoint from the protected region: `isIO` makes every address
  uncached while the cache is disabled, and the models begin with it enabled.

*Fairness.* The hardware scheduler runs every enabled rule that does not
conflict with an earlier one, so a part of the design goes on while any of
its rules stays enabled: weak fairness of the unit's read rules and walk
rules, of the bridge, the fabric and tree memory, and of the cache taking
its beats. Nothing makes the cache read or evict. `rl_start_update` and
`rl_forward_request` conflict in `IDLE` without an urgency annotation; `bsc`
prefers the one written first, `rl_start_update`, and strong fairness for it
is weaker than that. A bus that fails answers all the same, so
`Fairness` names the answers and none of the errors.
Tree memory has fairness of the adapter, the bridge, DRAM and the unit
taking its answer, and none of the unit's asking.

`DCache` has weak fairness of each rule, of the pipeline retiring what is
answered and of the bus finishing what it took; none of requests, traps and
flushes. `Plic` has weak fairness of the clock, of the handler (the hart
takes an interrupt that stays up and finishes the routine) and of the second
half of a driver call. `UartReceive` has it of the routine, which the
controller asks for until the FIFO is empty, and of the loop.

`EvictionsFolded` is checked in `mvu_live` and not in `MemVerSoC`: there a
line may be evicted over and over while its previous eviction waits, so
that it is never free of one; `WriteBacksLeave` says instead that each
write-back gets out of the cache.

## 6. The proofs

`GeometryProofs` holds the arithmetic: division and remainder by `Arity`,
every ancestor of a node is a node, its sibling group lies in the slots of
its level, an address of a protected line is a leaf. `MVUSystemProofs`
proves, for every tree that meets `GeometryAssumption`, every word set and
hash that meet `WordAssumption`, every number of reads in flight, of
corruptions and of bus errors (`SystemAssumption`, `InvalidAssumption`):

- `Invariant`: `OrderIO => (Spec => []IInv)`,
- `TypeCorrect`: `OrderIO => (Spec => []TypeOK)`: no rule ever names a node
  that does not exist, or counts a beat too many.

`TypeOK` is not inductive by itself. `rl_accumulate` stores beat
`rg_beat_count` and must not run past the line: that needs to know how many
beats memory still owes (`MemPipe`) and that the burst is the pending read's
(`PipeBurst`). The walk must not climb past the root (`Cursor`), and the
response it waits for is for the node it is at (`TreePipe`). That a session
is a read or an update but never both (`Session`) needs, for an update that
starts during an unprotected read, that there is none (`Ordered`), which is
where `OrderIO` enters, and `Ordered` follows from the place of each read in
flight (`InFlight`, with `Buffered` for the beats on the way out). Each part
has a lemma `...Step` with one step per rule; `StepIInv` joins them. The
parts that hold in unprimed form feed each other: none is inductive alone.

`MVUTrustProofs` proves what the unit promises, from the same assumptions
and on top of `IInv`, again for any number of corruptions and errors:

- `TrustInvariant`: `OrderIO => (Spec => []Trust)`,
- `LinesPoisonedWhole`: `OrderIO => (Spec => []PoisonedWhole)`,
- `TreeStaysConsistent`, `NeverFalseAlarm`: `OrderIO /\ OrderLine =>` the
  tree stays the hash of memory, and intact memory is never refused,
- `ReadsTrue`: `OrderIO /\ OrderLine /\ OneFault => (Spec =>
  []DeliveredCorrect)`, and `ReadsTrueWhilePromised`, which asks for
  `OneFault` only once memory is no longer honest. `OneFault` is at most one
  corruption and none beside a bus error: with two, hashes may cancel
  (`HashOneWord` speaks of one word), and finding 4 is what an error and a
  corruption do together.

`Trust` has four parts. *Delivery*: which beat of which read each response to
the cache answers (`InOrder`: the first is the beat the cache waits for, the
next the unit sends is the one after the last in the queue), and that the
beats of a line agree on `err` (`ErrsAgree`). *Lines*: a line is in the
cache, being read, or on its way into the tree, and only one of these
(`OnePlace`, from `OrderLine`), and evictions hold what was written. *Beats*:
a beat is what was written, or says `err`, or comes from the corrupted word,
at each place it waits; behind the verdict the last is gone. *Tree*: what
the walk has gathered is the node's own hash beside its stored siblings
(`Gathered`), the tree is the hash of the words but for the one node that an
update has left behind (`TreeFolded`, `Behind`), what an update carries up is
what that node must become (`UpdateRight`), and what a verification carries
up equals the stored node exactly if the line is what was written
(`VerifyRight`).

Three things make it inductive. The tree is compared with `written` and not
with memory: after a corruption the two differ, and the tree has to tell.
It speaks for `written` only up to `Top`: once a word is corrupted a first
read may store a node above the lowest HCache level from the corrupted line,
so the comparison at that level is the one that counts, and `FaultsWatched`
says there is something to compare with. And *Beats* needs *Tree* for the
verdict while *Tree* needs *Beats* for the line it starts from, so the step
lemmas `StepBeats` and `StepTree` each take both. `TellsStep` has one lemma
per rule; `HashOneWord` is used where one tampered word, or a differing child
on the walk above it, changes a group, `HashRotate` where a line arrives
wrapped (`LeafHash`), `HashZero` for the tree of the initial state.

It also proves `BootHidesJunk`: `OrderIO /\ OrderLine /\ OneFault /\
CoreWaits => (BootSpec => []JunkNeverSeen)`. Until tree memory is initialized
the unit is untouched (`Untouched`), nothing in flight is protected
(`NoneProtected`, which is where `CoreWaits` enters) and what boot has passed
is zero (`ZeroedSoFar`); the last step of boot makes that `Lines`, `Beats`
and `Tree`, and the lemmas about the running unit take over. `BootReaches` says
that boot gets to every protected word and every node in memory.

`NodeStoresProofs` proves, for every layout of the levels that the tree fits
(`LayoutAssumption`), every memory the region lies in (`StoreAssumption`) and
a `Nothing` that is none of the requests and answers (`NothingAssumption`),

- `Invariant`: `Spec => []IInv`,
- `Implementation`: `Spec => StoreImplemented`: each rule of the adapter, the
  bridge and DRAM is a step of `NodeStore` or leaves it alone, from any
  contents at power-up and with requests that arrive during boot.

A group read is seen by `NodeStore` when its last beat is collected and a
node write when DRAM takes its beat, several rules before the
acknowledgement; that the word is there from then on, and the other words of
the burst are not touched, is `WriteLands` and `UnderWay`. Nodes of different
levels and places have different addresses (`NodeAddrInjective`), all behind
the words of data. `Span...` are about a window of a sequence that moves,
which is what a burst in flight is. `BootingStep`, `RestingStep`,
`ReadServedStep` and `WriteServedStep` go through the rules in each phase.

It also proves, for every tree that meets `GeometryAssumption` and fits the
address of the register file (`StorageAssumption`: each level has an offset
and each index a place of its own), and whatever the file holds at power-up,

- `ChipInvariant`: `ChipSpec => []ChipIInv`: what the walk has passed is clear;
- `ChipImplementation`: `ChipSpec => MapImplemented`: each step of the
  register file is a step of `NodeMap` or leaves it alone. `PackInjective`
  carries it: two nodes have different addresses although both parts
  are truncated.

`SoCProofs` is about the path between cache, unit and DRAM, for every tree,
hash, set of words and of data offered, and number of reads in flight:

- `WritePathInvariant`: `Spec => []WritePath`,
- `BurstsGoOn`: `Spec => []BurstNeverWaits`,
- `Invariant`: `OrderWrite /\ OrderIO => (Spec => [](IInv /\ System!IInv))`,
- `ContractImplementation`: `OrderWrite /\ OrderIO => (Spec =>
  ContractKept)`: every step of cache port, bridge, fabric and DRAM is a step
  of `MVUSystem`, or leaves it alone,
- `NeverAFault`, `ReadsAreTrue`: `OrderWrite /\ OrderTree /\ OrderIO =>`
  intact memory is never refused, and each beat the cache gets is the word
  the unit was last told of, at its place in the wrap burst,
- `TypeCorrect`: `OrderWrite /\ OrderIO => (Spec => []TypeOK)`.

A write-back is in up to three places at once: beats on the data channel, an
address before or in DRAM, a line at the head of `ff_write_mem_request`.
`Counted` says that every burst is complete on the data channel but the one
the bridge is sending; `Aligned`, that this one is the line at the head, as far
as `rg_burst_count` says; `Placed`, that each beat will land in the line of its
burst; `Lands`, that when all of it has landed, memory is what the unit was
told and what is still to be announced. These hold without any ordering, and
`BurstsGoOn` follows: a burst that DRAM waits for is the one being sent, and
its announcement has room. `ReadPath` has the one read under way in one place;
`LinesApart`, that no line is read twice at once nor while it is held or being
written, is where `OrderWrite` enters.

What a beat of a read may find under way (`NothingUnderWay`, `BeatUnderWay`)
depends on what the unit still waits for, which is the memory pipe of
`MVUSystem`; and that a step is one of `MVUSystem` depends on `LinesApart`. So
the two invariants are proved in one induction (`Invariant`), each for the
step of the other. `System` is `MVUTrustProofs` seen through the mapping of
`Contract`; `SystemAssumptions` shows that its assumptions follow from those
of `MemVerSoC`, and its theorems then hold of the whole, which is what
`NeverAFault` and `ReadsAreTrue` are. `OrderIO` is only there for `MVUSystem`.

`PrototypeProofs` has four theorems, for messages and pieces of every length,
any number of blocks and keys of any length:

- `Invariant`: `Spec => []IInv`: bytes counted are bytes compressed plus bytes
  held, and fewer than 64 are held, so neither `memcpy` of `sha256_update` nor
  the `0x80` of `sha256_finalize` lands behind `last_chunk`;
- `DigestImplemented`: `Spec => DigestOfMessage`: whatever the cuts, what is
  compressed are the chunks of the padded message;
- `SparseTreeIsWhole`: `MCSpec => []SparseIsWhole`: the nodes a sparse tree
  keeps and the defaults it takes for the others are those of the tree in
  which every leaf is hashed, whatever the hash;
- `ElementsVerified`: `MCSpec => []OwnVerified`: the data a block holds is
  verified unless one of its ancestors was last updated from the right
  (finding 12 is why no more), for every `sha256` that returns the same for the
  same string. That other data is refused needs more, a `sha256` that tells
  strings apart, which the program's does not; `OthersAreRefused` says it with
  that as its hypothesis (`TellsApart`) and is not claimed of the program.

The digest needs what the bytes are and not only how many: the chunks
compressed, laid out, followed by the first bytes of `last_chunk` are the
message (`MessageIs`). An update extends both by its piece, however many chunks
it completes (`UpdateExtends`), and finishing pads as FIPS 180-4 does, in one
chunk or two (`PaddedAs`, `FinishBlocks`). In the sparse tree a `set` walks up
one path: a node off the path stands for keys that did not change
(`SameBelow`), a node never stored for keys never set (`EmptyBelow`), and each
step keeps the tree right but for what is above the path (`Adds`). In the built
tree a node is the hash of its children in the order of their places, or the
other way round if the last update under it came from its right (`BuiltInv`,
`BuiltKept`); that the loop that builds it ends is `BuildEnds`.

`KitProofs` proves of the interrupt controller, for every set of pins, width
of priority, and number of interrupts and calls,

- `ClaimFindsPending`: a claim returns a pin that is pending;
- `ClaimedOnce`: a pin in service has its gateway shut and is not pending;
- `DisabledQuiet`: four clocks after a pin was disabled it is not signalled;
- `NoServiceTwice`: no pin is served more often than its line rose.

The choice is two clocks old when the hart sees it, so `ClaimPending` needs
what the controller latched (`Latched`: latched pins are pending but for the
one claimed in that clock), what the wire stands for (`Signalled`), and that
the gateways of pending pins are shut (`GatewayShut`); `Fading` counts the
clocks a disabled pin may still spend in the latches, `Raised` relates
services, gateway and line.

Of the heap and the reception it proves, for every instance of `MCKit`,

- `BlocksNeverOverlap`: `MCSpec => []LiveDisjoint`, of any heap and any sizes:
  until a split reaches beyond its block, no block overlaps another. Finding
  20 is such a split; the theorem says that nothing else does harm;
- `RefusedOnlyWhenFull`: `MCSpec => []RefusedWhenFull`, of any one size;
- `CharactersShownOnce`: `MCSpec => []ShownOnce`, for any depth of the FIFO
  and any number of characters, with the routine between any two characters
  of a `printf` as between any other two accesses.

As long as every split fitted, headers are aligned, each lies behind the end of
the block before it, and the list only leads upwards (`Laid`); so the walk of
`find_free_block` ends, at a free block that is large enough or nowhere
(`Search`, `FindFree`), and a split that fits puts its header between two
blocks (`Splitting`, `Taking`). That a program of
one size loses nothing is a property of the whole list: all blocks but the
last have that size, one behind the other from the start of the heap
(`Chain`), every header is reached (`FailedSearch`), and what is not free the
program has (`NodesInv`); so a refusal has met a program that holds all but
the last, and `UsedIs` counts that up.

A character is in the FIFO or was taken (`InOrder`), and is in one place of the
buffer (`Buffered`). What was printed lies behind the place `printf` is at, or
in bytes the `memset` still has to pass, and is gone before anything is
printed again; what the routine stores is new, wherever it lands (`Unprinted`).
`Scanning` is the delicate part: the routine may overwrite the `'\0'` that main
has written while `printf` is on its way there, but `printf` prints a character
of its own with each place it moves on, and the buffer has more places than
characters arrive, so it stops inside it (`Inside`). That the buffer is larger
than `MaxChars` is the model's bound; the code has a fixed size and no check.

`DCacheProofs` proves, for every number of sets, tags and words, every size
of the fill buffer, any requests, abandoned paths and errors of the bus
(`DCacheAssumption`),

- `Invariant`: `NoTraps => (Spec => []IInv)`,
- `LinesInOnePlace`: `NoTraps => (Spec => []WellFormed)`,
- `ChecksAreFresh`: `NoTraps => (Spec => []CheckedOutputFresh)`,
- `DataInvariant`: `Straight => (Spec => []DataInv)`,
- `StoresKept`: `Straight => (Spec => []NothingLost)`,
- `LoadsRight`: `Straight => (Spec => []LoadsSeeStores)`,
- `FencesFlush`: `Straight => (Spec => FenceFlushes)`.

`NoTraps` is needed: an access that traps can leave `rg_polling_mode` set
for the next one (finding 10), and with the constants of `dcache_fault_poll`
TLC refutes `CheckedOutputFresh`. Accesses that trap stay in the runs
(`dcache_live`). `Straight` is `NoTraps` and nothing else that abandons a
path, neither a trap of an instruction (`Flushes`: finding 6 refutes
`LoadsSeeStores`) nor an error of the bus, which traps the access that meets
it; and no atomic on a device, which is answered before the device is asked
(`nc_write`). `dcache_conflict` has such constants.

A line is in one place because the entries of the fill buffer from head to
tail are the valid ones (`Ring`), a miss allocates only what neither table
holds, and a store that moves a line clears the bit it came from (`Single`;
`OneCopyOf` turns it into the count of `OneCopy`). A beat of a fill goes to
an entry that still waits for it (`Fills`), also when the request that
missed has been answered by polling and the next has missed as well.

The RAM output is the harder part, because four rules replace it. `Output`
says it is the output of the next set to be checked, but for two cases: a
replay is owed, or a release is between its two phases. A second request
replaces it only when the first is past its check (`Overtaken`,
`PutBehindWaiting`), and in the cycle of a release only as `Offered` allows.
A release never frees the entry that is polled (`ReleaseFacts`), so the
request behind it is not checked without a replay. One state was not
foreseen: a store answered between the two phases of a release takes the
release back by clearing `rg_release_readphase`, but not its read of the RAM
(`TakenBack`). No replay is owed then and the output is the victim's; the
check stays right because the fill buffer is still full, or the fence still
waits, so the release is due again before anything else is checked
(`CheckFresh`). `Structure...` and `Order...` are the lemmas about the two
halves; `Kept...` joins them, one per rule.

The data has two halves as well. `Told` is what the program is told. At most
two answered stores are not performed; they are in the store buffer, the
oldest at `rg_head` (`Paired`, `OwedCases`), so what the k-th access of the
pipeline finds is `arch` with none, one or both laid over it (`before`), and
each answer is that word (`Seen`). The overlay of `rl_response_to_core` looks
at the mask of a slot whether or not it is valid. It is harmless here because
what a free slot still holds was performed last: laying it over `arch`, and
then the newer store over it, changes nothing (`Settled`, `LaidTwice`,
`LaidHidden`). A device answers with what it has, maybe not yet the store on
its way there; that store left the slot the overlay still reads
(`Outgoing`, `DeviceWord`). `Placed` is where the words are. A copy in the
fill buffer or the RAMs is right, and if it is not dirty so is memory with
the writes on their way (`Held`, `Stored`); what is in neither is right in
memory (`Away`). A store that waits has its word in the fill buffer and keeps
it there, because a release waits for an empty store buffer (`Homes`,
`PlacedRelease`); a beat brings the word of memory only where no newer copy
is (`Beats`, `PlacedFill`). The fence may stop early because a clear
`rg_globaldirty` means no dirty line (`Dirt`, `FenceWrites`). `Told...` and
`Placed...` are the lemmas, one per rule.

Only model-checked: liveness; the data of the cache once a path is
abandoned, and its traps; I2C. Liveness, and statements with `ENABLED`, are
beyond the prover and stay with TLC. `WritesLand` and `ReadsAreTrue` of I2C
speak of what a script of about a hundred accesses does to a slave, bit by bit;
a bit is a division by a power of two, which the prover has no arithmetic
for.

What a recursive function yields for every input is proved where it matters
(the digest, the trees, the walks along the heap), although the induction
theorems of the library take an operator, which no installed backend
instantiates. Induction over a set of naturals needs no operator:
`SetInduction` of `GeometryProofs`, repeated in `PrototypeProofs` and
`KitProofs`, is that, proved from the least element of a set. It also gives
that such a function exists at all, without which its defining equation says
nothing.

## 7. What was found

Each of these is a statement of a comment, a test or a module's own promise
that the code does not keep. The first is a run; the others were found the
same way. The configurations marked (cfg) are kept beside the runs and end in
the counterexample when given to TLC; for the others the constants that
differ from a run's are named.

*The unit and its path to memory*

1. `soc_fault`, `ReadsNeverFault`: a line read soon after its eviction is
   verified against a tree that does not hold the eviction yet, and the read
   faults although memory is intact. The bridge announces the write-back with
   its last beat while the read is already with the unit.
   `mvu_test5_repeat.c:4` says reads should never fault; it waits long
   between the two.
2. `mvu_own_node` (cfg, `MCMVU`), `TamperedNodeDetected`: the stored level-1
   node of the line being read takes no part in its verification
   (`mvu.bsv:364-368` leaves the own position out, `rl_check_parent` compares
   only HCache levels). A change to it goes unnoticed by that read, where
   `mvu_test10_treeprot.c:3` expects it to be detected. The data itself is
   still verified against the HCache.
3. `soc_latch` (cfg, `MCSoC`), `LatchedAfterResponse`: the bridge lets a read
   of a line go as soon as it has handed over the last beat of the line's
   write; the comment at `ccore.bsv:173` promises to wait for the response.
4. `AcknowledgedStored` (`mvu_fault` with `MaxErrors = 1`): `rl_wait_update_ack` dequeues the acknowledgement without looking
   at it and prints "Write acknowledged" (`mvu.bsv:468-471`); after a bus
   error (`ccore.bsv:388`) the HCache holds the new hashes and memory the old
   node. With errors and corruption in one behaviour (`Together = TRUE`) even
   `DeliveredCorrect` falls: the dropped error of a group read lets junk
   siblings into a node, and a corruption that fits it is accepted.
5. `boot_race` (cfg, `MCBoot`), `NoFalseAlarm`: nothing holds protected reads
   back while `rl_init_send` zeroes the region (`tree_memory.bsv:56-76`). A
   line read before its words are zeroed is hashed as junk, accepted because
   the HCache is empty, and every later read of the zeroed line is refused.

*The data cache*

6. `dcache_dropped_store` (cfg, `MCDCache`), `LoadsSeeStores`:
   `mav_check_sb_hit` takes the mask of an entry whether or not it is valid
   (`dcache_lib.bsv:1071-1075`), so after a trap a load returns the data of a
   store that was dropped. `dcache1rw.bsv:54` speaks of a pending store.
7. `DeviceAnswers` (as 6, with `Tags = 2`, `IoTag <- SecondTag`, `Flushes =
   FALSE`): the store buffer is laid over answers of devices too
   (`dcache1rw.bsv:807`): a register written and then read gives what was
   written. `dcache1rw.bsv:55-56` says it is looked up only on a fill-buffer
   hit.
8. `FenceStartsQuiet` (as 6, with `Flushes = FALSE`): nothing sets
   `rg_fence_pending`, so a fence runs and answers with write-backs still in
   the fabric; `dcache1rw.bsv:117-121` says it cannot. `FenceFlushes` is what
   holds.
9. `BusErrorKept` (as 6, with `Flushes = FALSE`, `Words = 2`, `Errors =
   "beat"`): each beat overwrites the error bit of the beats before
   (`dcache_lib.bsv:840`); a line whose first beat failed enters the RAMs.
10. `dcache_fault_poll` (cfg), `NothingLost`: an access that traps on a line
    whose word has not arrived leaves `rg_polling_mode` set; the next
    request's tag check waits while `put_core_req` lets another overwrite the
    RAM output, and a line is moved under a foreign tag. The comment at
    `dcache1rw.bsv:34-36` describes exactly this as what is prevented.
11. `dcache_lost_answer` (cfg), `EveryRequestAnswered`: the answer of a
    device is on a wire for one cycle; with the store buffer full behind a
    write-back `rl_response_to_core` cannot take it (`dcache1rw.bsv:951`),
    and the core waits for ever.

*The prototypes* (constants and operators of `MCPrototypes`)

12. `CurrentVerified` of `MerkleProto`: `updateMerkleTree` concatenates
    current and sibling in that order on both sides (`mkt-sha256.cpp:95`),
    `verifyElement` by side: after an update of any block but the first its
    own data is refused.
13. `OthersRefused` of `MerkleProto` with a constant `sha256`: `sha256()`
    prints a buffer nothing writes (`mkt-sha256.cpp:17-26`). Left the same by
    each call, all strings hash alike and every data verifies.

*The software kit*

14. `plic_levels` (cfg, `Plic`), `AllLevelsServed`: a priority is truncated
    to two bits on this SoC (`plic.bsv:227`, `mixed_cluster.bsv:77`), so
    `PLIC_PRIORITY_4` and above are never signalled; `plic_driver.h:50` says
    seven levels are supported.
15. `WritesLand` (in `MCKit`, `identity` with `Contents <- {104}`):
    `I2c_Read_byte` acknowledges the byte it wants to be the last
    (`gpio_i2c.c:474`); a slave whose next byte begins with 0 keeps the wire
    low, and the next `I2c_Write_byte` changes nothing.
16. `StopSent` of `SoftI2c`: after an acknowledgement SDA is left an input
    and `stop()` only writes the data register, so no stop condition follows;
    `gpio_i2c.c:108` says it does.
17. `WaitsForSlave` of `SoftI2c` with `Answers <- FALSE`: `ReadAckForWrite`
    reads the wire once and ignores it; `gpio_i2c.c:219` says it waits.
18. `ShownInOrder` of `UartReceive`: `++uart1_rcv_isr_count` is a load and a
    store around which the routine may run (`uart01_interrupt_test.c:153`);
    characters are overwritten and printed out of order.
19. `uart_lost` (cfg, `UartReceive`), `AllShown`: a character stored between
    the `'\0'` of line 153 and the `memset` of line 158 is never printed.
20. `heap_wrap` (cfg, `HeapFirstFit`), `BlocksApart`: `last->size > size` is
    all `allocate_block` asks for (`malloc_firstfit.c:76`); with fewer than
    24 bytes left the remainder wraps and a header is written over the next
    block.
21. `InsideHeap` of `HeapFirstFit`: the first block's size counts its header
    as well (`malloc_firstfit.c:150`), so the last block ends behind what
    `m_sbrk` granted.
22. `BackOnList` of `HeapFirstFit` with two sizes: a split in the middle of
    the list ends the list there (`malloc_firstfit.c:83`); `free` says its
    memory is added back.

What held, and is less obvious than it looks: `rg_mvu_error` never leaks
into the next line although two of its beats may be unread when it is
cleared; a first read that fills an empty HCache node never makes the tree
inconsistent; junk in memory at power-up never reaches the unit if the core
waits; a full `ff_evict_req` never stops a write burst that holds DRAM, but
only because `bsc` makes every beat wait for the queue (`unit_ready`): were
the condition on the last beat alone, as the source reads, bridge, unit and
DRAM would wait in a circle (the mutant of `BurstNeverWaits`); the RAM output
under a tag check is always that of its set as it is now, although four rules
replace it; and the interrupt controller's wire, two clocks old, never stands
for a pin that was already claimed.

## 8. Not modelled

- Cache: ECC, performance counters and the disabled cache are not built or
  not used in this configuration; replacement has nothing to choose with one
  way. Requests held for a page walk, the walker and the TLBs: a translation
  is a trap bit. One uncached load before an older uncached store, in the
  order two devices see it, is a hazard no property states. Bus errors of
  devices: that of an uncached read traps the access (`dcache1rw.bsv:957`),
  that of an uncached store traps it when it retires (`stage5.bsv:363`). A
  device of `DCache` always answers without one; `Errors` is about fills only.
- Bridge: instruction and page-table paths. Fabric: decoding, other slaves
  and masters, error slaves.
- `sha256_calc_chunk` and reading the digest out: the compression function is
  free, so nothing is said of its arithmetic. `Hash/hash.c` is the same code
  with a timing loop around it.
- Interrupt controller: non-maskable pins (the SoC has none), writes to the
  pending bits (no driver makes them). UART: transmission, polling reads,
  RTS and bit timing.
- The first pass-through unit in `src/MVU`, which the design no longer uses.
- The core's pipeline, other devices, board files and bitstreams, the two SoC
  variants without the unit, and the rest of the software kit: register pokes
  and polling loops against devices that are not in the repository (Ethernet,
  QSPI flash, sensors), and benchmark programs. These make up most of the C
  and C++ of the repository; what MemVer itself adds is Bluespec and a few
  C++ prototypes, and is what the modules are about.
