---------------------------- MODULE HeapFirstFit ----------------------------
(***************************************************************************)
(* The heap of the SDK (bsp/libs/malloc_firstfit.c over the m_sbrk of      *)
(* bsp/libs/sys_brk.c): one list of blocks, each behind its header, found  *)
(* by first fit, split when larger, never joined.  Addresses count from    *)
(* _end.  A header is kept by its address, which is what memory does until *)
(* a split reaches beyond the block it splits (fitted): a behaviour is     *)
(* followed up to that split.                                              *)
(***************************************************************************)
EXTENDS Integers, FiniteSets, FiniteSetsExt, Functions

CONSTANTS
  HeapSize,      \* _HEAP_SIZE of the linker script
  Room,          \* _heap_end - _end
  Sizes,         \* what the program asks for
  SizeMod        \* bound: size_t is arithmetic modulo SizeMod

HeapAssumption ==
  /\ HeapSize \in Nat /\ Room \in Nat
  /\ Sizes \subseteq Nat \ {0} /\ Sizes # {}
  /\ SizeMod \in Nat /\ HeapSize < SizeMod

VARIABLES
  heap_ptr, global_base,
  hdr,           \* struct Header by address
  live,          \* history: the blocks the program has, with their sizes
  last,          \* history: the last call and what it returned
  fitted         \* history: every split so far ended where its block did

vars == <<heap_ptr, global_base, hdr, live, last, fitted>>

NULL == -1
HeaderSize == 24
REGSIZE == 8

round_up(x) == ((x + REGSIZE - 1) \div REGSIZE) * REGSIZE
Header(size, free, next) == [size |-> size, free |-> free, next |-> next]
Headers == DOMAIN hdr \union {NULL}

Init ==
  /\ heap_ptr = 0 /\ global_base = NULL
  /\ hdr = <<>> /\ live = <<>>
  /\ last = [op |-> "none", size |-> 0, at |-> NULL] /\ fitted = TRUE

-----------------------------------------------------------------------------
(* A list of headers as seen from base.                                    *)
find_free_block(headers, base, size) ==
  LET from[at \in DOMAIN headers \union {NULL}] ==
        IF at = NULL \/ (headers[at].free /\ headers[at].size >= size) THEN at
        ELSE from[headers[at].next]
  IN from[base]

(* request_heap: m_sbrk moves heap_ptr even when it then refuses.          *)
granted == heap_ptr + HeapSize <= Room
request_heap == [at \in {heap_ptr} |-> Header(HeapSize, TRUE, NULL)]

newblock_at_mutant(at, size) == round_up(at + size)
newblock_at(at, size) == round_up(at + size + HeaderSize)
rest(size, taken) == (size - taken - HeaderSize) % SizeMod

allocate_block(headers, at, size) ==
  LET newblock == newblock_at(at, size)
  IN [a \in DOMAIN headers \union {newblock} |->
        IF a = newblock THEN Header(rest(headers[at].size, size), TRUE, NULL)
        ELSE IF a = at THEN Header(size, FALSE, newblock)
        ELSE headers[a]]

(* A block is split when it is larger, handed out whole when it is equal.  *)
take(headers, at, size) ==
  IF headers[at].size > size THEN allocate_block(headers, at, size)
  ELSE [headers EXCEPT ![at].free = FALSE]

(* Nothing asks whether a header fits into what is left over: size_t       *)
(* wraps, or what is left ends behind the block that was split.            *)
fits(headers, at, size) ==
  headers[at].size > size =>
    newblock_at(at, size) + rest(headers[at].size, size) <= at + headers[at].size

malloc(size) ==
  LET first == global_base = NULL
      headers == IF first THEN request_heap ELSE hdr
      base == IF first THEN heap_ptr ELSE global_base
      block == find_free_block(headers, base, size)
  IN /\ heap_ptr' = IF first THEN heap_ptr + HeapSize ELSE heap_ptr
     /\ IF (first /\ ~granted) \/ block = NULL
        THEN /\ last' = [op |-> "malloc", size |-> size, at |-> NULL]
             /\ IF first /\ granted THEN global_base' = base /\ hdr' = headers
                ELSE UNCHANGED <<global_base, hdr>>
             /\ UNCHANGED <<live, fitted>>
        ELSE /\ global_base' = base
             /\ hdr' = take(headers, block, size)
             /\ live' = [a \in DOMAIN live \union {block} |->
                           IF a = block THEN size ELSE live[a]]
             /\ last' = [op |-> "malloc", size |-> size, at |-> block]
             /\ fitted' = fits(headers, block, size)

freed_mutant(header) == header
freed(header) == [header EXCEPT !.free = TRUE]

(* The program frees what it has, once.                                    *)
free(at) ==
  /\ hdr' = [hdr EXCEPT ![at] = freed(@)]
  /\ live' = Restrict(live, DOMAIN live \ {at})
  /\ last' = [op |-> "free", size |-> live[at], at |-> at]
  /\ UNCHANGED <<heap_ptr, global_base, fitted>>

Next ==
  /\ fitted
  /\ (\E size \in Sizes : malloc(size)) \/ (\E at \in DOMAIN live : free(at))
Spec == Init /\ [][Next]_vars

-----------------------------------------------------------------------------
After(a) == a + HeaderSize + live[a]     \* the first address behind a block

Overlap(from1, to1, from2, to2) == from1 < to2 /\ from2 < to1

listed ==
  LET from[at \in Headers] == IF at = NULL THEN {} ELSE {at} \union from[hdr[at].next]
  IN from[global_base]

(* malloc_firstfit.c:167, of malloc: "returns a pointer to the assigned    *)
(* block": no two blocks the program has share memory, and no header the   *)
(* allocator still writes lies in one of them.                             *)
BlocksApart ==
  \A a \in DOMAIN live :
    /\ \A b \in DOMAIN live \ {a} : ~Overlap(a, After(a), b, After(b))
    /\ \A c \in listed \ {a} : ~Overlap(a, After(a), c, c + HeaderSize)

(* Of whatever sizes a program asks for blocks, a split that reaches beyond *)
(* its block is all that brings two of them together.                      *)
LiveDisjoint == fitted => BlocksApart

(* sys_brk.c:46, of m_sbrk: "specifies the size of the heap": the heap is  *)
(* what m_sbrk granted, and the memory behind it is the stack's.           *)
InsideHeap ==
  /\ \A a \in DOMAIN live : After(a) <= heap_ptr
  /\ \A c \in listed : c + HeaderSize <= heap_ptr

(* However blocks come back, a program of one size is refused only when    *)
(* its blocks leave no room for another (and no split went wrong before).  *)
Used == MapThenSumSet(LAMBDA a : After(a) - a, DOMAIN live)
RefusedWhenFull ==
  last.op = "malloc" /\ last.at = NULL => Used + last.size + HeaderSize > HeapSize

(* malloc_firstfit.c:242, of free: "when freed this memory is added back   *)
(* to the list to be reused".                                              *)
BackOnList == last.op = "free" => last.at \in listed
=============================================================================
