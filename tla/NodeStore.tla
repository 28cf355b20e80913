----------------------------- MODULE NodeStore -----------------------------
(***************************************************************************)
(* What the verification unit may assume of the tree nodes kept in DRAM:   *)
(* all of them read as zero from reset, a request for a sibling group or a *)
(* write of one node takes effect at one moment, and one request is served *)
(* at a time.                                                              *)
(***************************************************************************)
EXTENDS TreeGeometry

CONSTANT Nothing   \* no request, no answer

VARIABLES
  tree,    \* tree[<<level, index>>]
  asked,   \* the request not yet served
  answer   \* the answer not yet taken

vars == <<tree, asked, answer>>

MemLevels == 1..MinHwLevel-1
ReadOp == UNION {[level : {l}, base_index : {i \in NodesOf(l) : i % Arity = 0}] : l \in MemLevels}
WriteOp == UNION {[level : {l}, index : NodesOf(l), hash : Word] : l \in MemLevels}
Op == ReadOp \cup WriteOp
isWrite(op) == "hash" \in DOMAIN op

Init == tree = [n \in MemNode |-> Zero] /\ asked = Nothing /\ answer = Nothing

Ask(op) ==
  /\ asked = Nothing /\ answer = Nothing
  /\ asked' = op
  /\ UNCHANGED <<tree, answer>>

ServeRead ==
  /\ asked # Nothing /\ ~isWrite(asked)
  /\ answer' = [k \in Pos |-> tree[<<asked.level, asked.base_index + k>>]]
  /\ asked' = Nothing
  /\ UNCHANGED tree

ServeWrite ==
  /\ asked # Nothing /\ isWrite(asked)
  /\ tree' = [tree EXCEPT ![<<asked.level, asked.index>>] = asked.hash]
  /\ answer' = TRUE
  /\ asked' = Nothing

Take ==
  /\ answer # Nothing
  /\ answer' = Nothing
  /\ UNCHANGED <<tree, asked>>

Next == (\E op \in Op : Ask(op)) \/ ServeRead \/ ServeWrite \/ Take
Spec == Init /\ [][Next]_vars
=============================================================================
