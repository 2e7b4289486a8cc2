----------------------------- MODULE FFStorage -----------------------------
(***************************************************************************)
(* A storage pool (src/ffstorage.c): the operations, the schedules and the *)
(* buffers are blocks of such pools.  The free blocks are linked by their  *)
(* next field; a pool with none left is made twice as large by realloc.    *)
(* The pools share only the index manager that numbers them, so that one   *)
(* pool stands for each.  Nothing locks a pool: only the application's     *)
(* thread creates and deletes, and each function is one step.              *)
(*                                                                         *)
(* Spec is a pool whose initial count is enough, GrowingSpec one that may  *)
(* be asked for more.                                                      *)
(***************************************************************************)
EXTENDS Integers, FiniteSets

CONSTANTS
  InitialCount,  \* the initial_count given to ffstorage_pool_create
  MaxSize,       \* bound on pool_size, for GrowingSpec
  UIntMod,       \* 2^32: curr_size is a uint32_t
  NULL

ASSUME InitialCountAssumption ==
  /\ InitialCount \in Nat \ {0}
  /\ MaxSize \in Nat /\ InitialCount <= MaxSize
  /\ UIntMod \in Nat /\ MaxSize < UIntMod
ASSUME NULLAssumption == NULL \notin Nat

VARIABLES
  mem,        \* the memory of the pool, by how often it has moved
  next,       \* the next field of each block, by its place in mem
  head,       \* the first free block
  pool_size,
  curr_size,
  held,       \* the blocks the callers hold, as <<mem, place>>
  res         \* the block the last get gave

vars == <<mem, next, head, pool_size, curr_size, held, res>>

Block == 0 .. MaxSize - 1

TypeOK == /\ mem \in Nat
          /\ next \in [Block -> Block \cup {NULL}]
          /\ head \in Block \cup {NULL}
          /\ pool_size \in 1 .. MaxSize
          /\ curr_size \in 0 .. UIntMod - 1
          /\ held \subseteq Nat \X Block
          /\ res \in Block \cup {NULL}

-----------------------------------------------------------------------------
(* Another, that links the last block to one behind it. *)
alloc_one_more(links, from, count) ==
  [b \in Block |-> IF b \in from .. count - 1 THEN b + 1 ELSE links[b]]

(* alloc_pool_internal, for a pool of count blocks: the blocks from number *)
(* from on are linked one to the next.                                     *)
alloc_pool_internal(links, from, count) ==
  [b \in Block |-> IF b = count - 1 THEN NULL
                   ELSE IF b \in from .. count - 2 THEN b + 1
                   ELSE links[b]]

(* ffstorage_pool_create.  (The blocks behind pool_size do not exist.) *)
Init ==
  /\ mem = 0
  /\ next = alloc_pool_internal([b \in Block |-> NULL], 0, InitialCount)
  /\ head = 0
  /\ pool_size = InitialCount
  /\ curr_size = InitialCount
  /\ held = {}
  /\ res = NULL

(* ffstorage_pool_get with a block at hand. *)
GetFirst ==
  /\ head # NULL
  /\ res' = head
  /\ held' = held \cup {<<mem, head>>}
  /\ head' = next[head]
  /\ curr_size' = (curr_size + UIntMod - 1) % UIntMod
  /\ UNCHANGED <<mem, next, pool_size>>

(* ffstorage_pool_get with none: the pool doubles and the get goes on.     *)
(* realloc may move it (moves = 1).  curr_size is zero at this point, so   *)
(* that alloc_pool_internal links the blocks from number zero on.  The     *)
(* pool grows as often as MaxSize allows.                                  *)
GetGrowing(moves) ==
  /\ head = NULL
  /\ 2 * pool_size <= MaxSize
  /\ LET links == alloc_pool_internal(next, curr_size, 2 * pool_size)
         size == curr_size + 2 * pool_size - pool_size
     IN  /\ next' = links
         /\ head' = links[0]
         /\ curr_size' = (size + UIntMod - 1) % UIntMod
  /\ mem' = mem + moves
  /\ pool_size' = 2 * pool_size
  /\ res' = 0
  /\ held' = held \cup {<<mem', 0>>}

(* A put that does not link the block to those that are free. *)
PutAlone(b) ==
  /\ <<mem, b>> \in held
  /\ next' = [next EXCEPT ![b] = NULL]
  /\ head' = b
  /\ curr_size' = (curr_size + 1) % UIntMod
  /\ held' = held \ {<<mem, b>>}
  /\ UNCHANGED <<mem, pool_size, res>>

(* A put that leaves in the block the link it was lent with. *)
PutStale(b) ==
  /\ <<mem, b>> \in held
  /\ head' = b
  /\ curr_size' = (curr_size + 1) % UIntMod
  /\ held' = held \ {<<mem, b>>}
  /\ UNCHANGED <<mem, next, pool_size, res>>

(* ffstorage_pool_put of a block its caller holds.  (A block that realloc  *)
(* has left behind is no memory of the program any more.)                  *)
Put(b) ==
  /\ <<mem, b>> \in held
  /\ next' = [next EXCEPT ![b] = head]
  /\ head' = b
  /\ curr_size' = (curr_size + 1) % UIntMod
  /\ held' = held \ {<<mem, b>>}
  /\ UNCHANGED <<mem, pool_size, res>>

Next == GetFirst \/ \E b \in Block : Put(b)
Spec == Init /\ [][Next]_vars

GrowingNext == Next \/ \E moves \in {0, 1} : GetGrowing(moves)
GrowingSpec == Init /\ [][GrowingNext]_vars

-----------------------------------------------------------------------------
(* The k-th block of the list that head and the next fields make. *)
Chain[k \in 0 .. MaxSize] ==
  IF k = 0 THEN head
  ELSE IF Chain[k - 1] = NULL THEN NULL ELSE next[Chain[k - 1]]
OnList == {Chain[k] : k \in 0 .. MaxSize} \ {NULL}

(* The list ends, its blocks are those no caller holds, and curr_size is   *)
(* their number, which alloc_pool_internal relies on when it uses it as    *)
(* the place of the first block to link.                                   *)
ListExact ==
  /\ Chain[MaxSize] = NULL
  /\ OnList = {b \in 0 .. pool_size - 1 : <<mem, b>> \notin held}
  /\ curr_size = Cardinality(OnList)

(* Seen from its callers the pool lends blocks one holder at a time, as    *)
(* ffarman does with indices.                                              *)
Pool == INSTANCE IndexPool WITH
          Count <- InitialCount, NoIndex <- NULL,
          held <- {b \in Block : <<mem, b>> \in held}
PoolSpec == Pool!Spec

(* The next field is "used when the block is free" (ffstorage.h:17): the   *)
(* list does not lead to a block that a caller holds.                      *)
NextWhenFree == \A b \in OnList : <<mem, b>> \notin held
=============================================================================
