# fflib2: models and proofs

fflib2 runs *schedules*: graphs of sends, receives, computations and nops that are built once and posted
many times. A progress thread and the application's thread run one schedule together, almost without locks.
This directory holds TLA+ models of the library's C code (`src/src`), TLC runs on small instances, and
theorems checked by TLAPS for all instances. Paths below are relative to `src/src` unless they start with `test/`.

## 1. Inventory

| Component (source) | State it keeps | Operations | Correct when |
|---|---|---|---|
| Operation engine (`ffop.c`, `ffop.h`, `ffnop.c`) | per operation: `version`, `instance.dep_left`, `instance.completed`, `dependent[]`, `in_dep_count`, `out_dep_count` | `ffop_create`, `ffop_hb`, `ffop_post`, `ffop_complete`, `ffop_wait`, `ffop_test`, `ffop_free` | an operation runs once a round, after all its predecessors; a wait returns, and only when it may |
| Progress thread (`ffprogress.c`) | registered progressers, ready list, `ff.terminate` | poll the progressers, complete what they report | every reported operation is completed once |
| Schedules (`ffschedule.c`) | `begin_op`, `end_op`, `oplist`, callbacks | create, add, post, wait, test, delete | `begin_op` reaches every operation, each reaches `end_op` |
| MPI request table (`components/mpi/ffop_mpi_progresser.c`, `..._send.c`, `..._recv.c`) | `posted_ops[]`, `requests[]`, `index_manager` | track (both threads), release and progress (progress thread) | no request is lost, doubled or reported for another operation; slots are not leaked |
| Index manager (`utils/ffarman.c`) | two linked lists of entries | `ffarman_get`, `ffarman_put`, under a spin lock | an index has one holder; refused only when all are lent |
| Storage pools (`ffstorage.c`) | memory, free list, `curr_size`, `pool_size` | create, get, put, grow, destroy | a block has one holder |
| Buffers (`ffbuffer.c`) | pointer, size, who allocated it, a lock | create, resize, delete | memory is freed once, by its owner |
| Computations and operators (`ffcomp.c`, `components/gcomp`) | built-in and custom operators, the operator and buffers of each computation | register, delete, build, post | a computation applies the operator it was built with, within the memory of its buffers; an index is given back once |
| Allreduce (`colls/ffallreduce.c`) | graph of a rank, temporary buffers | build, check before a post, free | every rank gets the sum of its round |
| Constructors (`ffsend.c`, `ffrecv.c`, `ffcomp.c`, `ffnop.c`) | | a block from `op_pool`, buffers where the caller gives addresses | nothing of the block's earlier use shows |
| Start and end (`ff.c`, `ffprogress.c`, `components/mpi/ffmpi.c`) | the thread, its ready flag, `terminate`, who initialised MPI | `ffinit`, `fffinalize` | the thread is up before the first post, gone before the pools are |

How they interact. `ffop_post` calls the operation's `post` through a table of function pointers. Nops and
computations end inside it (`FFCOMPLETED`), so `ffop_post` calls `ffop_complete`, which counts down `dep_left` of
each dependent and posts those that reach zero, by a nested call on the same stack. Sends and receives go to MPI
and into the request table; `MPI_Testsome`, in the progress thread, reports them later, and that thread calls
`ffop_complete`. Both threads are therefore in `ffop_post` and `ffop_complete` at once, on one graph. The
application sees a schedule end by reading `end_op->instance.completed`.

What is hard: two threads counting down one counter that is restored by a plain store; a completion flag that is
set while calls further up the stacks are still open; posting the same graph again at once; slots shared by two
threads; blocks that become other operations while the progress thread holds pointers to them; a start and an end
that only a flag and a join keep in order; limits (table, pool, array of dependents); ranks that run ahead of each
other with one tag for all messages and buffers that change their size. `PROJECT.json` lists these hazards at their lines with the properties that answer them.

## 2. Modules

| Module | Models | Abstract specification it implements |
|---|---|---|
| `FFOp` | `ffop_post` and `ffop_complete` as call stacks of two threads, MPI and the ready list | |
| `FFSchedule` (extends `FFOp`), `MCFFSchedule` | posting, waiting and posting again; the graph for TLC | `FFDag`: rounds of a task graph |
| `FFScheduleProofs` | theorems about `FFSchedule` | |
| `FFScheduleBuild` | `ffop_hb` and `ffschedule_add_op` in any order | |
| `FFScheduleBuildProofs` | theorems about it | |
| `FFOpLife` (extends `FFStorage`) | create, post, wait, free and create again, against the progress thread; dependents asked for between uses | `IndexPool`, through `FFStorage` |
| `FFOpLifeProofs` | theorems about `FFStorage` and `FFOpLife` | |
| `FFMpiProgresser` | the request table and its two threads, both of which post | `FFReports`: what the engine takes it to be |
| `FFMpiProgresserProofs` | theorems about it | |
| `FFProcess` (extends `FFMpiProgresser`) | `ffinit`, the progress thread, `fffinalize`, with calls that fail | |
| `FFProcessProofs` | theorems about it | |
| `FFArman`, `FFArmanProofs` | the index manager, theorems about it | `IndexPool`: indices lent to one holder at a time |
| `FFStorage` | a storage pool | `IndexPool` |
| `FFOperators` (extends `FFArman`) | the built-in operators and the registry of custom ones | |
| `FFBuffer` | the memory of buffers: create, resize, delete | |
| `FFComputation` (extends both), `MCFFComputation`, `FFComputationProofs` | a computation with its operator and buffers, theorems about the three | |
| `FFAllreduce`, `MCFFAllreduce` | the collective on all its ranks | `FFReduction`: rounds of a sum |
| `FFAllreduceProofs` | theorems about it | |

How they compose. `FFScheduleBuild` establishes about graphs what `FFSchedule` assumes (`GraphAssumption`).
`FFSchedule` takes from MPI that an operation handed over is reported once (`Poll`). `FFReports` says "at most once, and only
what was handed over": `FFMpiProgresser` implements it, inside `FFProcess` too, whichever threads post. That an operation is
not forgotten is `NoneLost`, with one exception, the race of `requests_two_threads`, which `FFSchedule` leaves out. `FFMpiProgresser` uses the index manager as
`IndexPool`, which `FFArman` implements; `FFOperators` uses `FFArman` itself, and `FFOpLife` the pool `FFStorage`.
`FFAllreduce` takes from the engine that operations run after their predecessors, which is `FFDag`, and from
`FFComputation` the size a computation works on.

**Engine (`FFOp`, `FFSchedule`).** The state has the source's names; `stack`, `pc` and `pos` are the C stacks of
the two threads, one program counter per open call (the graph has no cycle, so an operation is on a stack at most
once). A step is one access to a shared field, or several that no thread can tell apart:

| Action | Code |
|---|---|
| `PostRefused`, `PostResets` | the check of the option `FFOP_NON_PERSISTENT`; `completed = 0` |
| `IssueImmediate`, `IssueAsync`, `IssueFails` | the `post` function: ends at once, goes to MPI, returns an error |
| `Restore` | `version++` and `dep_left = in_dep_count` |
| `Publish` | `completed++`: a wait may return from here |
| `Signal` | one turn of the loop over dependents: decrement, decide (`Triggers`), nested post |
| `CompleteReturns` | the end of both functions |
| `Poll`, `Take` | the polling loop of `progress_thread`; the next operation of the ready list |
| `SchedulePost`, `PostReturns` | `ffschedule_post` |
| `WaitSees`, `WaitClears` | the wait or test reads the flag; resets it |

`Restore` joins two stores: no thread that uses one of the two fields can run between them, since the
predecessors decrement `dep_left` again only after the operation has told its own successors (`AtRest` and
`DepCountExact` show it), and `version` is read only by its own thread in `Triggers` and by the post of the next
round.

**Life of an operation (`FFOpLife`).** Here blocks come and go, and the graph is nothing or single edges. `Create` is a
constructor over `ffop_create` (`ffstorage_pool_get` and the reset of the fields), `Free` is `ffop_free`; `PostResets` and
the three `Issue` actions are `ffop_post`, `WaitSees` and `WaitClears` the wait. The progress thread: `Poll` pushes what
MPI reports on the ready list, which is made of the blocks' own `instance.next`; `Complete` is `ffop_complete` up to the
flag, `Signal` and `Trigger` the loop over the dependents after it, `Advance` the reading of `instance.next` in
`ffprogress.c:47`. Between `Complete` and `Advance` the block may be freed and created again, which is the point of the
module.

`ffop_free` looks at nothing but the block, and neither does `Free`: the application may free an operation that it has not
waited for. Rank 0 of `test/ping_pong_dep.c` does: it posts a ping and a pong (lines 44-45), waits for the pong only (59),
frees both (83-84) and makes the next two in their blocks, in a loop; `test/ping_modify_pong.c` frees its ping likewise.
The history variable `early` records in which of two ways the application has freed too early so far: the operation itself was
not waited for (`"own"`), or another one was not (`"others"`). The properties say which of the two they stand. With
`"own"`, the progress thread's pointer leads to a block that is another operation by then and completes that one in its
place (the run `early_free`). With `"others"` pointers stay valid, but an operation that is completed, freed and created again
while the progress thread is about to read its `instance.next` (`ffprogress.c:47`) has that field reset, and the rest of the
ready list is lost. `LifeSpec` asks for no dependencies, `EdgesSpec` does.

**Request table (`FFMpiProgresser`).** `GetSlot`, `StoreOp`, `StoreReq` are the three steps of `..._track`, in either
thread; `Testsome`, `Enqueue` (with the `ffarman_put`), `ClearRequest`, `ClearOp` those of `..._progress` and
`..._release`. Both threads post, any operations of the round in any order and at once, as rank 0 of the ping-pong tests and
`ffallreduce` do; the only thing taken from the engine is that each operation is posted once a round. A table without a
free slot gives the index -1: a store there is outside the array, the program dies or goes on without having touched
the table, and `Spec` has both, because a behaviour may stop anywhere. The history variable `exposed` has the operations
that got the very slot the progress thread was releasing (`Releasing`), or none: these alone may be lost.

**Process (`FFProcess`).** `main` and `thr` are where the two threads are. `Begin` is `ffinit` up to `pthread_create`,
`CreateThread` or `CreateFails` that call, `InitReturns` the end of the spin on the ready flag; `FinalizeCalled`, `Join`,
`Finalize` are `fffinalize`. `MakeTable` (or `MakeTableFails`), `SayReady`, `LoopHead`, `PollSome`, `PollNone` (or
`PollFails`), `Completes`, `FreeTable` are `progress_thread` with `ffop_mpi_progresser_init` and `..._finalize`. The
rounds between start and end are the actions of `FFMpiProgresser`. `Faults` are the calls that may report an error:
the thread level of MPI, `pthread_create`, the start of the progresser, `MPI_Testsome`.

**Operators, buffers, computations.** Handles are the numbers of `ff.h`. `operators` is what `ffop_gcomp_operator_init` leaves:
the sum and the copy; `FFPROD`, `FFMAX` and `FFMIN` have no function (`NULL`). `operator_get` has all its paths: the two
tables, `FFINVALID_ARG`, and the number `FFOPERATOR_SENTINEL` that slips through to what is before the table. `Build` is
`ffcomp_b` with `ffop_gcomp_init`, which copies the descriptor and hands out the operation even with `FFINVALID_ARG`; it is called
for what is meant (`BuildMeant`) and for numbers at random (`BuildAny`), `FFPROD` among them: that computation is built
with `FFSUCCESS` and would call `NULL` when posted (`ffop_gcomp.c:54`), so that `ComputesAsBuilt` is about the others.
`OperatorCreate`, `OperatorCreateFull` and `custom_delete` are the two functions of the registry. A handle may be deleted
again later, or by one who had it when its number has been given to another (`OperatorDeleteAgain`; `stolen` has the functions
that lose their entry in this way). A handle that was never given to anyone is not deleted: line 137 lets it pass, as
the entry's type is not `FFNONE`, and an index would be given back that is not lent.
`BufferCreate`, `BufferResize`, `BufferMove` (a resize with an address), `BufferDelete` those of
`ffbuffer.c`. `buf` records next to the C fields whose memory the pointer is and how large, so that a `free` of the
wrong memory shows (`misused`). The post of a computation changes data only, and is `Applied` and `Size`; its buffers
have one datatype, which `ffop_gcomp.c:52` assumes without a check.

**Construction (`FFScheduleBuild`).** `hb` is `ffop_hb` in two parts: `store`, up to the store of the pointer, and the counting
in the second operation. The array has `MAX_DEPS` elements (10) and nothing checks the index, as `ARGS_CHECK` is not
defined: the eleventh pointer is written over the two counters behind the array (`Low`, `High` are its halves), every
later one far away. `given` counts, for each operation, how often it came first; `Fits` says that no array has overflowed,
and the properties are about schedules that fit. `begin_op` is the first to overflow: with eleven operations that depend on
nothing, or an allreduce on more than 512 ranks.

**Allreduce.** A value is the bag of contributions summed up in it, so that a contribution that is missing,
doubled or of another round shows. `Pred` is the graph that the calls of `ffop_hb` and `ffschedule_add_op` build.
A send reads its buffer at one moment between being ready and being complete; the delay before the step stands for
posting, the delay of the next step for reporting. MPI may take a message before its receive is posted, but is only
obliged to afterwards: `Send` is enabled from the start, its fairness only when `Accepted`. `ffallreduce_post_check`
adapts the temporary buffers to the counts of the round; a message longer than the buffer it is for is an error of MPI and
completes nothing. Its paths for counts that do not match (`ffallreduce.c:32-40`), whose `FFINVALID_ARG` `ffschedule.c:91`
drops, are left out: the application changes both buffers alike.

## 3. Runs

| Run | Question | Bounds and why they are enough |
|---|---|---|
| `computations` | Do handles, computations and buffers stay right under any mix of calls? | a table of 2 entries for 3 functions: full, and every entry reused; numbers of each kind that are no valid operator; 2 buffers of up to 2 elements: one larger and one smaller than the other |
| `operations` | Do the progress thread's pointers stay those of operations that are waited for? | 2 blocks for 4 operations, so that blocks become other operations; one is a computation; lists of 2 |
| `early_free` (violation) | Is a wait for its own operation, with one freed that was not waited for? | the same, without the computation |
| `reused_edges` (violation) | The same for the dependents that `ffop_complete` reads | 2 blocks, 4 operations |
| `storage_growing` (violation) | Does `next` stay unused while a block is held, once the pool has grown? | 2 blocks, grown to 4 |
| `diamond` | Do two threads run the graph as rounds of a task graph, and does the wait return? | 6 operations; `sum` joins a branch of each thread; 2 rounds, so that everything left over from one meets the next |
| `unreliable` | What holds when a post fails or is refused? | the diamond, `send` may fail, `end` is non-persistent |
| `build` | Does every order of `ffop_hb` and `ffschedule_add_op` give a graph the engine can run? | 4 operations, every acyclic graph on them, every order of the calls; arrays of 2 dependents, so that `begin_op` and others overflow |
| `process` | From `ffinit` to `fffinalize`: is every request reported once for its operation, is everything there when it is used, do the calls return? | 3 operations posted by either thread in any order, 2 slots, so that slots are reused and the table may be full; any number of rounds; each call may fail |
| `requests_two_threads` (violation) | The table with the application posting while the progress thread releases | 2 operations, 3 slots |
| `ranks4` | Does every rank get the sum in every round? | 4 ranks are two steps of recursive doubling; 2 rounds, a rank may be one ahead; two ranks in place; buffers that grow, then shrink |
| `ranks3` (violation) | A number of ranks that is not a power of two | 3 ranks, 1 round |

What the passing runs show, by property:

- `FreeListExact`, `PutHasEntry`, `PoolSpec`: the index manager, used by the operators. `HandlesExact`: a handle leads to
  the function it was given for, and however often handles are deleted, the entries that count as registered are those
  whose index is lent. `ComputesAsBuilt`: a computation built for the sum, the copy or a registered function is built
  without error and does that, although its operator may be gone. `OwnMemory`: the library frees and reallocates only its own memory, as long as a buffer has had memory
  of one owner. `InBounds`: no operation goes beyond its buffers, whatever was resized since it was built.
- `ListExact`, `PoolSpec`: the free list of a pool offers the blocks nobody holds, whatever is freed when. As long as each
  operation that was freed had been waited for, `PointersValid`: a pointer in the request table or on the ready list is to
  an operation its owner still waits for; `WaitMeansReported`: a wait returns only for what MPI has reported, whatever the
  block was before; and `NothingDropped`: what is waited for is not at two places on its way. As long as, besides, nothing
  else was pending when something was freed: it is at exactly one place, and `WaitReturns`: every wait does return.
- `DepCountExact`: `dep_left` always counts the dependencies not yet signalled in this round. `OnePlace`: an
  operation is never posted or completed twice at once. `NoLostTrigger`: it is posted once all dependencies are
  signalled. `AtRest`: when the wait returns, every operation is done and no thread has a dependent left to signal;
  posting again at once is safe though both stacks may still have calls to return from. `DagSpec`: the engine
  implements `FFDag`. `WaitReturns`: a posted schedule ends. `RunsOnce`: a non-persistent operation runs once.
- `CountsAgree`, `LeadsToEnd`, `FedByBegin`: the three facts about graphs that the engine needs, for schedules that fit.
- `NoneLost`: what MPI has got is in the table or on its way there until it is reported, but for an operation that is
  `exposed`. `SlotsInStep`: request and operation of a slot are of one another, and what is released is lent.
  `AllGivenBack`: no slot leaks, not even by the race. `ReportsSpec`: nothing is reported twice, or without having been
  handed over.
  `UsedWhileThere`: no thread uses the table, MPI, the pools or the operators before they are made or after they are
  gone. `LeftClean`: what `fffinalize` leaves, which may be called with operations on their way. `CallsReturn`: `ffinit`, a
  round's wait and `fffinalize` return unless a call that failed in the thread, or an exposed operation, keeps them.
- `MessagesExact`: every message is the partial sum of the right group of ranks and of one round. `MessagesFit`: it
  fits the buffer it is received in and fills what is read of it. `NothingLeft`: no operation and no message outlives a
  round. `ReductionSpec`, `AllreduceReturns`: the sum, and no deadlock.

What the violation runs show, in the code's terms:

- `early_free`: an operation is freed while MPI has it, and its block becomes another operation, which is posted. When MPI
  reports the first, the progress thread completes the block, and the wait for the second returns. On rank 0 of
  `test/ping_pong_dep.c` the pool hands the block of the freed ping out for the next pong, whose wait (line 59) is cut short
  if the ping is reported only then.
- `requests_two_threads`: `..._release` gives the index back before it clears the slot. If the application tracks an
  operation in between, its request or operation is wiped out, and the wait for it never returns.
- `storage_growing`: a pool without free blocks grows by linking *all* blocks, those in use included; they are
  lent again. (`realloc` may also move the memory away from under their holders.)
- `reused_edges`: `ffop_complete` sets the flag at `ffop.c:186` and reads `out_dep_count` and the dependents at line 192.
  An application whose wait has returned in between, and that links the operation (or a new one in its block) to a
  dependent with `ffop_hb`, has the dependent triggered at once, before the operation it comes after is posted:
  "All dependencies of %lu are satisfied" (line 206) is not true. Rank 1 of `test/ping_pong_dep.c` does so in its loop.
- `ranks3`: a rank whose partner does not exist skips the step: of three ranks, rank 1 misses the contribution of rank 2.

Seen while modelling, with no run of their own:

- `ffop.c:201` reads `FFOP_DEP_OR` from the operation that completes instead of the one to trigger, so an OR operation
  waits for all its dependencies (the comment at line 200 says one is enough). Line 203 has the same slip with
  `FFOP_NON_PERSISTENT`, and reads `version` after line 184 has raised it: a non-persistent operation triggers none of its
  dependents, even the first time.
- `FFPROD`, `FFMAX` and `FFMIN` are public (`ff.h:33-35`) and have no function: a computation with one calls `NULL`.
- `ffop_gcomp_operator_custom_delete` takes a handle that was never given out (`ffop_gcomp_operator.c:137`), and
  `ffop_gcomp_operator_get` the number `FFOPERATOR_SENTINEL`, which reads before the table.
- `ffschedule_post` returns `FFCOMPLETED`, since `begin_op` is a nop; `test/ping_pong_schedule.c:57` takes anything but
  `FFSUCCESS` for an error and exits.
- `idx < 0` in `..._track` and in `ffop_gcomp_operator_custom_create` compares an unsigned value, so that a full table is
  not refused: the store is far outside it.
- `ffop_hb` writes behind the array of dependents from the eleventh on; its check (only with `ARGS_CHECK`) lets
  `idx = MAX_DEPS` through.
- `fffinalize` leaves the pool of schedules and the index manager of the operators behind.
- `ffinit` drops the result of `ffmpi_init` (`ff.c:48`): without `MPI_THREAD_MULTIPLE` it goes on, without operators.
- `FFCALL` of `ffinternal.h:17` stores the result of the comparison, so that an error comes out as 1.
- `ffdatatype_size` knows no `FFCHAR`.
- When the memory of a buffer cannot be had, `ffbuffer.c:34` gives back the address of the handle instead of the block.
- `ffschedule_delete` gives back none of the operations, `ffop_free` none of the buffers that a constructor made.
- After `fffinalize` a second `ffinit` finds the ready flag set, the progresser registered and pool pointers that
  have been freed (`ffprogress.c:6`, `ffstorage.c:63`).

**Fairness.** Every application thread takes its next step, the progress thread polls for ever, and MPI completes what
was started and reports it. The first two are weak fairness of the thread's steps; the third is strong fairness per
operation (`FFSchedule`, `FFOpLife`) or slot (`FFProcess`), because `MPI_Testsome` is called again and again and a report of
other operations disables this one while their list is worked off. In `FFOpLife` a wait that can return does return
even if the application does other things in between (`SF` of `WaitSees`: the application calls it for each operation,
and the flag stays set); nothing makes it create, post or free. In `FFProcess` nothing makes the application start a
round or call `fffinalize`. `FFAllreduce`: weak fairness per rank, over all that rank can do and MPI is obliged to. Runs
of invariants and abstract specifications alone use a specification without fairness.

Deadlock is checked except in `unreliable`, where the wait of a schedule that cannot end spins for ever, and in
`requests_two_threads`, for the same reason.

## 4. Proofs

| Theorem | For all | States |
|---|---|---|
| `FFArmanProofs!TypeCorrect`, `IndicesExact`, `PutNeverAsserts`, `Refinement` | `Count` > 0 | `TypeOK`, `FreeListExact`, `PutHasEntry`, and that `FFArman` implements `IndexPool` |
| `FFComputationProofs!TypesCorrect`, `HandlesStand`, `MemoryOwned`, `WithinMemory` (and the corollary `BuiltMeansApplied`) | tables, functions, buffers, bounds on counts, numbers passed for operators | `ComputationTypeOK`, `HandlesExact`, `OwnMemory`, `InBounds` (`ComputesAsBuilt`) |
| `FFScheduleProofs!TypeCorrect` | graphs, rounds | `ScheduleTypeOK` |
| `FFScheduleProofs!DependenciesCounted`, `PostedOnce`, `WaitMeansAll`, `Refinement` | graphs, rounds, failing and non-persistent operations; no `FFOP_DEP_OR` | `DepCountExact`, `OnePlace`, `AtRest`, and that the engine implements `FFDag` |
| `FFScheduleProofs!NonPersistentOnce` | graphs, rounds, failing and non-persistent operations; no `FFOP_DEP_OR` | `RunsOnce` |
| `FFScheduleProofs!EveryTriggerFires` | graphs, rounds, failing operations; no `FFOP_DEP_OR`, no non-persistent operation | `NoLostTrigger` |
| `FFScheduleBuildProofs!CountersAgree`, `EndReached`, `BeginReaches` | `N` > 0, `MAX_DEPS` > 0, every order of the calls | `CountsAgree`, `LeadsToEnd`, `FedByBegin`, each as long as the arrays fit |
| `FFMpiProgresserProofs!TypeCorrect`, `NothingLost`, `SlotsAgree`, `NoSlotLeaks`, `Refinement` | operations, slots, two posting threads | `TypeOK`, `NoneLost`, `SlotsInStep`, `AllGivenBack`, and that the table implements `FFReports` |
| `FFProcessProofs!ProcessTypeCorrect`, `ProcessReports`, `ProcessKeepsTable`, `EndsClean` | the same, and sets of faults | `ProcessTypeOK`, `ReportsSpec`, the three invariants of the table, `LeftClean` |
| `FFProcessProofs!UsedInTime` | operations, slots, faults | `UsedWhileThere` |
| `FFOpLifeProofs!PoolRefines`, `FreeListExact` | sizes of a pool | that a pool implements `IndexPool`, and `ListExact` |
| `FFOpLifeProofs!OperationsPool`, `OperationsListExact` | the same, numbers of operations | the same of the operations' pool |
| `FFOpLifeProofs!OperationsTyped`, `NoDanglingPointer`, `NothingLost`, `NoEarlyWait` | the same, and which operations end in their post | `LifeTypeOK`, `PointersValid`, `NothingDropped`, `WaitMeansReported` |
| `FFAllreduceProofs!EverythingReceived`, `EveryMessageExact`, `EveryMessageFits` | powers of two of ranks, rounds, in-place ranks, counts of the buffers | `NothingLeft`, `MessagesExact`, `MessagesFit` |
| `FFAllreduceProofs!PowersOfTwoReduced`, `AllreduceRefines` | the same | `Reduced`, and that the allreduce implements `FFReduction` |

Assumptions are the named `ASSUME`s of the modules, which TLC evaluates in the runs: `OpsAssumption`,
`OptionsAssumption`, `DependentAssumption`, `MaxDepsAssumption`, `GraphAssumption` (what `FFScheduleBuildProofs` shows every construction
to give that fits its arrays; `MaxDeps` is any number, `MAX_DEPS` = 10 in the code),
`BoundAssumption`, `UIntAssumption` (counts and rounds fit a `uint32_t`); `DepsAssumption`, `AddressAssumption` (where the
array of dependents lies in memory); `FunAssumption`, `NullAssumption`, `PassedAssumption`,
`NoBufferAssumption`, `MaxCountAssumption`, `ComputationAssumption`; `InitialCountAssumption`, `NULLAssumption`, `UInt8Assumption` and the like
for pools; `SizeAssumption`, `CountAssumption` and the like for the allreduce. Two are hypotheses of theorems instead.
`DepOr = {}` (and, for `NoLostTrigger`, `NonPersistent = {}`): with the option set on a completing operation the code posts its dependents early (`ffop.c:201`).
`PowerOfTwo`: the number of ranks is one of the masks 1, 2, 4 ...; with three ranks the sum is wrong (`ranks3`).

*The index manager.* The invariant `IInv` adds to `FreeListExact` that entries are apart (`EntriesApart`) and that the list of
empty entries is as long as the set of lent indices is large (`EntryPerHolder`): each get moves one entry, each put
moves one back, whichever it is. From it follows that the assertion in `ffarman_put` holds.

*Computations.* `CompInv` joins the invariant of the index manager with the three properties and with the fact that the
buffers of a computation are there. That a registration overwrites no other function's entry rests on
`LentIndexIsFree`, which is `IInv` read at the head of the list.

*The engine.* None of the properties is inductive alone. `IInv` joins them: `Versions` (no operation is more than one
execution behind), `RunningNotDone`, `SignallingDone`, `AllSignalled` (what runs or is done has all dependencies
signalled), `DepCountExact`, `OnePlace`, `EndFlag` (the flag of `end_op` is set only by its last step in this round)
and `AtRest`. The central step is `Signal`: as `dep_left` counts the unsignalled edges, a decrement to zero removes
the last one, so only one thread sees it, and the operation was neither running nor done. `AtRest` follows from the
graph: the operations not done are closed under successors, since a done successor has all its edges signalled; a
closed set that is not empty contains `end_op`; so `end_op` done means all done (`EndIsLast`). The refinement maps a
call of `post` to `Launch`, `Restore` to `Complete`, a refused or failed post to `Fail`, everything between to a
stutter. `NoLostTrigger` is inductive once `IInv` is known (`TriggersKept`): only a turn of the loop over dependents makes an edge signalled (`OnlySignals`), and the turn that
signals the last one finds zero in `dep_left` and posts.

*The construction.* `BuildInv`, as long as the arrays fit: edges go from smaller to larger operations, the counters agree with them, and an
operation that has been added has an edge in and an edge out. Edges are never taken away, so that this lasts, whatever is
called later. The largest operation of a set that is closed under successors can therefore be `end_op` only, and the
smallest of one that is closed under predecessors only `begin_op`; that there is a largest and a smallest one follows
from the well-foundedness of the strict subset relation on finite sets.

*The request table.* `TableInv` says what each slot can be: tested by MPI (`Tested`), given to the progress thread and to be
released (`Returned`), being filled by a thread (`Filled`), or free; `Lent` ties this to the indices lent, and `OpsApart`
says that what is active, still to be posted, reported and finished is pairwise apart. The race of a track with the release
of the same slot stays inside: every clause that it breaks names `exposed` as the exception, and the invariant
shows that the clearing hits only the slot of such an operation. An operation lost (`Lost`) never becomes finished,
so that the round does not end: this is why no slot leaks between rounds whatever has happened in one.
`FFProcessProofs` shows that each step of the process is a step of the table or leaves it alone, so that all of this
carries over; `Order` relates the two threads' positions to what exists.

`RunsOnce` is inductive with `IInv` when `OnceInv` is added: a non-persistent operation that is ahead of its one
restore, in a call, with MPI or on the ready list (`Ahead`), has version 0, and once the version is 1 the post refuses
it. As `OnePlace` lets no two threads be ahead with one operation, only one restore can happen.

*Operations.* Both lists that run through the blocks, the free list by `next` and the ready list by `instance.next`, are
described by a sequence without repetitions whose elements the links join (`Leads`). What the functions do to a list is
to take its first element (`TailLeads`), to put one in front (`ConsLeads`), to change links of other blocks (`SameLeads`)
or, in a poll, to make it anew. `FreeList` says that there is such a sequence of exactly the blocks nobody holds, as long as
`curr_size`; `ReadyList` that there is one from where the progress thread stands, all of whose blocks are waited for
and at no other place (`ToComplete`), while all that is waited for is somewhere (`Accounted`). When the progress thread has
published an operation, its block may be freed, as long as nothing has been freed too early, only if that list is empty (`Leaving`):
this is why `Advance` still reads the right `instance.next`. The first part of the invariant (`FreeList`, `LifeState`) holds
whatever is freed; the second (`OnTheirWay`) as long as what is freed has been waited for, and `Accounted` in it as long as
`early` is empty. The properties walk the lists by recursive functions (`Chain`, `Ready`); `Walk` shows
that such a walk goes along the sequence and ends.

*The allreduce.* The partner of a step differs in one binary digit (`FlipBits`, `Partner`), so two partners have disjoint
groups, which together are the group of the next step (`Groups`), and after the last step all ranks are one group
(`WholeSum`). `SumInv` says where each rank is in its round (`Orderly`), what its buffers hold there (`Summed`) and what
is in a channel: how often the sender has sent and the receiver received, counted in rounds, tells which rounds the
messages in it are of (`Channel`), so one tag is enough. `Summed` has the temporary buffers large enough for the round, and the
receiver of a message is in the round it was sent for. That nobody is in a round before all ranks have entered
the one before follows from the values alone: a rank that has the sum of all has something from each (`Entered`), which is
what the refinement needs when a rank leaves.

*Recursion.* Facts about `mask`, `Chain` and `Ready`, which are recursive functions, need induction over the numbers. The
library's rule takes a predicate as a parameter; `Induction` states it for a set instead (a set with 0 that has k + 1 with
k has all numbers), and follows from the well-foundedness of the strict subset relation on finite sets.

Only model-checked: liveness (`WaitReturns`, `CallsReturn`, `AllreduceReturns`), which is out of the prover's reach, as is
`ENABLED`. Every invariant and every abstract specification of the passing runs is stated by a theorem.

## 5. Not modelled

- The wait with `WAIT_COND`, which `ffinternal.h:5` switches off; the build without `FFPROGRESS_THREAD`, which the same
  header always defines; the variant of allreduce behind `#else`.
- `malloc` and `realloc` that fail; buffers of type `FFBUFFER_IDX`, which nothing can resolve; a second `ffinit`.
- The deletion of an operator's handle that was never given to anyone; buffers of different datatypes in one computation;
  counts that do not match in `ffallreduce_post_check`.
- `ffschedule_delete` and `ffallreduce_free`, which return blocks to pools once nothing runs.
- The function tables of `bindings/`, `ffbind.h` and `ffop_mpi_init.c`, datatype sizes, logging and `tostring`, build files,
  the benchmark.

MPI is modelled by what the code relies on: requests complete, `MPI_Testsome` reports them in any order, messages of one
sender with one tag do not overtake. Memory accesses are taken as sequentially consistent: the counters are changed with
`__sync` builtins, which are full barriers, and the flag is `volatile`.

## 6. Plan

Done, in this order: index manager, engine and schedule with the abstract graph, construction, request table, storage
pool, allreduce; then the life of operations, operators, buffers and computations, the process from start to end, and
proofs about all of these. To come: what of the allreduce holds for numbers of ranks that are not powers of two.
