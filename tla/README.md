# A verification project for AMReX

TLA+ models of the parts of AMReX (with the curl-curl multigrid operator of this
repository) whose difficulty is control: who does what in which order, what a
crash leaves behind, who waits for whom, which memory belongs to whom, what is
stale, whether two sides that never speak build the same lists.  The models are checked
with TLC on small instances; for all of them properties are proved with TLAPS for every
value of the constants.

All line numbers are those of the files under `Src/`.  `PROJECT.json` holds the
exact correspondence of definitions and lines (`map`), the hazards with the
properties aimed at them, one mutant of the code per property, and the findings.

## 1. Results in short

| module | code | checked | proved |
| --- | --- | --- | --- |
| `AmrStepping` | main loop, `Amr::timeStep`, `regrid`, `checkPoint`, `restart` | 6 properties | 7 theorems, all five safety properties among them |
| `CArena` | the coalescing arena, threads and GPU host functions | 6 properties | 8 theorems, all five invariants of its memory among them |
| `StreamManager`, `AsyncMemory` | GPU streams, `freeAsync`, external streams, Elixirs, and their promise | 2 properties, refinement | 3 theorems, the refinement among them |
| `BackgroundThread`, `JobQueue`, `AsyncOut` | the thread of asynchronous output, and its promise | 2 properties, refinement | 4 theorems, the safety part of the refinement among them |
| `AsyncWrite` | `VisMF::AsyncWrite` over ranks and their background threads | 3 properties, 1 finding | 2 theorems |
| `NFilesIter`, `VisMF` | ranks that share files in static, dynamic and sparse sets | 3 properties | 2 theorems, both safety properties |
| `FabArrayComm`, `Boxes` | `FillBoundary`, `EnforcePeriodicity`, `OverrideSync`, `SumBoundary`, `ParallelCopy` over ranks; the box calculus under them | 3 properties, 1 finding | 7 theorems |
| `FabArrayCache` | the metadata caches of `FabArrayBase` and what counts itself for them | 4 properties | 4 theorems |
| `MLMG` | `solve`, `precond`, `compResidual`, the V-, F- and AMR cycles | 3 properties, 1 finding | 3 theorems, all three properties |
| `MLCurlCurl`, `MLCurlCurl_K`, `LinOp` | the set-up and the four-colour smoother of the curl-curl operator | 3 properties | 4 theorems, all three properties |
| `PrefixSum_mp`, `Scan` | the prefix scan in three kernels, and the choice of a version | 2 properties | 1 theorem, its safety property |
| `PrefixSum` | the prefix scan in one kernel, with look-back | 3 properties | 2 theorems |

Two statements of the code's own texts turn out not to hold (section 6).

## 2. Inventory

State, operations, interactions, what is hard, and what makes the part correct.

**Amr driver** (`Amr/AMReX_Amr.cpp`, `AMReX_AmrLevel.cpp`, `AMReX_StateData.cpp`).
State: the hierarchy (`finest_level`, the grids of every level), `dt_level`,
`n_cycle`, `level_steps`, `level_count`, `cumtime`, `last_checkpoint`,
`which_level_being_advanced`; per level the old and new times of its state data.
Operations: `init`, `coarseTimeStep`, the recursive `timeStep`, `regrid`,
`checkPoint`, `restart`.  It calls back the user's `AmrLevel` (`computeNewDt`,
`advance`, `post_timestep`, ...); `checkPoint` runs under `StreamRetry`.  Hard: the
recursion, whose inner calls create and delete finer levels under the outer ones; times that have to meet; a crash at any point; a restart with
other inputs.  Correct when: fine steps lie in the coarse one and end with it,
regrids happen at synchronised times, no frame loses its level, the files on disk
bound what a crash loses.

**Arena** (`Base/AMReX_CArena.cpp`, `AMReX_Arena.cpp`).  State: hunks of the system,
free list, busy list, two counters, one mutex.  Operations: `alloc`, `free`,
`alloc_in_place`, `shrink_in_place`, `freeUnused`.  It calls the system and, without
its mutex, `Gpu::clearFreeAsyncBuffer`; streams run host functions (`GpuElixir`) that
free.  Hard: two windows in which the mutex is given up in the middle of a call; a
system that waits for the streams; defragmentation.  Correct when: blocks are
disjoint, inside hunks still owned, nothing is lost or leaked, neighbours are merged,
counters are exact, nobody waits for a stream with the mutex held.

**GPU streams** (`Base/AMReX_GpuDevice.cpp`, `AMReX_GpuElixir.cpp`).  State: the pool
of streams and the stack of external ones, per stream a list of blocks to free after
the next synchronisation, the stream index of each thread.  Operations: `free_async`,
`sync`, `streamSynchronize` and `streamSynchronizeAll`, `clearFreeAsyncBuffer`,
`setExternalStream`, `resetExternalStream`, `setStreamIndex`, `Elixir::clear`.  They free
into the arena, and the arena calls them.  Hard: lists that are swapped out, waited for
and freed while others append; a list that goes away with its stream; host functions
that want the arena's mutex.  Correct when a block is freed once, only after the kernels
launched before, and every call returns.

**Background thread** (`Base/AMReX_BackgroundThread.cpp`).  State: the queue of
functions, `m_clearing`, `m_finalizing`, two condition variables.  Operations:
`Submit`, `Finish`, the destructor, the thread's `do_job`.  Hard: flags read without
the mutex, spurious wakeups, `notify_one`.  Correct when jobs run in order and once,
`Finish` waits for what was submitted before it, and no wakeup is lost.

**Asynchronous output** (`Base/AMReX_AsyncOut.cpp`, `VisMF::AsyncWriteDoit`).  State: a
communicator per file, a background thread per rank, the barriers posted.  Operations:
`Submit`, `Finish`, `Wait`, `Notify`.  Ranks interact by non-blocking barriers that are
matched by their count alone.  Correct when ranks append in turn, the header (written
before the data) is right, and every write ends.

**NFilesIter** (`Base/AMReX_NFiles.cpp`), used by `VisMF::Write` with `FindOffsets`.
State: per rank its file, coordinator and unread messages; on the coordinator the
queues of ranks that wait.  Operations: `ReadyToWrite`, `ReadyToRead`, `operator++`,
the destructor.  Hard: which rank is the coordinator is a race; the number of messages
left unread is computed.  Correct when a file has one writer at a time, the header
agrees with the files, all ranks agree on the coordinator, no message is left, all end.

**MLMG** (`LinearSolvers/MLMG/AMReX_MLMG.H`).  State: the solution, which may be an
alias of the caller's array, residuals and two buffers of corrections on every AMR and
multigrid level, and what `solve` and `precond` set (single-stream and no-sync regions,
swapped boundary conditions and iteration counts).  Operations: `solve`, `precond`,
`compResidual`, `oneIter`, `mgVcycle`, `mgFcycle`.  It calls a linear operator.  Hard: which
residual a correction belongs to, across buffers that are swapped and cycles that nest;
the aliasing; exceptions in the middle.  Correct when each cycle starts from the true
residual, each interpolated correction is whole, and the caller's array holds the result.

**The curl-curl operator** (`LinearSolvers/MLMG/AMReX_MLCurlCurl.cpp`, `_K.H`).  State: the
coefficients, the LU factors of the nodes' local systems, `needsUpdate`; the edges of
every box with their ghosts.  Operations: `setScalars`, `setAlpha`, `setBeta`, `update`,
`smooth4`, `applyBC`.  Hard: stale factors; threads of one colour in parallel; edges that
several boxes hold and update.  Correct when the factors are those of the present
coefficients, threads of a colour do not depend on each other, and all copies agree.

**FabArray caches** (`Base/AMReX_FabArrayBase.cpp`, `AMReX_FabArray.H`,
`AMReX_LayoutData.H`).  State: caches of tiles and communication metadata under the addresses
of a BoxArray's and a DistributionMapping's shared data, the number of objects with each pair
of addresses.  Operations: the lookups (`getFB`, `getCPC`, `TheFPinfo`, ...), `addThisBD`,
`clearThisBD`, the flushes, `define`, `clear`, move, copy, `shift`.  Hard: addresses
are used again; an entry has two keys; responsibility for a count moves.  Correct when a
lookup that hits gives what building anew would, counts are exact, nothing dangles.

**FabArray exchange** (`Base/AMReX_FabArrayBase.cpp`, `AMReX_FabArrayCommI.H`, `AMReX_FBI.H`,
`AMReX_PCI.H`, and the tags of `AMReX_ParallelContext.cpp`).  State: the boxes' data on each
rank, messages on their way, each rank's counter of message numbers.  Operations:
`FillBoundary`, `EnforcePeriodicity`, `OverrideSync`, `SumBoundary` and `ParallelCopy`, each in
a `_nowait` and a `_finish`.  It rests on the box calculus (`AMReX_Box.H`, `AMReX_BoxList.cpp`,
`AMReX_BoxArray.cpp`, `AMReX_Periodicity.cpp`): intersections found by a hash, differences of
boxes, periodic shifts.  Ranks interact by messages that carry values and nothing else: both
sides compute the list of boxes, by different loops, and must come to the same list in the
same order.  Hard: this agreement, for cells, faces and nodes and for ghost cells deeper than a
box or a period; several exchanges under way; a number that every rank must draw, also one
without work; numbers that wrap around.  Correct when every point has what the call promises,
a message meets the receive of its own exchange, and all exchanges end.

**Parallel scan** (`Base/AMReX_Scan.H`).  State: per block of threads the memory its warps
share, its status word (nothing, the sum of the block, the sum up to the block), the counter
of blocks that have started.  Operations: `PrefixSum_mp` (three kernels) and `PrefixSum` (one
kernel).  Warps of a block meet at barriers; blocks read each other's status and wait for it.
Hard: barriers inside of a loop that is left early; memory that is used again for the next
chunk; statuses that change while neighbours read them; blocks that start in any order and
not all at once.  Correct when the output is that of the sequential loop and every block ends.

**Mesh generation** (`AmrCore/AMReX_AmrMesh.cpp`, `AMReX_Cluster.cpp`,
`AMReX_TagBox.cpp`): proper nesting, every tag covered.
**Particles** (`Particle/`): `Redistribute` keeps every particle once.
**Load balancing** (`AMReX_DistributionMapping.cpp`): pure algorithms.
These three are not modelled; section 7 says why.

Flux registers, FillPatch and interpolation, the other linear operators, embedded
boundaries, FFT and SDC are numerical: what could go wrong in them are floating-point
values, which are out of a model checker's reach.  ParmParse and the parser are
sequential text processing; the Fortran interfaces and bindings are wrappers.

## 3. Modules

### AmrStepping (`MCAmrStepping`, `AmrSteppingProofs`)

The recursion `timeStep(level)` is kept as one frame per level (`cur`, `time`, `iter`),
the call stack being exactly the levels `0..cur`.  The position in the code is `pc`:
`main` is the loop of `main.cpp`, `regrid` the loop at the head of `timeStep` with its
local `i` (`lev`) and bound (`lev_top`), `advanced` the point after the user's advance,
`post_timestep` and `coarse_end` what follows.  Each turn of the regrid loop is one
action (`SkipRegrid` or `RegridLevel`, the latter with the whole of `Amr::regrid`: new
levels, deleted levels, step counts, new time steps).  Which grids the tagging produces
is a free choice of `finest_level` and grid identifiers; which time step the CFL
estimate gives is a free choice of the job's `dts`, under the limit of the growth factor.
Time is an integer, chosen so that the subcycling divides it (`DtAssumption`, over all the
subcyclings `Cycles(j)` a job may use): this is what the floating point arithmetic of the code
does up to rounding.

A behaviour begins by choosing one of the `Jobs`: what its inputs files may say, which
grids and time steps it may produce and how often it may crash.  `checkPoint` is three
actions (rename away, write, check of `StreamRetry`), so that a crash can come between
them.  `Crash` loses the memory, not the disk.  `Restart` takes any good directory, any
`max_level` and any `n_cycle` the job allows, and does what `Amr::restart` does in both of
its branches.

### CArena (`CArenaProofs`)

Addresses and sizes count units of `Arena::align_size`.  All sizes in the code are
rounded up to it, so a remainder smaller than the code's minimal split is exactly an
empty one.  `carena_mutex` is explicit; a section that holds it all through is one
action, and calls that give it up are cut there: `free_unused`, `deallocate` (hunks are
returned one at a time, without the mutex), `clear_async` (the freeAsync buffer is
cleared, without the mutex; any thread, this one too, may free blocks then).
`FreeSynchronizes` makes the system's deallocation wait for queued host functions, as
`cudaFree` does.  Sets of nodes stand for the code's ordered sets of nodes; first fit
and the lower and upper neighbour are stated by addresses.

### StreamManager and AsyncMemory (`StreamManagerProofs`)

A stream executes what it is given in order: the i-th piece is done when `done[s] >= i`, and
`last[b][s]` is the last kernel on `s` that uses block `b`.  `StreamManager::sync` is `Swap`
(the list is taken), `StreamSynced` (the stream has done what it had then) and `FreeOne`
for each block; other threads append to the new list at any of these points.  A thread that
allocates may find the arena full, give up `carena_mutex` and clear all lists
(`clearFreeAsyncBuffer`); `free_async` with more than `Limit` blocks synchronises.  External
streams are a stack with their own managers; they are set and reset by the master thread,
outside of parallel regions, as the code asserts.  `AsyncMemory` is the promise: memory
given up may still be used by kernels launched before, and nobody gets it until they are
done.  The refinement maps a block's owner to held or released, and unfinished kernels to
busy.

### BackgroundThread and JobQueue (`AsyncOut`, `OutputProofs`)

`do_job` is `WaitForJob`, `TakeJob`, `RunJob`, `TestClearing`, `NotifyDone`, the last
three without the mutex.  `Finish` is cut at its wait on the condition variable, and
each evaluation of the predicate is a step, so that a notification may come between any
two.  `SpuriousWakeup` may wake either side.  `JobQueue` is the abstract specification:
a queue of jobs, run one at a time; `Finish` returns when the jobs submitted before it
are done; the destructor when all are.  The refinement maps `todo` to the job in hand
followed by the queue without the two internal jobs, and the calls of the clients to
their abstract phases.  `AsyncOut` has the one thread there is in the program, `s_thread`, and
restates the properties for it.  `Selection` has the elements of a sequence that are in a
set, in their order, as a function that proofs can unfold; `BackgroundThread`, `JobQueue` and
`NFilesIter` take from it what the code does with a loop, an `if` and a `push_back`.

### AsyncWrite (`VisMF`, `MCAsyncWrite`, `OutputProofs`)

Composes the ranks: each has a main thread that makes collective calls and a background
thread, taken as `JobQueue` promises it (jobs in order, one at a time), whose job is
header, `Wait`, write, `Notify`.  `GetWriteInfo` is the arithmetic of
`AsyncOut::GetWriteInfo`; a barrier is its number in `posted`, a wait is over when every
rank of the file's communicator has posted as many.  The header is computed as the code
does, by walking over the gathered words.  `VisMF` composes it with `NFilesIter`: the parameter
`amrex.async_out` decides which of the two writes, so a behaviour begins by choosing one.
`MCVisMF` has the bounds; `MCAsyncWrite` is the module alone, for the finding.

### NFilesIter (`VisMF`, `MCVisMF`, `OutputProofs`)

All modes in one module: `static`, `dynamic`, `sparse` and `read`.  Messages are a set of
records, received by tag and, where the code says so, by source.  The coordinator's loop is
`Assign`, `WaitDone`, `AllAssigned`; the destructor is `CleanUpMessages` and `Destroy`.
`FindOffsets` is that of `VisMF`: the order of ranks in each file as the header states it.

### MLCurlCurl and MLCurlCurl_K (`LinOp`, `MCMLCurlCurl`, `SolverProofs`)

`MLCurlCurl_K` is what one thread of the kernels touches: `Writes(a)` the six edges at node
`a`, `Reads` those on the right-hand side of its local system, `my_color` with the
remainder of C++.  `MLCurlCurl` has the set-up calls in any order, `prepareLinOp` of one
MLMG object after another, and the smoother: before each colour `applyBC` fills the ghosts,
then the threads of that colour run one by one in any order, over all boxes.  The value of
an edge is abstracted to a stamp, the number of the step that computed it: a thread
computes the right values exactly if everything it reads has the right stamps.  `LinOp` is the
operator as MLMG has it: an instance of `MLCurlCurl` whose `phase` is `smoother`, so that it can
stand beside the phases of `MLMG` in `SolverProofs`; `Op!` names what is in the instance.

### MLMG (`MCMLMG`, `SolverProofs`)

Every smoothing, bottom solve and interpolation adds a new correction, an atom.  A solution
or a correction is the bag of its atoms, and since the operator is linear a residual is
known by the bag it has been reduced by, the bag that gave its boundary values and what the
finer level put into it.  `mgVcycle` is `VDown`, `VBottom`, `VUp` one multigrid level at a
time; `mgFcycle` and `oneIter` are cut where they call it; `call` says who did.  `sol` is
`store[target]`, the caller's array or MLMG's own.  Convergence, stopping and divergence
(`Throw`) are free choices.  The operator's own state is `MLCurlCurl`'s, in `LinOp`.

### FabArrayCache (`MCFabArrayCache`, `FabArrayCacheProofs`)

`boxes` and `maps` are the heap: what stands at an address.  `grids` and `dmaps` are the
addresses the user's own BoxArrays and DistributionMappings hold; a FabArray, a LayoutData,
an MFIter made from a BoxArray and an entry of the copy cache hold copies.  An address is
free when nobody holds it, and then other boxes may be put there; a BoxArray that is
changed is changed in place by its only owner and copied otherwise (`Uniqify`).  `reg` is
the static members: `count` is `m_BD_count`, `cache` the five caches of one key, `pairs`
the entries of the two multimaps that keep an object under both its keys, `objs` the
objects of those that are not deleted.  `Seen` is what each lookup compares besides the
key, `Used` and `Layout` what the metadata are built from.  Each operation (`Define`,
`Clear`, `Move`, `Shift`, `LayoutCopy`, `IterBegin`, ...) lets go of the old key, with all
flushes, and takes the new one.  What the callers see to is in `MayLookUp` and
`MayLookUpPair` (only boundary registers have faces, and they do not communicate;
`Rotate90` is for cells; source and destination of a FillPatch have one transformer; the
geometry is that of the array's level).  `define` of a LayoutData is only for an empty one,
as `FabArrayBase::define` asserts.

### Boxes and FabArrayComm (`MCFabArrayComm`, `FabArrayCommProofs`)

`Boxes` has the operations on boxes, as functions of their two corners in any number of
directions: `boxDiff` with the order of its cuts, `Found` (`BoxArray::intersections`) with the
window of hash buckets it looks into, `shiftIntVect`, `PDomain`.  In `FabArrayComm` a call is a
record: its `kind` (`fb`, `epo`, `os`, `sb`, `pc`), the two FabArrays (number, boxes, ranks,
ghost cells), ghost cells of both sides, period, and the options `cross`, `op`, `tgco` (to ghost
cells only), `offset`.  `SendTags` is the loop over the boxes a rank sends from, `RecvTags` the
one over those it receives into, written apart as in the code; `CopyComTag` is `Tag`, and
`SndTags`, `RcvTags` and `LocTags` are the lists in `CommMetaData`.  `OverrideSync` has its
own way (`TagOneBox`): a point of several boxes comes from the first of them.

A `job` is a program that all ranks run: a script of `nowait` and `finish`.  A rank's turn is
`Nowait` (`FBEP_nowait` or `ParallelCopy_nowait` with their early returns: receives started,
buffers packed and sent, local copies), `FinishRecv` (all receives of the call have arrived;
unpack) and `FinishSend`.  A message has the values of the tags' points one after the other; the
receiver puts them where its own tags say.  MPI is the rule `Matches`: of the messages between
two ranks with one number, the n-th receive gets the n-th send.  A send may wait for
its receive.  A local copy that reads what it also writes has no certain value (`Torn`), and so
has a place of the buffer for which nothing came.  What is in the caches is taken to be what
`define` would build, which is what `FabArrayCache` shows.

### PrefixSum_mp (`Scan`, `MCPrefixSum`, `PrefixSumProofs`)

Integers are added.  A warp is in lockstep, since its lanes exchange values with
`shift_group_right`; a step of the model is what a warp does between two barriers, and warps
run in any order as far as the barriers (`Passed`) let them.  `kernel` counts the three
launches, which are on one stream; within a kernel blocks are launched in any order.  The
second kernel has the same loop over the sums of the blocks, so one set of actions serves
both, with `Input`, `ibegin`, `iend` and what it does at the end depending on the kernel.  The sums of the
sequential loop (`Sums`), and the rounds of a scan within a warp (`Shift`, `WarpScan`), are
recursive functions, of which proofs can use the defining equations.

### PrefixSum (`Scan`, `MCPrefixSum`, `PrefixSumProofs`)

A block is one actor but for the lanes of the warp that looks back, each of which waits for
and reads a status on its own (`ReadStatus`, `ReadValue`).  A sum is the set of blocks whose
elements have been added, so that a sum that counts a block twice or misses one shows.
`SINGLE_WORD` says which `BlockStatus` is used: one word, or a sum and an inclusive sum stored before the
status and read after it.  `Start` draws the virtual block id; `b` is that id everywhere.
`LookBack` is the ballot, the reduction and the move to the next window.  Which of the two
versions there is depends on the build; `Scan` begins by choosing one, and `MCPrefixSum` gives it
an input.

## 4. Runs

| run | instance | question |
| --- | --- | --- |
| `stepping` | 3 levels, ratio 2; a job of 3 steps with checkpoints every 2, one crash, one spoiled file, restarts with another `max_level` or `n_cycle`; a job of 2 steps with two grids, two time steps, load balancing and `use_efficient_regrid` | levels, times and files: `CoarseConsistent`, `FillBracketed`, `RegridSynced`, `CrashLossBounded`, `RestartFileKept`, `RunEnds` |
| `carena` | 2 threads and the streams, 4 units of memory (addresses 0 to 3), hunks of 1 or more, requests of 1 to 3, threshold 5, defragmentation | who owns which memory: `BlocksDisjoint`, `HunksTiled`, `SystemHunks`, `Coalesced`, `Accounting`; `HolderNeverWaits` |
| `streams` | 2 threads, a pool of one stream and one external stream, 2 blocks, a list may have 1 | `NothingLost`, `CallsReturn`, and `Promise`: refinement of `AsyncMemory` |
| `background_thread` | 2 clients, 3 jobs, 3 calls of `Finish` | `NeverIdle`, `WakeupComing`, and `Promise`: refinement of `JobQueue` with its liveness |
| `vismf` | 5 ranks; iterators with 1 to 5 files, both groupings, every kind of decider argument, four modes; asynchronous writes to 2 files of 3 and 2 turns, 2 writes of different distributions | `OneWriter`, `HeaderTrue` (iterators), `InTurn`, `HeaderExact` (asynchronous), `WritesEnd` (both) |
| `async_gap` | the asynchronous write, one write, a rank without FABs between others | finding 1 |
| `exchange` | 2 directions, 1 to 3 ranks, numbers 1 and 2; layouts of four equal boxes, of three unequal ones, of strips apart from each other and of two boxes on a thin periodic domain; cells, faces in the first direction, nodes; none, one or two periodic directions; two calls one after the other or one inside the other, three calls in flight at once; copies and sums of a FabArray into itself | `ExchangeTrue`, `MessagesMatch`, `ExchangesEnd` |
| `fabcache` | 2 FabArrays, 2 LayoutDatas, an MFIter, of which 3 at a time are defined, 2 addresses of BoxArrays, 2 lists of boxes, 4 transformers, 1 object in the caches | `CacheTrue`, `CountsTrue`, `NoDangling`, `HeldMetadataStays` |
| `mlmg` | 1 to 3 AMR levels with 1 to 3 multigrid levels, with and without an F-cycle, three calls of `solve`, `precond` or `compResidual`, 2 iterations | `ResidualTrue`, `CorrectionWhole`, `SolutionReturned` |
| `mlmg_alias` | two calls of `solve`, the arrays with and without ghost cells | finding 2 |
| `curlcurl` | 2 x 2 x 2 cells in two boxes; each direction has another kind of boundary (Dirichlet and symmetric, periodic, symmetric and Dirichlet); calls of `smooth` with 2 sweeps | `FactorsFresh`, `OrderFree`, `SweepWhole` |
| `scan` | one kernel: 5 blocks, warps of 2 lanes, 3 blocks at a time, both kinds of status; three kernels: blocks of 2 warps of 2 lanes with 2 chunks, 9, 10, 13, 16 or 34 elements, so 2 to 5 blocks, 2 at a time, both types | `PrefixesTrue`, `AddedOnce` (one kernel), `ScanTrue` (three), `ScanEnds` (both) |

Why the bounds are enough.
*Levels*: three levels have a coarsest, a finest and one that is both coarse and fine, so a
middle frame has an inner and an outer one; a fourth repeats the middle.  *Steps*: three
coarse steps with a checkpoint every two contain a step with one, a step without, and a
final checkpoint; level 1 regrids at every step and level 0 at every second one, so
both happen together and apart.  *Crash*: what a crash leaves is the disk alone, so a
second crash starts from a state the first can leave too.  *Arena*: several hunks that may
be adjacent in memory, hunks larger than the standard one, and a full memory are all
reached; two threads suffice for each unlocked window to be used by another call.
*Streams*: one block may wait on a list while another is being freed from it, lists
overflow, and the external stream has a list that goes away; with a pool of one, threads
share a stream and the external one is another.  *BackgroundThread*: one finished `Finish`
followed by another, with jobs of the other client before, between and after.
*AsyncWrite*: files with two and with three turns, so the first, middle and last position of
a file all occur, and a second write queued behind the first, with other sizes, so that a
value left over from the first would show.  *NFilesIter*: with five ranks
the sets are unequal (5 = 3+2 = 2+2+1), a file may be left with no rank to serve it, the
number of files goes from one to all, and both a given and a computed decider occur.
*Exchange*: every kind of call, with ghost
cells of zero to three, meets a box with neighbours on all sides, one at a side of several, one
alone, and the corners of the domain; with three ranks one may have no part in a message of the
others.  There are two numbers: two calls bring the counter back to the start, and where three
are in flight (`Wrap`) the third has the number of the first.  The
reach of the ghost cells is at most one period in sums and in copies that add
(section 6 says what happens beyond).  Theorems cover any layout and any number of ranks.
*Curl-curl*: the boxes meet at a face, an edge and the corners of the domain, every kind of
boundary meets the others, and every colour occurs in both boxes; larger boxes repeat the
neighbourhoods, and `ColorsIndependent` is proved for all of them.  *MLMG*: a middle AMR
level, a middle multigrid level and an F-cycle of three levels occur; two iterations contain
a first and a later one.  *Caches*: three objects with two addresses make keys that are
shared by two, given up by one, and used again for other boxes; one cached object at a time
is enough for each comparison, which is of one entry with one object, and two kinds of entry
do not interact; the theorems have none of these bounds.  *Scans*: the lengths leave the last
warp, chunk or block partly empty or just full, and with five blocks the second kernel has a
full chunk and one of a single element; the last block has three windows
to look back at, the last of which has one block only.  Three blocks at a time can
block each other if they start in the wrong order, as the mutant of `ScanEnds` shows.

The runs `fabcache` and `curlcurl` check for deadlock.  The others do not, because the
systems modelled do stop: a job ends, a client stops calling, a process aborts.  That
nothing stops too early is a liveness property of its run.

### Fairness

* `AmrStepping`: weak fairness of the program's own steps.  It is a sequential program
  that is running; it need not crash nor be restarted.
* `StreamManager`: weak fairness of each thread inside a call, and of each stream (a GPU
  stream executes what is queued in it).  No thread has to call.
* `BackgroundThread`: weak fairness of the worker and of each client inside a call: the
  operating system schedules threads and submitted functions return.  No fairness for
  calls nor for spurious wakeups.
* `FabArrayComm`: weak fairness of each rank's control (`Turn`: its place in the script and in a
  finish), which MPI's progress and running processes give.  Messages arrive when they have been
  sent; a send need not end before its receive has been started.
* `AsyncWrite`: weak fairness of the background threads.  A rank need not call; the
  liveness property assumes that all have.
* `NFilesIter`: weak fairness of every rank, which also says that a message waited for
  arrives, as MPI guarantees.
* `PrefixSum_mp`, `PrefixSum`: blocks that are resident go on, and a block is started when there
  is room.  The comment on deadlock at `AMReX_Scan.H:457` assumes as much: blocks may be launched
  in any order, but those that are there are executed.
* `CArena`, `MLCurlCurl`, `MLMG` and `FabArrayCache` state safety only and assume none.

## 5. Proofs

### AmrSteppingProofs

Assumed: `ConfigAssumption` and `JobsAssumption` (the types of what the inputs may say; the
coarsest level has one step, and every level without subcycling) and `DtAssumption` (a time step
is divided by every subcycling).  Proved for any number of levels, any subcycling, any choice of grids, any number
of steps, crashes and spoiled files: `FillsBracketed` (`FillBracketed`), `RegridsSynced`
(`RegridSynced`), `CoarseStepsConsistent` (`CoarseConsistent`), `CrashLossIsBounded`
(`CrashLossBounded`), `RestartFileIsKept` (`RestartFileKept`), `TypesHold`, and `Invariant`, of
which they are consequences.

`IInv` is `TypeOK /\ Timing /\ Files`.

* `Timing` is about the recursion.  `FrameTimes` says of every call on the stack where it is in
  the interval of the call below it, and whether its level has been advanced: `time[k]` is
  `time[k-1]` and `iter[k] - 1` steps of level `k`.  That a level ends with the coarser one is
  what the last of these steps gives.  It needs `DtShared`, that level `l` has its share of
  `dt_0` under the product of the subcyclings (`NFactor`), also after a regrid has added a level
  in the middle of a coarse step; and `StackOK`, that a regrid that drops levels does not drop
  the level of an active call and that the loop over `lev` stops at what is left.
  `StepCounts` is the same of the counters.  `Together` says that between two coarse steps all
  levels are at one time, and is what a checkpoint saves.
* `Files` is about the disk.  `FilesOK`: a file holds a state between two coarse steps, so a
  restart from any of them gives `Together` again.  `PastOrigin`: an execution writes only
  directories later than the one it came from, hence never renames that one away
  (`RestartFileKept`).  `LastKept`: the file due last is there at every point where a crash
  can come, also between the renaming of an old directory and the end of the new one.

`NFactor` is a recursive function; its values are those of an explicit function
(`RecursionExists`), since the provers do not unfold a `CHOOSE`.

### CArenaProofs

Assumed: `ArenaAssumption` (`Sizes` are positive, `Hunk` is positive, the three pseudo
threads differ; nothing about the number of threads or the size of the memory).
Proved for every instance: `TypeCorrect`, `NoOverlap`, `BlocksOwned`, `NothingLost`,
`FreeNeighboursMerged`, `NoHunkLeaked`, `CountersExact`, each `Spec => []...` of the
property of the same content in `CArena`.

The inductive invariant `IInv` is `TypeOK /\ Memory /\ SysOK /\ SystemHunks /\ LocalsOK /\
ToFreeOK`.

* `Memory` is about the lists alone: the hunks are apart, blocks are inside hunks, disjoint,
  tile the hunks, free neighbours are merged, the counters are the sums.  These parts need
  each other: a block returned whole covers its hunk only because blocks tile and are
  disjoint; the merged block is disjoint from the others only because its two parts were
  neighbours in one hunk; merging the two neighbours leaves no third only because `Coalesced`
  held before.  It has one lemma for each way to change the lists (`FreeBlockMemory`,
  `FreeUnusedMemory`, `FoundMemory`, `NewHunkMemory`, `ShrinkMemory`, `GrowMemory`), and
  the actions reduce to them.
* `SysOK` and `SystemHunks`: a new hunk of the system is apart from the arena's because it is
  apart from all of the process's, hence also from those that are on their way back.
* `LocalsOK`: what `alloc_protected` still knows after the mutex was given up (`nbytes`, `N`)
  is what it needs: the size of the new hunk covers the request.  `ToFreeOK`: only a thread
  in `deallocate` has hunks to return.

The sums are cardinalities of sets of pairs (`Units`), so that the theorems on finite sets
apply and no induction is needed.

`HolderGoesOn` is about the mutex: a thread that has it is at a place of its call where the
guard of a step holds (`CanGoOn`), never at one of the two windows where it waits for a stream.
It says with guards what `HolderNeverWaits` says with `ENABLED`.  `MutexOK` says where the mutex is held;
that a search finds a block or finds that there is none is the well-foundedness of addresses
(`FitIsFound`).

### StreamManagerProofs

Assumed: `StreamAssumption` (there is a stream in the pool, streams are numbers, the owners
that are not threads differ from threads).  Proved for any number of threads, streams, blocks,
nested external streams and any limit of the lists: `TypeCorrect`, `NeverLost`
(`NothingLost`), and `Implements`: every step of `StreamManager` is a step of `AsyncMemory` or
leaves its state alone (`Promise`).

`IInv` is `TypeOK /\ Calls /\ Lists /\ Streamed /\ Uses /\ Elixirs`.

* `Calls`: only a thread that synchronises holds a list it has taken; while the master resets an
  external stream, the others are outside of all calls, and once that stream's list has been
  taken nothing is added to it.  Without it a list could be dropped with its manager.
* `Lists`: a deferred block is on one list, of a manager in force, or with one thread.  From it
  follow `NothingLost` and that `FreeOne` never frees twice.
* `Streamed`, `Uses`: a block on a list is used by kernels of that list's stream at most; one
  that a thread has taken, by kernels up to the thread's `target`; hence by none when
  the stream has answered.  The target is read after the list is taken: this is the order of the
  swap and the synchronisation in `StreamManager::sync`.
* `Elixirs`: the host function has a later place in its stream than all kernels that use its
  block, so when it runs, they are done.

The refinement step then needs only that a block that becomes free is not in use (`Uses`,
`Elixirs`), and that no call gives up a block that it does not own.  `ManagersOf` is a set and
the managers one synchronisation visits are the increasing sequence over it, so that no
induction over sequences is needed.

### OutputProofs

The three parts of the output, each for any number of ranks, files, jobs and clients.

*The thread*.  Assumed: `ThreadAssumption`, and for the wakeup `OneFinisher`: one client calls
`Finish`, as in AMReX, where `AsyncOut::Finish` is called by the main thread.  Proved:
`ThreadTypeCorrect`, `WorkerNeverIdle` (`NeverIdle`), `NoWakeupLost` (`WakeupComing`).
`QueueInv` strengthens `NeverIdle` by: after the destructor has submitted `Finalize` no client
is in a call (`NobodyCalls`), and `Finalize` is the last function there will ever be
(`FinalizeLast`): hence the queue is empty when the worker exits.  `WakeupInv` adds that
while a client is in `Finish`, its `Clear` job is in the queue or in the worker's hands, or
has run and `m_clearing` still stands (`ClearComing`): only `Finish` itself resets it, which
is where `OneFinisher` is used.

`ThreadImplementsJobQueue` is the refinement but for its fairness, for any number of clients, also when
several call `Finish`: every step of the thread and its clients is one of `JobQueue` or leaves
its state alone.  `PromiseInv` adds to `QueueInv` that only the owner destroys and
`AwaitedAhead`: a job that a `Finish` awaits is done, or a `Clear` job is behind it in the
queue.  `Finish` returns when it finds the queue empty, which by itself says nothing of the job that is
running; the `Clear` job behind it is what makes an empty queue mean that it is done.
The lemmas on `Selected` (of a concatenation, a tail, an appended element) carry the queue without
its internal jobs through `Submit` and `TakeJob`.

*The iterators*.  Assumed: `NFilesAssumption` (there is a rank, a number of files is not larger
than the number of ranks, the ranks given for reading or sparse writing are different ranks).
Proved, for either grouping: `OneWriterAlways` (`OneWriter`).

* `StaticTurns` and `ReadTurns`: when it is a rank's turn, because it has a message or has gone
  on, the ranks before it in its file have left.  That the rank that is woken up is the next in
  the same file (`NextPosition`), and that two ranks of one file have different positions
  (`PositionsDiffer`), is the arithmetic of `FileNumber`, `WhichSetPosition` and `WakeUpPID`.
* `OnePlace`: with dynamic sets a file is in one place only: with a rank that has it open or is
  about to open it or give it away (`Holds`), in a message `write` or `done`, or among the
  coordinator's available files.  It is why a coordinator may start before the other ranks of
  set zero have closed their files.

`HeaderTrueAlways` (`HeaderTrue`), in all three modes of writing: when all ranks have left, they agree
on the coordinator and `FindOffsets` tells of each file the data in it, in order.  `IteratorInv`
adds to the above, for the modes that do not negotiate, that a file holds the data of those of its
ranks that have left, in the order of their turns (`StaticFiles`, `SparseFiles`), and for dynamic
sets `DynamicInv`:

* `Agreement`: whoever knows the coordinator, or is told of it, knows the same one, a rank of set
  zero, and only that one sends `write`.  The decider makes the choice once, which is a race.
* `SentOnce`, `QueuedOnce`, `OrderedOnce`: a rank that is to write is in one queue or has one message
  on its way to it, and after that it is in the order of one file; so no data are written twice.
* `DynamicFiles`: a file holds what the coordinator's order of it says, or all but the last in
  it, and that rank has the file or a message that gives it the file.  It is why the order that
  the coordinator notes when it *sends* is the order in which the data come to be in the file.

That the decider is one of set zero, whichever way it is given (`SomeDecider`, `DeciderIs`), and that
the flattened orders of the files are a selection of the ranks (`FlattenSelected`), are lemmas.

*The asynchronous write*.  Assumed: `AsyncAssumption`, and for the header `NoGaps`: the
ranks without FABs come after those with some, which finding 1 shows to be needed.
Proved: `WritesInTurn` (`InTurn`) and `HeaderPredictsFiles` (`HeaderExact`), for any number of
writes under way at once.

* `PostedOK`: how many barriers a rank has posted follows from the job it is in and where in the
  job it is.  Barriers are matched by their count alone, so a write leaves no trace of its own:
  the number of one write's turns is what the next one starts from, and it must be the same on
  all ranks of a file.  `TurnsTaken`: a rank that is at its file, or past it, has seen the
  barriers of the ranks before it, hence they are past theirs; it holds for all writes up to the
  present one.  `FilesHold`: a file has exactly the FABs of the ranks that are past, in order.
* `LengthsRight`, `PlacesRight`: how many bytes are in a file when a rank's turn comes, and where
  each FAB went.  `HeaderIs` and the lemmas on `FlattenSeq`: the walk over the gathered words
  gives each rank its own word, provided none was skipped (`NoGaps`); the sums over the
  ranks before are those of the bytes in the file.

### SolverProofs

*The driver*.  Assumed: `ProblemAssumption` (AMR levels are numbered from zero and each has a
multigrid level; MLMG's own array is none of the caller's).  Proved for any numbers of AMR and
multigrid levels, any `max_fmg_iters`, any number of iterations and calls, with convergence and
divergence at any point: `ResidualsTrue` (`ResidualTrue`), `CorrectionsWhole`
(`CorrectionWhole`), and under one more hypothesis `SolutionAlwaysReturned` (`SolutionReturned`).

`CycleInv`, for the first two, is `Shapes /\ Control /\ Descent /\ FCycle /\ Levels`.

* `Shapes`: all arrays have their levels, and hold bags; the bags need only that `(+)` is
  associative and has `EmptyBag` as its unit.  `Control`: which of `alev`, `mglev`, `top` and
  `call` go with which phase.  A V-cycle is counted to the place that called it (`stage`), so
  that what the caller relies on is stated once for all the steps of a cycle.
* `Descent`: on the way down and up in a V-cycle, each residual below the present multigrid level
  is what the correction above it has left of the one above, and has not been reduced since.
  `FCycle`: the same of the levels an F-cycle has not reached yet, and what is held of the
  correction on the level where its V-cycle runs.
* `Levels`: where the AMR levels are.  `GoingDown`: coarser levels still have the solution of the
  start of the iteration, finer ones are `Between` their two cycles: what has been added to a
  level since the start is what is held of its correction, and its residual has the boundary
  values of the start.  `Interpolating`: the change of the coarser level since the start is in
  `cor`, the part that was held on the way down included.  Between them they give, on the way up,
  that the boundary values the residual is reduced by are those of the coarser solution as it is
  now, by associativity of the bags alone.

`AnswerInv` adds `InSolve`: during a call the solution is the guess plus `made`, stands in the
caller's array or in MLMG's own as `sol_is_alias` says, and all other arrays are as they were
(`InsideInSolve`: a correction goes to `sol` and to `made` alike); `Flags`: the preconditioner's
modes and the GPU regions follow from `mode` unless a call has thrown; `Synced`; and `Answer`,
what has been returned.  `AliasOK`, that the alias flag is set only when all arrays can be
aliased, is where the hypothesis `OneKind` is used: the arrays given to `solve` all have one ghost
cell, or none has and `compResidual` is not called.  Without it finding 2 is a counterexample.

*The operator*.  `ColorsIndependent`: two different nodes of one colour, with non-negative indices, write no
edge in common and none the other reads, for boxes of any size and any symmetric faces.  The
argument is parity: of two nodes of one colour either all three indices differ by an even
number or all three by an odd one (`SameColorParity`); an edge that a node writes has the
node at one end (`WritesAtEnds`), and one that a node reads is one step away in exactly one
direction.

`SweepsWhole` (`SweepWhole`) and `OrderAlwaysFree` (`OrderFree`) are about the whole smoother, for
any number of sweeps and calls, and assume `GridOK`: indices that start at zero or above, an even
number of cells across each period, and boxes, of at least one cell each way, that cover the
domain and nothing else (they may overlap).  TLC evaluates `GridOK` for the grid of the run
(`GridChecked`); without either of the first two it finds `SweepWhole` violated (section 7).
Parity is what `GridOK` is for: the copies of a node across an even period have one colour
(`WrapColor`), so that whichever box holds an edge, the threads that write its copies are those of
its two nodes (`Relaxed`), in the same launches.  The invariant `SweepInv` has two faces.  While no
colour runs, every valid edge has the stamp it should have (`CopiesRight`).  While one runs, so
has every edge of a box that lies in the domain or beyond one symmetric face (`InPlace`), if
no thread of that box has written it, and the next stamp otherwise (`ColorRight`).  `GhostsRight`
leads from the first to the second: a ghost edge is filled from a copy that exists because the
boxes cover the domain (`Filled`), and which of them is chosen does not matter; a mirrored edge is
inside the box.  `ReadsInPlace` says that a thread reads no other ghosts than these: those beyond
two faces, which nobody fills, are read by none.  Where the ghosts are not filled everything is
zero (`SkipOK`).  Back to the first leads `ColorExpected`: the stamp an edge should have is the
maximum over its nodes (`MaxStamp`), and a colour changes it where a node has the colour.

`FactorsAlwaysFresh`: `FactorsFresh` for any number of set-up calls; the
inductive invariant says that during a solve the factors are those of the present scalars
unless a coefficient varies, although between solves they may be stale.

### FabArrayCacheProofs

Assumed: `CacheAssumption` (the sets of objects are finite and apart, `None` is no address, a
transformer is its three fields).  Proved for every instance: `CachesTrue`, `CountsExact`,
`NoneDangling`, `HeldKept`, and `TypeCorrect`.

An operation lets go of a key and takes another in one step, so the invariant `RegInv` is
stated of any heap, objects and caches, and the lemmas `Release`, `Taken`, `Moved`,
`LookedUp`, `PairLookedUp`, `BoxesChanged` and `MapsChanged` each preserve it; actions are
sequences of these.  It says: the count of a key is the number of objects with the key;
multimap entries and objects are in step; and everything cached was built from what stands
*now* at the addresses of its key, a key that is counted.  The last part is what makes reuse
of addresses harmless: an address in a cached key has a holder (`CountedKey`), so nothing
else can be put there (`BoxesChanged`).  `CachesTrue` then needs only that transformers a
lookup cannot tell apart give the same metadata (`SeenUsed`), which is where the callers'
obligations are used.  `HeldKept` rests on `ReleaseKeeps`: a key that another object has is
counted more than once, so letting go of it flushes nothing.

### PrefixSumProofs

Assumed: `PrefixSumAssumption` (the three constants are positive).  Proved for any number of
blocks, any width of a warp, any number of resident blocks and both kinds of status:
`PrefixesAlwaysTrue` (`PrefixesTrue`) and `NeverAddedTwice` (`AddedOnce`).

The invariant is `TypeOK /\ Numbered` and, for each block, `Published`, `OwnStage` and
`LookBackStage`; beside it stands `Total` (the total is that of nothing until the last block is
done, then that of all).  `Published`: a status other than `x` comes with the right sum in the field it
names, also while the next one is being written.  `LookBackStage`: what the looking-back warp
has in `exclusive_prefix` is the sum of the blocks between its window and itself, and each lane has
read nothing, an aggregate of its block, or the prefix up to it.  The step `LookBack` is then
about intervals: the lanes up to the nearest prefix (which exists if any has one, since the
natural numbers are well founded) are aggregates of consecutive blocks and one prefix that ends
where they begin.  Statuses only move from `x` to `a` to `p`, and a sum does not change once it is
published, so a lane's value stays true after it has been read.  No induction over the windows
is needed, since the invariant says what each window starts from.

`ScanAlwaysTrue` (`ScanTrue`) is about the three kernels.  Assumed: `MPAssumption` (a block has at
least one warp and at most as many as a warp has lanes, since one warp scans the sums of the others;
positive numbers of chunks and resident blocks; positive lengths; a whole number for each element).
Neither warps nor lengths need fit together in any way.  `MPInv` is `MPTypeOK /\ Threads /\ Results`.

* `Threads` is about the warps of a block.  `Counted`: how many barriers a warp has passed follows from
  its chunk and its place in it, two for each chunk.  `InStep`: none is ahead of another by more
  than the barrier it waits at.  From these come the two facts the code rests on: when the first
  warp adds up `shared`, all warps have stored there for this chunk and none for the next
  (`AllStored`); and when a warp reads `shared2`, what stands there is of its own chunk
  (`SumsFound`).
* `Adding`: what a warp has in its variable, and what it and the first warp have stored, as differences
  of sums up to an element of the block (`Upto`).  A step then adds adjacent differences, in
  either of the first two kernels, whether its chunk is full or not (elements past the end
  count as zero).
* `Results`: what stands in the arrays, element by element: in the first kernel the sum within the
  block where the element's warp has come by (`Dealt`), in the third the whole.  A kernel starts
  when all warps of the one before have ended (`KernelOver`), so all elements have been dealt with.

`WarpScanIs`: after the shifts 1, 2, 4, ... each lane has the sum of all lanes up to its own, by
induction over the rounds.  Induction over an initial part of the natural numbers is had
without an operator as a parameter from the least element of a set (`UpTo`), and with it that
a recursive function satisfies its equations (`RecursionExists`).  Positions of elements are products and
remainders; `PlaceIs`, `BlockIs` and `BlocksCover` keep these out of all other proofs.

### FabArrayCommProofs

Assumed: `DimAssumption`, `TagAssumption` (numbers are naturals, there is one),
`UnboundedAssumption` (what stands for the ends of int is positive), and in each theorem
what it says of a call: `IsBoxArray` (boxes have points and at most `MaxSize` of them in a
direction; without such a bound there is no largest box), ghost cells and periods are naturals,
an offset only with `ParallelCopy`.

* `BoxDiffCovers`, `BoxDiffDisjoint`: the parts of `boxDiff` are the first box without the second, and
  apart.  A point that is left lies between the second box's planes in the directions after some
  direction, the last in which it is outside (`LastOutside`), and it lies in that direction's part.
* `FoundAll`: the hash window leaves no box out.  A box that meets `b` has its low corner at most
  one extent below `b`'s, so its bucket is in the window (`InWindow`); division keeps the order.
* `SendersAndReceiversAgree`, `MessagesAgree`: of `FillBoundary`, `SumBoundary`, `ParallelCopy` and
  `EnforcePeriodicity` both loops find exactly the parts of the overlaps of a shifted source and a destination (`Agreed`).
  The sender finds them by shifting the source and looking for destinations (`SendTagsAre`), the
  receiver by shifting the destination the other way and looking for sources
  (`RecvTagsFromAre`).  This takes that the hash is exact (`FoundAll`), that to shift back and
  forth is nothing, that shifts come in opposite pairs (`ShiftsSymmetric`, where the kinds other
  than `ParallelCopy` use them for both sides), and that the cut is made at the same place.
  The order then follows from the sorting, and with `cross` the cut from the list.
  In `EnforcePeriodicity` the cut is *not* made at the same place: the sender clips its box by the
  domain and then cuts what arrives, the receiver cuts and then clips.  `CutAndClip` is that the
  same parts come out: where the clipped box meets the domain, part by part (`ClipParts`); where it
  does not, the sender does not cut at all, and of the receiver's parts exactly one reaches into
  the shifted domain (`OnlyPart`), that of the last direction in which the domain and the shifted
  domain have no plane in common.  This takes that the shift is nothing in all later directions,
  which `IsCall` asks for as `NodesFirst`: a periodic direction of nodes follows only periodic
  directions of nodes with no more ghost cells than a period (`DomainApart`).  Cells, nodes, and
  faces in the first direction are such types.  Faces in a later one are not, and there the code
  is wrong (section 6).
* `MessagesAlwaysMatch`, `ExchangesMatch`: `MessagesMatch` for any program, number of ranks and range
  of numbers.  The inductive invariant (`IInv`) says that a rank's number is that of its place in the
  script (`TagAt`), and that the receives one rank has started from another, and the sends of
  that one, are two beginnings of one sequence (`UpTo`): the exchanges of the script in which the
  two have something in common.  Since a number is the same for both at each place of the
  sequence, the n-th of one number is at the same place on both sides (`UpToMatch`), wrapped
  around or not.  `ListsAgree` is where the agreement of the loops is used, and `ExchangesMatch`
  gets it from `MessagesAgree`.

### Only model-checked

All liveness (`RunEnds`, `CallsReturn`, `WritesEnd`, `ScanEnds`, `ExchangesEnd`, and what `Promise` of
`BackgroundThread` says of it), since the proof system does not reason about fairness and
`ENABLED`; for the same reason `HolderNeverWaits` as it is written (`HolderGoesOn` proves what is
under its `ENABLED`).  `ExchangeTrue`, whose values go through sequences of points, and the lists of
`OverrideSync`, which are not sorted but come in the order of the loops that build them.

## 6. Findings

1. **`VisMF::AsyncWrite` with a rank that has no FABs** (`Base/AMReX_VisMF.cpp:2503`).  The
   rank's word among the gathered data is not consumed and its `nbytes_on_rank` stays -1: the
   offsets of later ranks are wrong.  With FABs on all ranks, or on the first ranks only, the
   header is right (`vismf`).  Run `async_gap`.
2. **`MLMG::solve` keeps an alias of an earlier solution**
   (`LinearSolvers/MLMG/AMReX_MLMG.H:1083`).  `sol_is_alias` is set for a solution with one
   ghost cell and never taken back.  A later `solve` with a solution without ghost cells uses
   the earlier array as its guess, writes to it, and returns its own argument unchanged.  A
   `compResidual` on a solution without ghost cells before the first `solve` sets the flags of
   all levels in the same way (line 886).  Run `mlmg_alias`.  With arrays of one kind all is
   well (`mlmg`).

Without a run of its own, but with a program in `MCFabArrayComm` (`SideFaces`) on which
`ExchangeTrue` is violated:

3. **`EnforcePeriodicity` of faces in the second or third direction**
   (`Base/AMReX_FabArrayBase.cpp:893`).  The sender clips its box by the periodic domain (line 919)
   before `boxDiff` cuts it (938), the receiver cuts first (990) and then clips (995).  Take a domain
   of 4 by 4 cells periodic in both directions, faces in the second (cells in the first), two
   boxes side by side on two ranks and one ghost cell.  At the corners the shifted domain touches
   the domain in y, not in x: the sender has one box of two faces, the receiver two boxes of one
   face each.  The lists have other boxes in another order, their sizes add up to the same, so the
   message is accepted and values land at the wrong faces, against `AMReX_FabArray.H:1312` ("Fill
   ghost cells with values from their corresponding cells across periodic boundaries").  The
   attempt to prove that the two lists agree showed this; section 5 has the condition under which
   they do.  The same holds for nodes with more ghost cells than a period in a direction that is
   not the last.

Smaller remarks, without a run:

* `restart` sets `level_count[0] = regrid_int[0]`, with the comment "If we change n_cycle then
  force a full regrid from level 0 up", and then overwrites `level_count[0]` with the value of the
  checkpoint (`Amr/AMReX_Amr.cpp:1577` to 1588): the change does not force a regrid.
* `which_level_being_advanced` is -1 in the coarse level's `post_timestep`, because the inner call
  resets it (`AMReX_Amr.cpp:2134`), although its comments say that it tells whether one is in
  the routine.
* `BoxArray::set` (`AMReX_BoxArray.cpp:878`) and `DistributionMapping::define` change data they
  share with their copies, although the documentation (`Basics.rst:1671`) says that copies are
  conceptually independent.
* `SumBoundary` asks for the periodic shifts of the larger of its two ghost widths
  (`AMReX_FabArrayBase.cpp:1199`), but a grown source and a grown destination meet as far apart
  as the two widths together.  With a period of 4 and three ghost cells on both sides,
  contributions are left out, against `AMReX_FabArray.H:1295` ("the dst is grown by dst_ngrow,
  while the src uses src_ngrow"); `MCFabArrayComm` has this program as `Deep`, on which
  `ExchangeTrue` is violated.  `ParallelCopy` takes its shifts from the destination's ghost cells
  alone (line 349), which shows in the same way when it adds.

## 7. Limits

* `AmrStepping` leaves out: plotfiles, `check_per`, `stop_time` and `dt_min`, "Optimal"
  subcycling, the regrid that a level may ask for after its step (`AmrLevelAdv` never does),
  the regrid of level 0 on restart for `max_level = 0`, asynchronous checkpoints, load balancing
  of level 0 on restart, the file headers.  `CoarseConsistent` asks for the ratio of step
  counts only as long as no restart has changed `n_cycle`: after one, `level_steps` keeps the
  ratio of the old subcycling, which the driver only reports.
* `CArena` leaves out: the profiler and the high-water marks, `hasFreeDeviceMemory`, the other
  arenas.  `heap_space_used` reads its counter without the mutex; `Accounting` is about the
  values in memory.
* `StreamManager` leaves out graphs, prefetches and SYCL.  A kernel uses blocks its thread owns,
  which is the rule for users of asynchronous memory.
* `BackgroundThread`: with two clients in `Finish` at the same time TLC finds `Promise` violated:
  one notification wakes one of them, which resets `m_clearing`, and the other sleeps although
  the queue is empty.  AMReX has one such client, so this is recorded as a hazard and not as a
  finding.  A client that keeps submitting can delay the return of `Finish` for as long as it
  does so; the runs submit finitely many jobs.
* `AsyncWrite` takes the gather as data that are there when all ranks have called; formats and
  the minima and maxima of FABs are left out.
* `NFilesIter` takes sends of one integer as buffered.  With unbuffered sends the dynamic
  protocol could block: ranks of set zero send to the decider while it sends to them.  In the
  sparse mode the member function that returns the file numbers gives indices and not ranks;
  `VisMF.cpp:1334` works around it, and the model follows `VisMF`.
* `MLCurlCurl` has one multigrid level of the three-dimensional build; the values of the
  stencils, `apply`, restriction and interpolation are left out.  With an odd number of cells
  across a period, or a domain that begins at a negative odd index, TLC finds `SweepWhole`
  violated: the two copies of a node have different colours, and a negative remainder is no
  colour (`_K.H:1126`).  The domains of the code's tests begin
  at zero, and coarsening is by two as long as a domain keeps `mg_domain_min_width` cells
  (`AMReX_MLLinOp.H:591`), so only the coarsest level may have an odd number of them.
* `MLMG` leaves out N-Solve, `CFStrategy::ghostnodes`, the inner workings of the bottom solvers,
  and fluxes.  After an exception (`Throw`, lines 550 and 567) the GPU regions, the
  preconditioner's boundary conditions and its iteration counts stay as they were then; no text
  promises more, so `SolutionReturned` asks for them only as long as nothing has been thrown.
  `prepareLinOp` (1222) does not reset the hypre and PETSc solvers as `prepareForSolve` does;
  they are outside of the model.
* `FabArrayCache` leaves out the contents of the metadata (which are `FabArrayComm`'s), RB180 and
  PolarB, which are kept as RB90 is, and the functions that change shared data in place
  (section 6).  Destroying the source of a ParallelCopy between `_nowait` and `_finish` deletes
  the metadata in use; `HeldMetadataStays` is about arrays that still exist.  Calls come from one
  thread at a time, as the code asserts by its `omp single` and `critical` sections.
* `FabArrayComm` has one component and leaves out teams, extra ghost nodes (`multi_ghost`), copies
  in several passes over components, the `RB90` family, `Redistribute`, fused GPU kernels and
  the deterministic variant of `SumBoundary`.  Values are never computed with but in sums.  The
  numbers are drawn in one communicator.
* `PrefixSum_mp`, `PrefixSum`: the CUDA and HIP builds leave the look-back to cub and rocprim.
  With `AMREX_SYCL_NO_MULTIPASS_SCAN` the SYCL build uses the look-back for any number of blocks,
  otherwise for one block only (line 412).  Memory is sequentially consistent in the models; `read`
  (line 145) has its fence after both loads and not between them, which is recorded as a
  hazard.  The width of a warp is not smaller than the number of warps (`ScanAssumption`).
  The last element, which an exclusive scan adds to the total apart (line 493), counts to its block.

### Not modelled

Mesh generation, clustering, knapsack and space-filling curves: sequential functions whose
interesting inputs are too large for TLC and whose recursion is out of the prover's reach.
Particles: data layout.  Flux registers, FillPatch, the other operators, embedded boundaries, FFT,
SDC: floating point.  ParmParse, the parser, Fortran interfaces, bindings: text processing and
wrappers.

## 8. Plan

1. Proofs: the lists of `OverrideSync`; `ExchangeTrue`, for which the
   order of the points in a box has to become a function that proofs can unfold.
2. `FabArrayComm` over `FabArrayCache`: exchanges that look their lists up while arrays come and
   go; nested communicators.
3. Abstract specifications: an allocator (a map from clients to disjoint ranges) that `CArena`
   implements; "one write after another" that `AsyncWrite` and `NFilesIter` implement; a global
   index space that `FabArrayComm` implements.
