# Formal models of AMReX

AMReX is a C++ framework for block-structured adaptive mesh refinement: a
hierarchy of levels of grids, the data on them distributed over MPI ranks, and
the machinery (memory, streams, files, communication) that codes built on it
share. Most of its lines are numerical kernels. What this directory models is
the part that is hard for another reason: code in which threads, ranks, streams,
crashes, or a long history of regrids decide what happens, and which unit tests
reach only by luck.

The directory holds TLA+ modules translated from the C++ sources, TLC
configurations that check them on small instances, and proofs checked by TLAPS.
`PROJECT.json` relates every definition to the lines it translates, every
property to a hazard of the code, and lists the runs and the theorems. Paths
below are relative to the root of the repository.

Contents

1. The system: components, state, operations, interactions
2. The modules and the code they translate
3. The runs: instances, bounds, what they show
4. Fairness
5. What is proved, and how
6. Where the code and its words disagree
7. What is not modelled
8. The plan

## 1. The system

### Components with behaviour worth modelling

| Component | State it keeps | Operations | What makes it correct |
|---|---|---|---|
| Background thread (`Src/Base/AMReX_BackgroundThread`) | job queue, mutex, two condition variables, two bools | `Submit`, `Finish`, destructor, worker loop `do_job` | every job runs once, in order; `Finish` is a barrier and returns; the destructor drains the queue |
| AMR driver (`Src/Amr/AMReX_Amr`) | clocks, time steps, counters of steps and of steps since a regrid for each level, `finest_level` | `coarseTimeStep`, the recursion `timeStep`, `regrid`, `okToRegrid` | fine steps nest in coarse ones and find data to interpolate; regrids come when due and destroy nothing that is still needed |
| Checkpoint and restart (same file) | directories on disk, what the Header holds | `checkPoint`, `restart`, crash | a directory with a checkpoint's name is always whole, none is lost, and a restarted run is in a state the driver could have reached |
| StateData (`Src/Amr/AMReX_StateData`) | two time levels of data | `allocOldData`, `swapTimeLevels`, `setTimeLevel`, `removeOldData` | the times agree with the driver's clock |
| Coalescing arena (`Src/Base/AMReX_CArena`) | hunks, free list, busy list, two counters, a mutex | `alloc`, `free`, `alloc_in_place`, `shrink_in_place`, `freeUnused` | memory is never lost nor given out twice; free neighbours are merged, so whole hunks can be returned |
| Streams (`Src/Base/AMReX_GpuDevice`) | for each stream of the pool a list of deferred frees | `freeAsync`, `streamSynchronize`, `clearFreeAsyncBuffer` | memory is not reused while launched work can touch it; no lock is held while waiting |
| File iterator (`Src/Base/AMReX_NFiles`) | which rank has which file, coordinator and decider of the dynamic mode | `ReadyToWrite`, `operator++`, destructor; `ReadyToRead` | one writer to a file, everybody gets a turn, no message is left over |
| VisMF (`Src/Base/AMReX_VisMF`) | files and a header with offsets | `Write`, `AsyncWrite`, `Read` | the header finds every fab, whatever the order of writing |
| AsyncOut (`Src/Base/AMReX_AsyncOut`) | a background thread and a communicator for each file | `Submit`, `Wait`, `Notify`, `Finish` | the ranks of a file take turns in the order the header assumes |
| Gridding (`Src/AmrCore`, `Src/Base` clustering) | tags, box lists | `MakeNewGrids`, `ProperNesting` domains, clustering | new levels cover the tags and nest in their parents |
| Layout caches (`Src/Base/AMReX_FabArrayBase`) | six caches of communication metadata keyed by layout, the number of arrays of each layout | `getFB` and the like, `addThisBD`, `clearThisBD`, `flush*` | an entry found is right for the layout that asks; the address of a layout gone may be taken by a new one |
| Ghost cell exchange (`Src/Base/AMReX_FabArrayCommI.H`) | requests, buffers and tags in flight | `FillBoundary_nowait/_finish`, `ParallelCopy_nowait/_finish` | exchanges in flight are not confused and all end |
| Parallel contexts, ForkJoin (`Src/Base`) | a stack of communicators with tag counters | `push/pop`, `fork_tasks`, the bottom solver's sub-communicator | tags advance alike on all ranks of a communicator |
| Lazy reductions (`Src/Base`) | a queue of reductions | `QueueReduction`, `EvalReduction` | the ranks reduce the same quantities in the same order |
| Scan (`Src/Base/AMReX_Scan.H`) | status words of blocks | decoupled look-back | every block reads a consistent prefix |
| Particles (`Src/Particle`) | tiles of particles, a cached map from tiles to ranks, a window for the handshake | `Redistribute` | no particle is lost or duplicated, and each ends with the owner of its tile |

The remaining parts (linear solvers, FFT, embedded boundaries, box calculus,
load balance, expression parser, Fortran interfaces, profilers, adapters) are
numerics, pure functions or wrappers; section 7 says why they are left out.

### How they interact

- `Amr::coarseTimeStep` calls down the levels; each level's `AmrLevel` moves its
  `StateData` times. `Amr::checkPoint` writes each `StateData` with
  `VisMF::Write` (or `AsyncWrite`), `Amr::restart` reads them back.
- `VisMF::Write` drives one `NFilesIter` on every rank; `NFilesIter` talks to the
  other ranks by messages, and afterwards the rank that became coordinator
  gathers extrema and writes the header from its own record.
- `VisMF::AsyncWrite` gathers sizes and submits a job to `AsyncOut`, which runs it
  on a `BackgroundThread`; the jobs of different ranks meet in nonblocking barriers.
- A `FabArray` is registered under the key of its layout (`BoxArray` and
  `DistributionMapping`); its exchanges look their pattern up in the caches under that
  key and keep a pointer to the entry until they are finished. Their messages go
  through the communicator and the tag counter at the top of the stack of contexts,
  which ForkJoin and the linear solver's bottom solve push and pop.
- Every fab is memory from `CArena`. In a GPU build an allocation that finds no
  room releases the arena's mutex and asks the `StreamManager` to synchronise
  streams with deferred frees, which call `CArena::free` in turn; returning
  memory to the system may wait for the streams, whose callbacks may call `free`.

### Hard behaviours

Interleaving (the worker against `Finish`; threads in the windows in which the
arena is unlocked; threads synchronising one stream), message order from any
source (the election of a coordinator, its receipt of `done`), fast ranks that
enter the next write's barriers while slow ones still write, exchanges of several
arrays in flight on communicators that overlap, cache entries and keys that outlive
what they were made for, levels that vanish
and return with stale counters, and crashes between the steps of a checkpoint.
`PROJECT.json` lists these as hazards at the lines where they bite, each with the
properties that cover it or the reason none does yet.

## 2. The modules and the code they translate

Abstract specifications (what a caller may rely on) are small modules; the
detailed modules implement them under a refinement mapping.

| Abstract | Implemented by | Mapping |
|---|---|---|
| `FifoExecutor` | `BackgroundThread` (proved) | a caller inside `Finish` waits for the jobs submitted before its call; the log of completed jobs is the same |
| `Subcycling` | `AmrDriver` (proved, where `PostStepHandled`) | `hi`, `lo` are the new and old times of each level's data |
| `Heap` | `CArena` (proved) | live blocks are the busy list without owners; granted memory is the hunk list |

### BackgroundThread

One action for each stretch of code between two points at which another thread
can run. What is done under `m_mutx` is one action (`Submit`, `FinishReturn`,
`FinishSleep`, `WorkerSleep`, `WorkerPop`); what the worker does after unlocking
is split into single steps: run the job, test `m_clearing` and notify, test
`m_finalizing`. That matters, because `m_clearing` is written by a job without the
mutex and reset by `Finish` with it. A notification of `m_done_cond` wakes one
arbitrary sleeper, and a wait may end spuriously. The number carried by a queue
entry, `ran` and `need` are history: they name jobs so that "before" can be said.

### AmrDriver and Subcycling

The recursion of `Amr::timeStep` is an explicit stack of frames, each with the
arguments of the call and its place in it. `SkipRegrid` and `RegridBefore` are the
turns of the loop over the levels that asks `okToRegrid`, including the loop bound
`lev_top` which is corrected only when levels have vanished; `Advance` is the
level's `advance` with `allocOldData`, `swapTimeLevels` and the counters;
`RegridAfter` is the post-step regrid; `SubStep` is the next call for the finer
level, and `Return` the end of the call. `Regrid` and `Redefine` are `Amr::regrid`:
`removeOldData` on the levels to be redefined unless they ask to keep it, a choice
of any new `finest_level` the gridding may return, the rebuilt levels at the times
of the old ones, new levels at the time `init()` gives them (`InitTime`), the step counts of
the new ones. The time passed to `regrid` goes to the gridding only.

Data are abstracted to times: `newt`, `oldt`. Grids are abstracted to whether a
level exists and whether a regrid changed it. Times are whole ticks, with steps
divisible by `n_cycle`, so that the tolerances in `StateData` play no part. The time step,
`init` and `advance` are the derived class's; they are those of
`Tests/Amr/Advection_AmrLevel`, with any time step of a set.

That class never asks for a regrid after its advance (`PostStep` FALSE), nor does any other in
the repository, where `setPostStepRegrid` is called with 0 only (`AMReX_Amr.cpp:2081`), though
`timeStep` goes on to test it (2185). For one that does, everything depends on
its `init` methods. `AmrLevelAdv::init()` starts a new level at the parent's `curTime()`: right
before the parent's advance, and one parent step ahead of the recursion after it. And
`AmrLevelAdv::init(old)` gives a redefined level no old data, also where `regrid` has spared it.
`HandlesPostStep` FALSE is an application with these methods, TRUE one whose methods are made for
such regrids: a new level starts at the parent's previous time, and old data spared is kept.
`PostStepHandled` (`PostStep => HandlesPostStep`) is an assumption about the application that `Amr`
does not state and that everything said of times rests on: `StepTime`, `Contract`, `Synced` and
`WholeCheckpoints`. The mutant `InitAtCurrent` is what would happen without it. Types, counters and the
disk need no such assumption.

`Subcycling` says what that bookkeeping is for: a level steps only when the finer
ones have caught up; a fine step starts where its parent holds data, and stays
inside the parent's step; a regrid moves no clock, and takes old data only from
levels nobody is behind on.

### AmrCheckpoint

`AmrDriver` with a disk. A checkpoint is begun between coarse steps (an existing
directory of the same name is renamed away, a temporary one gets the Header),
its levels are written one by one, and it is renamed. `Crash` may happen between
any two actions and leaves only the directories. `Restart` reads any whole or not
whole directory there is, with any of the inputs: `max_level` raised or lowered,
`n_cycle` changed, `regrid_on_restart` or not; `Resume` follows both branches of
`Amr::restart` in what they take from the file and what they recompute. What the
program reads first is the model's own `Header` record, so a field the code does
not save is not there either.

### CArena and Heap

The free list, the busy list and the hunks are sets of records with the code's
fields; `FirstFit` is the lowest free block that is large enough, which is what a
walk through an ordered set finds. An allocation is several actions because the
code gives the mutex up inside it: `Release` unlocks to return hunks
(`DeallocateSystem`, `Relock`), and in a GPU build `NothingFits` unlocks to clear
the freeAsync buffer and `BufferCleared` looks again. Between them any other
thread's calls run. `Refused` is the system's refusal, after which the code
releases what it can and retries once, and then throws. Sizes are in units of
`Arena::align_size`, to which the code rounds.

### StreamManager

Extends `CArena` with the stream pool: unfinished work of each stream in order,
`m_free_wait_list`, the synchronisation each thread is in with the list it took,
and the walk over the pool by `clearFreeAsyncBuffer`. The list is taken first and
the stream waited for after; what is in the list is freed one block at a time,
each free taking the arena's mutex. Kernels and callbacks are external: a stream
finishes its work in order, a callback may free a block, and returning memory to
the system waits for all streams, as `cudaFree` may.

### NFilesIter and VisMFWrite

`NFilesIter` is one iterator on all ranks from constructor to destructor, with an
action for each point at which a rank waits for a message. Static mode hands a
file from rank to rank; sparse mode gives each rank with data a file; dynamic mode
elects as coordinator the first of the ranks in set zero whose message the decider
takes, and the coordinator then sends every remaining rank to whichever file has
become free. Messages are a set, so receipt from any source is any order; every
tag is used once for each pair of ranks. `VisMFWrite` runs the loop of
`VisMF::Write` over it, the gather of extrema to the coordinator, and
`FindOffsets`, which computes the header from the coordinator's record of assignments, not
from the files. Every mode, number of files, grouping and decider is an initial state.

### VisMFRead

Both branches of `VisMF::Read`. With synchronous reads the ranks are dealt out to
the files (`nRanksPerFile`, `RankToRead`), the readers of a file are cut into as
many chains as may have it open (`StreamSet`), and `NFilesIter` hands the file along
each chain: `ReadyToRead`, `ReadAndHandOn`, `LeaveChains`. Otherwise rank 0
coordinates. `Give` is one turn of its walk over the available files, with the files
it drops on the way; `NothingToGive` the end of the walk; `ReadOwn` one of its own
fabs, after which the code probes for a report and may leave the rest for later;
`TakeReport` the receipt from any rank. What `NItemsPerBin` and the loops over
streams compute from the header does not change, and is kept in `toRead` and
`streamSet`.

### AsyncWrite

`GetWriteInfo` cuts the ranks into files; a job enters as many nonblocking barriers
as there are ranks before it in the file, opens and writes, then enters one for
each rank after it. A barrier completes when all ranks of the file have entered
it, so only counts matter: `entered`. The header is written by the last rank's
job from sizes gathered on the main threads. The jobs of a rank run one at a time
in the order of submission, which is what `FifoExecutor` promises and
`BackgroundThread` is proved to keep.

### LayoutCache

One process's caches of what depends only on the layout of grids (`FabArrayBase`). An
address stands for the pair in a `BDKey`: `grids` says which boxes and ranks are
there, and an address nobody holds may be given to another layout. `Define`, `Clear`,
`Move`, `shift` and `coarsen` are what happens to an array and its registration
(`addThisBD`, `clearThisBD`). `tables.kept` are the entries under one key (tiles and
`FillBoundary` patterns; those of the other caches of this kind behave alike),
`CPCache` and `FillPatchCache` the entries under two. `Get` returns an entry that the
code's comparisons accept (`Fits`, `CPCHits`, `FPinfoHits`) or builds one. The last
array of a key flushes what is under it; an `FPinfo` has registered layouts of its own,
so its erasure flushes more (`Destroy`, `ClearPatches`). `fbd` and `fpc` are the
pointers into the tables held between `FillBoundary_nowait` and `_finish` and during
`FillPatch`; `Retable` turns a pointer to a deleted entry into `Freed`. The contents of an
entry are abstracted to the layouts and the view they were computed from.

### Exchange

`program` gives for each communicator the calls made while its frame is on top of
`ParallelContext::frames`; all ranks of the frame make them, each at its own pace. `Nowait`
is `FillBoundary_nowait` (one pass) or `ParallelCopy_nowait`, whose later passes are
`NextPass`; the tag is drawn before the early return of a rank with nothing to do
(`NowaitNothing`), and not drawn where the frame has one rank (`NowaitAlone`). `Push` and
`Pop` are those of `ForkJoin` and `MLMG::actualBottomSolve`: a frame begins its tags
again each time it is pushed. `data` is the exchange of an array in flight and stands for
`fbd` and for `pcd`. MPI is external: on a channel (communicator, two ranks and a tag) the
i-th message goes to the i-th receive (`Met`), and messages are named by the
call and pass they belong to, which nothing in the program looks at. The variant of
`FillBoundary` that unpacks each message on arrival, and the reductions of `Lazy`, are
not modelled.

### Redistribute

`ParticleContainer::Redistribute` on all ranks, call after call. A tile stands for level,
grid and tile index; the grids are a row, so that grids touch when their numbers are
next to each other. `program` gives the calls (local or not), the owner of each tile at
each call, and the path of each particle: what moves particles between two calls is the
application. `Partition` is `defineBufferMap`, `hostPartitionTile` on every tile and the
counting of `build`. Then come the handshakes, each to tell a rank who will send to it:
`DoHandShakeLocal` among neighbours; `ReduceScatter` and `Connect`, where counts are
received from any source; `ClearWindow`, `PutCounts`, `ReadWindow` with one-sided
communication between fences. `ExchangeBoxes` sends the announcements (counts and tiles),
`ExchangeParticles` packs and sends the particles and unpacks those that stay on the rank,
`UnpackRemotes` the others. Each of these waits for the messages of the one before
(`Received`). Places in the buffers are computed as in the code: by bucket, with a
correction for each rank's aligned start (`BufferPlace`, `SndOffset`), and the receive
buffer, laid out by rank, is cut up by the announcements, kept in the order of
`m_neighbor_procs` (`RcvBuffer`, `RcvBoxOffset`).

A record has size 1 and the alignment is `Align`; the receive buffer has no gaps, since the
correction for them is the same sum on both sides. The code's early return for a rank with
nothing to send or receive is the case of `ExchangeBoxes` and `ExchangeParticles` without
messages: both tags are drawn there as well. The order of particles within a tile, which
the partition by swapping changes, is not modelled; no property depends on it.

### Modules of a few lines

`MCAmrDriver`, `MCAmrCheckpoint`, `MCCArena`, `MCVisMFWrite`, `MCAsyncWrite`, `MCVisMFRead`,
`MCLayoutCache`, `MCExchange` and `MCRedistribute` define the values of constants that a `.cfg` cannot
express. `AmrProofs`, `BackgroundThreadProofs`, `ArenaProofs`, `VisMFWriteProofs`,
`AsyncWriteProofs`, `VisMFReadProofs`, `LayoutCacheProofs` and `ExchangeProofs` hold the theorems.

Operators whose comment begins with "Mutant:" stand before the definition they
imitate. They are not part of any specification: each is the definition with a
plausible slip in it, and `PROJECT.json` says which property that slip breaks. They
document that a property can fail.

## 3. The runs

| Run | Instance | Distinct states | Question |
|---|---|---|---|
| `background_thread` | 2 finishers, 3 jobs, 3 calls of `Finish` | 17,420 | is it an in-order executor whose `Finish` and destructor return? |
| `background_thread_two` | 2 finishers, 1 job, 2 calls | violation | does `Finish` return when two threads call it at once? |
| `amr_driver` | 3 levels, coarse steps of 4 or 8 ticks, steps halved twice, time up to 9, regrids before and, with `init` methods made for them, after advances | 53,570 | does any history of regrids break the subcycling contract, the clocks or the regrid intervals? |
| `amr_checkpoint` | 3 levels, `max_level` 1 or 2 and `n_cycle` 2 or 4 at each start, 2 crashes, regrids before advances only | 979,885 | are checkpoints whole and never lost, and are restarted runs in order? |
| `carena` | 2 threads, 5 units of memory, hunks of 2 | 456,422 | does the arena keep its heap in every window without the mutex? |
| `stream_manager` | 2 threads, 2 streams, 2 units of memory, wait lists of 1, 2 unfinished pieces of work a stream | 373,751 | is deferred memory safe from reuse, and the mutex never held for good? |
| `vismf_write` | 4 ranks, every mode, number of files, grouping and decider, 3 layouts of data | 169,666 | does every rank write, alone, and is the header true? |
| `async_write` | 3 ranks, 2 writes, 1 to 3 files, 3 layouts for each write | 114,264 | do the barriers give the order the header assumes, across consecutive writes? |
| `vismf_read` | 3 ranks, 5 fabs in 1 to 4 files, every distribution, 1 or 2 opens of a file | 224,586 | does the limit on opens hold, and does everybody get what it waits for? |
| `layout_cache` | 2 arrays, 4 addresses, 2 layouts that differ in the ranks, at most one entry in flight for each array | 42,509 | is an entry found right for who asks, and never destroyed while in use? |
| `exchange` | 3 ranks, 4 communicators, 2 tags, 108 programs with two arrays | 63,152 | do exchanges in flight keep apart, and do all end? |
| `redistribute` | 3 ranks, 4 tiles, 3 particles, 2 or 3 calls, 4 tags, alignment 2 | 51,571 | does each particle reach its tile, once, whatever the handshake and the speed of the ranks? |

Deadlock is checked except in `vismf_write`, `async_write`, `vismf_read`, `exchange` and
`redistribute`, where every rank ends and stops; that they all end is `AllLeave`, `AllRead`
and `AllDone`.

### What the properties say

`TypeOK` is the one type invariant of a module. A run checks it where it carries what the
code relies on, such as that exactly the levels up to `finest_level` exist and have a time
step, or that a thread is inside the arena with the mutex except in the windows; elsewhere
it is stated for the reader and, where there are proofs, proved.

- `background_thread`. `NoLostJob`: the worker never sleeps on a queued job.
  `Refinement`: the promise of `FifoExecutor`; that `Finish` tests only for an empty
  queue, when the last popped job may still run, is safe because a clearing entry
  is behind the jobs it waits for. `FinishReturnsAlone`: a thread that never shares
  `Finish` with another always returns. `DestroyReturns`: so does the destructor.
- `amr_driver`. `StepTime`: the time handed down the recursion is the time the data
  carry. `RegridInTime`: no level outlives its regrid interval on stale fine grids,
  though its counter is reset by others and the level may vanish and come back.
  `Contract`: the refinement of `Subcycling`. `StepEnds`: a coarse step ends.
  The instance is an application that may ask for a regrid after any advance, so it has
  every behaviour of one that never does. For levels born in such a regrid, `StepTime` and
  `Contract` hold because it has `HandlesPostStep` too (section 2).
- `amr_checkpoint`. `WholeCheckpoints`, `NothingLost`: about the disk at all times.
  `Synced`: a restarted driver has all its levels at one time, as if it had never stopped.
- `carena`. `Tiled`: blocks cut the hunks into pieces, nothing lost or shared, and
  nothing overlaps memory on its way back to the system. `Coalesced`: no two free
  blocks of a hunk touch. `ReleasesAll`: so `freeUnused` leaves no hunk without a busy
  block. `Refinement`: the abstract heap.
- `stream_manager`. `NotReusedInFlight`: blocks that launched work uses are still busy.
  `DeferredOnce`: the blocks handed to `freeAsync` and not yet freed (the history `owed`) are
  exactly those in the streams' lists and in the hands of threads that synchronise, each in
  one place: a deferred free is neither forgotten nor done twice.
  `MutexReleased`: nobody waits for a stream with the arena's mutex.
- `vismf_write`. `OneWriter`: no file is open twice. `HeaderTrue`: header against files,
  which fails too when ranks disagree on who is the coordinator or a file is truncated. `NoStrayMessages`: the destructor receives what the loop did
  not. `AllLeave`: nobody waits for a message that will not come.
- `async_write`. `InOrder`, `ReadTrue`, `AllRead`: the same questions for
  barriers, with fast ranks a whole write ahead of slow ones.
- `vismf_read`. `TypeOK` says that the coordinator's accounts are exact: the requests it
  waits for are those of busy ranks, the fabs it counts are those not given out or not
  reported. `OpensLimited`: the documented limit of readers of a file. `AllRead`: everybody
  leaves, and each fab has been read once, by its owner or by one rank of a chain.
- `layout_cache`. `Counted`: a key's count is the number of arrays and patches registered
  with it, and nothing is kept, under either of its keys, for a key without any.
  `HitsRight`: what a lookup finds is what would be built now, the ranks included, though
  addresses are used again. `InFlight`: pointers held into the tables stay good.
- `exchange`. `RightData`: the message matched with a receive was sent in the same call and
  pass, although tags wrap around, ranks without work or outside a bottom solve skip
  calls, and ranks run ahead. `AllDone`: every rank gets to the end of its program.
- `redistribute`. `Conserved`: a particle has one record, in a tile, about to be packed, in a
  message or received, until it is removed for having left the domain. `Placed`: on return
  from a call it is in its tile on the rank that owns the tile, the assertion that ends
  the function. `AllDone`: every rank returns and no message is left over.

### The bounds, and why they are enough

- *Two finishers, three calls, three jobs*: two calls may overlap or follow each other,
  and a call may find `m_clearing` left set by an earlier one, with jobs before,
  between and after the clearing entries.
- *Three levels*: the smallest hierarchy with a level that is both parent and child,
  so a regrid can add or remove a level under a loop already running. Regrid
  intervals 2 and 3 do not divide each other, so counters of different levels come
  due at different times. Time up to 9 is two or three coarse steps, with a full cycle
  of regrids of level 1. Two step sizes make `dt_level` of a vanished level stale.
- *Two crashes*, checkpoints at steps 0 and 1: a crash, a restart that writes the same
  step again, and a crash in the middle of that.
- *Five units of memory, hunks of two*: a hunk of the default size, a larger one, a
  block with free neighbours on both sides, two hunks that touch and must not be
  merged, and a system that refuses. Two threads are enough for a window of one and
  a call of the other; permuting threads is sound for the properties checked, none
  of which is a liveness property. The threshold 6 is reached by some requests and
  not by others. The GPU build's behaviours include the CPU build's, in which no
  other thread runs in the window of the buffer.
- *Two streams, wait limit 1, queues of 2*: `freeAsync` both defers and synchronises, work of
  one stream is unfinished while another is idle, two threads synchronise one stream.
- *Four ranks* in `vismf_write`: two files with two ranks in each, three files with a
  remainder, a set zero of two or three so that the decider leaves messages unread.
- *Three ranks and two writes* in `async_write`: a file with three turns, files of
  unequal size, and barriers of the second write entered while the first is going
  on. `Files` and the layouts vary independently in both writes.

- *Five fabs, three ranks* in `vismf_read`: more files than ranks, so that some file would
  get no reader by division alone and a rank is in the chains of two files; a chain of
  two ranks beside another; a rank with several fabs in a file, so that the
  coordinator's own reads are interrupted by reports.

- *Two arrays, four addresses* in `layout_cache`: two arrays share a layout or have one
  each, an `FPinfo` registers two more, and an address is freed and taken by another
  layout while other arrays live on. The two layouts have the same boxes on other
  ranks, which the comparison of boxes in `getCPC` does not tell apart. `SmallCaches`
  bounds what is kept at a time. Permuting arrays and addresses is sound for
  invariants.
- *Three ranks, four communicators, two tags* in `exchange`: all ranks, the two tasks of a fork, and the
  bottom solve of two of the ranks, pushed twice. A pattern may leave a rank out, or
  give it local work only; copies have one or two passes; two arrays are in flight at
  once, also across a fork or a bottom solve; with two tags the counter wraps in
  every program.
- *Three ranks, four tiles, four tags* in `redistribute`: one owner of two tiles apart from each
  other, neighbours met in another order than that of the ranks, a rank without tiles,
  and tiles that change hands between calls, so that every particle of a tile has to
  move. A second call lets a fast rank send while a slow one is still in the first; a
  third follows a local call by a global one. Four tags are the fewest that keep the messages of a call
  apart: with two a particle is lost and with three a rank waits for ever. The code has
  tens of thousands, so this is not a fault of it, but shows what the counter is for.

Bounds that are not in the code are named in the modules as such: `MaxJobs`,
`MaxFinish`, `MaxTime`, `MaxCrashes`, `MaxSteps`, `Memory`, `MaxQueue`, `NWrites`.

## 4. Fairness

Only weak fairness is assumed, and only of steps whose actor can go on.

- `BackgroundThread`: the worker, the join in the destructor, and each caller inside
  `Finish` (runnable threads run). Nobody is obliged to submit, to call `Finish` or to
  destroy, and no spurious wake-up is owed, so a lost notification stays lost. The
  scheduler is not assumed to be fair about mutexes beyond that.
- `AmrDriver`: the code is sequential, so a step of `timeStep` that can be taken is
  taken. The start of the next coarse step is not.
- `StreamManager`: threads inside a call go on, and streams run what was launched. The
  program is not obliged to call anything.
- `VisMFWrite`, `VisMFRead`, `AsyncWrite`: each rank, and each rank's background thread, goes on when
  it can. Messages sent can be received, and a nonblocking barrier entered by all can
  complete: MPI's progress rule.
- `Exchange`: a rank makes the next step of its program when it can, and a message sent to
  a posted receive arrives. A wait for the sends may end before they are received, and
  nothing is owed for a message that no receive was posted for: progress depends on the
  receives being posted first, as the code does.
- `Redistribute`: as `Exchange`; `MPI_Reduce_scatter` and the fences of the one-sided handshake
  complete when all ranks have entered them.
- `CArena`, `AmrCheckpoint` and `LayoutCache` have safety properties only, and no fairness.

## 5. What is proved, and how

TLC checks small instances; the theorems hold for all values of the constants that
satisfy the named assumptions of the modules.

**BackgroundThreadProofs** (any set of finishers, any bounds).
`TypeCorrect`, `NeverLostJob`: type correctness and `NoLostJob`. `ImplementsPromise`: `Spec`
implements `FifoExecutor`. That cannot be shown from `TypeOK` alone: one has to know
which jobs are still ahead of a blocked caller. The inductive invariant `IInv` adds
`Numbered` (completed jobs, the job in hand and the queue are numbered without a gap
up to `submitted`), `Covered` (a caller in `Finish` has its clearing entry in the queue
or has had its jobs completed: this is why an empty queue suffices) and `Closing`
(after the destructor's entry nothing is queued behind it). `Invariance` is its
preservation, one lemma for each action. The refinement then maps every step to one
of the abstract executor or to a stutter.

**AmrProofs** (any `max_level`, `n_cycle`, regrid intervals and time steps, any crashes).
`DriverInvariance`: none of `StepTime`, `Synced` and the contract is inductive, because a
step is judged by where the levels above and below it are. `IInv` adds `Recursion` (each
call is its parent's k-th, so it starts k - 1 fine steps after its parent),
`FinerTimes` (in the middle of a step all finer levels have made the same number of the
next finer one's steps, so after `n_cycle` of them they have caught up, since `dt_level` is
`Divided`), `AtRest` (between steps they are at one time), `ActiveCall` (what the regrid loop has
established: a level that goes past its own turn has a count below its `regrid_int`; and
`post_step_regrid` is set when the regrid after the advance is reached, without which the
earlier data of the level would go) and `CountsOK` (`level_count` is never below the
steps since the grids were computed). One lemma for each action shows that it is kept.
`StepTime`, `FinerTimes` and `AtRest` (`ClocksOK`) are in `IInv` under the hypothesis
`PostStepHandled` of section 2, since a new level starts where the application's `init()` puts it;
`Recursion`, which is about the times passed down and not about the data, the counters and the types
are not. So `DriverTypeCorrect` and `RegridInTimeAlways` hold for any application, and
`StepTimeAlways` and `ImplementsSubcycling` assume `PostStepHandled`, as do `CheckpointsWhole` and
`RestartSynced` below. For the contract, an advance is a `Step` of `Subcycling`, a regrid a `Regrid`, and all else a stutter.
`CheckpointInvariance` carries the invariant through checkpoints, crashes and restarts, with
`HeaderOK` (what a restart relies on in a directory) for every directory and for the
one being filled, and `DiskOK` (while it is filled the name it will get is free).
`Divided` is asked for only inside a coarse step: a restart with another `n_cycle` breaks
it until `computeNewDt`. `CheckpointsWhole`, `RestartSynced` and, for any application, the action
property `NothingIsLost` follow. That the recursion for `level_steps` at a restart defines numbers
(`RestartStepsType`) is proved by the least level at which it would not.

**ArenaProofs**, the arena (any threads, memory, hunk size, threshold, with or without GPU).
`Invariance`: `IInv == TypeOK /\ Tiled /\ Coalesced /\ RequestSuffices` is inductive.
`Tiled` needs `RequestSuffices` (a new hunk is at least as large as the request, also
after the arena has traded freeable hunks for a larger one across a window) and
`TypeOK` (a thread that alters the lists holds the mutex, so a step computed from the
lists is applied to the same lists). `MemoryIsTiled`, `FreeIsCoalesced` and `TypeCorrect`
follow; `ImplementsHeap` is the refinement of `Heap`. The lemmas under them are about
cutting and merging pieces of a tiling. `ReleasesAllAlways`, an action property, needs both
`Tiled` and `Coalesced`: in a hunk without busy blocks the free block at its start reaches
to its end, since the next one would touch it; so `freeUnused`, which looks for a free block of the
size of its hunk, misses none.

**ArenaProofs**, the streams (any threads, streams, wait limit, work in flight and arena).
`GpuInvariance`: `GpuIInv` is the arena's `IInv` with `GpuTypeOK`, `NotReusedInFlight`, `DeferredOnce`
and three facts that say why a free after the wait is safe. `DeferredOnce` says that what is
`owed`, a history of the calls of `freeAsync` and of the frees made for them, is what is in the lists
and in the hands of synchronising threads; so each action that takes a block from one place has to put it
in the other or free it (`NothingForgotten`), and an action that dropped a list would break it.
`OnlyItsStream`: of a block in
a stream's list only that stream's work knows. `OnlyAhead`: of a block in the hands of a thread
that waits, only work launched before the wait knows, so when that is done nothing does.
`CallbackAlone`: the block a callback frees is not deferred and no other work knows of it. The
arena's steps are not looked into again: what matters of them is that they keep `IInv`
and which blocks they take out of the busy list.
`NeverReusedInFlight` and `DeferredOnceAlways` follow.

**AsyncWriteProofs** (any number of ranks, files and writes, any layouts).
`Invariance`: a rank's count of barriers entered is determined by the write it is in and
its place in it, and a rank that has had its turn knows that all before it have
written. From it `OneWriterAlways`, `AlwaysInOrder`, `NothingLost`, `TypeCorrect`; and
`ReadersFindAll`: once some rank reads, every rank's data of every write are in the
files. The arithmetic of `GetWriteInfo` (spots are below the number of spots, which
differs from file to file by at most one, and spots of a file are distinct) is proved
on the way for all numbers of ranks and files. `ReadTrueAlways` adds the offsets: those in
the header are sums over the ranks of a file that `Offsets` makes before anything is
written, and the length of what is before a rank in the file is the same sum, taken over the
file. Both are recursive functions; that such a function has a value everywhere, and
that two that start alike and grow alike agree, is shown by the least number at which it would fail.

**VisMFWriteProofs** (any ranks, files, sets, decider, mode and data).
`WriterInvariance`: that no two ranks write to one file says nothing of how they came by it.
`WriterIInv` adds `OneOwner`: a file is in the hands of one rank that has it and has not
handed it on, or of one message that hands it on, or on the coordinator's list of free files,
and of one of these only. `ModesKept` says what belongs to which mode, and `OneCoordinator` that in
dynamic mode one rank at most has become coordinator: the decider takes one message
before it answers. At the start the owners are the first ranks of the sets, and that
these are different ranks for different files, however the sets are made, is the arithmetic
of `NFilesIter` (`div` and `%`). `WriterTypeCorrect` and `OneWriterAlways` follow.
`MessageInvariance`: that no message is left says nothing of who is to read those in
transit. `MessageIInv`, kept along with `WriterIInv`, says it for each tag. `InTurn`: a file is handed on
to a successor that has not begun. `Gathered`: all take the same rank for the root of the gather, and it
does not leave before the others have sent to it. `Addressed`: an answer of the decider or a
file finds a rank that waits for it (`Sound`). `Elected` and `Queues`: until the decider has answered
nobody else gets a file, and afterwards each rank that is waiting is in one queue, once,
which is why a queue that is not empty is found while `remainingWriters` is above 0. `Balanced`, the heart of
it: the messages in transit to the decider and the ranks still to send one make the number
that it is to receive, first the size of set zero, later what its destructor has left to
read; and likewise for the coordinator. When all ranks are gone both are 0
(`NoStrayMessagesAlways`). Which queue is next is a search in cyclic order, and the queues are
sorted sets: `CyclicSearch` and `AscendingLists` say what these compute for any numbers.
`HeaderInvariance`: that the header is true at the end says nothing of the record it is
computed from, `fileNumbersWriteOrder`. `HeaderIInv` says in every mode how far record and files agree.
`RecordOnce`: no rank is in it twice. `StaticRecord`: both are in ascending order, and who comes before a rank
in its file has left before it begins. `SparseRecord`: each has one rank at most. `DynamicRecord`: before
there is a coordinator only the first rank of a file may have written; after that the
record of a file is its contents, followed by the one rank that has to write to it
(`FileRecord`): a rank that has it open, or is on its way to open it because a message says so, or has not even truncated it. It
is there that a file has one owner at a time is needed. And those not in the record are those
in the queues (so that none is missing when the coordinator is done). `HeaderFromRecord`: the header gives the file and the sum
of the lengths before a rank in the record; that the two loops of `FindOffsets` compute it,
though they add up the offsets of all files together, is `FindOffsetsRight`. `HeaderTrueAlways` follows,
with `NoStrayMessages`: no message says any more that somebody has to write.

**VisMFReadProofs** (any ranks, fabs, files, owners and limits, both branches).
`ReadInvariance`: `ReadIInv` is `TypeOK` with `PlanOK` and, for synchronous reads, `InChains`, else `ByLeave`.
`PlanOK`: the readers of a file are in at most `nOpensPerFile` chains, and the members of a chain agree
on it. `InChains`: who has opened a file, or been handed it, comes after ranks of its chain that are done
with it. `ByLeave` is an account: a rank the coordinator has given a file to has a message
on its way to it, or reads, or has a message on its way back, one of these only
(`OneErrand`, `OwnReads`); and how often a file may still be opened and how many ranks have
been given it make at most the limit (not always the limit: the scan sets the count to 0
when nobody is to read the file any more). `ReadTypeCorrect`: the numbers of requests and of fabs the coordinator
waits for are exact. `OpensLimitedAlways`: the ranks that have a file open are in
different chains, or have all been given it.

**LayoutCacheProofs** (any arrays, addresses, layouts, views and index spaces).
`TypeCorrect`, `CountedAlways`, `HitsRightAlways`, `InFlightAlways`. The tables are described by
`Good(t, H, g, X)`: with `H[k]` arrays registered with key `k` and `g[k]` at the address, the
counts are right, and whatever is kept is kept under every key it belongs to, for the
layouts that are there, under keys registered or in `X`, those about to be flushed. Each
step of `clearThisBD` keeps it, with `X` the key from the decrement of its count to the end
of the flush; `Invariance` then goes through the operations on arrays.

**ExchangeProofs** (any ranks, arrays, communicators, programs and range of tags).
`TypeCorrect`, `RightDataAlways`. Besides `TypeOK` and `RightData` the inductive invariant says:
a rank's n-th call on a communicator and its tag follow from the one before
(`Chained`), so two ranks that made the n-th call made the same one with the same tag
(`Agree`); a frame on the stack goes on where the calls on its communicator stopped
(`Framed`); an exchange in flight is that of a call made (`Flying`); and what a rank has
sent or posted on a channel is, in order, what its calls so far ask for (`Queued`). Two such sequences
cannot differ first at some place, since the smaller entry would be missing
from the other one.

`Kept`, what `NothingLost` states of the files, is a conjunct of this invariant and is not
checked by a run of its own.

Only model-checked:
- liveness (`FinishReturnsAlone`, `DestroyReturns`, `StepEnds`, `MutexReleased`, `AllLeave`,
  `AllRead`, `AllDone`): temporal reasoning with fairness and ENABLED is outside the prover's reach;
- `Conserved` and `Placed` of `Redistribute`. What is missing is a proof, not a means to one. It would
  need, for every pair of ranks, an account of the messages in flight by their tags (as in
  `ExchangeProofs`, here with receives from any source, and with a range of tags wide enough that
  no two of the three messages of a call, or of a call and the next, look alike), and that the announced
  counts, the padded offsets and the slices of the receive buffer fit each other. These are sums,
  flattenings and selections of sequences, which the model takes from the community modules as folds;
  every fact about them would have to be shown by the least number at which it fails, as is done for
  the offsets of `AsyncWrite` and `VisMFWrite`.

## 6. Where the code and its words disagree

1. *Two concurrent callers of `Finish`* (`Src/Base/AMReX_BackgroundThread.cpp:58`). Two
   clearing entries run, one caller is notified and resets `m_clearing`; the notification
   that would have reached the other is not sent, because the worker tests
   `m_clearing` after it was reset. The other caller sleeps until another job comes
   along with `m_clearing` set. Run `background_thread_two`; a thread that does not
   share `Finish` is safe, which `FinishReturnsAlone` shows.
2. *A changed `n_cycle` at restart* (`Src/Amr/AMReX_Amr.cpp:1667`). `level_count[0]` is set
   to force a regrid from level 0 and then overwritten when the counters are read
   from the Header, so the regrid is not forced. The model does what the code does, and
   `amr_checkpoint` restarts with a changed `n_cycle`: its properties hold all the same. No
   property says that the regrid happens.

## 7. What is not modelled

Within the modelled parts:
- *AMR driver*: `max_level` 0 (nothing recurses); `AmrLevel::okToRegrid`, a virtual function that
  returns true unless overridden (`AMReX_Amr.cpp:3490`); `StreamRetry` and checkpoints under
  `AsyncOut` (the latter is written under its final name, a listed hazard); Interval state data;
  tolerances between floating-point times. A level that does not exist has `dt_level` 0 in the model and
  1e200 or an old value in the code; both are overwritten before use.
- *Arena and streams*: the device memory variants of `CArena`, which may release hunks before the first
  try and again on failure, and its profiling; external streams. Two places where the pool's
  lock is given up and taken again at once are one action: `freeAsync` between its append and the
  swap of `sync` (`AMReX_GpuDevice.cpp:206`, 169), and the pool's walk between the look at a list
  and the sync (1123). What another thread may do there only makes the list longer or shorter.
- *Files*: text formats and the single-file headers of `VisMF`. `NFilesIter` in sparse mode with
  data on all ranks: the code compares the number of files before it is limited to the number of ranks
  (`AMReX_VisMF.cpp:1051`). `AsyncWrite` into a directory that has files of the same names: a file is
  truncated by the rank at its spot 0, and not if that rank has no data (2607), so stale bytes may
  stay in front; only a fresh directory is modelled.
- *Layout caches*: `updateBDKey` (`AMReX_FabArrayBase.cpp:2614`), and an `FPinfo` keyed on the layout of
  another's patches.
- *Particles*: the exchange of masks in the first local `Redistribute`, a `FillBoundary` on all ranks with a
  tag of its own (`BuildRedistributeMask`, `AMReX_ParticleContainerBase.cpp:455`), whose mask then
  finds a particle's grid by a lookup; `RedistributeInPlace` on one rank, `nGrow` and
  `remove_negative`, the conversion of a record, messages above 2 GB, the GPU partition, the
  padding on the receive side, neighbour and virtual particles, sorting and particle files.

Other parts:
- *Planned* (section 8): grid generation, Scan, lazy reductions.
- *Numerics*: linear solvers, FFT, embedded boundaries, interpolaters, flux registers,
  expression evaluation. Their correctness is accuracy and convergence.
- *Pure or sequential*: box calculus, load-balance heuristics, input parameters. Unit
  tests reach them; nothing runs concurrently.
- *Wrappers*: Fortran interfaces, adapters to other packages, other arenas, profilers,
  plot file text.

`PROJECT.json` names each with its sources and reason.

## 8. The plan

In order of importance. Done: with their proofs, the background thread, the AMR driver and its
checkpoints, the arena and the streams, the writing and reading of files, asynchronous
output, the layout caches and the exchanges; and the redistribution of particles.

Next, models:
1. `Gridding` in one dimension: `MakeNewGrids` over small sets of cells. Properties: the tags
   are covered, levels nest properly with blocking factors.
2. `Scan`: the look-back over status words. `Lazy`: reductions queued by reductions.
3. Interval `StateData`, and checkpoints under `AsyncOut`.

Then, a proof: `Conserved` and `Placed` of `Redistribute` (section 5 says what it takes), over the
invariant of `ExchangeProofs`: ranks in the same call have drawn the same tags.
