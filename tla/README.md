# Verification of FTQ

FTQ (Fixed Time Quanta) is an operating-system noise benchmark: it counts how
much of a tiny unit of work fits into each of a long row of equal time windows.
Whatever the operating system does behind the program's back shows as a window
with less work. The analysis that follows (spectra, in `scripts/`) is sound only
if the recorded series means what it is taken to mean: one row per window, the
windows on a fixed grid, no sample of another thread, nothing lost in silence.
That is what this directory specifies, model-checks and proves about the code.

Contents: [inventory](#inventory), [plan](#plan), [modules and
code](#modules-and-code), [runs](#runs), [bounds](#bounds),
[fairness](#fairness), [proofs](#proofs), [findings](#findings),
[assumptions and what is not modelled](#assumptions-and-what-is-not-modelled),
[how to run](#how-to-run).

## Inventory

The tree holds one main program, `ftq`, several relatives that share its
sampling loop by copy, small calibration tools, and scripts.

| part | files | state | operations |
|---|---|---|---|
| sampling loop | `ftqcore.c` | `done`, `count`, `tickend`, `ticknow`, `ticklast`, the slots of `samples`, the running total | `main_loops`: begin a sample, one quantum, store the sample, return |
| program `ftq` | `ftq.c` | options, shared `samples`, `hounds`, `pin_threads`, `total_count`, `max_work`, thread handles | `main` (allocate, create, release, join, total, report, exit), `ftq_thread` (wire, go real-time, spin, delay, measure) |
| OS layer | `linux.c`, `illumos.c`, `akaros.c` | core binding and scheduling class of each thread | `wireme`, `set_sched_realtime`, `get_num_cores`, `allocate_samples`, `threadinit`, `osinfo`, `nsec_ticks`, `compute_ticksperns` |
| OS layer, other | `dummy_os.c`, `plan9.c` | – | empty template; an earlier program of its own |
| float loop | `ftqcorefloat.c` | as `ftqcore.c` | as `ftqcore.c`, built by no makefile |
| time base | `cycle.h` | hardware counter | `getticks`, on PowerPC in two halves with a retry, on Alpha with 32 bits; `elapsed` |
| calibration | `compute_ticksperns` in four files, `nspertick.c`, `getticks.c` | four clock reads | read two clocks, sleep, read them again, divide |
| MPI sampling | `mpiftq.c`, `mpiftq.h` | per rank: schedule, `count`, `k`; rank 0: `samples`, `data` | set-up, broadcast of the interval, sample, gather per sample, table |
| MPI barrier | `mpibarrier.c`, `cudabarrier.c` | per rank: the loop, `data`; rank 0: schedule, latencies | set-up, choice of a GPU, broadcast, barrier per interval, latency, sleep |
| OpenMP sampling | `ftq_omp.c` | shared `samples`; per thread `last`, `now`, `endinterval`, `count` | options, parallel region, work-shared loop, two files |
| driver | `run_experiment.pl` | directories, archives | run `ftq` per core count, archive, delete |
| data checker, plots | `checkfile.go`, `scripts/*`, `showfft.m` | – | compare files line by line; draw |

Interactions. `main` of `ftq` and its threads share memory without a lock: the
array `samples` is partitioned by `offset`, `hounds` is a volatile flag written
once, and only `pthread_create` and `pthread_join` order anything. Each thread calls
`main_loops` once. Any thread may call `exit()`, which ends all. The MPI programs
interact through `MPI_Bcast`, `MPI_Gather` and `MPI_Barrier` only, and a rank that dies
leaves the others waiting there until the launcher ends the job; `ftq_omp` through
the shared array and the end of its parallel region. All of them read a clock that
goes on while they are preempted.

What is hard here, and what each part must get right:

* *Sampling loop.* The thread may lose its processor between any two instructions,
  for longer than several windows. The grid must not drift (`tickend` moves from
  deadline to deadline); later samples shrink until the series is on the grid again;
  a window swallowed whole is a zero, and a zero means nothing else; no
  sample claims work that does not fit; the loop ends.
* *Program ftq.* Every interleaving of main and the threads: they start together; no
  slot is clobbered; totals and reports are taken after the threads; each
  report is the whole series of one thread, or the beginning of it on a full disk; a run
  that succeeds has come to every report, whichever thread may fail at whichever point (of
  the writes themselves the exit status says nothing); unbound threads do not measure unless told to; spinning real-time
  threads do not lock the machine up.
* *Clocks.* Two clocks are read one after the other, and what a thread loses in between
  ends up in `ticksperns`, by which everything is scaled. Ticks have a width: the
  delay must end, and not early, wherever it lies around a wrap.
* *MPI sampling.* Ranks run ahead of rank 0, yet row *s* of its table must be
  sample *s* of each rank; rank 0 alone waits, and the grid of each rank must
  survive the waiting; only half of the interval is broadcast. A rank that dies in its
  set-up, or of a mapping nobody checked, must not leave a table that looks complete.
* *MPI barrier.* One barrier per interval: everybody waits for everybody; the recorded
  latency must cover the slowest rank.
* *OpenMP.* Threads enter the region and leave the `nowait` loop at any time and write
  one array; times and counts go to two files, neither of which is checked.
* *Time base.* A carry between two half reads; no retry without a carry of its own.
* *Driver.* No `system()` call is checked and the results are deleted after archiving.

`PROJECT.json` lists the hazards at their lines, with the properties that
cover them or the reason why none does yet.

## Plan

Order: the loop whose series everything else relies on; the program around it;
the relatives; arithmetic at the edges.

1. `SampleSeries`, `FtqCore`, `FtqCoreProofs` – done.
2. `FtqRun`, `Ftq`, `FtqProofs` – done. `Ftq` composes with `FtqCore` by contract: one
   iteration of `main_loops`, detailed in `FtqCore`, is the one action
   `TakeSample` of `Ftq`.
3. `MpiFtq`, `MpiFtqProofs` – done.
4. `MpiBarrier`, `MpiBarrierProofs` – done. An abstract specification of rounds in lock step
   would only repeat what the models assume of `MPI_Barrier`, so there is none.
5. `TimeBase`, `TimeBaseProofs` – done.
6. `FtqOmp`, `FtqOmpProofs` – done, with the options and both files.
7. `Timing`, `TimingProofs` – done: calibration, `ftq_mdelay` and the comparisons of
   `main_loops` on counters of finite width.
8. Set-up failures and dying ranks in `MpiFtq` and `MpiBarrier`, reports cut short in
   `Ftq` – done, with their proofs.
9. `NatLemmas`: the arithmetic that the proofs about `Timing`, `FtqOmp` and `Ftq` share,
   and sums over finite sets – done.
10. `Offset` and `ix` as 32-bit integers in `Ftq` – left.

Abstract specifications: `SampleSeries` (what a series is) and `FtqRun` (what a
run is). Theorems worth proving: every invariant below for all constants, and the two
refinements.

## Modules and code

Names are those of the source. Where a program counter appears, its values name the
place in the source function. History variables (marked `history` in
the modules) only record; no guard reads them, except where a length
stands for the loop counter of the source, and where `Timing` says how long a sleep or a
loop takes.

**`SampleSeries`** (abstract). Windows of `interval` ticks from `origin` on; a step
appends one *legal* sample: it ends no earlier than its window, works exactly when it
begins before the end of the window, does not overlap the one before.

**`FtqCore`** (`ftqcore.c:main_loops`). One action per clock read: `BeginSample` (lines
38-42: reset, next deadline, first read), `DoQuantum` (one pass through the work
loops and the read at the end), `EndSample` (the three stores), `Return`. `Tick` advances
the clock between any two of them, which is preemption. A quantum takes at least
`WorkCost` ticks. Runs as `MCFtqCore`.

**`FtqRun`** (abstract). A crew measures nothing before the start, then each member
its own series; complete series are published in order, each whole or cut short;
success is announced exactly when all have been.

**`Ftq`** (`ftq.c`, and from `linux.c`, `illumos.c`, `akaros.c` what it calls). `mpc` and
`tpc[t]` place main and the threads. `AllocateSamples` (clamp, allocate, zero),
`RefuseStdout`, `SetUpThreads`, `CreateThread`, `ReleaseHounds`, `JoinThread`,
`AllJoined`, `RunInline`/`InlineReturns` (without `-t`), `Tally`, `WriteReport`, `Finish`;
each call that can fail has its own failing action (`RefuseOptions`, `AllocateFails`,
`CalibrationExits`, `SetUpFails`, `CreateFails`, `JoinFails`, `OpenFails`, `WireExits`, `RealtimeExits`),
which ends the process at once as the code does. Only the writes of a report are not
looked at: `WriteReport` may leave any beginning of it, `damaged` records that, and the
program goes on. `Allocated` is the room of the array; every step that reads or writes slots
names them in `Access`, and `stray` collects those outside. Threads: `WireThread` or `StayUnwired`,
`GoRealtime` or `StayOrdinary`, `LeaveSpin`, `TakeSample`, `ThreadReturns`. `opt` is
chosen in `Init`; `os` chooses the OS file that is linked. The section on processors
(`Hogs`, `MainCanRun`, `ThreadCanRun`) models the kernel's scheduler: a SCHED_FIFO thread
at maximum priority that spins or measures keeps its core. Runs as `MCFtq`.

**`Timing`** (`compute_ticksperns` and `nsec_ticks` of `linux.c` and `illumos.c`,
`ftq_mdelay` and the tick interval of `ftq.c`, `main_loops` again, `nspertick.c`,
`elapsed` and Alpha's `getticks` of `cycle.h`). One action per clock read, as in
`FtqCore`, but `getticks` returns the clock modulo `TickRange`. `ReadTimeStart`,
`ReadTickStart`, `WakeUp` and `ReadTimeEnd` are the four reads of a calibration, whose
result is the fraction `el / ns`; `BeginDelay` and `PollDelay` are `ftq_mdelay`; the
rest is `main_loops`. `program` chooses between ftq, whose time has nanoseconds and the
width of ticks, and nspertick, whose time has seconds and no relevant width. `at` records
the real time of the reads, which the properties compare with what the program
believes. Runs as `MCTiming`.

**`MpiFtq`** (`mpiftq.c`). Every rank begins with `SetUp` (options, calibration, two
mappings; whether that of `data` worked is in `mapped`) or `SetUpExits`. `Received` is what
a rank holds after 4 of 8 bytes were broadcast. `Contribute` is the end of a sample together
with the call of `MPI_Gather`; rank 0 then stays in `"gather"` until `GatherReturns`
finds every contribution to this call and fills a row of `data`, or `GatherFaults`
kills it for want of `data`; other ranks go on. `LauncherEndsJob` is what `mpirun` does
once a rank has died. `Contribution` is the 8-byte value at the address of the 4-byte
`count`: its upper half is whatever variable the build places behind it (`neighbour`).
Runs as `MCMpiFtq`.

**`MpiBarrier`** (`mpibarrier.c` and `cudabarrier.c`, told apart by `program`: only the
second has `NoGPU`). Set-up and death as in `MpiFtq`, but that every rank stores into
`data` (`StoreFaults`). `EnterBarrier` and `LeaveBarrier`/`RecordSample` are the two halves
of `MPI_Barrier`; `Nap` is one `nanosleep` of rank 0, which a signal may cut short, and
the clock read after it. Runs as `MCMpiBarrier`.

**`FtqOmp`** (`ftq_omp.c`, built with `_WITH_OMP`; without it the file does not
compile, because a closing brace is conditional). `status` places main: options, the
parallel region, the two files, the end. `TagSlot` is the store of the thread number into
the shared array, `BlockStart` the static schedule; `PrintStdout`, `PrintTimes` and
`PrintCounts` leave all or a beginning of what they print, and `OpenFails` is the crash
that follows an unchecked `fopen`. Runs as `MCFtqOmp`.

**`TimeBase`** (`cycle.h`, PowerPC `getticks`). One action per register read. The
second read of the upper half and its comparison are one action
(`ReturnTicks`, `Retry`), since nothing else reads `tbu1`. Runs as `MCTimeBase`.

**`NatLemmas`** models nothing: it has the lemmas about natural numbers that the proof
modules cite. The proof modules are named after the modules they are about.

## Runs

| run | question | answer |
|---|---|---|
| `ftq_core` | Does the loop keep its schedule, however it is preempted? | Yes: `ScheduleKept` (no sample cut short, on the grid of the first clock read), `LostWindowsAreZero` (catching up), `WorkFitsWindow`, `Returns`, and `ImplementsSeries`, which also orders the samples and lets a zero mean nothing but a late start. |
| `ftq_core_doc_end_time` | Is the recorded time the end time, as README.txt says? | No, see [findings](#findings). |
| `ftq_threads` | Are the shared array, the reports and the totals right, whatever the interleaving and whichever call fails? | Yes: no access leaves the array, but for one with `-n 0` (`AccessesInside`), `SlotsHoldMeasured`, `SamplesFrozen`, `ReportsFaithful`, `TotalOfSamples`, `FractionAtMostOne`, `ImplementsRun`. Success means that every report has been reached, and is whole unless a write of its own failed (`SuccessMeansReported`): a full disk ends in success. |
| `ftq_sched` | Can real-time threads that spin lock main out? | No: `Termination`. |
| `timing` | What do preemption between two clock reads, and a wrap, do to the calibration, the delay and the samples? | The error of `ticksperns` is at most the granule of the clock and the gaps between the reads of a pair, as long as no clock comes round (`CalibrationError`); the delay is never short (`DelayNotEarly`); samples go wrong only where deadline and present lie on two sides of a wrap (`WrapConfined`); everything ends, unless an exit is narrower than one pass of its loop (`Finishes`). |
| `mpi_ftq` | Do rows of the gathered table match, though ranks run ahead and die? | Yes: `RowsMatch`, `WindowsKept`, `RootWaitsForAll`, `TableMeansAllSampled` (no table without every sample of every rank), `Finishes`. |
| `mpi_ftq_doc_counts` | Is what rank 0 prints the work count? | No, see [findings](#findings). |
| `mpi_ftq_doc_directs` | Does rank 0 direct the ranks, as the comment says? | No, see [findings](#findings). |
| `mpi_barrier` | Is the latency complete, the pace kept, the end reached, though ranks die? | Yes: `LatencyCoversSlowest`, `BarriersPaced`, `TableMeansAllMet`, `Finishes`. |
| `ftq_omp` | What of the unsynchronised stores and the unchecked files? | The race is confined to the first cells (`RaceIsConfined`); what is printed was measured, but for those (`PrintedIsMeasured`); success means both files, and counts never come without times (`FilesPaired`); `OneSamplePerInterval`, `Finishes` hold. |
| `ftq_omp_doc_samples` | Is each sample a timestamp and a count? | No, see [findings](#findings). |
| `time_base` | Is a 64-bit value read in halves one the counter had, and what does a carry cost? | Yes: `ReadsPresentTime`; one attempt at most: `RetriesPerCarry`. |

The passing runs also check the type invariant of each module (that of `TimeBase` is part
of the invariant proved). For every property of a passing run `PROJECT.json` names a
mutant: a definition, replaced by the operator marked "Mutant of ..." that stands before
it, which makes TLC find the property violated. No model uses the mutant operators otherwise.

## Bounds

* `FtqCore`: 3 samples, intervals 0 to 3 ticks, a quantum of at least 1 tick. `MaxClock`
  = 11 lies past `MaxStart` + 3 windows of 3 ticks + one quantum, so that one preemption
  can swallow all windows and every deadline is reached before the
  clock stops; with 3 samples a late one can have two successors, one still
  late, one on time again. Interval 0 is what
  `interval * ticksperns` truncates to.
* `Ftq`: up to 3 threads and 2 samples each (main, a thread that has begun and one that
  has not; first and last slot of a window next to those of its neighbours), `-n` of 0, 1
  and above `MAX_SAMPLES`; 1, 3 and 4 cores, so that none, one and two threads go
  real-time with `rt_free_cores` = 2. Counts are 0 or 1, enough to tell samples
  apart. `ftq_sched` has 1 to 5 cores and single samples, because scheduling
  does not depend on the counts.
* `Timing`: counters of 8 values that start at each of them; 2 ticks per ns and a
  second of 2 ns, so that both clocks have granules of more than one tick; the other clock
  starts far from its wrap or shortly before one. ftq sleeps for half a period,
  nspertick for more than one, as on Alpha. `MaxCalibration` = 7 leaves room for
  gaps between the reads, `MaxClock` = 16 for two more wraps, in the delay and in the
  two samples. A pass of a loop takes 1 or 2 ticks (`MinPass`, `MaxPass`), so that the reads
  may miss any value of the counter. Past these bounds nobody is preempted, which means that a
  pass takes `MaxPass` at most, and the clock goes on to `Horizon`
  = 52. Before that every behaviour ends or comes to a loop which one pass may jump over
  (`Finishes`; without this exception, `MayBeJumped`, TLC finds the loop that misses its
  deadline in each period). `MCTiming` assumes
  `CalibrationIsShort`, which TLC evaluates: in these bounds no preemption lasts until the
  time of a calibration has come round (`TimeCameRound`). On real hardware that is
  4.3 seconds where ticks have 32 bits, and centuries elsewhere.
* `MpiFtq`: 2 ranks, 2 samples (`-n` of 0, 1, and negative, which is clamped), calibrations
  0 and 2 that may differ, halves of 8
  values instead of 2^32 (larger than any interval, as assumed). A rank can be a whole run
  ahead of rank 0. `MaxStart` ends the wait for the broadcast, `MaxClock` = 5 lies at the
  last deadline of a rank that starts last.
* `MpiBarrier`: 3 ranks (rank 0, a fast one, a slow one), of which any may die, up to 2
  barriers, intervals 0 and 2.
* `FtqOmp`: 2 threads and up to 3 samples, so that the blocks differ in length and that the
  racing cells belong to a sample of thread 0; boundaries every 2 or 4 ticks. The clock goes on past
  `MaxClock` as long as a thread needs it; from then on nobody is preempted.
* `TimeBase`: lower half of 3 values, three carries; no property needs the counter to stop there.

The clock stops at its bound: `Tick` has it in its guard. The bound never blocks a loop,
which is part of what `Returns` and `Finishes` show.

## Fairness

Weak fairness only. `FtqCore`, `Timing`, `MpiFtq`, `MpiBarrier`, `FtqOmp`: every thread or
rank is scheduled again and again (these are ordinary time-shared threads) and the clock
never stops for good. The MPI programs have no timeout of their own: that a rank which dies
takes the others with it is the launcher's doing, and `WF_vars(LauncherEndsJob)` says
so (`mpirun` ends a job in which a process has exited without `MPI_Finalize`). `Ftq`: the
scheduler is part of the model, and fairness is claimed only for those who can run, `WF_vars(MainCanRun /\ Main)` and the like; that main and the
ordinary threads do run is what `Termination` has to find out. `TimeBase` assumes no
fairness and claims no liveness: a call could be held up by a carry in each attempt, and that
this does not happen, since an attempt takes less than the 2^32 ticks between two carries, is
not in the model. What is shown instead is `RetriesPerCarry`. No fairness is assumed for
particular outcomes: failing calls may always or never happen.

## Proofs

TLAPS proves, for every value of the constants that satisfies the assumptions of the
module:

* `FtqCoreProofs`: `TypeCorrect`, `ScheduleIsKept`, `SamplesAreOrdered`,
  `IdleMeansLate`, `CatchesUp`, `WorkIsBounded`, and `SeriesRefinement`
  (`Spec => ImplementsSeries`).
* `FtqProofs`: `TypeCorrect`, `AccessesStayInside`, `ThreadsStartTogether`,
  `NoSlotIsClobbered`, `ReportsAreFaithful`, `SuccessIsReported`, `WiredUnlessAllowed`, `RealtimeLeavesCores`,
  `SamplesAreFrozen`, `FractionIsAtMostOne`, `TotalIsOfSamples`, and `RunRefinement`.
* `MpiFtqProofs`: `TypeCorrect`, `RowsAreSamples`, `WindowsStayKept`, `RootWaits`,
  `TableIsComplete`.
* `MpiBarrierProofs`: `TypeCorrect`, `LatencyIsComplete`, `BarriersArePaced`,
  `TableIsComplete`.
* `TimeBaseProofs`: `ReadIsAtomic`, `RetriesArePaidFor`, `NeverBackwards`.
* `FtqOmpProofs`: `TypeCorrect`, `RaceStaysConfined`, `SamplesFillIntervals`,
  `OutputIsFaithful`, `FilesComeInPairs`.
* `TimingProofs`: `CalibrationIsRight`, `DelayIsKept`, `WrapIsConfined`; and
  `TypeCorrect`, under the hypothesis `CalibrationIsShort`.

`SamplesAreOrdered`, `IdleMeansLate`, `ThreadsStartTogether`, `WiredUnlessAllowed`,
`RealtimeLeavesCores` and `NeverBackwards` are stated by these theorems alone and not by
any run. The first two are also part of the refinement that `ftq_core` checks, and the
last follows from `ReadsPresentTime`.

Each module proves one inductive invariant `Inv`, a conjunction of named parts, and
reads the properties off it.

* *FtqCore.* The properties speak of stored samples, the loop of the sample in progress.
  `Inv` adds what links them: `tickend` is `start + done * tickinterval` (one more
  while spinning), the reads are ordered `ticklast <= ticknow <= clock`, every earlier
  end lies before them, and `count` is 0 exactly as long as `ticknow = ticklast`. The
  action `EndSample` then makes a legal sample of the one in progress, which is also the
  refinement step; all other steps stutter.
* *Ftq.* What makes the unlocked array safe is arithmetic and phase: the window of
  thread `t` is `t * numsamples .. (t + 1) * numsamples - 1`, windows of different threads
  are disjoint (lemma on products of naturals), and `done[t] < numsamples` when the thread stores. That
  the last window ends where the array does keeps every access inside (`Contained`). `Inv` ties
  `mpc`, `i`, `hounds` and `tpc`: threads numbered below `i` exist, `hounds`
  is set only after the last creation, thread `j < i` has returned once it is joined,
  and all have once main tallies. `FractionAtMostOne` needs a second invariant on
  the partial sums of the joins. `TotalOfSamples` needs a third, `Totals`: a thread's
  running total is the sum over the slots it has filled (`Stored`), and main's the sum over
  the windows of the threads it has joined. A sample goes into a slot that no sum contains
  yet, so that it adds to one of them and leaves the others alone; a join adds a window that
  follows those before it. A report that is cut short is a beginning of what a whole one
  would be, so that one case of `WriteReport` becomes `Publish` in the refinement, the other
  `Spoil`.
* *MpiFtq.* `Counters` relates the contributions of each rank to the rows received
  (rank 0 is level, or one ahead inside the call; nobody is behind). `Payload` says
  that what is on its way is what was counted, `Table` that what arrived is what was sent;
  `RowsMatch` is their composition. That one row leaves the others alone is the lemma
  `Rows` (`s * Size + r` with `r < Size`), and that a row begins where it should, although its
  start is an `int`, is `RowStartFits`, the one use of `TableAssumption`. `Clocks` is the schedule invariant of
  `FtqCore`, per rank; `RootLast` carries the ends of all ranks to rank 0's
  next sample. `Early` holds everybody back while rank 0 is in its set-up or dead of it,
  and `Counters` adds that whoever is past the set-up has samples to take; `TableIsComplete` follows, because each row rank 0
  has received took a contribution of every rank, dead or alive.
* *MpiBarrier.* `Meets` says that whoever has left a barrier was preceded by everybody
  entering it; the completeness of latencies and `TableIsComplete`
  follow from it, and no way to die disturbs it.
* *TimeBase.* `Inv` orders the history `begin <= seen <= base` and ties the
  halves: while `tbu0` equals the present upper half, it is the upper half of `seen`, because
  the counter only grows. `Paid` counts the attempts in vain against the upper half that the
  present attempt began with.
* *FtqOmp.* The static schedule first: the block of a thread is an interval of samples,
  and the lemmas `BlocksOrdered`, `BlocksDisjoint` and `BlocksCover` say that blocks do not
  overlap and that no sample is left out, for every number of threads and samples, by the
  quotient and the remainder that OpenMP divides with. `Inv` then says of each thread that it is
  inside its block (`InOwnBlock`), that its sample in progress begins after the one before has
  ended and is to end at the next boundary (`Punctual`), that its cells hold what it measured, but for the numbered ones
  (`Confined`), and that the samples it has recorded are as they should be (`Filled`). A step of
  one thread leaves the cells of the others alone, because the blocks are disjoint; only
  the thread number may hit a foreign cell, which is the exception that `Holds` makes.
  `Printing` says that the threads are through once main prints, so that, the blocks
  covering all samples, `PrintedIsMeasured` follows from `Confined`.
* *Timing.* The lemmas `ModPlus` (it does not matter whether an operand of a sum has wrapped
  already) and `OneWrap` (a sum of two counts has wrapped at most once) carry the delay and
  the samples. `Delaying` says that `end` is the count at the entry plus the delay, modulo the
  width; if a wait of less than the delay were left, each of the three ways the entry, the
  present and `end` can lie around the wrap contradicts the test of the loop (lemma
  `WaitIsFull`). `Scheduled` says that `tickend` is the deadline of unbounded ticks, modulo
  the width, however often it has wrapped; within one period the remainders are ordered as
  the times are, which is `WrapConfined`. For the calibration, `Measuring` says which real
  times the variables of the four reads stand for. A clock of granule `g` that is read
  twice shows the time in between with an error below `g` (`GranuleError`); the elapsed
  ticks, taken modulo the width, lose only whole periods (`ModMinus`), and a difference of two
  times that were cut to the width is right, or one period short and then huge in 64 bits
  (`RemaindersApart`): either wrap can only make `ticksperns` too low. None of
  these three uses a bound of the clock. The types do: `ns`, by which everything is divided, is
  at least 1 only as long as the time of the calibration has not come round. `Bounded`
  says how late each read of the calibration can be within the bounds, and
  `CalibrationIsShort` that this is early enough.
* *NatLemmas.* The provers cannot instantiate the induction theorems of the library, which
  take a predicate. `Least` (a non-empty set of naturals has a least element) needs a set
  instead, and `Induction` follows from it: the predicate becomes the set of the numbers it
  holds of. That is enough for sums over finite sets. `IterationExists` shows by induction on
  the cardinality that the recursive function in `FoldFunction` exists, `IterationSumsUp`
  that the order in which it takes the elements does not matter, and `SumOfOneMore`,
  `SumOfEqual` and `SumOfUnion` are what the proof of `TotalOfSamples` cites.

Every safety property of a run that is expected to pass is stated by one of these theorems.
Only model-checked: the liveness properties (`Returns`, `Termination`, `Finishes`), since fairness and ENABLED are out of the prover's reach.

## Findings

* `README.txt:146-148` calls the time column the end times of the samples;
  `ftqcore.c:50` stores the clock read before the first quantum, the begin.
* `mpiftq.c:287` sends 8 bytes from the 4-byte `int count` (`mpiftq.c:52`). The
  upper half of what rank 0 prints is another variable: with gcc 12
  `set_realtime` at `-O0`, as the Makefile builds it (so `-r` adds 2^32 to every
  count), and `k` at `-O2` (so that every count that is not zero gains 31 * 2^32).
  `RowsMatch` shows that the lower half is right.
* The comment at `mpiftq.c:153-156` has rank 0 start and stop the nodes; nothing in the code does, and
  other ranks run samples ahead of it. What does hold is `RootWaitsForAll`.
* `ftq_omp.c:163` overwrites cell `tid` of the array with the thread number,
  possibly after the thread that owns the sample has stored it (against the comment at
  `ftq_omp.c:53`). `RaceIsConfined` bounds the damage: samples below half the number
  of threads.

Noted in passing, without a run:

* With `-n 0` the base of each report is read from an array of no slots (`ftq.c:291`,
  `ftq.c:307`), and the fraction printed is 0/0.
* The program ends in success when a full disk has cut its reports short (`ftq.c:307-314`).
* Where ticks have 32 bits, a deadline that lies closer to a wrap than one pass of its loop may
  be missed in one period after the other, each of which takes seconds (`ftqcore.c:43`; the
  same holds of the delay, `ftq.c:86`): the exception `MayBeJumped` of `Finishes`.
* `ftq.c:240` tests the result of `malloc` after using it.
* Long options are all declared without an argument (`ftq.c:147-159`, `ftq_omp.c:102-109`), so
  that `--numsamples 10` hands a NULL `optarg` to `atoi`.
* The MPI programs accept `-d` and print a start delay, but never delay; they print the warning of
  `-w` although they never wire; their `Total count` is computed by nothing.
* `mmap` of `data` is not checked (`mpiftq.c:252`, `mpibarrier.c:253`), and `-n 0` ends the MPI
  programs with "can not mmap 0 bytes".
* A `counts` file of an earlier run of `ftq_omp` stays beside new times when it cannot be
  created again.
* `osinfo` never closes `/proc/cpuinfo`.
* Where ticks have 32 bits, `nsec_ticks` wraps every 4.3 seconds, and a calibration of 2
  seconds that straddles a wrap computes `ns` in 64 bits, as if it had taken
  centuries (`linux.c:112`; the exception `TimeWrapped` of `CalibrationError`). nspertick sleeps 30
  seconds, longer than Alpha's counter takes to come round (`CameRound`).
* There, too, a calibration that is preempted for 4.3 seconds may compute `ns` as 0 or as far too
  low, and `ticksperns` as infinite or far too high (the exception `TimeCameRound`).

## Assumptions and what is not modelled

* Ticks are ideal natural numbers except in `Timing`, where they wrap: a 64-bit counter
  wraps after centuries. `TimeBase` has the carry but not the wrap of the upper half.
* In `Timing` two reads of a loop differ by at least one tick (a cycle counter, not a slow
  bus clock), and by no more than `MaxPass` while nobody preempts the thread, and what is shown of `-d` is shown of delays shorter than a period of the
  counter. Real time is counted in ticks of a constant rate; fractions (`el / ns`) are
  exact, where the code has doubles.
* `-t` is positive and `numthreads * numsamples` fits an `int`.
* A full disk cuts a file short: what is left is a beginning of it. Failing to
  *open* a file is an action of its own.
* `numsamples` times the number of ranks fits an `int` in `mpiftq` (`TableAssumption`). The
  index `i*size` of `mpiftq.c:259` wraps around in larger jobs: with the default number of
  samples from 4096 ranks on.
* MPI runs on a little-endian machine: the 4 bytes of `tickinterval` that are broadcast, and
  those of `count`, are the lower half of the 8.
* Intervals of the MPI programs are below 2^32 ticks (about a second), because above that
  ranks with different calibrations do differ.
* pthreads, MPI and OpenMP behave as their standards say; where the model
  says how a program depends on them the definition is marked external in `PROJECT.json`.
* `sched_setscheduler(0, ...)` changes the calling thread, as it does on Linux;
  `illumos.c` makes the same call, and is covered as far as it means the same there.
* A word written by one thread and read by another is read whole, and `hounds`, being
  volatile, is read afresh; the other shared data are ordered by creation and join. The racing
  stores of `ftq_omp` are aligned words, of which the last stays.
* Not modelled: the wording of options and output; `osinfo` and `get_coreid`, which add
  comment lines; the Akaros clock and `getticks.c`, one call each; the other variants of
  `getticks`, one register read each; `dummy_os.c`, `plan9.c` and `ftqcorefloat.c`, which
  no current target builds (the last has the control flow of `ftqcore.c`);
  `run_experiment.pl`, a sequence of unchecked commands whose effects are
  outside the tree; `checkfile.go`, one pass over a file; R, Octave and shell scripts,
  which draw.

## How to run

    tlc -workers 2 -config FtqCore.cfg MCFtqCore
    tlapm FtqCoreProofs.tla

`PROJECT.json` lists the module and configuration of every run. The longest, `mpi_ftq`,
`mpi_barrier` and `ftq_omp`, take about a minute with two workers.
