-------------------------------- MODULE Ftq ---------------------------------
(***************************************************************************)
(* The program ftq (ftq.c) with the parts of linux.c, illumos.c and        *)
(* akaros.c it calls: main, the measuring threads, and the state they      *)
(* share.  main creates the threads, releases them together through        *)
(* `hounds', joins them, totals the counts and writes one report per       *)
(* thread.  Any thread may end the whole process with exit().              *)
(*                                                                         *)
(* What one iteration of main_loops measures is FtqCore's business: here   *)
(* it stores some count of Counts in the thread's next slot.  The options  *)
(* are chosen in Init.  Thread counts are positive, and small enough for   *)
(* numthreads * numsamples to fit the int variables `offset' and `ix'.     *)
(***************************************************************************)
EXTENDS Integers, FiniteSets, Sequences, Functions, FiniteSetsExt

CONSTANTS
  MaxThreads,      \* bound: the largest argument of -t
  SampleRequests,  \* the arguments of -n
  MaxSamples,      \* MAX_SAMPLES of ftq.h
  CoreCounts,      \* the numbers of cores the machine may have
  RtFreeCores,     \* rt_free_cores
  MaxCount         \* bound: the largest count one sample may have

ASSUME MaxThreadsAssumption == MaxThreads \in Nat \ {0}
ASSUME SamplesAssumption == SampleRequests \subseteq Nat /\ MaxSamples \in Nat
ASSUME CoresAssumption == CoreCounts \subseteq Nat \ {0}
ASSUME RtFreeCoresAssumption == RtFreeCores \in Nat \ {0}
ASSUME MaxCountAssumption == MaxCount \in Nat

Thread == 0 .. MaxThreads - 1

Counts == 0 .. MaxCount

VARIABLES
  opt,          \* the command line
  os,           \* which OS file is linked: "posix" (linux.c, illumos.c)
                \* or "akaros"
  cores,        \* cores of the machine
  numsamples,
  samples,      \* the shared array, counts only
  stray,        \* history: the slots outside the array that were accessed
  pin_threads,
  hounds,
  mpc,          \* where main is
  i,            \* main's loop counter
  total_count,
  max_work,
  reports,      \* the reports written, in order
  damaged,      \* history: the threads whose report is cut short
  status,       \* "running", or how the process ended
  tpc,          \* where each thread is
  pinned,       \* is the thread bound to the core of its number
  sched,        \* its scheduling policy
  done,         \* its sample counter in main_loops
  retval,       \* main_loops' running total
  measured      \* history: the counts it measured, in order

mainVars == << mpc, i, total_count, max_work, reports, damaged >>
confVars == << opt, os, cores >>
memVars == << numsamples, samples, stray, pin_threads, hounds >>
threadVars == << tpc, pinned, sched, done, retval, measured >>

vars == << confVars, memVars, mainVars, threadVars, status >>

\* Without -t there is one thread, and it is main itself.
Options ==
  { o \in [numthreads : 1 .. MaxThreads, use_threads : BOOLEAN,
           use_stdout : BOOLEAN, set_realtime : BOOLEAN,
           ignore_wire_failures : BOOLEAN] :
      ~o.use_threads => o.numthreads = 1 }

numthreads == opt.numthreads

\* The threads of this run.
Crew == 0 .. numthreads - 1

Slots == 0 .. numthreads * numsamples - 1

\* Mutant of Offset: the thread number itself.
OffsetUnscaled(t) == t

\* Where a thread's samples begin.
Offset(t) == t * numsamples

\* What main believes the number of cores to be (akaros.c says 1).
NumCores == IF os = "akaros" THEN 1 ELSE cores

Init ==
  /\ opt \in Options
  /\ os \in {"posix", "akaros"}
  /\ cores \in CoreCounts
  /\ numsamples \in SampleRequests
  /\ samples = << >>
  /\ stray = {}
  /\ pin_threads = TRUE
  /\ hounds = FALSE
  /\ mpc = "alloc"
  /\ i = 0
  /\ total_count = 0
  /\ max_work = 0
  /\ reports = << >>
  /\ damaged = {}
  /\ status = "running"
  /\ tpc = [t \in Thread |-> "unborn"]
  /\ pinned = [t \in Thread |-> FALSE]
  /\ sched = [t \in Thread |-> "other"]
  /\ done = [t \in Thread |-> 0]
  /\ retval = [t \in Thread |-> 0]
  /\ measured = [t \in Thread |-> << >>]

-----------------------------------------------------------------------------
(* main                                                                    *)

\* exit(), abort() or a fatal signal: the process is over for every thread.
Die(how) ==
  /\ status' = how
  /\ UNCHANGED << confVars, memVars, mainVars, threadVars >>

\* usage(), or a negative -d.
RefuseOptions == mpc = "alloc" /\ Die("failure")

Clamped == IF numsamples > MaxSamples THEN MaxSamples ELSE numsamples

\* Mutant of Allocated: room for the samples of one thread only.
AllocatedForOne == Clamped

\* The room for samples, those of all threads.
Allocated == numthreads * Clamped

\* A step that reads or writes the slots S of the array.
Access(S) == stray' = stray \cup (S \ DOMAIN samples)

\* -n is clamped, the array allocated and zeroed.  Only Akaros insists on
\* mmap, which refuses an empty mapping; the others fall back to malloc.
AllocateSamples ==
  /\ mpc = "alloc"
  /\ os = "akaros" => Allocated > 0
  /\ numsamples' = Clamped
  /\ samples' = [s \in 0 .. Allocated - 1 |-> 0]
  /\ mpc' = "check"
  /\ UNCHANGED << confVars, stray, pin_threads, hounds, i, total_count,
                  max_work, reports, damaged, threadVars, status >>

AllocateFails == mpc = "alloc" /\ Die("aborted")

StdoutConflict == opt.use_stdout /\ numthreads > 1

RefuseStdout == mpc = "check" /\ StdoutConflict /\ Die("failure")

\* The clock that calibrates the counter cannot be read.  Akaros's cannot
\* fail, and with -T there is no calibration.
CalibrationExits ==
  mpc = "check" /\ ~StdoutConflict /\ os = "posix" /\ Die("failure")

\* Calibration, if any, threadinit and the array of thread handles.
SetUpThreads ==
  /\ mpc = "check"
  /\ ~StdoutConflict
  /\ opt.use_threads
  /\ mpc' = "create"
  /\ i' = 0
  /\ UNCHANGED << confVars, memVars, total_count, max_work, reports, damaged,
                  threadVars, status >>

\* malloc of the handles fails; memset comes before the assert.
SetUpFails ==
  mpc = "check" /\ ~StdoutConflict /\ opt.use_threads /\ Die("aborted")

\* Mutant of MoreThreads: the loop bound is off by one.
MoreThreadsInclusive == i <= numthreads

\* The test of both loops over the threads, creation and join.
MoreThreads == i < numthreads

CreateThread ==
  /\ mpc = "create"
  /\ MoreThreads
  /\ tpc' = [tpc EXCEPT ![i] = "wire"]
  /\ i' = i + 1
  /\ UNCHANGED << confVars, memVars, mpc, total_count, max_work, reports,
                  damaged, pinned, sched, done, retval, measured, status >>

CreateFails == mpc = "create" /\ MoreThreads /\ Die("failure")

ReleaseHounds ==
  /\ mpc = "create"
  /\ ~MoreThreads
  /\ hounds' = TRUE
  /\ mpc' = "join"
  /\ i' = 0
  /\ UNCHANGED << confVars, numsamples, samples, stray, pin_threads,
                  total_count, max_work, reports, damaged, threadVars, status >>

\* Mutant of CanJoin: main does not wait for the thread.
CanJoinAtOnce == TRUE

\* pthread_join returns.
CanJoin == tpc[i] = "returned"

JoinThread ==
  /\ mpc = "join"
  /\ MoreThreads
  /\ CanJoin
  /\ total_count' = total_count + retval[i]
  /\ i' = i + 1
  /\ UNCHANGED << confVars, memVars, mpc, max_work, reports, damaged,
                  threadVars, status >>

JoinFails == mpc = "join" /\ MoreThreads /\ Die("failure")

\* Mutant of AllJoined: the last thread is not waited for.
AllButOneJoined ==
  /\ mpc = "join"
  /\ i >= numthreads - 1
  /\ mpc' = "tally"
  /\ UNCHANGED << confVars, memVars, i, total_count, max_work, reports,
                  damaged, threadVars, status >>

AllJoined ==
  /\ mpc = "join"
  /\ ~MoreThreads
  /\ mpc' = "tally"
  /\ UNCHANGED << confVars, memVars, i, total_count, max_work, reports,
                  damaged, threadVars, status >>

\* Without -t, main, once calibrated, runs the thread function itself,
\* unpinned.
RunInline ==
  /\ mpc = "check"
  /\ ~StdoutConflict
  /\ ~opt.use_threads
  /\ pin_threads' = FALSE
  /\ hounds' = TRUE
  /\ mpc' = "inline"
  /\ tpc' = [tpc EXCEPT ![0] = "wire"]
  /\ UNCHANGED << confVars, numsamples, samples, stray, i, total_count,
                  max_work, reports, damaged, pinned, sched, done, retval,
                  measured, status >>

InlineReturns ==
  /\ mpc = "inline"
  /\ tpc[0] = "returned"
  /\ total_count' = retval[0]
  /\ mpc' = "tally"
  /\ UNCHANGED << confVars, memVars, i, max_work, reports, damaged, threadVars,
                  status >>

BestSample == Max({0} \cup { samples[s] : s \in Slots })

\* Mutant of MaxWork: the threads are forgotten.
MaxWorkOfOne == BestSample * numsamples

\* As if every sample of every thread had been the best.
MaxWork == BestSample * (numthreads * numsamples)

Tally ==
  /\ mpc = "tally"
  /\ max_work' = MaxWork
  /\ Access(Slots)
  /\ mpc' = "report"
  /\ i' = 0
  /\ UNCHANGED << confVars, numsamples, samples, pin_threads, hounds,
                  total_count, reports, damaged, threadVars, status >>

\* The number of reports: standard output, or one file per thread.
NumReports == IF opt.use_stdout THEN 1 ELSE numthreads

\* Mutant of RowSlot: the array is read as if the threads took turns.
RowSlotInterleaved(j, k) == (k - 1) * numthreads + j

\* Where row k of report j is read from.
RowSlot(j, k) == j * numsamples + k - 1

\* The counts of report j, in the order they are printed.
Column(j) == [k \in 1 .. numsamples |-> samples[RowSlot(j, k)]]

\* The slot whose time is subtracted from the times of report j; it is read
\* even when there are no samples.
BaseSlot(j) == numsamples * j

\* What is left of a column that is cut short.
CutShort(rows) == { SubSeq(rows, 1, n) : n \in 0 .. Len(rows) - 1 }

\* fprintf and fclose are not checked: a full disk cuts the report short.
WriteReport ==
  /\ mpc = "report"
  /\ i < NumReports
  /\ \/ /\ reports' = Append(reports, Column(i))
        /\ UNCHANGED damaged
     \/ /\ \E rows \in CutShort(Column(i)) :
             reports' = Append(reports, rows)
        /\ damaged' = damaged \cup {i}
  /\ Access({BaseSlot(i)} \cup { RowSlot(i, k) : k \in 1 .. numsamples })
  /\ i' = i + 1
  /\ UNCHANGED << confVars, numsamples, samples, pin_threads, hounds, mpc,
                  total_count, max_work, threadVars, status >>

\* Mutant of OpenFails: the file is skipped with a message.
OpenFailsSkip ==
  /\ mpc = "report"
  /\ i < NumReports
  /\ ~opt.use_stdout
  /\ i' = i + 1
  /\ UNCHANGED << confVars, memVars, mpc, total_count, max_work, reports,
                  damaged, threadVars, status >>

\* A file cannot be created; the files before it stay.
OpenFails ==
  mpc = "report" /\ i < NumReports /\ ~opt.use_stdout /\ Die("failure")

Finish == mpc = "report" /\ i >= NumReports /\ Die("success")

Main ==
  /\ status = "running"
  /\ \/ RefuseOptions \/ AllocateSamples \/ AllocateFails \/ RefuseStdout
     \/ CalibrationExits \/ SetUpThreads \/ SetUpFails
     \/ CreateThread \/ CreateFails \/ ReleaseHounds
     \/ JoinThread \/ JoinFails \/ AllJoined
     \/ RunInline \/ InlineReturns
     \/ Tally \/ WriteReport \/ OpenFails \/ Finish

-----------------------------------------------------------------------------
(* ftq_thread                                                              *)

Goto(t, from, to) == tpc[t] = from /\ tpc' = [tpc EXCEPT ![t] = to]

\* Does this thread ask the OS to bind it?  Akaros cannot.
Wires == pin_threads /\ os = "posix"

WireThread(t) ==
  /\ Wires
  /\ t < cores
  /\ Goto(t, "wire", "sched")
  /\ pinned' = [pinned EXCEPT ![t] = TRUE]
  /\ UNCHANGED << confVars, memVars, mainVars, sched, done, retval, measured,
                  status >>

MayStayUnwired == Wires => opt.ignore_wire_failures

\* The thread stays where the OS puts it: not asked for, not possible, or
\* refused and ignored (-w).
StayUnwired(t) ==
  /\ MayStayUnwired
  /\ Goto(t, "wire", "sched")
  /\ UNCHANGED << confVars, memVars, mainVars, pinned, sched, done, retval,
                  measured, status >>

WireExits(t) ==
  /\ tpc[t] = "wire"
  /\ Wires
  /\ ~opt.ignore_wire_failures
  /\ Die("failure")

\* Mutant of MayGoRealtime: no core is left to the OS.
MayGoRealtimeEverywhere(t) == opt.set_realtime /\ t < NumCores

\* The last RtFreeCores cores are left to the OS.
MayGoRealtime(t) == opt.set_realtime /\ t + RtFreeCores < NumCores

GoRealtime(t) ==
  /\ MayGoRealtime(t)
  /\ Goto(t, "sched", "spin")
  /\ sched' = [sched EXCEPT ![t] = "fifo"]
  /\ UNCHANGED << confVars, memVars, mainVars, pinned, done, retval, measured,
                  status >>

RealtimeExits(t) == tpc[t] = "sched" /\ MayGoRealtime(t) /\ Die("failure")

StayOrdinary(t) ==
  /\ ~MayGoRealtime(t)
  /\ Goto(t, "sched", "spin")
  /\ UNCHANGED << confVars, memVars, mainVars, pinned, sched, done, retval,
                  measured, status >>

\* Mutant of Released: nobody waits.
ReleasedAtOnce == TRUE

Released == hounds

\* The busy wait for main, then the delay of -d.
LeaveSpin(t) ==
  /\ Released
  /\ Goto(t, "spin", "sample")
  /\ UNCHANGED << confVars, memVars, mainVars, pinned, sched, done, retval,
                  measured, status >>

\* One iteration of main_loops.
TakeSample(t) ==
  /\ tpc[t] = "sample"
  /\ done[t] < numsamples
  /\ \E c \in Counts :
       /\ samples' = [samples EXCEPT ![Offset(t) + done[t]] = c]
       /\ retval' = [retval EXCEPT ![t] = @ + c]
       /\ measured' = [measured EXCEPT ![t] = Append(@, c)]
  /\ Access({Offset(t) + done[t]})
  /\ done' = [done EXCEPT ![t] = @ + 1]
  /\ UNCHANGED << confVars, numsamples, pin_threads, hounds, mainVars, tpc,
                  pinned, sched, status >>

ThreadReturns(t) ==
  /\ done[t] >= numsamples
  /\ Goto(t, "sample", "returned")
  /\ UNCHANGED << confVars, memVars, mainVars, pinned, sched, done, retval,
                  measured, status >>

ThreadStep(t) ==
  /\ status = "running"
  /\ \/ WireThread(t) \/ StayUnwired(t) \/ WireExits(t)
     \/ GoRealtime(t) \/ RealtimeExits(t) \/ StayOrdinary(t)
     \/ LeaveSpin(t) \/ TakeSample(t) \/ ThreadReturns(t)

Terminated == status # "running" /\ UNCHANGED vars

Next == Main \/ (\E t \in Thread : ThreadStep(t)) \/ Terminated

Spec == Init /\ [][Next]_vars

-----------------------------------------------------------------------------
(* Who gets a processor.  A SCHED_FIFO thread at maximum priority that     *)
(* spins or measures never gives up its core, so ordinary threads and main *)
(* progress only where no such thread sits.                                *)

Realtime == { t \in Thread : sched[t] = "fifo" }

Hogs == { t \in Realtime : tpc[t] # "returned" }

MainCanRun == Cardinality(Hogs) < cores

\* A bound ordinary thread waits for its own core, where a real-time thread
\* that is not bound may sit.
ThreadCanRun(t) ==
  \/ t \in Realtime
  \/ pinned[t] /\ \A u \in Hogs : pinned[u]
  \/ ~pinned[t] /\ Cardinality(Hogs) < cores

FairSpec ==
  /\ Spec
  /\ WF_vars(MainCanRun /\ Main)
  /\ \A t \in Thread : WF_vars(ThreadCanRun(t) /\ ThreadStep(t))

-----------------------------------------------------------------------------

\* Every variable has the type of its C counterpart.
TypeOK ==
  /\ opt \in Options
  /\ os \in {"posix", "akaros"}
  /\ cores \in CoreCounts
  /\ numsamples \in Nat
  /\ mpc \in {"alloc", "check", "create", "join", "inline", "tally", "report"}
  /\ mpc # "alloc" => samples \in [Slots -> Counts]
  /\ stray \subseteq Int
  /\ pin_threads \in BOOLEAN
  /\ hounds \in BOOLEAN
  /\ i \in 0 .. MaxThreads
  /\ total_count \in Nat
  /\ max_work \in Nat
  /\ reports \in Seq(Seq(Counts))
  /\ damaged \subseteq 0 .. Len(reports) - 1
  /\ status \in {"running", "success", "failure", "aborted"}
  /\ tpc \in [Thread -> {"unborn", "wire", "sched", "spin", "sample",
                         "returned"}]
  /\ pinned \in [Thread -> BOOLEAN]
  /\ sched \in [Thread -> {"other", "fifo"}]
  /\ done \in [Thread -> Nat]
  /\ retval \in [Thread -> Nat]
  /\ measured \in [Thread -> Seq(Counts)]

\* No step of main or of a thread reads or writes outside the array.  The one
\* exception is with -n 0: the base of each report is read from an array of
\* no slots (ftq.c:291, 307) and then never used.
AccessesInside == stray \subseteq (IF numsamples = 0 THEN {0} ELSE {})

\* Nobody measures before every thread of the run exists (ftq.c, hounds).
StartTogether ==
  \A t \in Crew : done[t] > 0 => \A u \in Crew : tpc[u] # "unborn"

\* The threads share one array without locks: whatever the interleaving, each
\* finds there exactly what it measured, in the slots of its own.
SlotsHoldMeasured ==
  \A t \in Crew :
    /\ Len(measured[t]) = done[t]
    /\ done[t] <= numsamples
    /\ \A k \in 0 .. done[t] - 1 : samples[Offset(t) + k] = measured[t][k + 1]

\* A report is the complete series of the thread it is named after, or where a
\* write has failed (ftq.c does not look) the beginning of it.
ReportsFaithful ==
  \A j \in 1 .. Len(reports) :
    /\ Len(measured[j - 1]) = numsamples
    /\ IF j - 1 \in damaged
       THEN reports[j] \in CutShort(measured[j - 1])
       ELSE reports[j] = measured[j - 1]

\* A run that ends in success has reached every report, and each is whole
\* unless a write of its own failed: fprintf and fclose are not checked, so a
\* full disk ends in success too.  A run that ends otherwise, in main or in
\* any thread, has left at least one report out.
SuccessMeansReported ==
  /\ status = "success" =>
       /\ Len(reports) = NumReports
       /\ \A j \in 1 .. NumReports :
            j - 1 \notin damaged => Len(reports[j]) = numsamples
  /\ status \in {"failure", "aborted"} => Len(reports) < NumReports

\* linux.c, wireme: "If they ignore this error the numbers will be crap."  A
\* thread that measures unbound was told to, or was never to be bound.
WiredUnlessTold ==
  \A t \in Crew :
    done[t] > 0 /\ ~pinned[t] =>
      opt.ignore_wire_failures \/ os = "akaros" \/ ~opt.use_threads

\* ftq.c: "Leave at least rt_free_cores cores to the OS to run things".
RtLeavesCores ==
  Realtime # {} => Cardinality(Realtime) + RtFreeCores <= cores

\* The total in the header is that of the samples printed below it, over all
\* threads.
TotalOfSamples == mpc = "report" => total_count = FoldFunction(+, 0, samples)

\* No run does better than its maximum: the fraction total_count / max_work
\* of the header is at most 1.
FractionAtMostOne == mpc = "report" => total_count <= max_work

\* Once main has started to read the array nobody writes it.
SamplesFrozen == [][(mpc \in {"tally", "report"}) => (samples' = samples)]_vars

\* The process ends: main is never starved by the real-time threads that
\* wait for it, and no thread waits for a release that never comes.
Termination == <>(status # "running")

\* The run a user sees: nothing before the start, whole series afterwards.
Run == INSTANCE FtqRun WITH
  Member <- Thread,
  Value <- Counts,
  crew <- Crew,
  columns <- NumReports,
  length <- numsamples,
  started <- hounds,
  series <- measured,
  published <- reports,
  spoilt <- damaged,
  outcome <- status

ImplementsRun == Run!Spec

=============================================================================
