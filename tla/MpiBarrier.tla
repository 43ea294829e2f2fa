----------------------------- MODULE MpiBarrier -----------------------------
(***************************************************************************)
(* The programs mpibarrier (mpibarrier.c) and cudabarrier (cudabarrier.c,  *)
(* the same but for the choice of a GPU): every rank sets itself up, and   *)
(* then, once per interval, all meet in MPI_Barrier.  Rank 0 records when  *)
(* it called and how long it was held, and sleeps until the interval is    *)
(* over.  The other ranks call the next barrier at once.                   *)
(*                                                                         *)
(* Only what rank 0 reads from its clock is ever looked at.  MPI, as the   *)
(* programs use it: nobody leaves MPI_Barrier before all have entered, and *)
(* when a rank dies the launcher sooner or later ends the job.             *)
(***************************************************************************)
EXTENDS Integers, Sequences

CONSTANTS
  Size,        \* number of ranks
  Requests,    \* the arguments of -n
  MaxSamples,  \* MAX_SAMPLES
  Intervals,   \* the values tickinterval may have on rank 0
  MaxStart,    \* bound: by then rank 0 has left MPI_Bcast
  MaxClock     \* bound: the clock stops there

ASSUME SizeAssumption == Size \in Nat \ {0}
ASSUME SamplesAssumption == Requests \subseteq Int /\ MaxSamples \in Nat
ASSUME IntervalsAssumption == Intervals \subseteq Nat
ASSUME BoundAssumption == MaxStart \in Nat /\ MaxClock \in Nat

Rank == 0 .. Size - 1

VARIABLES
  clock,
  program,       \* "mpibarrier" or "cudabarrier"
  accepted,      \* is the command line, the same for all, in order
  numsamples,
  tickinterval,  \* of rank 0
  mapped,        \* per rank: is `data' a mapping, or MAP_FAILED
  pc,            \* per rank
  entered,       \* the calls of MPI_Barrier each rank has begun
  left,          \* and ended
  tickend,       \* of rank 0, like the next three
  ticknow,
  ticklast,
  samples,
  start,         \* history: the clock read after MPI_Bcast
  latest         \* history: when the last rank so far entered each barrier

config == << program, accepted, numsamples >>

job == << config, tickinterval, mapped >>

rootVars == << tickend, ticknow, ticklast, samples, start >>

vars == << clock, job, pc, entered, left, rootVars, latest >>

\* The argument of -n as an unsigned number, which is huge if it was negative,
\* and then clamped.
Clamped(n) == IF n \in 0 .. MaxSamples THEN n ELSE MaxSamples

Init ==
  /\ clock = 0
  /\ program \in {"mpibarrier", "cudabarrier"}
  /\ accepted \in BOOLEAN
  /\ numsamples \in { Clamped(n) : n \in Requests }
  /\ tickinterval = 0
  /\ mapped = [r \in Rank |-> FALSE]
  /\ pc = [r \in Rank |-> "setup"]
  /\ entered = [r \in Rank |-> 0]
  /\ left = [r \in Rank |-> 0]
  /\ tickend = 0
  /\ ticknow = 0
  /\ ticklast = 0
  /\ samples = << >>
  /\ start = 0
  /\ latest = [n \in 1 .. numsamples |-> 0]

Goto(r, from, to) == pc[r] = from /\ pc' = [pc EXCEPT ![r] = to]

-----------------------------------------------------------------------------
(* Set-up, and how a job dies                                              *)

\* Mutant of SamplesMappable: malloc instead of mmap.
SamplesMappableAlways == TRUE

\* mmap refuses an empty mapping.
SamplesMappable == numsamples > 0

\* Options, calibration, a GPU, and two mappings.  Nobody looks whether the
\* second one, of `data', was made.
SetUp(r) ==
  /\ accepted
  /\ SamplesMappable
  /\ Goto(r, "setup", "bcast")
  /\ \E ok \in BOOLEAN : mapped' = [mapped EXCEPT ![r] = ok]
  /\ IF r = 0 THEN tickinterval' \in Intervals ELSE UNCHANGED tickinterval
  /\ UNCHANGED << clock, config, entered, left, rootVars, latest >>

\* exit(): the options are refused, a clock cannot be read, or `samples'
\* cannot be mapped.
SetUpExits(r) ==
  /\ Goto(r, "setup", "exited")
  /\ UNCHANGED << clock, job, entered, left, rootVars, latest >>

\* The job is ended, but for the ranks that are done.
EndJob == pc' = [r \in Rank |-> IF pc[r] = "done" THEN "done" ELSE "killed"]

\* A rank without a GPU calls MPI_Abort.
NoGPU(r) ==
  /\ program = "cudabarrier" /\ accepted
  /\ pc[r] = "setup"
  /\ EndJob
  /\ UNCHANGED << clock, job, entered, left, rootVars, latest >>

\* The launcher notices that a rank has died.
LauncherEndsJob ==
  /\ \E r \in Rank : pc[r] = "exited"
  /\ EndJob
  /\ UNCHANGED << clock, job, entered, left, rootVars, latest >>

-----------------------------------------------------------------------------
(* The barriers                                                            *)

\* MPI_Bcast holds the others until rank 0 has called it.  (A rank 0 that
\* exits later does so after a barrier, with everybody past MPI_Bcast.)
Bcast(r) ==
  /\ Goto(r, "bcast", IF r = 0 THEN "start" ELSE "top")
  /\ r # 0 => pc[0] \notin {"setup", "bcast", "exited"}
  /\ UNCHANGED << clock, job, entered, left, rootVars, latest >>

StartClock ==
  /\ Goto(0, "start", "top")
  /\ tickend' = clock
  /\ start' = clock
  /\ UNCHANGED << clock, job, entered, left, ticknow, ticklast,
                  samples, latest >>

\* Mutant of MoreSamples: the loop bound is off by one.
MoreSamplesInclusive(r) == left[r] <= numsamples

MoreSamples(r) == left[r] < numsamples

BeginSample ==
  /\ Goto(0, "top", "call")
  /\ MoreSamples(0)
  /\ ticknow' = clock
  /\ ticklast' = clock
  /\ tickend' = tickend + tickinterval
  /\ UNCHANGED << clock, job, entered, left, samples, start, latest >>

EnterBarrier(r) ==
  /\ Goto(r, IF r = 0 THEN "call" ELSE "top", "barrier")
  /\ MoreSamples(r)
  /\ entered' = [entered EXCEPT ![r] = @ + 1]
  /\ latest' = [latest EXCEPT ![entered[r] + 1] = clock]
  /\ UNCHANGED << clock, job, left, rootVars >>

AllEntered(n) == \A r \in Rank : n <= entered[r]

LeaveBarrier(r) ==
  /\ r # 0 /\ mapped[r]
  /\ Goto(r, "barrier", "top")
  /\ AllEntered(entered[r])
  /\ left' = [left EXCEPT ![r] = @ + 1]
  /\ UNCHANGED << clock, job, entered, rootVars, latest >>

\* Every rank stores its latency, if only rank 0 prints it: the first store
\* into `data' kills a rank that has no `data'.
StoreFaults(r) ==
  /\ ~mapped[r]
  /\ Goto(r, "barrier", "exited")
  /\ AllEntered(entered[r])
  /\ UNCHANGED << clock, job, entered, left, rootVars, latest >>

\* Mutant of Latency: the clock is not read again after the barrier.
LatencyStale == ticknow - ticklast

Latency == clock - ticklast

\* Rank 0 leaves the barrier and reads the clock once more.
RecordSample ==
  /\ mapped[0]
  /\ Goto(0, "barrier", "wait")
  /\ AllEntered(entered[0])
  /\ left' = [left EXCEPT ![0] = @ + 1]
  /\ samples' = Append(samples, [ticklast |-> ticklast, count |-> Latency])
  /\ UNCHANGED << clock, job, entered, tickend, ticknow, ticklast,
                  start, latest >>

\* Mutant of Expired: the wait ends only on the very tick of the deadline.
ExpiredExactly == tickend = ticknow

\* Mutant of Expired: the wait ends a tick too early.
ExpiredEarly == tickend <= ticknow + 1

\* Before the first nap ticknow is still the time of the call.
Expired == tickend <= ticknow

\* nanosleep, which a signal may cut short, and a look at the clock.
Nap ==
  /\ pc[0] = "wait"
  /\ ~Expired
  /\ ticknow' = clock
  /\ UNCHANGED << clock, job, pc, entered, left, tickend, ticklast,
                  samples, start, latest >>

EndWait ==
  /\ Goto(0, "wait", "top")
  /\ Expired
  /\ UNCHANGED << clock, job, entered, left, rootVars, latest >>

Finish(r) ==
  /\ Goto(r, "top", "done")
  /\ ~MoreSamples(r)
  /\ UNCHANGED << clock, job, entered, left, rootVars, latest >>

Over == \A r \in Rank : pc[r] \in {"done", "killed"}

Tick ==
  /\ ~Over
  /\ clock < IF pc[0] \in {"setup", "bcast", "start"}
             THEN MaxStart ELSE MaxClock
  /\ clock' = clock + 1
  /\ UNCHANGED << job, pc, entered, left, rootVars, latest >>

Terminated == Over /\ UNCHANGED vars

RankStep(r) ==
  \/ SetUp(r) \/ SetUpExits(r) \/ NoGPU(r)
  \/ Bcast(r) \/ EnterBarrier(r) \/ LeaveBarrier(r) \/ StoreFaults(r)
  \/ Finish(r)
  \/ /\ r = 0
     /\ StartClock \/ BeginSample \/ RecordSample \/ Nap \/ EndWait

Next ==
  \/ \E r \in Rank : RankStep(r)
  \/ LauncherEndsJob
  \/ Tick
  \/ Terminated

Spec == Init /\ [][Next]_vars

\* No rank is starved for good, the launcher notices a dead rank, and the
\* clock never stops for good.
FairSpec ==
  /\ Spec
  /\ \A r \in Rank : WF_vars(RankStep(r))
  /\ WF_vars(LauncherEndsJob)
  /\ WF_vars(Tick)

-----------------------------------------------------------------------------

\* Every variable has the type of its C counterpart, and rank 0 stores no
\* more samples than it has room for.
TypeOK ==
  /\ clock \in Nat
  /\ program \in {"mpibarrier", "cudabarrier"}
  /\ accepted \in BOOLEAN
  /\ numsamples \in Nat
  /\ tickinterval \in Nat
  /\ mapped \in [Rank -> BOOLEAN]
  /\ pc \in [Rank -> {"setup", "bcast", "start", "top", "call", "barrier",
                      "wait", "done", "exited", "killed"}]
  /\ entered \in [Rank -> 0 .. numsamples]
  /\ left \in [Rank -> 0 .. numsamples]
  /\ tickend \in Nat
  /\ ticknow \in Nat
  /\ ticklast \in Nat
  /\ samples \in Seq([ticklast : Nat, count : Nat])
  /\ start \in Nat
  /\ latest \in [1 .. numsamples -> Nat]

\* The latency rank 0 records for a barrier covers its wait for the slowest
\* rank: nobody enters barrier s after the recorded end of s.
LatencyCoversSlowest ==
  \A s \in 1 .. Len(samples) :
    latest[s] <= samples[s].ticklast + samples[s].count

\* Barrier s + 1 is not called before interval s, counted from the first
\* clock read, is over, nor before every rank has entered barrier s.
BarriersPaced ==
  \A s \in 1 .. Len(samples) - 1 :
    /\ start + s * tickinterval <= samples[s + 1].ticklast
    /\ samples[s].ticklast + samples[s].count <= samples[s + 1].ticklast
    /\ latest[s] <= samples[s + 1].ticklast

\* Whichever ranks fail, and at whatever point: rank 0 comes to print its table
\* only if all ranks got through their set-up and called every barrier.
TableMeansAllMet ==
  pc[0] = "done" =>
    /\ Len(samples) = numsamples
    /\ \A r \in Rank : entered[r] > 0 /\ entered[r] = numsamples

\* mpibarrier.c: "Only rank 0 does work; all other ranks immediately do the
\* barrier."  Whenever rank 0 is about to call, the others get there by
\* themselves, and all ranks reach MPI_Finalize, or the job is ended.
Finishes == <>Over

=============================================================================
