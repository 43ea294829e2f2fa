------------------------------- MODULE MpiFtq -------------------------------
(***************************************************************************)
(* The program mpiftq (mpiftq.c): every rank sets itself up and samples    *)
(* like main_loops, by its own clock; after each sample all ranks call     *)
(* MPI_Gather, which brings one count of every rank to rank 0.             *)
(*                                                                         *)
(* MPI, as the program uses it: calls on one communicator match in order,  *)
(* the k-th MPI_Gather of a rank with the k-th of rank 0; rank 0 leaves    *)
(* the call when all contributions are there; any other rank may leave as  *)
(* soon as its own is on its way.  MPI_Bcast is alike with the roles       *)
(* exchanged.  When a rank dies the launcher sooner or later ends the job. *)
(* Ranks never compare clock readings, so that one clock read at different *)
(* times stands for the clocks of all.                                     *)
(***************************************************************************)
EXTENDS Integers, Sequences

CONSTANTS
  Size,        \* number of ranks
  Requests,    \* the arguments of -n
  MaxSamples,  \* MAX_SAMPLES
  Intervals,   \* what a rank may compute as ticksperns * interval
  HalfRange,   \* number of values of a 4-byte integer, 2^32
  WorkCost,    \* least number of ticks between two clock reads of the loop
  MaxStart,    \* bound: by then every rank has left MPI_Bcast
  MaxClock     \* bound: the clock stops there

ASSUME SizeAssumption == Size \in Nat \ {0}
ASSUME SamplesAssumption == Requests \subseteq Int /\ MaxSamples \in Nat
\* 2^32 ticks are about a second: -f below 2 on a fast machine is left out.
ASSUME IntervalsAssumption ==
  HalfRange \in Nat \ {0} /\ Intervals \subseteq 0 .. HalfRange - 1
\* The products sample * rank count are computed in an int: 4096 ranks with the
\* default number of samples are left out.
ASSUME TableAssumption == 2 * (MaxSamples * Size) <= HalfRange
ASSUME ClockAssumption ==
  WorkCost \in Nat /\ MaxStart \in Nat /\ MaxClock \in Nat

ITERCOUNT == 32

Rank == 0 .. Size - 1

\* Two halves of 4 bytes, as rank 0 receives and prints them.
Word == [low : Nat, high : Nat]

VARIABLES
  clock,
  neighbour,     \* the int the build places behind the int `count'
  set_realtime,  \* option -r, of no other use in this program
  accepted,      \* is the command line, the same for all, in order
  numsamples,
  mapped,        \* rank 0: is `data' a mapping, or MAP_FAILED
  tickinterval,  \* per rank, like the next six
  pc,
  tickend,
  ticknow,
  ticklast,
  count,
  k,             \* the counter of the inner loops, a global int
  sent,          \* what each rank has given to MPI_Gather, in order
  data,          \* rank 0: the counts received
  stray,         \* history: where counts were stored that is not in data
  times,         \* rank 0: the ticklast of its samples
  start,         \* history: the clock read after MPI_Bcast
  measured       \* history: the samples each rank has measured, in order

config == << neighbour, set_realtime, accepted, numsamples >>

vars == << clock, config, mapped, tickinterval, pc, tickend, ticknow, ticklast,
           count, k, sent, data, stray, times, start, measured >>

Cells == 0 .. Size * numsamples - 1

\* The argument of -n as an unsigned number, which is huge if it was negative,
\* and then clamped.
Clamped(n) == IF n \in 0 .. MaxSamples THEN n ELSE MaxSamples

Init ==
  /\ clock = 0
  /\ neighbour \in {"k", "set_realtime"}
  /\ set_realtime \in {0, 1}
  /\ accepted \in BOOLEAN
  /\ numsamples \in { Clamped(n) : n \in Requests }
  /\ mapped = FALSE
  /\ tickinterval = [r \in Rank |-> 0]
  /\ pc = [r \in Rank |-> "setup"]
  /\ tickend = [r \in Rank |-> 0]
  /\ ticknow = [r \in Rank |-> 0]
  /\ ticklast = [r \in Rank |-> 0]
  /\ count = [r \in Rank |-> 0]
  /\ k = [r \in Rank |-> 0]
  /\ sent = [r \in Rank |-> << >>]
  /\ data = [c \in Cells |-> [low |-> 0, high |-> 0]]
  /\ stray = {}
  /\ times = << >>
  /\ start = [r \in Rank |-> 0]
  /\ measured = [r \in Rank |-> << >>]

Goto(r, from, to) == pc[r] = from /\ pc' = [pc EXCEPT ![r] = to]

-----------------------------------------------------------------------------
(* Set-up, and how a job dies                                              *)

\* Mutant of SamplesMappable: malloc instead of mmap.
SamplesMappableAlways == TRUE

\* mmap refuses an empty mapping.
SamplesMappable == numsamples > 0

loopVars == << tickend, ticknow, ticklast, count, k, sent, data, stray, times,
               start, measured >>

\* Options, calibration, and two mappings.  Nobody looks whether the second
\* one, of `data', was made; only rank 0 has any use for it.
SetUp(r) ==
  /\ accepted
  /\ SamplesMappable
  /\ Goto(r, "setup", "bcast")
  /\ \E t \in Intervals : tickinterval' = [tickinterval EXCEPT ![r] = t]
  /\ IF r = 0 THEN mapped' \in BOOLEAN ELSE UNCHANGED mapped
  /\ UNCHANGED << clock, config, loopVars >>

\* exit(): the options are refused, a clock cannot be read, or `samples'
\* cannot be mapped.
SetUpExits(r) ==
  /\ Goto(r, "setup", "exited")
  /\ UNCHANGED << clock, config, mapped, tickinterval, loopVars >>

\* MPI_Gather stores into the `data' rank 0 does not have.
GatherFaults ==
  /\ ~mapped
  /\ Goto(0, "gather", "faulted")
  /\ UNCHANGED << clock, config, mapped, tickinterval, loopVars >>

\* The launcher notices that a rank has died and ends the others.
LauncherEndsJob ==
  /\ \E r \in Rank : pc[r] \in {"exited", "faulted"}
  /\ pc' = [r \in Rank |-> IF pc[r] = "done" THEN "done" ELSE "killed"]
  /\ UNCHANGED << clock, config, mapped, tickinterval, loopVars >>

-----------------------------------------------------------------------------
(* Sampling and gathering                                                  *)

\* Mutant of Received: every rank keeps its own calibration.
ReceivedNothing(r) == tickinterval[r]

\* MPI_Bcast is told of one MPI_INT: 4 of the 8 bytes of tickinterval.  They
\* are the lower half on a little-endian machine, the only kind modelled.
Received(r) ==
  (tickinterval[r] - (tickinterval[r] % HalfRange))
    + (tickinterval[0] % HalfRange)

Bcast(r) ==
  /\ Goto(r, "bcast", "start")
  /\ r # 0 => pc[0] \notin {"setup", "bcast", "exited"}
  /\ tickinterval' = [tickinterval EXCEPT ![r] = Received(r)]
  /\ UNCHANGED << clock, config, mapped, tickend, ticknow, ticklast, count, k,
                  sent, data, stray, times, start, measured >>

StartClock(r) ==
  /\ Goto(r, "start", "top")
  /\ tickend' = [tickend EXCEPT ![r] = clock]
  /\ start' = [start EXCEPT ![r] = clock]
  /\ UNCHANGED << clock, config, mapped, tickinterval, ticknow, ticklast,
                  count, k, sent, data, stray, times, measured >>

\* The loop counter: a rank has measured as many samples as it has finished,
\* except rank 0 while it waits in MPI_Gather.
Sample(r) == IF r = 0 THEN Len(times) ELSE Len(sent[r])

\* Mutant of MoreSamples: the loop bound is off by one.
MoreSamplesInclusive(r) == Sample(r) <= numsamples

MoreSamples(r) == Sample(r) < numsamples

BeginSample(r) ==
  /\ Goto(r, "top", "spin")
  /\ MoreSamples(r)
  /\ count' = [count EXCEPT ![r] = 0]
  /\ ticknow' = [ticknow EXCEPT ![r] = clock]
  /\ ticklast' = [ticklast EXCEPT ![r] = clock]
  /\ tickend' = [tickend EXCEPT ![r] = @ + tickinterval[r]]
  /\ UNCHANGED << clock, config, mapped, tickinterval, k, sent, data, stray,
                  times, start, measured >>

\* Mutant of Expired: the loop stops only on the very tick of the deadline.
ExpiredExactly(r) == ticknow[r] = tickend[r]

Expired(r) == tickend[r] <= ticknow[r]

DoQuantum(r) ==
  /\ pc[r] = "spin"
  /\ ~Expired(r)
  /\ ticknow[r] + WorkCost <= clock
  /\ count' = [count EXCEPT ![r] = @ + ITERCOUNT - (ITERCOUNT - 1)]
  /\ k' = [k EXCEPT ![r] = ITERCOUNT - 1]
  /\ ticknow' = [ticknow EXCEPT ![r] = clock]
  /\ UNCHANGED << clock, config, mapped, tickinterval, pc, tickend, ticklast,
                  sent, data, stray, times, start, measured >>

\* MPI_Gather is told of one MPI_UNSIGNED_LONG_LONG at &count: the 4 bytes of
\* count and, above them on a little-endian machine, those of its neighbour.
Contribution(r) ==
  [low |-> count[r], high |-> IF neighbour = "k" THEN k[r] ELSE set_realtime]

\* Mutant of AfterContribution: rank 0 does not wait either.
AfterContributionOnward(r) == "top"

\* Only rank 0 is held in MPI_Gather.
AfterContribution(r) == IF r = 0 THEN "gather" ELSE "top"

\* The deadline has passed and the rank calls MPI_Gather.
Contribute(r) ==
  /\ Expired(r)
  /\ Goto(r, "spin", AfterContribution(r))
  /\ sent' = [sent EXCEPT ![r] = Append(@, Contribution(r))]
  /\ measured' = [measured EXCEPT ![r] =
       Append(@, [begin |-> ticklast[r], end |-> ticknow[r],
                  work |-> count[r]])]
  /\ UNCHANGED << clock, config, mapped, tickinterval, tickend, ticknow,
                  ticklast, count, k, data, stray, times, start >>

\* Mutant of RowStart: the rows are not spaced by the number of ranks.
RowStartUnscaled(s) == s

\* What is left of a product in an int, which has 4 bytes and a sign.
AsInt(x) ==
  IF 2 * (x % HalfRange) < HalfRange THEN x % HalfRange
                                     ELSE (x % HalfRange) - HalfRange

\* Where the counts of sample s begin: &data[i*size], of two ints.
RowStart(s) == AsInt(s * Size)

\* Rank 0 leaves MPI_Gather, which has filled row Len(times) of data, and
\* stores its own time.
GatherReturns ==
  /\ mapped
  /\ \A r \in Rank : Len(sent[r]) > Len(times)
  /\ Goto(0, "gather", "top")
  /\ data' = [c \in Cells |->
       LET r == c - RowStart(Len(times))
       IN  IF r \in Rank THEN sent[r][Len(times) + 1] ELSE data[c]]
  /\ stray' = stray \cup ({ RowStart(Len(times)) + r : r \in Rank } \ Cells)
  /\ times' = Append(times, ticklast[0])
  /\ UNCHANGED << clock, config, mapped, tickinterval, tickend, ticknow,
                  ticklast, count, k, sent, start, measured >>

\* The loop is over; rank 0 prints the table.
Finish(r) ==
  /\ Goto(r, "top", "done")
  /\ ~MoreSamples(r)
  /\ UNCHANGED << clock, config, mapped, tickinterval, tickend, ticknow,
                  ticklast, count, k, sent, data, stray, times, start,
                  measured >>

AllStarted == \A r \in Rank : pc[r] \notin {"setup", "bcast", "start"}

Over == \A r \in Rank : pc[r] \in {"done", "killed"}

Tick ==
  /\ ~Over
  /\ clock < IF AllStarted THEN MaxClock ELSE MaxStart
  /\ clock' = clock + 1
  /\ UNCHANGED << config, mapped, tickinterval, pc, tickend, ticknow, ticklast,
                  count, k, sent, data, stray, times, start, measured >>

Terminated == Over /\ UNCHANGED vars

RankStep(r) ==
  \/ SetUp(r) \/ SetUpExits(r)
  \/ Bcast(r) \/ StartClock(r) \/ BeginSample(r) \/ DoQuantum(r)
  \/ Contribute(r) \/ Finish(r)
  \/ r = 0 /\ (GatherReturns \/ GatherFaults)

Next == (\E r \in Rank : RankStep(r)) \/ LauncherEndsJob \/ Tick \/ Terminated

Spec == Init /\ [][Next]_vars

\* No rank is starved for good, the launcher notices a dead rank, and the
\* clock never stops for good.
FairSpec ==
  /\ Spec
  /\ \A r \in Rank : WF_vars(RankStep(r))
  /\ WF_vars(LauncherEndsJob)
  /\ WF_vars(Tick)

-----------------------------------------------------------------------------

\* Every variable has the type of its C counterpart, and no store of
\* MPI_Gather has gone astray.
TypeOK ==
  /\ clock \in Nat
  /\ neighbour \in {"k", "set_realtime"}
  /\ set_realtime \in {0, 1}
  /\ accepted \in BOOLEAN
  /\ numsamples \in 0 .. MaxSamples
  /\ mapped \in BOOLEAN
  /\ tickinterval \in [Rank -> Nat]
  /\ pc \in [Rank -> {"setup", "bcast", "start", "top", "spin", "gather",
                      "done", "exited", "faulted", "killed"}]
  /\ tickend \in [Rank -> Nat]
  /\ ticknow \in [Rank -> Nat]
  /\ ticklast \in [Rank -> Nat]
  /\ count \in [Rank -> Nat]
  /\ k \in [Rank -> 0 .. ITERCOUNT]
  /\ sent \in [Rank -> Seq(Word)]
  /\ data \in [Cells -> Word]
  /\ stray = {}
  /\ times \in Seq(Nat) /\ Len(times) <= numsamples
  /\ start \in [Rank -> Nat]
  /\ measured \in [Rank -> Seq([begin : Nat, end : Nat, work : Nat])]

\* However far the ranks run ahead of rank 0, row s of the table is sample s
\* of every rank: its time is rank 0's, and the low half of each count is
\* what that rank counted in that sample.
RowsMatch ==
  \A s \in 1 .. Len(times) :
    /\ times[s] = measured[0][s].begin
    /\ \A r \in Rank :
         /\ s <= Len(measured[r])
         /\ data[RowStart(s - 1) + r].low = measured[r][s].work

\* The windows of all ranks have the length rank 0 computed, are counted from
\* the first clock read of the rank, and time spent waiting in MPI_Gather is
\* made up for as in main_loops.
WindowsKept ==
  \A r \in Rank : \A s \in 1 .. Len(measured[r]) :
    LET deadline == start[r] + s * tickinterval[0]
        m == measured[r][s]
    IN  /\ deadline <= m.end
        /\ m.work = 0 <=> deadline <= m.begin
        /\ \A q \in 1 .. s - 1 : measured[r][q].end <= m.begin

\* What MPI_Gather does synchronise: rank 0 begins no sample before all ranks
\* have ended the one before.
RootWaitsForAll ==
  \A s \in 2 .. Len(measured[0]) : \A r \in Rank :
    /\ s - 1 <= Len(measured[r])
    /\ measured[r][s - 1].end <= measured[0][s].begin

\* Whichever ranks fail, and at whatever point: rank 0 comes to print its table
\* only if all ranks got through their set-up and measured every sample.
TableMeansAllSampled ==
  pc[0] = "done" =>
    /\ Len(times) = numsamples
    /\ \A r \in Rank : Len(measured[r]) > 0 /\ Len(measured[r]) = numsamples

\* mpiftq.c: "samples: each sample has a timestamp and a work count."
GatheredIsWork ==
  \A s \in 1 .. Len(times) : \A r \in Rank :
    data[RowStart(s - 1) + r] = [low |-> measured[r][s].work, high |-> 0]

\* mpiftq.c: "Computation ends, and starts, on direction from rank 0.  Rank 0
\* starts the nodes, waits for interval end, stops the nodes, gathers the
\* result."  No rank could then end a sample rank 0 has not yet come to.
RankZeroDirects ==
  \A r \in Rank : Len(measured[r]) <= Len(times) + 1

\* Every rank reaches MPI_Finalize, or the job is ended.
Finishes == <>Over

=============================================================================
