------------------------------ MODULE FtqCore -------------------------------
(***************************************************************************)
(* main_loops of ftqcore.c: one thread samples how many fixed work quanta  *)
(* it completes in each window of `tickinterval' ticks, while the clock    *)
(* runs on by itself.  A preemption of the thread is nothing but many Tick *)
(* steps between two steps of the thread.                                  *)
(*                                                                         *)
(* One step of the thread spans the code between two reads of the clock.   *)
(* Ticks are ideal here (no wrap of the 64-bit counter within a run).      *)
(* `start' and `ended' are history variables; everything else is a local   *)
(* or an argument of main_loops.  The offset argument is modelled in Ftq,  *)
(* where several threads share one array.                                  *)
(***************************************************************************)
EXTENDS Naturals

CONSTANTS
  NumSamples,  \* the argument numsamples
  Intervals,   \* the values the argument tickinterval may have
  WorkCost,    \* least number of ticks between two clock reads of the loop
  MaxStart,    \* bound: the clock when main_loops is called
  MaxClock     \* bound: the clock stops there

ASSUME NumSamplesAssumption == NumSamples \in Nat
ASSUME IntervalsAssumption == Intervals \subseteq Nat
ASSUME WorkCostAssumption == WorkCost \in Nat
ASSUME BoundAssumption == MaxStart \in Nat /\ MaxClock \in Nat

ITERCOUNT == 32

VARIABLES
  clock,         \* what getticks() returns now
  tickinterval,
  pc,            \* "top": loop test of line 38; "spin": loop of line 42
  done,
  tickend,
  ticknow,
  ticklast,
  count,
  samples,
  total,         \* total_count
  start,         \* history: the value tickend was initialised with
  ended          \* history: the clock read that ended each sample

vars == << clock, tickinterval, pc, done, tickend, ticknow, ticklast, count,
           samples, total, start, ended >>

Slots == 0 .. NumSamples - 1

\* The array is zeroed before the call (ftq.c, memset).
ZeroSample == [ticklast |-> 0, count |-> 0]

\* The call: tickend starts at the present tick.
Init ==
  /\ clock \in 0 .. MaxStart
  /\ tickinterval \in Intervals
  /\ pc = "top"
  /\ done = 0
  /\ tickend = clock
  /\ ticknow = 0
  /\ ticklast = 0
  /\ count = 0
  /\ samples = [k \in Slots |-> ZeroSample]
  /\ total = 0
  /\ start = clock
  /\ ended = [k \in Slots |-> 0]

\* Mutant of MoreSamples: the loop bound is off by one.
MoreSamplesInclusive == done <= NumSamples

MoreSamples == done < NumSamples

\* Mutant of NextDeadline: the deadline is taken from the present time, so
\* that the schedule drifts.
NextDeadlineFromNow == clock + tickinterval

\* One interval after the previous DEADLINE, whatever the time is now.
NextDeadline == tickend + tickinterval

BeginSample ==
  /\ pc = "top"
  /\ MoreSamples
  /\ pc' = "spin"
  /\ count' = 0
  /\ tickend' = NextDeadline
  /\ ticknow' = clock
  /\ ticklast' = clock
  /\ UNCHANGED << clock, tickinterval, done, samples, total, start, ended >>

\* Mutant of Expired: the deadline is tested one tick early.
ExpiredEarly == tickend <= ticknow + 1

\* Mutant of Expired: the loop stops only on the very tick of the deadline.
ExpiredExactly == tickend = ticknow

Expired == tickend <= ticknow

\* Mutant of Quantum: the second loop decrements once too few.
QuantumOfTwo == ITERCOUNT - (ITERCOUNT - 2)

\* What the two inner loops add to count: 32 increments, 31 decrements.
Quantum == ITERCOUNT - (ITERCOUNT - 1)

\* One work quantum, then the clock is read again.
DoQuantum ==
  /\ pc = "spin"
  /\ ~Expired
  /\ ticknow + WorkCost <= clock
  /\ count' = count + Quantum
  /\ ticknow' = clock
  /\ UNCHANGED << clock, tickinterval, pc, done, tickend, ticklast, samples,
                  total, start, ended >>

\* Mutant of OpenSample: the last clock read is stored instead of the first.
OpenSampleEndTime == [ticklast |-> ticknow, count |-> count]

OpenSample == [ticklast |-> ticklast, count |-> count]

NewTotal == total + count

\* The deadline has passed: the sample is stored.
EndSample ==
  /\ pc = "spin"
  /\ Expired
  /\ samples' = [samples EXCEPT ![done] = OpenSample]
  /\ ended' = [ended EXCEPT ![done] = ticknow]
  /\ total' = NewTotal
  /\ done' = done + 1
  /\ pc' = "top"
  /\ UNCHANGED << clock, tickinterval, tickend, ticknow, ticklast, count,
                  start >>

Return ==
  /\ pc = "top"
  /\ ~MoreSamples
  /\ pc' = "returned"
  /\ UNCHANGED << clock, tickinterval, done, tickend, ticknow, ticklast,
                  count, samples, total, start, ended >>

\* Time passes.
Tick ==
  /\ pc # "returned"
  /\ clock < MaxClock
  /\ clock' = clock + 1
  /\ UNCHANGED << tickinterval, pc, done, tickend, ticknow, ticklast, count,
                  samples, total, start, ended >>

\* The caller has its result; nothing happens any more.
Terminated == pc = "returned" /\ UNCHANGED vars

Thread == BeginSample \/ DoQuantum \/ EndSample \/ Return

Next == Thread \/ Tick \/ Terminated

Spec == Init /\ [][Next]_vars

\* The clock never stops for good and the operating system never starves the
\* thread for good.
FairSpec == Spec /\ WF_vars(Thread) /\ WF_vars(Tick)

-----------------------------------------------------------------------------

\* Every variable has the type of its C counterpart.
TypeOK ==
  /\ clock \in Nat
  /\ tickinterval \in Nat
  /\ pc \in {"top", "spin", "returned"}
  /\ done \in 0 .. NumSamples
  /\ tickend \in Nat
  /\ ticknow \in Nat
  /\ ticklast \in Nat
  /\ count \in Nat
  /\ samples \in [Slots -> [ticklast : Nat, count : Nat]]
  /\ total \in Nat
  /\ start \in Nat
  /\ ended \in [Slots -> Nat]

Recorded == 0 .. done - 1

Deadline(k) == start + (k + 1) * tickinterval

\* No sample is cut short: sample k ends at or after the end of window k,
\* counted from the first clock read and not from the sample before.
ScheduleKept == \A k \in Recorded : Deadline(k) <= ended[k]

\* The recorded time axis is one: a sample begins no earlier than its window
\* and no earlier than the end of the sample before it.
SamplesOrdered ==
  \A k \in Recorded :
    /\ start + k * tickinterval <= samples[k].ticklast
    /\ samples[k].ticklast <= ended[k]
    /\ \A j \in 0 .. k - 1 : ended[j] <= samples[k].ticklast

\* A zero count means one thing only: the sample began after its own window
\* had closed.  Lateness is never passed on to a sample that begins in time.
IdleIffLate ==
  \A k \in Recorded :
    samples[k].count = 0 <=> Deadline(k) <= samples[k].ticklast

\* Catching up (README.txt, "shrinking subsequent samples"): every window
\* that an earlier sample swallowed whole is recorded with no work.
LostWindowsAreZero ==
  \A k \in Recorded : \A j \in 0 .. k - 1 :
    Deadline(k) <= ended[j] => samples[k].count = 0

\* A sample claims no more work than fits between its two clock reads, and
\* begins its last quantum before the window closes.
WorkFitsWindow ==
  \A k \in Recorded :
    /\ samples[k].ticklast + samples[k].count * WorkCost <= ended[k]
    /\ samples[k].count > 0 =>
         samples[k].ticklast + (samples[k].count - 1) * WorkCost < Deadline(k)

\* README.txt, section 3, of the first column of the output: "corresponding
\* to the end times for each of the 1000 samples executed".
RecordedTimeIsEnd == \A k \in Recorded : samples[k].ticklast = ended[k]

\* However the thread is preempted, main_loops returns.
Returns == <>(pc = "returned")

\* The loop implements the series that README.txt promises.
Series == INSTANCE SampleSeries WITH
  QuantumTicks <- WorkCost,
  origin <- start,
  interval <- tickinterval,
  taken <- done,
  series <- [k \in Slots |-> [begin |-> samples[k].ticklast,
                              end |-> ended[k],
                              work |-> samples[k].count]]

ImplementsSeries == Series!Spec

=============================================================================
