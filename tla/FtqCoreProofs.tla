--------------------------- MODULE FtqCoreProofs ----------------------------
(***************************************************************************)
(* Proofs about FtqCore for every number of samples, every set of          *)
(* intervals, every quantum cost and every bound on the clock.             *)
(*                                                                         *)
(* None of the invariants of FtqCore is inductive alone: what the finished *)
(* samples satisfy depends on what the open sample satisfies (`Open'), and *)
(* both on where the deadline stands (`Schedule') and on the order of the  *)
(* clock reads (`Reads').  Inv is their conjunction.                       *)
(***************************************************************************)
EXTENDS FtqCore, TLAPS

\* A sample is open only while there is a slot for it.
Pending == pc = "spin" => done < NumSamples

\* Deadlines are computed from the first clock read and never re-anchored.
Schedule ==
  /\ pc = "spin" => tickend = Deadline(done)
  /\ pc # "spin" => tickend = start + done * tickinterval

\* The clock reads of the open sample are in order.
Reads ==
  /\ start <= clock
  /\ pc = "spin" => start <= ticklast /\ ticklast <= ticknow /\ ticknow <= clock
  /\ \A k \in Recorded : ended[k] <= clock
  /\ pc = "spin" => \A k \in Recorded : ended[k] <= ticklast

\* The work of the open sample.
Open ==
  pc = "spin" =>
    /\ count = 0 => ticknow = ticklast
    /\ count > 0 => /\ ticklast < tickend
                    /\ ticklast + (count - 1) * WorkCost < tickend
    /\ ticklast + count * WorkCost <= ticknow

Finished == ScheduleKept /\ SamplesOrdered /\ IdleIffLate /\ WorkFitsWindow

Inv == TypeOK /\ Pending /\ Schedule /\ Reads /\ Open /\ Finished

USE NumSamplesAssumption, IntervalsAssumption, WorkCostAssumption,
    BoundAssumption
USE DEF MoreSamples, NextDeadline, Expired, Quantum, OpenSample, NewTotal

-----------------------------------------------------------------------------

\* Window k + 1 ends one interval after window k.
LEMMA DeadlineStep ==
  ASSUME NEW s \in Nat, NEW i \in Nat, NEW k \in Nat
  PROVE  /\ s + (k + 1) * i \in Nat
         /\ s + k * i \in Nat
         /\ s + k * i + i = s + (k + 1) * i
  OBVIOUS

\* One more quantum costs WorkCost more ticks.
LEMMA CostStep ==
  ASSUME NEW c \in Nat
  PROVE  /\ c * WorkCost \in Nat
         /\ (c + 1) * WorkCost = c * WorkCost + WorkCost
  OBVIOUS

LEMMA InvInit == Init => Inv
  BY DEF Init, Inv, TypeOK, Pending, Schedule, Reads, Open, Finished,
         ScheduleKept, SamplesOrdered, IdleIffLate, WorkFitsWindow, Deadline,
         Recorded, Slots, ZeroSample

\* Nothing that was recorded changes while a step leaves these alone.
LEMMA FinishedStable ==
  ASSUME Finished,
         UNCHANGED << done, samples, ended, start, tickinterval >>
  PROVE  Finished'
  BY DEF Finished, ScheduleKept, SamplesOrdered, IdleIffLate, WorkFitsWindow,
         Deadline, Recorded

LEMMA BeginSampleInv == Inv /\ BeginSample => Inv'
<1> SUFFICES ASSUME Inv, BeginSample PROVE Inv'
  OBVIOUS
<1> USE DEF Inv
<1>1. TypeOK'
  BY DEF TypeOK, BeginSample
<1>2. Pending'
  BY DEF Pending, BeginSample
<1>3. Schedule'
  <2>1. tickend = start + done * tickinterval
    BY DEF Schedule, BeginSample
  <2>2. start + done * tickinterval + tickinterval
          = start + (done + 1) * tickinterval
    BY DeadlineStep DEF TypeOK
  <2>3. QED
    BY <2>1, <2>2 DEF Schedule, BeginSample, Deadline
<1>4. Reads'
  BY DEF Reads, BeginSample, Recorded, TypeOK
<1>5. Open'
  BY DEF Open, BeginSample, TypeOK
<1>6. Finished'
  BY FinishedStable DEF BeginSample
<1>7. QED
  BY <1>1, <1>2, <1>3, <1>4, <1>5, <1>6

LEMMA DoQuantumInv == Inv /\ DoQuantum => Inv'
<1> SUFFICES ASSUME Inv, DoQuantum PROVE Inv'
  OBVIOUS
<1> USE DEF Inv
<1>1. count' = count + 1
  BY DEF DoQuantum, ITERCOUNT, TypeOK
<1>2. TypeOK'
  BY <1>1 DEF TypeOK, DoQuantum
<1>3. Pending' /\ Schedule'
  BY DEF Pending, Schedule, Deadline, DoQuantum
<1>4. Reads'
  BY DEF Reads, DoQuantum, Recorded, TypeOK
<1>5. Open'
  <2>1. (count + 1) * WorkCost = count * WorkCost + WorkCost
    BY CostStep DEF TypeOK
  <2>2. ticklast + count * WorkCost < tickend
    BY CostStep DEF Open, DoQuantum, TypeOK
  <2>3. QED
    BY <1>1, <2>1, <2>2, CostStep DEF Open, DoQuantum, TypeOK, Reads
<1>6. Finished'
  BY FinishedStable DEF DoQuantum
<1>7. QED
  BY <1>2, <1>3, <1>4, <1>5, <1>6

\* The step that records: sample `done' is legal because the open sample was.
LEMMA EndSampleInv == Inv /\ EndSample => Inv'
<1> SUFFICES ASSUME Inv, EndSample PROVE Inv'
  OBVIOUS
<1> USE DEF Inv
<1>1. /\ done \in Slots
      /\ done' = done + 1
      /\ Recorded' = Recorded \cup {done}
      /\ done \notin Recorded
  BY DEF Pending, EndSample, TypeOK, Slots, Recorded
<1>2. /\ samples'[done] = [ticklast |-> ticklast, count |-> count]
      /\ ended'[done] = ticknow
      /\ \A k \in Recorded : samples'[k] = samples[k] /\ ended'[k] = ended[k]
  BY <1>1 DEF EndSample, TypeOK, Slots, Recorded
<1>3. TypeOK'
  BY <1>1 DEF TypeOK, EndSample, Slots
<1>4. Pending' /\ Open'
  BY DEF Pending, Open, EndSample
<1>5. Schedule'
  BY <1>1 DEF Schedule, Deadline, EndSample
<1>6. Reads'
  BY <1>1, <1>2 DEF Reads, EndSample, TypeOK
<1>7. \A k \in Nat : Deadline(k)' = Deadline(k)
  BY DEF Deadline, EndSample
<1>8. done \in Nat /\ Recorded \subseteq Nat
  BY DEF TypeOK, Recorded
<1>9. tickend = Deadline(done) /\ tickend \in Nat /\ tickend <= ticknow
  BY DEF Schedule, EndSample, TypeOK
<1>10. ScheduleKept'
  BY <1>1, <1>2, <1>7, <1>8, <1>9 DEF Finished, ScheduleKept
<1>11. SamplesOrdered'
  <2>1. start + done * tickinterval <= ticklast
    <3>1. CASE done = 0
      BY <3>1 DEF Reads, EndSample, TypeOK
    <3>2. CASE done # 0
      <4>1. done - 1 \in Recorded /\ done - 1 + 1 = done
        BY <3>2, <1>8 DEF Recorded
      <4>2. Deadline(done - 1) <= ended[done - 1]
        BY <4>1 DEF Finished, ScheduleKept
      <4>3. ended[done - 1] <= ticklast
        BY <4>1 DEF Reads, EndSample
      <4>4. Deadline(done - 1) = start + done * tickinterval
        BY <4>1 DEF Deadline
      <4>5. start + done * tickinterval \in Nat
        BY <1>8, DeadlineStep DEF TypeOK
      <4>6. ended[done - 1] \in Nat /\ ticklast \in Nat
        BY <4>1, <1>1 DEF TypeOK, Slots, Recorded
      <4>7. QED
        BY <4>2, <4>3, <4>4, <4>5, <4>6
    <3>3. QED
      BY <3>1, <3>2
  <2>2. ticklast <= ticknow /\ \A j \in Recorded : ended[j] <= ticklast
    BY DEF Reads, EndSample
  <2>3. \A k \in Recorded : \A j \in 0 .. k - 1 : j \in Recorded
    BY <1>8 DEF Recorded
  <2>4. /\ start' = start
        /\ tickinterval' = tickinterval
    BY DEF EndSample
  <2>5. ASSUME NEW k \in Recorded
        PROVE  /\ start + k * tickinterval <= samples'[k].ticklast
               /\ samples'[k].ticklast <= ended'[k]
               /\ \A j \in 0 .. k - 1 : ended'[j] <= samples'[k].ticklast
    BY <1>2, <2>3 DEF Finished, SamplesOrdered
  <2>6. /\ start + done * tickinterval <= samples'[done].ticklast
        /\ samples'[done].ticklast <= ended'[done]
        /\ \A j \in 0 .. done - 1 : ended'[j] <= samples'[done].ticklast
    BY <1>2, <2>1, <2>2 DEF Recorded
  <2>7. QED
    BY <1>1, <2>4, <2>5, <2>6 DEF SamplesOrdered
<1>12. IdleIffLate'
  <2>1. count = 0 <=> Deadline(done) <= ticklast
    BY <1>9 DEF Open, EndSample, TypeOK
  <2>2. QED
    BY <1>1, <1>2, <1>7, <1>8, <2>1 DEF Finished, IdleIffLate
<1>13. WorkFitsWindow'
  <2>1. /\ ticklast + count * WorkCost <= ticknow
        /\ count > 0 => ticklast + (count - 1) * WorkCost < Deadline(done)
    BY <1>9 DEF Open, EndSample
  <2>2. QED
    BY <1>1, <1>2, <1>7, <1>8, <2>1 DEF Finished, WorkFitsWindow
<1>14. QED
  BY <1>3, <1>4, <1>5, <1>6, <1>10, <1>11, <1>12, <1>13 DEF Finished

LEMMA ReturnInv == Inv /\ Return => Inv'
<1> SUFFICES ASSUME Inv, Return PROVE Inv'
  OBVIOUS
<1> USE DEF Inv
<1>1. TypeOK'
  BY DEF TypeOK, Return
<1>2. Pending' /\ Schedule' /\ Reads' /\ Open'
  BY DEF Pending, Schedule, Reads, Open, Return, Recorded
<1>3. QED
  BY <1>1, <1>2, FinishedStable DEF Return

LEMMA TickInv == Inv /\ Tick => Inv'
<1> SUFFICES ASSUME Inv, Tick PROVE Inv'
  OBVIOUS
<1> USE DEF Inv
<1>1. TypeOK'
  BY DEF TypeOK, Tick
<1>2. Pending' /\ Schedule' /\ Open'
  BY DEF Pending, Schedule, Open, Deadline, Tick
<1>3. Reads'
  BY DEF TypeOK, Reads, Tick, Recorded, Slots
<1>4. QED
  BY <1>1, <1>2, <1>3, FinishedStable DEF Tick

\* The strengthened invariant holds throughout.
LEMMA InvHolds == Spec => []Inv
<1>1. Inv /\ [Next]_vars => Inv'
  <2>1. Inv /\ UNCHANGED vars => Inv'
    BY DEF vars, Inv, TypeOK, Pending, Schedule, Reads, Open, Finished,
           ScheduleKept, SamplesOrdered, IdleIffLate, WorkFitsWindow,
           Deadline, Recorded
  <2>2. QED
    BY <2>1, BeginSampleInv, DoQuantumInv, EndSampleInv, ReturnInv, TickInv
       DEF Next, Thread, Terminated
<1>2. QED
  BY <1>1, InvInit, PTL DEF Spec

-----------------------------------------------------------------------------

\* Type correctness of main_loops; in particular done never passes
\* numsamples, so no store leaves the array.
THEOREM TypeCorrect == Spec => []TypeOK
BY InvHolds, PTL DEF Inv

\* However the thread is preempted, sample k never ends before window k, and
\* windows are counted from the first clock read (ftqcore.c:36-42).
THEOREM ScheduleIsKept == Spec => []ScheduleKept
<1>1. Inv => ScheduleKept
  BY DEF Inv, Finished
<1>2. QED
  BY <1>1, InvHolds, PTL

\* The samples lie on one time axis, without overlap and each at or after
\* the beginning of its window (ftqcore.c:40-50).
THEOREM SamplesAreOrdered == Spec => []SamplesOrdered
<1>1. Inv => SamplesOrdered
  BY DEF Inv, Finished
<1>2. QED
  BY <1>1, InvHolds, PTL

\* A sample records no work exactly when its window had closed before it
\* began (ftqcore.c:39-51).
THEOREM IdleMeansLate == Spec => []IdleIffLate
<1>1. Inv => IdleIffLate
  BY DEF Inv, Finished
<1>2. QED
  BY <1>1, InvHolds, PTL

\* Every window swallowed by an earlier sample is recorded as empty, so the
\* series is back on its schedule after any overrun (README.txt:82).
THEOREM CatchesUp == Spec => []LostWindowsAreZero
<1>1. Inv => LostWindowsAreZero
  <2> SUFFICES ASSUME Inv, NEW k \in Recorded, NEW j \in 0 .. k - 1,
                      Deadline(k) <= ended[j]
               PROVE  samples[k].count = 0
    BY DEF LostWindowsAreZero
  <2>1. k \in Slots /\ j \in Slots /\ k \in Nat
    BY DEF Inv, TypeOK, Recorded, Slots
  <2>2. ended[j] <= samples[k].ticklast
    BY DEF Inv, Finished, SamplesOrdered
  <2>3. Deadline(k) \in Nat /\ ended[j] \in Nat /\ samples[k].ticklast \in Nat
    BY <2>1, DeadlineStep DEF Inv, TypeOK, Deadline
  <2>4. Deadline(k) <= samples[k].ticklast
    BY <2>2, <2>3
  <2>5. QED
    BY <2>4 DEF Inv, Finished, IdleIffLate
<1>2. QED
  BY <1>1, InvHolds, PTL

\* No sample claims more work than the time between its clock reads allows
\* (ftqcore.c:42-51).
THEOREM WorkIsBounded == Spec => []WorkFitsWindow
<1>1. Inv => WorkFitsWindow
  BY DEF Inv, Finished
<1>2. QED
  BY <1>1, InvHolds, PTL

-----------------------------------------------------------------------------

\* The loop implements the abstract series: EndSample is its Record, every
\* other step leaves the series alone.
THEOREM SeriesRefinement == Spec => ImplementsSeries
<1> DEFINE S == [k \in Slots |-> [begin |-> samples[k].ticklast,
                                  end |-> ended[k],
                                  work |-> samples[k].count]]
<1>1. Init => Series!Init
  BY DEF Init, Series!Init, Series!Index, Series!NoSample, Slots, ZeroSample
<1>2. Inv /\ [Next]_vars => [Series!Record]_(Series!vars)
  <2> SUFFICES ASSUME Inv, [Next]_vars
               PROVE  [Series!Record]_(Series!vars)
    OBVIOUS
  <2>1. CASE EndSample
    <3>1. /\ done \in Slots
          /\ done \in Nat
          /\ done < NumSamples
          /\ done' = done + 1
      BY <2>1 DEF Inv, Pending, EndSample, TypeOK, Slots
    <3>2. /\ S' = [S EXCEPT ![done] = S'[done]]
          /\ S'[done] = [begin |-> ticklast, end |-> ticknow, work |-> count]
      BY <2>1, <3>1 DEF EndSample, Inv, TypeOK
    <3>3. Series!Earliest(done) <= ticklast
      <4>1. CASE done = 0
        BY <2>1, <4>1 DEF Series!Earliest, Inv, Reads, EndSample
      <4>2. CASE done # 0
        <5>1. done - 1 \in Recorded /\ done - 1 \in Slots
          BY <3>1, <4>2 DEF Recorded, Slots
        <5>2. Series!Earliest(done) = ended[done - 1]
          BY <4>2, <5>1 DEF Series!Earliest
        <5>3. QED
          BY <2>1, <5>1, <5>2 DEF Inv, Reads, EndSample
      <4>3. QED
        BY <4>1, <4>2
    <3>4. Series!Deadline(done) = tickend
      BY <2>1 DEF Series!Deadline, Inv, Schedule, Deadline, EndSample
    <3>5. Series!Legal(done, S'[done])
      <4>1. S'[done] \in Series!Sample
        BY <3>2 DEF Series!Sample, Inv, TypeOK
      <4>2. /\ ticklast <= ticknow
            /\ tickend <= ticknow
            /\ ticklast + count * WorkCost <= ticknow
            /\ count = 0 <=> tickend <= ticklast
        BY <2>1 DEF Inv, Reads, Open, EndSample, TypeOK
      <4>3. QED
        BY <3>2, <3>3, <3>4, <4>1, <4>2 DEF Series!Legal
    <3>6. start' = start /\ tickinterval' = tickinterval
      BY <2>1 DEF EndSample
    <3>7. QED
      BY <3>1, <3>2, <3>5, <3>6 DEF Series!Record
  <2>2. CASE BeginSample \/ DoQuantum \/ Return \/ Tick \/ UNCHANGED vars
    BY <2>2 DEF BeginSample, DoQuantum, Return, Tick, vars, Series!vars
  <2>3. QED
    BY <2>1, <2>2 DEF Next, Thread, Terminated
<1>3. QED
  BY <1>1, <1>2, InvHolds, PTL DEF Spec, ImplementsSeries, Series!Spec

=============================================================================
