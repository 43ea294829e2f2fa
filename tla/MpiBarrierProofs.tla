-------------------------- MODULE MpiBarrierProofs --------------------------
(***************************************************************************)
(* What MpiBarrier promises holds for every number of ranks and samples,   *)
(* every interval and every bound of the clock.                            *)
(***************************************************************************)
EXTENDS MpiBarrier, SequenceTheorems, TLAPS

Gone == {"exited", "killed"}

\* Where a rank stands is told by its two counters.
Phases ==
  \A r \in Rank :
    /\ pc[r] = "barrier" => entered[r] = left[r] + 1
    /\ pc[r] # "barrier" /\ pc[r] \notin Gone => entered[r] = left[r]
    /\ entered[r] \in left[r] .. left[r] + 1
    /\ r # 0 => pc[r] \notin {"start", "call", "wait"}
    /\ pc[r] \in {"call", "barrier"} => left[r] < numsamples
    /\ pc[r] # "setup" /\ pc[r] \notin Gone => 0 < numsamples
    /\ pc[r] = "done" => left[r] = numsamples

\* Nobody has left a barrier that somebody has yet to enter.
Meets == \A r \in Rank : \A q \in Rank : left[r] <= entered[q]

\* One sample per barrier, each over by now and no earlier than the last
\* rank's entry.
Recorded ==
  /\ pc[0] \notin Gone => Len(samples) = left[0]
  /\ Len(samples) <= left[0]
  /\ \A s \in 1 .. Len(samples) :
       /\ samples[s].ticklast + samples[s].count <= clock
       /\ latest[s] <= samples[s].ticklast + samples[s].count

Calling == pc[0] \in {"call", "barrier"}

Beginning == pc[0] \in {"setup", "bcast", "start"}

\* The deadlines are those of the schedule, and rank 0 calls after the last.
Paced ==
  /\ Beginning => left[0] = 0
  /\ ~Beginning /\ pc[0] \notin Gone =>
       tickend = start + (IF Calling THEN left[0] + 1 ELSE left[0])
                         * tickinterval
  /\ pc[0] = "top" => tickend <= clock
  /\ ticknow <= clock /\ ticklast <= clock
  /\ \A n \in 1 .. numsamples : latest[n] <= clock
  /\ Calling =>
       /\ start + left[0] * tickinterval <= ticklast
       /\ \A s \in 1 .. Len(samples) :
            samples[s].ticklast + samples[s].count <= ticklast

Inv == TypeOK /\ Phases /\ Meets /\ Recorded /\ Paced /\ BarriersPaced

USE SizeAssumption, SamplesAssumption, IntervalsAssumption, BoundAssumption
    DEF Gone, job, config

LEMMA ClampedCounts == \A n \in Requests : Clamped(n) \in Nat
BY DEF Clamped

LEMMA RootIsRank == 0 \in Rank
BY DEF Rank

LEMMA InitInv == Init => Inv
<1> SUFFICES ASSUME Init PROVE Inv
  OBVIOUS
<1> USE RootIsRank DEF Init
<1>1. samples \in Seq([ticklast : Nat, count : Nat]) /\ Len(samples) = 0
  OBVIOUS
<1>2. TypeOK
  BY <1>1 DEF TypeOK
<1>3. Phases /\ Meets
  BY DEF Phases, Meets
<1>4. Recorded /\ Paced /\ BarriersPaced
  BY <1>1 DEF Recorded, Paced, Beginning, Calling, BarriersPaced
<1> QED
  BY <1>2, <1>3, <1>4 DEF Inv

\* However a rank or the job dies, nothing changes but where some ranks are.
Death ==
  \/ \E r \in Rank : SetUpExits(r) \/ NoGPU(r) \/ StoreFaults(r)
  \/ LauncherEndsJob

LEMMA DeathFacts ==
  ASSUME TypeOK, Death
  PROVE  /\ pc' \in [Rank -> {"setup", "bcast", "start", "top", "call",
                              "barrier", "wait", "done", "exited", "killed"}]
         /\ \A q \in Rank : pc'[q] = pc[q] \/ pc'[q] \in Gone
         /\ UNCHANGED << clock, program, accepted, numsamples, tickinterval,
                         mapped, entered, left, tickend, ticknow, ticklast,
                         samples, start, latest >>
<1> USE DEF TypeOK, Gone, rootVars
<1>1. ASSUME NEW r \in Rank, SetUpExits(r) \/ StoreFaults(r)
      PROVE  /\ pc' = [pc EXCEPT ![r] = "exited"]
             /\ UNCHANGED << clock, job, entered, left, rootVars, latest >>
  BY <1>1 DEF SetUpExits, StoreFaults, Goto
<1>2. ASSUME NEW r \in Rank, NoGPU(r)
      PROVE  EndJob
             /\ UNCHANGED << clock, job, entered, left, rootVars, latest >>
  BY <1>2 DEF NoGPU
<1>3. CASE LauncherEndsJob
  BY <1>3 DEF LauncherEndsJob, EndJob
<1> QED
  BY <1>1, <1>2, <1>3 DEF Death, EndJob

\* An entered barrier is one there is room for.
LEMMA EnteredBounded ==
  ASSUME TypeOK, Phases, NEW r \in Rank, MoreSamples(r),
         pc[r] \in {"top", "call"}
  PROVE  entered[r] = left[r] /\ entered[r] + 1 \in 1 .. numsamples
<1>1. entered[r] = left[r]
  BY DEF Phases
<1>2. left[r] \in 0 .. numsamples /\ left[r] < numsamples /\ numsamples \in Nat
  BY DEF TypeOK, MoreSamples
<1> QED
  BY <1>1, <1>2

LEMMA TypeStep == Inv /\ [Next]_vars => TypeOK'
<1> SUFFICES ASSUME Inv, [Next]_vars PROVE TypeOK'
  OBVIOUS
<1> USE RootIsRank DEF Inv, TypeOK
<1>1. ASSUME NEW r \in Rank, Bcast(r) PROVE TypeOK'
  BY <1>1 DEF Bcast, Goto, rootVars
<1>2. ASSUME NEW r \in Rank, EnterBarrier(r) PROVE TypeOK'
  <2>1. entered[r] + 1 \in 1 .. numsamples
    BY <1>2, EnteredBounded DEF EnterBarrier, Goto
  <2>2. entered' \in [Rank -> 0 .. numsamples]
    BY <1>2, <2>1 DEF EnterBarrier
  <2>3. latest' \in [1 .. numsamples -> Nat]
    BY <1>2, <2>1 DEF EnterBarrier
  <2> QED
    BY <1>2, <2>2, <2>3 DEF EnterBarrier, Goto, rootVars
<1>3. ASSUME NEW r \in Rank, LeaveBarrier(r) PROVE TypeOK'
  <2>1. left[r] + 1 \in 0 .. numsamples
    BY <1>3 DEF LeaveBarrier, Goto, Phases
  <2>2. left' \in [Rank -> 0 .. numsamples]
    BY <1>3, <2>1 DEF LeaveBarrier
  <2> QED
    BY <1>3, <2>2 DEF LeaveBarrier, Goto, rootVars
<1>4. ASSUME NEW r \in Rank, Finish(r) PROVE TypeOK'
  BY <1>4 DEF Finish, Goto, rootVars
<1>5. CASE StartClock
  BY <1>5 DEF StartClock, Goto
<1>6. CASE BeginSample
  BY <1>6 DEF BeginSample, Goto
<1>7. CASE RecordSample
  <2>1. left[0] + 1 \in 0 .. numsamples
    BY <1>7 DEF RecordSample, Goto, Phases
  <2>2. left' \in [Rank -> 0 .. numsamples]
    BY <1>7, <2>1 DEF RecordSample
  <2>3. Latency \in Nat
    BY DEF Latency, Paced
  <2>4. samples' \in Seq([ticklast : Nat, count : Nat])
    BY <1>7, <2>3 DEF RecordSample
  <2> QED
    BY <1>7, <2>2, <2>4 DEF RecordSample, Goto
<1>8. CASE Nap
  BY <1>8 DEF Nap
<1>9. CASE EndWait
  BY <1>9 DEF EndWait, Goto, rootVars
<1>10. CASE Tick
  BY <1>10 DEF Tick, rootVars
<1>11. CASE UNCHANGED vars
  BY <1>11 DEF vars, rootVars
<1>12. CASE Death
  BY <1>12, DeathFacts
<1>13. ASSUME NEW r \in Rank, SetUp(r) PROVE TypeOK'
  <2>1. tickinterval' \in Nat
    BY <1>13 DEF SetUp
  <2>2. mapped' \in [Rank -> BOOLEAN] /\ numsamples' = numsamples
    BY <1>13 DEF SetUp, config
  <2> QED
    BY <1>13, <2>1, <2>2 DEF SetUp, Goto, rootVars, config
<1> QED
  BY <1>12, <1>13, <1>1, <1>2, <1>3, <1>4, <1>5, <1>6, <1>7, <1>8, <1>9,
  <1>10, <1>11
  DEF Next, RankStep, Terminated, Death

LEMMA PhasesStep == Inv /\ [Next]_vars => Phases'
<1> SUFFICES ASSUME Inv, [Next]_vars PROVE Phases'
  OBVIOUS
<1> USE RootIsRank DEF Inv, TypeOK, Phases, Gone
<1>1. ASSUME NEW r \in Rank, Bcast(r) PROVE Phases'
  BY <1>1 DEF Bcast, Goto
<1>2. ASSUME NEW r \in Rank, EnterBarrier(r) PROVE Phases'
  BY <1>2 DEF EnterBarrier, Goto, MoreSamples
<1>3. ASSUME NEW r \in Rank, LeaveBarrier(r) PROVE Phases'
  BY <1>3 DEF LeaveBarrier, Goto
<1>4. ASSUME NEW r \in Rank, Finish(r) PROVE Phases'
  BY <1>4 DEF Finish, Goto, MoreSamples
<1>5. CASE StartClock
  BY <1>5 DEF StartClock, Goto
<1>6. CASE BeginSample
  BY <1>6 DEF BeginSample, Goto, MoreSamples
<1>7. CASE RecordSample
  BY <1>7 DEF RecordSample, Goto
<1>8. CASE EndWait
  BY <1>8 DEF EndWait, Goto
<1>10. ASSUME NEW r \in Rank, SetUp(r) PROVE Phases'
  BY <1>10 DEF SetUp, Goto, SamplesMappable, config
<1>11. CASE Death
  BY <1>11, DeathFacts DEF Gone
<1>9. CASE Nap \/ Tick \/ UNCHANGED vars
  BY <1>9 DEF Nap, Tick, vars
<1> QED
  BY <1>1, <1>2, <1>3, <1>4, <1>5, <1>6, <1>7, <1>8, <1>9,
     <1>10, <1>11
  DEF Next, RankStep, Terminated, Death

LEMMA MeetsStep == Inv /\ [Next]_vars => Meets'
<1> SUFFICES ASSUME Inv, [Next]_vars PROVE Meets'
  OBVIOUS
<1> USE RootIsRank DEF Inv, TypeOK, Meets
<1>1. ASSUME NEW r \in Rank, EnterBarrier(r) PROVE Meets'
  BY <1>1 DEF EnterBarrier
<1>2. ASSUME NEW r \in Rank, LeaveBarrier(r) PROVE Meets'
  BY <1>2 DEF LeaveBarrier, Goto, AllEntered, Phases
<1>3. CASE RecordSample
  BY <1>3 DEF RecordSample, Goto, AllEntered, Phases
<1>4. ASSUME UNCHANGED << entered, left >> PROVE Meets'
  BY <1>4
<1>5. CASE Death
  BY <1>5, DeathFacts
<1> QED
  BY <1>1, <1>2, <1>3, <1>4, <1>5
  DEF Death, SetUp, SetUpExits, NoGPU, StoreFaults, LauncherEndsJob,
      Next, RankStep, Terminated, Bcast, Finish, StartClock, BeginSample, Nap,
      EndWait, Tick, vars

LEMMA SampleTyped ==
  ASSUME TypeOK
  PROVE  /\ Len(samples) \in Nat
         /\ \A s \in 1 .. Len(samples) :
              samples[s].ticklast \in Nat /\ samples[s].count \in Nat
<1>1. samples \in Seq([ticklast : Nat, count : Nat])
  BY DEF TypeOK
<1>2. \A s \in 1 .. Len(samples) :
        samples[s] \in [ticklast : Nat, count : Nat]
  BY <1>1, ElementOfSeq
<1> QED
  BY <1>1, <1>2

LEMMA StillPast ==
  ASSUME NEW a \in Nat, NEW b \in Nat, NEW c \in Nat, a + b <= c
  PROVE  a + b <= c + 1
OBVIOUS

LEMMA RecordedStep == Inv /\ [Next]_vars => Recorded'
<1> SUFFICES ASSUME Inv, [Next]_vars PROVE Recorded'
  OBVIOUS
<1> USE RootIsRank DEF Inv, TypeOK, Recorded
<1>0. Len(samples) \in Nat
  BY SampleTyped
<1>1. ASSUME NEW r \in Rank, EnterBarrier(r) PROVE Recorded'
  <2>1. entered[r] + 1 \notin 1 .. Len(samples)
    BY DEF Meets
  <2>2. \A s \in 1 .. Len(samples) : latest'[s] = latest[s]
    BY <1>1, <2>1 DEF EnterBarrier
  <2> QED
    BY <1>0, <1>1, <2>2 DEF EnterBarrier, Goto, rootVars
<1>2. ASSUME NEW r \in Rank, LeaveBarrier(r) PROVE Recorded'
  BY <1>0, <1>2 DEF LeaveBarrier, Goto, rootVars
<1>3. CASE RecordSample
  <2> DEFINE new == [ticklast |-> ticklast, count |-> Latency]
  <2>1. Latency \in Nat /\ new.ticklast + new.count = clock
    BY DEF Latency, Paced
  <2>2. Len(samples') = left'[0]
    <3>1. Len(samples) = left[0] /\ left'[0] = left[0] + 1
      BY <1>3 DEF RecordSample, Goto
    <3>2. Len(samples') = Len(samples) + 1
      BY <1>3, <2>1 DEF RecordSample
    <3> QED
      BY <3>1, <3>2
  <2>3. \A s \in 1 .. Len(samples') :
          samples'[s] = IF s = Len(samples) + 1 THEN new ELSE samples[s]
    BY <1>3, <2>1 DEF RecordSample
  <2>4. left[0] + 1 \in 1 .. numsamples /\ Len(samples) = left[0]
    BY <1>3 DEF RecordSample, Goto, Phases
  <2>5. latest[left[0] + 1] <= clock
    BY <2>4 DEF Paced
  <2>6. clock' = clock /\ latest' = latest
    BY <1>3 DEF RecordSample
  <2>7. Len(samples') = Len(samples) + 1
    BY <1>3, <2>1 DEF RecordSample
  <2>8. ASSUME NEW s \in 1 .. Len(samples')
        PROVE  /\ samples'[s].ticklast + samples'[s].count <= clock
               /\ latest[s] <= samples'[s].ticklast + samples'[s].count
    <3>1. CASE s = Len(samples) + 1
      <4>1. samples'[s] = new /\ s = left[0] + 1
        BY <3>1, <2>3, <2>4, <2>7
      <4> QED
        <5> HIDE DEF new
        <5>1. new.ticklast + new.count = clock
          BY <2>1
        <5>2. clock \in Nat /\ latest[left[0] + 1] <= clock
          BY <2>5
        <5> QED
          BY <4>1, <5>1, <5>2
    <3>2. CASE s \in 1 .. Len(samples)
      <4>1. Len(samples) \in Nat /\ s # Len(samples) + 1
        BY <3>2, SampleTyped
      <4>2. samples'[s] = samples[s]
        BY <2>3, <4>1
      <4>3. /\ samples[s].ticklast + samples[s].count <= clock
            /\ latest[s] <= samples[s].ticklast + samples[s].count
        BY <3>2
      <4> QED
        BY <4>2, <4>3
    <3> QED
      BY <3>1, <3>2, <2>7, SampleTyped
  <2> QED
    BY <2>2, <2>6, <2>8
<1>4. CASE Tick
  <2>1. clock' = clock + 1 /\ UNCHANGED << pc, left, samples, latest >>
    BY <1>4 DEF Tick, rootVars
  <2>2. ASSUME NEW s \in 1 .. Len(samples)
        PROVE  samples[s].ticklast + samples[s].count <= clock + 1
    <3>1. samples[s].ticklast \in Nat /\ samples[s].count \in Nat
      BY SampleTyped
    <3>2. clock \in Nat /\ samples[s].ticklast + samples[s].count <= clock
      OBVIOUS
    <3> QED
      BY <3>1, <3>2, StillPast
  <2> QED
    BY <2>1, <2>2
<1>6. CASE Death
  BY <1>6, DeathFacts
<1>7. ASSUME NEW r \in Rank, SetUp(r) PROVE Recorded'
  BY <1>7 DEF SetUp, Goto, rootVars
<1>5. ASSUME UNCHANGED << clock, left, samples, latest >>,
             pc[0] \in Gone => pc'[0] \in Gone
      PROVE  Recorded'
  BY <1>5
<1> QED
  BY <1>1, <1>2, <1>3, <1>4, <1>5, <1>6, <1>7
  DEF Death, Next, RankStep, Terminated, Bcast,
      Finish, StartClock, BeginSample, Nap,
      EndWait, Goto, vars, rootVars

LEMMA NextDeadline ==
  ASSUME NEW n \in Nat, NEW d \in Nat
  PROVE  (n + 1) * d = n * d + d /\ n * d \in Nat
OBVIOUS

LEMMA PacedStep == Inv /\ [Next]_vars => Paced'
<1> SUFFICES ASSUME Inv, [Next]_vars PROVE Paced'
  OBVIOUS
<1> USE RootIsRank DEF Inv, TypeOK, Paced, Calling, Beginning
<1>1. ASSUME NEW r \in Rank, Bcast(r) PROVE Paced'
  BY <1>1 DEF Bcast, Goto, rootVars, Phases
<1>2. ASSUME NEW r \in Rank, EnterBarrier(r) PROVE Paced'
  <2>1. \A n \in 1 .. numsamples : latest'[n] <= clock
    <3>1. latest' = [latest EXCEPT ![entered[r] + 1] = clock]
      BY <1>2 DEF EnterBarrier
    <3>2. /\ latest \in [1 .. numsamples -> Nat] /\ clock \in Nat
          /\ \A n \in 1 .. numsamples : latest[n] <= clock
      OBVIOUS
    <3> QED
      BY <3>1, <3>2
  <2>2. pc'[0] = IF r = 0 THEN "barrier" ELSE pc[0]
    BY <1>2 DEF EnterBarrier, Goto
  <2>3. r = 0 => pc[0] = "call"
    BY <1>2 DEF EnterBarrier, Goto
  <2> QED
    BY <1>2, <2>1, <2>2, <2>3 DEF EnterBarrier, rootVars
<1>3. ASSUME NEW r \in Rank, LeaveBarrier(r) PROVE Paced'
  BY <1>3 DEF LeaveBarrier, Goto, rootVars
<1>4. ASSUME NEW r \in Rank, Finish(r) PROVE Paced'
  BY <1>4 DEF Finish, Goto, rootVars
<1>5. CASE StartClock
  <2>1. 0 * tickinterval = 0
    OBVIOUS
  <2> QED
    BY <1>5, <2>1 DEF StartClock, Goto
<1>6. CASE BeginSample
  <2>1. (left[0] + 1) * tickinterval = left[0] * tickinterval + tickinterval
    BY NextDeadline
  <2>2. left[0] * tickinterval \in Nat
    BY NextDeadline
  <2>3. tickend = start + left[0] * tickinterval /\ tickend <= clock
    BY <1>6 DEF BeginSample, Goto
  <2>4. tickend' = start + (left[0] + 1) * tickinterval
    BY <1>6, <2>1, <2>2, <2>3 DEF BeginSample
  <2>5. \A s \in 1 .. Len(samples) :
          samples[s].ticklast + samples[s].count <= clock
    BY DEF Recorded
  <2> QED
    BY <1>6, <2>3, <2>4, <2>5 DEF BeginSample, Goto
<1>7. CASE RecordSample
  BY <1>7 DEF RecordSample, Goto
<1>8. CASE Nap
  BY <1>8 DEF Nap
<1>9. CASE EndWait
  BY <1>9 DEF EndWait, Goto, rootVars, Expired
<1>10. CASE Tick
  <2>1. clock' = clock + 1
    BY <1>10 DEF Tick
  <2>2. tickend <= clock => tickend <= clock'
    BY <2>1
  <2>3. ticknow <= clock' /\ ticklast <= clock'
    BY <2>1
  <2>4. \A n \in 1 .. numsamples : latest[n] <= clock'
    BY <2>1
  <2> QED
    BY <1>10, <2>2, <2>3, <2>4 DEF Tick, rootVars
<1>11. CASE UNCHANGED vars
  BY <1>11 DEF vars, rootVars
<1>12. CASE Death
  BY <1>12, DeathFacts DEF Gone
<1>13. ASSUME NEW r \in Rank, SetUp(r) PROVE Paced'
  BY <1>13 DEF SetUp, Goto, rootVars, config, Gone
<1> QED
  BY <1>12, <1>13, <1>1, <1>2, <1>3, <1>4, <1>5, <1>6, <1>7, <1>8, <1>9,
  <1>10, <1>11
  DEF Next, RankStep, Terminated, Death

\* RecordSample appends one sample.
LEMMA RecordFacts ==
  ASSUME Inv, RecordSample
  PROVE  /\ Len(samples) \in Nat /\ Len(samples') = Len(samples) + 1
         /\ \A s \in 1 .. Len(samples) : samples'[s] = samples[s]
         /\ samples'[Len(samples) + 1]
              = [ticklast |-> ticklast, count |-> Latency]
<1> DEFINE new == [ticklast |-> ticklast, count |-> Latency]
           Samples == [ticklast : Nat, count : Nat]
<1>1. new \in Samples
  BY RootIsRank DEF Inv, TypeOK, Latency, Paced
<1>2. samples \in Seq(Samples) /\ samples' = Append(samples, new)
  BY DEF Inv, TypeOK, RecordSample
<1> HIDE DEF new, Samples
<1>3. /\ Len(samples) \in Nat /\ Len(samples') = Len(samples) + 1
      /\ \A s \in 1 .. Len(samples) : samples'[s] = samples[s]
      /\ samples'[Len(samples) + 1] = new
  BY <1>1, <1>2, AppendProperties
<1> QED
  BY <1>3 DEF new

LEMMA BarriersPacedStep == Inv /\ [Next]_vars => BarriersPaced'
<1> SUFFICES ASSUME Inv, [Next]_vars PROVE BarriersPaced'
  OBVIOUS
<1> USE RootIsRank DEF Inv, TypeOK, BarriersPaced
<1>1. ASSUME NEW r \in Rank, EnterBarrier(r) PROVE BarriersPaced'
  <2>1. entered[r] + 1 \notin 1 .. Len(samples)
    BY DEF Meets, Recorded
  <2>2. \A s \in 1 .. Len(samples) : latest'[s] = latest[s]
    BY <1>1, <2>1 DEF EnterBarrier
  <2>3. Len(samples) \in Nat
    BY SampleTyped
  <2>4. UNCHANGED << start, tickinterval, samples >>
    BY <1>1 DEF EnterBarrier, rootVars
  <2>5. ASSUME NEW s \in 1 .. Len(samples) - 1 PROVE latest'[s] = latest[s]
    <3>1. s \in 1 .. Len(samples)
      BY <2>3
    <3> QED
      BY <2>2, <3>1
  <2> QED
    BY <2>4, <2>5
<1>2. CASE RecordSample
  <2> DEFINE n == Len(samples)
             new == [ticklast |-> ticklast, count |-> Latency]
  <2>1. /\ n \in Nat /\ Len(samples') = n + 1
        /\ \A s \in 1 .. n : samples'[s] = samples[s]
        /\ samples'[n + 1] = new
    BY <1>2, RecordFacts
  <2>4. pc[0] = "barrier" /\ n = left[0]
    BY <1>2 DEF RecordSample, Goto, Recorded
  <2>5. UNCHANGED << start, tickinterval, latest >>
    BY <1>2 DEF RecordSample
  <2>6. ASSUME NEW s \in 1 .. n
        PROVE  /\ start + s * tickinterval <= samples'[s + 1].ticklast
               /\ samples'[s].ticklast + samples'[s].count
                    <= samples'[s + 1].ticklast
               /\ latest[s] <= samples'[s + 1].ticklast
    <3>1. CASE s = n
      <4>1. start + n * tickinterval <= ticklast
        BY <2>4 DEF Paced, Calling
      <4>2. /\ samples[n].ticklast + samples[n].count <= ticklast
            /\ latest[n] <= samples[n].ticklast + samples[n].count
        BY <2>4, <3>1 DEF Paced, Calling, Recorded
      <4>3. samples'[n] = samples[n] /\ samples'[n + 1].ticklast = ticklast
        BY <2>1, <3>1
      <4>4. samples[n].ticklast \in Nat /\ samples[n].count \in Nat
        BY <3>1, SampleTyped
      <4>5. latest[n] \in Nat
        BY <2>4, <3>1
      <4>6. latest[n] <= ticklast
        BY <4>2, <4>4, <4>5
      <4> QED
        BY <3>1, <4>1, <4>2, <4>3, <4>6
    <3>2. CASE s \in 1 .. n - 1
      <4>1. samples'[s] = samples[s] /\ samples'[s + 1] = samples[s + 1]
        BY <2>1, <3>2
      <4> QED
        BY <3>2, <4>1
    <3> QED
      BY <3>1, <3>2
  <2>7. Len(samples') - 1 = n
    <3> HIDE DEF n
    <3> QED
      BY <2>1
  <2> QED
    BY <2>5, <2>6, <2>7
<1>3. CASE StartClock
  BY <1>3 DEF StartClock, Goto, Paced, Beginning, Recorded
<1>5. CASE Death
  BY <1>5, DeathFacts
<1>6. ASSUME NEW r \in Rank, SetUp(r) PROVE BarriersPaced'
  <2>1. r # 0 => UNCHANGED << start, tickinterval, samples, latest >>
    BY <1>6 DEF SetUp, rootVars
  <2>2. r = 0 => Len(samples') = 0
    BY <1>6 DEF SetUp, Goto, Paced, Beginning, Recorded, rootVars
  <2>3. CASE r = 0
    BY <2>2, <2>3
  <2>4. CASE r # 0
    BY <2>1, <2>4
  <2> QED
    BY <2>3, <2>4
<1>4. ASSUME UNCHANGED << start, tickinterval, samples, latest >>
      PROVE  BarriersPaced'
  BY <1>4
<1> QED
  BY <1>1, <1>2, <1>3, <1>4, <1>5, <1>6
  DEF Death, Next, RankStep, Terminated, Bcast,
  LeaveBarrier, Finish, BeginSample,
      Nap, EndWait, Tick, vars, rootVars

\* The strengthening holds in every reachable state.
THEOREM Invariance == Spec => []Inv
<1>1. Inv /\ [Next]_vars => Inv'
  BY TypeStep, PhasesStep, MeetsStep, RecordedStep, PacedStep,
     BarriersPacedStep
  DEF Inv
<1> QED
  BY InitInv, <1>1, PTL DEF Spec

\* Every variable keeps its type, and no rank passes more barriers than there
\* are samples.
THEOREM TypeCorrect == Spec => []TypeOK
<1>1. Inv => TypeOK
  BY DEF Inv
<1> QED
  BY Invariance, <1>1, PTL

\* The recorded latency of a barrier covers the entry of its slowest rank.
THEOREM LatencyIsComplete == Spec => []LatencyCoversSlowest
<1>1. Inv => LatencyCoversSlowest
  BY DEF Inv, Recorded, LatencyCoversSlowest
<1> QED
  BY Invariance, <1>1, PTL

\* Rank 0 calls no barrier before its interval begins, nor before the barrier
\* before it is over for every rank.
THEOREM BarriersArePaced == Spec => []BarriersPaced
<1>1. Inv => BarriersPaced
  BY DEF Inv
<1> QED
  BY Invariance, <1>1, PTL

\* Rank 0 prints only what every rank took part in, whichever ranks fail.
THEOREM TableIsComplete == Spec => []TableMeansAllMet
<1>1. ASSUME Inv PROVE TableMeansAllMet
  <2> SUFFICES ASSUME pc[0] = "done"
               PROVE  /\ Len(samples) = numsamples
                      /\ \A r \in Rank : entered[r] > 0
                                         /\ entered[r] = numsamples
    BY DEF TableMeansAllMet
  <2> USE <1>1, RootIsRank DEF Inv, TypeOK
  <2>1. left[0] = numsamples /\ 0 < numsamples
    BY DEF Phases
  <2>2. Len(samples) = numsamples
    BY <2>1 DEF Recorded
  <2>3. \A r \in Rank :
          entered[r] \in 0 .. numsamples /\ numsamples <= entered[r]
    BY <2>1 DEF Meets
  <2> QED
    BY <2>1, <2>2, <2>3
<1> QED
  BY Invariance, <1>1, PTL

=============================================================================
