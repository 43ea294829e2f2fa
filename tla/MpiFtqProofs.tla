---------------------------- MODULE MpiFtqProofs ----------------------------
(***************************************************************************)
(* What MpiFtq promises holds for every number of ranks and samples, every *)
(* calibration and every bound of the clock.                               *)
(***************************************************************************)
EXTENDS MpiFtq, SequenceTheorems, TLAPS

\* Where a rank is that has not been told of rank 0's interval, or is dead.
Parked == {"setup", "bcast", "exited", "killed"}

\* Nobody gets past MPI_Bcast without rank 0.
Early ==
  pc[0] \in {"setup", "bcast", "exited"} =>
    \A r \in Rank : pc[r] \in Parked /\ Len(measured[r]) = 0

\* A rank has contributed what it has measured, rank 0 has received no more
\* than that, and only rank 0 is ever behind its own contributions.
Counters ==
  /\ \A r \in Rank :
       /\ Len(measured[r]) = Len(sent[r])
       /\ Len(sent[r]) <= numsamples
       /\ Len(times) <= Len(sent[r])
       /\ pc[r] \in {"setup", "bcast", "start"} => Len(sent[r]) = 0
       /\ pc[r] = "spin" => MoreSamples(r)
       /\ pc[r] = "done" => ~MoreSamples(r)
       /\ pc[r] \notin {"setup", "exited", "killed"} => 0 < numsamples
       /\ pc[r] \in {"gather", "faulted"} => r = 0
  /\ pc[0] = "gather" => Len(sent[0]) = Len(times) + 1
  /\ pc[0] \notin {"gather", "faulted", "killed"} => Len(sent[0]) = Len(times)

\* Past MPI_Bcast there is one interval.
Agreed ==
  \A r \in Rank :
    /\ tickinterval[r] \in 0 .. HalfRange - 1
    /\ pc[r] \notin Parked => tickinterval[r] = tickinterval[0]

\* The deadline of rank r after n samples.
DeadlineOf(r, n) == start[r] + n * tickinterval[0]

\* Every rank keeps its own schedule.
Clocks ==
  \A r \in Rank :
    /\ ticklast[r] <= ticknow[r]
    /\ ticknow[r] <= clock
    /\ pc[r] = "spin" =>
         /\ tickend[r] = DeadlineOf(r, Len(measured[r]) + 1)
         /\ count[r] = 0 => ticknow[r] = ticklast[r]
         /\ count[r] > 0 => ticklast[r] < tickend[r]
    /\ pc[r] \in {"top", "gather"} =>
         tickend[r] = DeadlineOf(r, Len(measured[r]))
    /\ \A s \in 1 .. Len(measured[r]) :
         /\ measured[r][s].end <= clock
         /\ pc[r] = "spin" => measured[r][s].end <= ticklast[r]

\* Rank 0 samples after all ranks have ended what it has received.
RootLast ==
  pc[0] = "spin" =>
    \A r \in Rank : \A s \in 1 .. Len(times) :
      measured[r][s].end <= ticklast[0]

\* What is on its way is what was counted.
Payload ==
  \A r \in Rank : \A s \in 1 .. Len(sent[r]) :
    sent[r][s].low = measured[r][s].work

\* What has been received is what was sent.
Table ==
  /\ \A s \in 1 .. Len(times) :
       /\ times[s] = measured[0][s].begin
       /\ \A r \in Rank : data[RowStart(s - 1) + r] = sent[r][s]
  /\ pc[0] = "gather" => measured[0][Len(times) + 1].begin = ticklast[0]

Inv ==
  /\ TypeOK /\ Early /\ Counters /\ Agreed /\ Clocks
  /\ RootLast /\ Payload /\ Table
  /\ WindowsKept /\ RootWaitsForAll

USE SizeAssumption, SamplesAssumption, IntervalsAssumption, ClockAssumption

LEMMA RootIsRank == 0 \in Rank
BY DEF Rank

\* An interval that fits 4 bytes is all in the half that MPI_Bcast sends.
LEMMA FitsHalf ==
  ASSUME NEW t \in 0 .. HalfRange - 1
  PROVE  t % HalfRange = t
OBVIOUS

LEMMA ReceivedIsRoot ==
  ASSUME Agreed, NEW r \in Rank
  PROVE  Received(r) = tickinterval[0]
<1>1. tickinterval[r] \in 0 .. HalfRange - 1
  BY DEF Agreed
<1>2. tickinterval[0] \in 0 .. HalfRange - 1
  BY RootIsRank DEF Agreed
<1>3. tickinterval[r] % HalfRange = tickinterval[r]
  BY <1>1, FitsHalf
<1>4. tickinterval[0] % HalfRange = tickinterval[0]
  BY <1>2, FitsHalf
<1> QED
  BY <1>1, <1>2, <1>3, <1>4 DEF Received

\* Row a ends before row b begins.
LEMMA Rows ==
  ASSUME NEW a \in Nat, NEW b \in Nat, a < b
  PROVE  a * Size \in Nat /\ b * Size \in Nat /\ a * Size + Size <= b * Size
<1>1. PICK d \in Nat : b = a + 1 + d
  OBVIOUS
<1>2. d * Size \in Nat /\ a * Size \in Nat
  OBVIOUS
<1>3. b * Size = a * Size + Size + d * Size
  BY <1>1
<1> QED
  BY <1>2, <1>3

\* The start of a row fits an int.
LEMMA RowStartFits ==
  ASSUME numsamples \in 0 .. MaxSamples, NEW a \in 0 .. numsamples - 1
  PROVE  RowStart(a) = a * Size
<1>1. /\ a * Size \in Nat /\ MaxSamples * Size \in Nat
      /\ a * Size + Size <= MaxSamples * Size
  BY Rows
<1>2. 2 * (a * Size) < HalfRange /\ a * Size \in 0 .. HalfRange - 1
  BY <1>1, TableAssumption
<1>3. (a * Size) % HalfRange = a * Size
  BY <1>2, FitsHalf
<1> QED
  BY <1>2, <1>3 DEF RowStart, AsInt

LEMMA RowInData ==
  ASSUME numsamples \in 0 .. MaxSamples, NEW a \in 0 .. numsamples - 1,
         NEW r \in Rank
  PROVE  RowStart(a) + r \in Cells
<1>1. a * Size \in Nat /\ a * Size + Size <= numsamples * Size
  BY Rows
<1>2. numsamples * Size = Size * numsamples
  OBVIOUS
<1> QED
  BY <1>1, <1>2, RowStartFits DEF Rank, Cells

LEMMA MeasuredTyped ==
  ASSUME TypeOK, NEW r \in Rank
  PROVE  /\ Len(measured[r]) \in Nat
         /\ \A s \in 1 .. Len(measured[r]) :
              /\ measured[r][s].begin \in Nat
              /\ measured[r][s].end \in Nat
              /\ measured[r][s].work \in Nat
<1>1. measured[r] \in Seq([begin : Nat, end : Nat, work : Nat])
  BY DEF TypeOK
<1>2. \A s \in 1 .. Len(measured[r]) :
        measured[r][s] \in [begin : Nat, end : Nat, work : Nat]
  BY <1>1, ElementOfSeq
<1> QED
  BY <1>1, <1>2

LEMMA SentTyped ==
  ASSUME TypeOK, NEW r \in Rank
  PROVE  /\ Len(sent[r]) \in Nat
         /\ \A s \in 1 .. Len(sent[r]) : sent[r][s] \in Word
<1>1. sent[r] \in Seq(Word)
  BY DEF TypeOK
<1> QED
  BY <1>1, ElementOfSeq

LEMMA DeadlineStep ==
  ASSUME NEW d \in Nat, NEW n \in Nat
  PROVE  n * d \in Nat /\ (n + 1) * d = n * d + d
OBVIOUS

LEMMA ClampedCounts == \A n \in Requests : Clamped(n) \in 0 .. MaxSamples
BY DEF Clamped

LEMMA InitInv == Init => Inv
<1> SUFFICES ASSUME Init PROVE Inv
  OBVIOUS
<1> USE RootIsRank DEF Init
<1>1. /\ << >> \in Seq([begin : Nat, end : Nat, work : Nat])
      /\ << >> \in Seq(Word)
      /\ << >> \in Seq(Nat)
      /\ Len(<< >>) = 0
  OBVIOUS
<1>2. tickinterval \in [Rank -> 0 .. HalfRange - 1]
  OBVIOUS
<1>3. tickinterval \in [Rank -> Nat]
  BY <1>2
<1>4. TypeOK
  BY <1>1, <1>3, ClampedCounts DEF TypeOK, Word, ITERCOUNT
<1>9. Early
  BY <1>1 DEF Early, Parked
<1>5. Counters
  BY <1>1, ClampedCounts DEF Counters
<1>6. Agreed
  BY <1>2 DEF Agreed
<1>7. Clocks
  BY <1>1 DEF Clocks
<1>8. RootLast /\ Payload /\ Table /\ WindowsKept /\ RootWaitsForAll
  BY <1>1 DEF RootLast, Payload, Table, WindowsKept, RootWaitsForAll
<1> QED
  BY <1>4, <1>5, <1>6, <1>7, <1>8, <1>9 DEF Inv

-----------------------------------------------------------------------------
(* What set-up, death, and the two steps that move data do.                *)

Place == {"setup", "bcast", "start", "top", "spin", "gather", "done", "exited",
          "faulted", "killed"}

\* However a rank or the job dies, nothing changes but where some ranks are.
Death == LauncherEndsJob \/ GatherFaults \/ \E r \in Rank : SetUpExits(r)

LEMMA DeathFacts ==
  ASSUME TypeOK, Death
  PROVE  /\ pc' \in [Rank -> Place]
         /\ \A q \in Rank : \/ pc'[q] = pc[q]
                            \/ pc'[q] = "killed"
                            \/ pc[q] = "setup" /\ pc'[q] = "exited"
                            \/ q = 0 /\ pc[q] = "gather" /\ pc'[q] = "faulted"
         /\ UNCHANGED << clock, neighbour, set_realtime, accepted, numsamples,
                         mapped, tickinterval, tickend, ticknow, ticklast,
                         count, k, sent, data, stray, times, start,
                         measured >>
<1> USE RootIsRank DEF TypeOK, Place, loopVars, config
<1>1. ASSUME NEW r \in Rank, SetUpExits(r)
      PROVE  /\ pc[r] = "setup" /\ pc' = [pc EXCEPT ![r] = "exited"]
             /\ UNCHANGED << clock, config, mapped, tickinterval, loopVars >>
  BY <1>1 DEF SetUpExits, Goto
<1>2. CASE GatherFaults
  BY <1>2 DEF GatherFaults, Goto
<1>3. CASE LauncherEndsJob
  BY <1>3 DEF LauncherEndsJob
<1> QED
  BY <1>1, <1>2, <1>3 DEF Death

LEMMA SetUpFacts ==
  ASSUME TypeOK, NEW r \in Rank, SetUp(r)
  PROVE  /\ 0 < numsamples
         /\ pc[r] = "setup" /\ pc'[r] = "bcast"
         /\ pc' \in [Rank -> Place]
         /\ tickinterval' \in [Rank -> Nat]
         /\ tickinterval'[r] \in Intervals
         /\ \A q \in Rank \ {r} : /\ pc'[q] = pc[q]
                                  /\ tickinterval'[q] = tickinterval[q]
         /\ mapped' \in BOOLEAN
         /\ UNCHANGED << clock, neighbour, set_realtime, accepted, numsamples,
                         tickend, ticknow, ticklast, count, k, sent, data,
                         stray, times, start, measured >>
<1> USE DEF TypeOK, Place, SetUp
<1>1. PICK t \in Intervals : tickinterval' = [tickinterval EXCEPT ![r] = t]
  OBVIOUS
<1>2. t \in Nat
  OBVIOUS
<1>3. 0 < numsamples /\ pc[r] = "setup" /\ pc' = [pc EXCEPT ![r] = "bcast"]
  BY DEF Goto, SamplesMappable
<1> QED
  BY <1>1, <1>2, <1>3 DEF loopVars, config

\* Contribute appends one sample and one contribution, of rank r only.
LEMMA ContributeFacts ==
  ASSUME Inv, NEW r \in Rank, Contribute(r)
  PROVE  LET n == Len(measured[r])
             new == [begin |-> ticklast[r], end |-> ticknow[r],
                     work |-> count[r]]
         IN  /\ n \in Nat /\ Len(sent[r]) = n
             /\ n < numsamples
             /\ r = 0 => n = Len(times)
             /\ Len(measured'[r]) = n + 1 /\ Len(sent'[r]) = n + 1
             /\ \A s \in 1 .. n : /\ measured'[r][s] = measured[r][s]
                                 /\ sent'[r][s] = sent[r][s]
             /\ measured'[r][n + 1] = new
             /\ sent'[r][n + 1].low = new.work
             /\ \A q \in Rank \ {r} : /\ measured'[q] = measured[q]
                                      /\ sent'[q] = sent[q]
             /\ measured' \in [Rank -> Seq([begin : Nat, end : Nat,
                                            work : Nat])]
             /\ sent' \in [Rank -> Seq(Word)]
<1> DEFINE n == Len(measured[r])
           new == [begin |-> ticklast[r], end |-> ticknow[r], work |-> count[r]]
<1> USE DEF Inv
<1>1. n \in Nat /\ Len(sent[r]) = n
  BY MeasuredTyped DEF Counters
<1>2. n < numsamples /\ (r = 0 => n = Len(times))
  BY <1>1, RootIsRank DEF Contribute, Goto, Counters, MoreSamples, Sample
<1>3. new \in [begin : Nat, end : Nat, work : Nat]
  BY DEF TypeOK
<1>4. Contribution(r) \in Word /\ Contribution(r).low = new.work
  <2>1. k[r] \in 0 .. ITERCOUNT /\ count[r] \in Nat
    BY DEF TypeOK
  <2>2. set_realtime \in {0, 1}
    BY DEF TypeOK
  <2>3. k[r] \in Nat /\ set_realtime \in Nat
    BY <2>1, <2>2 DEF ITERCOUNT
  <2> QED
    BY <2>1, <2>3 DEF Contribution, Word
<1>5. measured[r] \in Seq([begin : Nat, end : Nat, work : Nat])
  BY DEF TypeOK
<1>6. sent[r] \in Seq(Word)
  BY DEF TypeOK
<1>7. measured'[r] = Append(measured[r], new)
  BY DEF Contribute, TypeOK
<1>8. sent'[r] = Append(sent[r], Contribution(r))
  BY DEF Contribute, TypeOK
<1>9. \A q \in Rank \ {r} : measured'[q] = measured[q] /\ sent'[q] = sent[q]
  BY DEF Contribute, TypeOK
<1>10. /\ Len(measured'[r]) = n + 1
       /\ measured'[r][n + 1] = new
       /\ \A s \in 1 .. n : measured'[r][s] = measured[r][s]
       /\ measured'[r] \in Seq([begin : Nat, end : Nat, work : Nat])
  <2> HIDE DEF new
  <2> QED
    BY <1>3, <1>5, <1>7, AppendProperties
<1>11. /\ Len(sent'[r]) = n + 1
       /\ sent'[r][n + 1] = Contribution(r)
       /\ \A s \in 1 .. n : sent'[r][s] = sent[r][s]
       /\ sent'[r] \in Seq(Word)
  BY <1>1, <1>4, <1>6, <1>8, AppendProperties
<1>12. measured' \in [Rank -> Seq([begin : Nat, end : Nat, work : Nat])]
  <2>1. DOMAIN measured' = Rank /\ measured' = [q \in Rank |-> measured'[q]]
    BY DEF Contribute, TypeOK
  <2>2. \A q \in Rank :
          measured'[q] \in Seq([begin : Nat, end : Nat, work : Nat])
    BY <1>9, <1>10 DEF TypeOK
  <2> QED
    BY <2>1, <2>2
<1>13. sent' \in [Rank -> Seq(Word)]
  <2>1. sent' = [q \in Rank |-> sent'[q]]
    BY DEF Contribute, TypeOK
  <2>2. \A q \in Rank : sent'[q] \in Seq(Word)
    BY <1>9, <1>11 DEF TypeOK
  <2> QED
    BY <2>1, <2>2
<1> HIDE DEF n, new
<1>14. sent'[r][n + 1].low = new.work
  BY <1>4, <1>11
<1> QED
  BY <1>1, <1>2, <1>9, <1>10, <1>11, <1>12, <1>13, <1>14 DEF n, new

\* GatherReturns adds the row of sample n, and leaves the rows before it.
LEMMA GatherFacts ==
  ASSUME Inv, GatherReturns
  PROVE  LET n == Len(times)
         IN  /\ n \in Nat /\ n < numsamples
             /\ \A r \in Rank : n + 1 <= Len(sent[r])
             /\ Len(sent[0]) = n + 1
             /\ Len(times') = n + 1
             /\ times' \in Seq(Nat)
             /\ \A s \in 1 .. n : times'[s] = times[s]
             /\ times'[n + 1] = measured[0][n + 1].begin
             /\ data' \in [Cells -> Word]
             /\ \A s \in 1 .. n : \A r \in Rank :
                  data'[RowStart(s - 1) + r] = data[RowStart(s - 1) + r]
             /\ \A r \in Rank : data'[RowStart(n) + r] = sent[r][n + 1]
             /\ stray' = {}
<1> DEFINE n == Len(times)
<1> USE RootIsRank DEF Inv
<1>1. n \in Nat /\ times \in Seq(Nat) /\ numsamples \in 0 .. MaxSamples
  BY DEF TypeOK
<1>12. /\ Cells' = Cells /\ numsamples' = numsamples
      /\ pc[0] = "gather" /\ \A r \in Rank : Len(sent[r]) > Len(times)
  BY DEF GatherReturns, Goto, Cells, config
<1>2. /\ \A r \in Rank : n + 1 <= Len(sent[r])
      /\ Len(sent[0]) = n + 1
      /\ n < numsamples
  <2>1. Len(sent[0]) = n + 1 /\ Len(sent[0]) <= numsamples
    BY <1>12 DEF Counters
  <2>2. \A r \in Rank : n + 1 <= Len(sent[r])
    BY <1>1, <1>12, SentTyped
  <2> QED
    BY <1>1, <2>1, <2>2
<1>3. times' = Append(times, ticklast[0]) /\ ticklast[0] \in Nat
  BY DEF GatherReturns, TypeOK
<1>4. /\ Len(times') = n + 1
      /\ times'[n + 1] = ticklast[0]
      /\ \A s \in 1 .. n : times'[s] = times[s]
      /\ times' \in Seq(Nat)
  BY <1>1, <1>3, AppendProperties
<1>5. ticklast[0] = measured[0][n + 1].begin
  BY DEF GatherReturns, Goto, Table
<1>6. RowStart(n) = n * Size /\ n * Size \in Nat
  BY <1>1, <1>2, RowStartFits
<1>7. \A c \in Cells :
        data'[c] = IF c - RowStart(n) \in Rank
                   THEN sent[c - RowStart(n)][n + 1] ELSE data[c]
  BY DEF GatherReturns
<1>8. ASSUME NEW s \in 1 .. n, NEW r \in Rank
      PROVE  data'[RowStart(s - 1) + r] = data[RowStart(s - 1) + r]
  <2>1. s - 1 \in Nat /\ s - 1 < n /\ s - 1 \in 0 .. numsamples - 1
    BY <1>1, <1>2
  <2>2. RowStart(s - 1) \in Nat /\ RowStart(s - 1) + Size <= RowStart(n)
    BY <1>1, <1>6, <2>1, Rows, RowStartFits
  <2> DEFINE c == RowStart(s - 1) + r
  <2>3. c - RowStart(n) \notin Rank
    BY <1>6, <2>2 DEF Rank
  <2>4. c \in Cells
    BY <1>1, <2>1, RowInData
  <2> HIDE DEF n, c
  <2>5. data'[c] = IF c - RowStart(n) \in Rank
                   THEN sent[c - RowStart(n)][n + 1] ELSE data[c]
    BY <1>7, <2>4
  <2>6. data'[c] = data[c]
    BY <2>3, <2>5
  <2> QED
    BY <2>6 DEF c
<1>9. ASSUME NEW r \in Rank
      PROVE  data'[RowStart(n) + r] = sent[r][n + 1]
  <2> DEFINE c == RowStart(n) + r
  <2>1. c \in Cells
    BY <1>1, <1>2, RowInData
  <2>2. c - RowStart(n) = r
    BY <1>6 DEF Rank
  <2> HIDE DEF n, c
  <2>3. data'[c] = IF c - RowStart(n) \in Rank
                   THEN sent[c - RowStart(n)][n + 1] ELSE data[c]
    BY <1>7, <2>1
  <2>4. data'[c] = sent[r][n + 1]
    BY <2>2, <2>3
  <2> QED
    BY <2>4 DEF c
<1>10. data' \in [Cells -> Word]
  <2>1. ASSUME NEW r \in Rank PROVE sent[r][n + 1] \in Word
    BY <1>1, <1>2, SentTyped
  <2>2. \A c \in Cells : data'[c] \in Word
    <3> HIDE DEF n
    <3> QED
      BY <1>7, <2>1 DEF TypeOK
  <2>3. data' = [c \in Cells |-> data'[c]]
    BY DEF GatherReturns
  <2> QED
    BY <2>2, <2>3
<1>13. stray' = {}
  <2>1. \A r \in Rank : RowStart(n) + r \in Cells
    BY <1>1, <1>2, RowInData
  <2>2. stray' = stray \cup ({ RowStart(n) + r : r \in Rank } \ Cells)
    BY DEF GatherReturns
  <2>3. stray = {}
    BY DEF TypeOK
  <2> QED
    BY <2>1, <2>2, <2>3
<1> HIDE DEF n
<1>11. times'[n + 1] = measured[0][n + 1].begin
  BY <1>4, <1>5
<1> QED
  BY <1>1, <1>2, <1>4, <1>8, <1>9, <1>10, <1>11, <1>13 DEF n

-----------------------------------------------------------------------------
(* Every part of the invariant is preserved.                               *)

LEMMA TypeStep == Inv /\ [Next]_vars => TypeOK'
<1> SUFFICES ASSUME Inv, [Next]_vars PROVE TypeOK'
  OBVIOUS
<1> USE RootIsRank DEF Inv
<1>1. ASSUME NEW r \in Rank, Bcast(r) PROVE TypeOK'
  <2>1. tickinterval[0] \in Nat
    BY DEF TypeOK
  <2>2. tickinterval' \in [Rank -> Nat]
    BY <1>1, <2>1, ReceivedIsRoot DEF Bcast, TypeOK
  <2> QED
    BY <1>1, <2>2 DEF Bcast, Goto, TypeOK, config, Cells
<1>2. ASSUME NEW r \in Rank, StartClock(r) PROVE TypeOK'
  BY <1>2 DEF StartClock, Goto, TypeOK, config, Cells
<1>3. ASSUME NEW r \in Rank, BeginSample(r) PROVE TypeOK'
  <2>1. tickend[r] + tickinterval[r] \in Nat
    BY DEF TypeOK
  <2>2. tickend' \in [Rank -> Nat]
    BY <1>3, <2>1 DEF BeginSample, TypeOK
  <2> QED
    BY <1>3, <2>2 DEF BeginSample, Goto, TypeOK, config, Cells
<1>4. ASSUME NEW r \in Rank, DoQuantum(r) PROVE TypeOK'
  <2>1. ITERCOUNT = 32 /\ ITERCOUNT - 1 \in 0 .. ITERCOUNT
    BY DEF ITERCOUNT
  <2>2. k' \in [Rank -> 0 .. ITERCOUNT]
    BY <1>4, <2>1 DEF DoQuantum, TypeOK
  <2>3. count[r] + ITERCOUNT - (ITERCOUNT - 1) \in Nat
    BY <2>1 DEF TypeOK
  <2>4. count' \in [Rank -> Nat]
    BY <1>4, <2>3 DEF DoQuantum, TypeOK
  <2> QED
    BY <1>4, <2>2, <2>4 DEF DoQuantum, TypeOK, config, Cells
<1>5. ASSUME NEW r \in Rank, Contribute(r) PROVE TypeOK'
  <2>1. /\ measured' \in [Rank -> Seq([begin : Nat, end : Nat, work : Nat])]
        /\ sent' \in [Rank -> Seq(Word)]
    BY <1>5, ContributeFacts
  <2>2. pc' \in [Rank -> Place]
    BY <1>5 DEF Contribute, Goto, AfterContribution, TypeOK, Place
  <2> QED
    BY <1>5, <2>1, <2>2 DEF Contribute, TypeOK, config, Cells, Place
<1>6. ASSUME NEW r \in Rank, Finish(r) PROVE TypeOK'
  BY <1>6 DEF Finish, Goto, TypeOK, config, Cells
<1>7. CASE GatherReturns
  <2>1. /\ times' \in Seq(Nat) /\ data' \in [Cells -> Word]
        /\ Len(times) \in Nat /\ Len(times) < numsamples
        /\ Len(times') = Len(times) + 1
        /\ stray' = {}
    BY <1>7, GatherFacts
  <2>2. numsamples \in 0 .. MaxSamples /\ numsamples' = numsamples
    BY <1>7 DEF TypeOK, GatherReturns, config
  <2>3. Len(times') <= numsamples /\ Len(times') <= numsamples'
    BY <2>1, <2>2
  <2>4. pc' \in [Rank -> Place]
    BY <1>7 DEF GatherReturns, Goto, TypeOK, Place
  <2>5. data' \in [Cells' -> Word]
    BY <2>1, <2>2 DEF Cells
  <2> HIDE DEF Inv
  <2>6. TypeOK
    BY DEF Inv
  <2> QED
    BY <1>7, <2>1, <2>2, <2>3, <2>4, <2>5, <2>6
    DEF GatherReturns, TypeOK, config, Place
<1>8. CASE Tick
  BY <1>8 DEF Tick, TypeOK, config, Cells
<1>9. CASE UNCHANGED vars
  BY <1>9 DEF vars, TypeOK, config, Cells
<1>10. CASE Death
  BY <1>10, DeathFacts DEF TypeOK, Cells, Place
<1>11. ASSUME NEW r \in Rank, SetUp(r) PROVE TypeOK'
  BY <1>11, SetUpFacts DEF TypeOK, Cells, Place
<1> QED
  BY <1>1, <1>2, <1>3, <1>4, <1>5, <1>6, <1>7, <1>8, <1>9, <1>10, <1>11
  DEF Next, RankStep, Terminated, Death

LEMMA EarlyStep == Inv /\ [Next]_vars => Early'
<1> SUFFICES ASSUME Inv, [Next]_vars PROVE Early'
  OBVIOUS
<1> USE RootIsRank DEF Inv, Early, Parked
<1>1. ASSUME NEW r \in Rank, Bcast(r) PROVE Early'
  BY <1>1 DEF Bcast, Goto, TypeOK
<1>2. ASSUME NEW r \in Rank, StartClock(r) \/ BeginSample(r) \/ Finish(r)
      PROVE  Early'
  BY <1>2 DEF StartClock, BeginSample, Finish, Goto, TypeOK
<1>3. ASSUME NEW r \in Rank, Contribute(r) PROVE Early'
  <2>1. pc[r] = "spin" /\ pc' = [pc EXCEPT ![r] = AfterContribution(r)]
    BY <1>3 DEF Contribute, Goto
  <2>2. pc[0] \notin {"setup", "bcast", "exited"}
    BY <2>1
  <2>3. pc'[0] \notin {"setup", "bcast", "exited"}
    BY <2>1, <2>2 DEF AfterContribution, TypeOK
  <2> QED
    BY <2>3
<1>4. CASE GatherReturns
  BY <1>4 DEF GatherReturns, Goto, TypeOK
<1>5. CASE Death
  BY <1>5, DeathFacts
<1>6. ASSUME NEW r \in Rank, SetUp(r) PROVE Early'
  BY <1>6, SetUpFacts
<1>7. ASSUME UNCHANGED << pc, measured >> PROVE Early'
  BY <1>7
<1> QED
  BY <1>1, <1>2, <1>3, <1>4, <1>5, <1>6, <1>7
  DEF Next, RankStep, Terminated, Death, DoQuantum, Tick, vars

LEMMA CountersStep == Inv /\ [Next]_vars => Counters'
<1> SUFFICES ASSUME Inv, [Next]_vars PROVE Counters'
  OBVIOUS
<1> USE RootIsRank DEF Inv
<1>0. \A r \in Rank : Len(sent[r]) \in Nat /\ Len(measured[r]) \in Nat
  BY SentTyped, MeasuredTyped
<1>1. ASSUME NEW r \in Rank, Bcast(r) \/ StartClock(r) \/ BeginSample(r)
                             \/ DoQuantum(r) \/ Finish(r)
      PROVE  Counters'
  <2>1. UNCHANGED << sent, times, measured >>
    BY <1>1 DEF Bcast, StartClock, BeginSample, DoQuantum, Finish
  <2>2. /\ \A q \in Rank \ {r} : pc'[q] = pc[q]
        /\ pc[r] \in {"bcast", "start", "top", "spin"}
        /\ pc'[r] \in {"start", "top", "spin", "done"}
        /\ pc'[r] = "spin" => MoreSamples(r)
        /\ pc'[r] = "done" => ~MoreSamples(r)
        /\ pc'[r] = "start" => pc[r] = "bcast"
        /\ numsamples' = numsamples
    BY <1>1 DEF Bcast, StartClock, BeginSample, DoQuantum, Finish, Goto,
                TypeOK, Counters, config
  <2> QED
    BY <2>1, <2>2 DEF Counters, MoreSamples, Sample
<1>2. ASSUME NEW r \in Rank, Contribute(r) PROVE Counters'
  <2>1. times' = times
    BY <1>2 DEF Contribute
  <2>2. /\ pc[r] = "spin" /\ pc'[r] = AfterContribution(r)
        /\ \A q \in Rank \ {r} : pc'[q] = pc[q]
    BY <1>2 DEF Contribute, Goto, TypeOK
  <2>3. /\ Len(sent[r]) < numsamples
        /\ Len(measured'[r]) = Len(sent[r]) + 1
        /\ Len(sent'[r]) = Len(sent[r]) + 1
        /\ \A q \in Rank \ {r} : /\ measured'[q] = measured[q]
                                 /\ sent'[q] = sent[q]
    BY <1>2, ContributeFacts
  <2>4. Len(times) \in Nat
    BY DEF TypeOK
  <2>5. numsamples \in Nat /\ numsamples' = numsamples
    BY <1>2 DEF TypeOK, Contribute, config
  <2>6. ASSUME NEW q \in Rank
        PROVE  /\ Len(measured'[q]) = Len(sent'[q])
               /\ Len(sent'[q]) <= numsamples
               /\ Len(times') <= Len(sent'[q])
               /\ pc'[q] \in {"setup", "bcast", "start"} => Len(sent'[q]) = 0
               /\ pc'[q] = "spin" => MoreSamples(q)'
               /\ pc'[q] = "done" => ~MoreSamples(q)'
               /\ pc'[q] \notin {"setup", "exited", "killed"} => 0 < numsamples
               /\ pc'[q] \in {"gather", "faulted"} => q = 0
    <3>1. CASE q = r
      BY <1>0, <2>1, <2>2, <2>3, <2>4, <2>5, <3>1
      DEF Counters, AfterContribution
    <3>2. CASE q # r
      BY <2>1, <2>2, <2>3, <2>5, <3>2 DEF Counters, MoreSamples, Sample
    <3> QED
      BY <3>1, <3>2
  <2>7. /\ pc'[0] = "gather" => Len(sent'[0]) = Len(times') + 1
        /\ pc'[0] \notin {"gather", "faulted", "killed"} =>
             Len(sent'[0]) = Len(times')
    <3>1. CASE r = 0
      BY <2>1, <2>2, <2>3, <3>1 DEF Counters, AfterContribution
    <3>2. CASE r # 0
      BY <2>1, <2>2, <2>3, <3>2 DEF Counters
    <3> QED
      BY <3>1, <3>2
  <2> QED
    BY <2>5, <2>6, <2>7 DEF Counters
<1>3. CASE GatherReturns
  <2>1. /\ \A r \in Rank : Len(times) + 1 <= Len(sent[r])
        /\ Len(sent[0]) = Len(times) + 1
        /\ Len(times') = Len(times) + 1
    BY <1>3, GatherFacts
  <2>2. /\ pc[0] = "gather" /\ pc'[0] = "top"
        /\ \A q \in Rank \ {0} : pc'[q] = pc[q]
    BY <1>3 DEF GatherReturns, Goto, TypeOK
  <2>3. UNCHANGED << sent, measured, numsamples >>
    BY <1>3 DEF GatherReturns, config
  <2> QED
    BY <2>1, <2>2, <2>3 DEF Counters, MoreSamples, Sample
<1>4. CASE Tick \/ UNCHANGED vars
  BY <1>4 DEF Tick, vars, config, Counters, MoreSamples, Sample
<1>5. CASE Death
  BY <1>5, DeathFacts DEF Counters, MoreSamples, Sample
<1>6. ASSUME NEW r \in Rank, SetUp(r) PROVE Counters'
  BY <1>6, SetUpFacts DEF Counters, MoreSamples, Sample
<1> QED
  BY <1>1, <1>2, <1>3, <1>4, <1>5, <1>6 DEF Next, RankStep, Terminated, Death

LEMMA AgreedStep == Inv /\ [Next]_vars => Agreed'
<1> SUFFICES ASSUME Inv, [Next]_vars PROVE Agreed'
  OBVIOUS
<1> USE RootIsRank DEF Inv
<1>1. ASSUME NEW r \in Rank, Bcast(r) PROVE Agreed'
  <2>1. Received(r) = tickinterval[0]
    BY ReceivedIsRoot
  <2>2. /\ tickinterval'[r] = tickinterval[0]
        /\ \A q \in Rank \ {r} : /\ tickinterval'[q] = tickinterval[q]
                                 /\ pc'[q] = pc[q]
    BY <1>1, <2>1 DEF Bcast, Goto, TypeOK
  <2>3. tickinterval'[0] = tickinterval[0]
    BY <2>2
  <2> QED
    BY <2>2, <2>3 DEF Agreed
<1>2. ASSUME tickinterval' = tickinterval,
             \A r \in Rank : pc[r] \in Parked => pc'[r] \in Parked
      PROVE  Agreed'
  BY <1>2 DEF Agreed
<1>3. ASSUME NEW r \in Rank, StartClock(r) \/ BeginSample(r) \/ DoQuantum(r)
                             \/ Contribute(r) \/ Finish(r)
      PROVE  Agreed'
  BY <1>2, <1>3 DEF StartClock, BeginSample, DoQuantum, Contribute, Finish,
                    Goto, TypeOK, Parked
<1>4. CASE GatherReturns \/ Tick \/ UNCHANGED vars
  BY <1>2, <1>4 DEF GatherReturns, Tick, vars, Goto, TypeOK, Parked
<1>5. CASE Death
  BY <1>2, <1>5, DeathFacts DEF Parked
<1>6. ASSUME NEW r \in Rank, SetUp(r) PROVE Agreed'
  <2>1. CASE r = 0
    BY <1>6, <2>1, SetUpFacts DEF Agreed, Early, Parked
  <2>2. CASE r # 0
    BY <1>6, <2>2, SetUpFacts DEF Agreed, Parked
  <2> QED
    BY <2>1, <2>2
<1> QED
  BY <1>1, <1>3, <1>4, <1>5, <1>6 DEF Next, RankStep, Terminated, Death

\* Nothing the ranks have measured ends in the future.
LEMMA EndsPassed ==
  ASSUME Inv, NEW r \in Rank, NEW s \in 1 .. Len(measured[r])
  PROVE  measured[r][s].end \in Nat /\ measured[r][s].end <= clock
BY MeasuredTyped DEF Inv, Clocks

LEMMA ClocksStep == Inv /\ [Next]_vars => Clocks'
<1> SUFFICES ASSUME Inv, [Next]_vars PROVE Clocks'
  OBVIOUS
<1> USE RootIsRank DEF Inv
<1>0. \A r \in Rank : Len(measured[r]) \in Nat
  BY MeasuredTyped
<1>1. ASSUME NEW r \in Rank, Bcast(r) PROVE Clocks'
  <2>1. tickinterval'[0] = tickinterval[0]
    BY <1>1, ReceivedIsRoot DEF Bcast, TypeOK
  <2>2. pc'[r] = "start" /\ \A q \in Rank \ {r} : pc'[q] = pc[q]
    BY <1>1 DEF Bcast, Goto, TypeOK
  <2>3. UNCHANGED << clock, tickend, ticknow, ticklast, count, start,
                     measured >>
    BY <1>1 DEF Bcast
  <2> QED
    BY <2>1, <2>2, <2>3 DEF Clocks, DeadlineOf
<1>2. ASSUME NEW r \in Rank, StartClock(r) PROVE Clocks'
  <2>1. UNCHANGED << clock, tickinterval, ticknow, ticklast, count, measured >>
    BY <1>2 DEF StartClock
  <2>2. /\ pc'[r] = "top" /\ start'[r] = clock /\ tickend'[r] = clock
        /\ \A q \in Rank \ {r} : /\ pc'[q] = pc[q] /\ start'[q] = start[q]
                                 /\ tickend'[q] = tickend[q]
    BY <1>2 DEF StartClock, Goto, TypeOK
  <2>3. Len(measured[r]) = 0
    BY <1>2 DEF StartClock, Goto, Counters
  <2>4. clock + 0 * tickinterval[0] = clock
    BY DEF TypeOK
  <2> QED
    BY <2>1, <2>2, <2>3, <2>4 DEF Clocks, DeadlineOf
<1>3. ASSUME NEW r \in Rank, BeginSample(r) PROVE Clocks'
  <2>1. UNCHANGED << clock, tickinterval, start, measured >>
    BY <1>3 DEF BeginSample
  <2>2. /\ pc[r] = "top" /\ pc'[r] = "spin" /\ count'[r] = 0
        /\ ticknow'[r] = clock /\ ticklast'[r] = clock
        /\ tickend'[r] = tickend[r] + tickinterval[r]
        /\ \A q \in Rank \ {r} :
             /\ pc'[q] = pc[q] /\ count'[q] = count[q]
             /\ ticknow'[q] = ticknow[q] /\ ticklast'[q] = ticklast[q]
             /\ tickend'[q] = tickend[q]
    BY <1>3 DEF BeginSample, Goto, TypeOK
  <2>3. tickend[r] = DeadlineOf(r, Len(measured[r]))
    BY <2>2 DEF Clocks
  <2>4. tickinterval[r] = tickinterval[0] /\ tickinterval[0] \in Nat
    BY <2>2 DEF Agreed, Parked, TypeOK
  <2>5. DeadlineOf(r, Len(measured[r]) + 1)
          = DeadlineOf(r, Len(measured[r])) + tickinterval[0]
    <3> DEFINE n == Len(measured[r])
               d == tickinterval[0]
    <3>1. n \in Nat /\ d \in Nat /\ start[r] \in Nat
      BY <1>0, <2>4 DEF TypeOK
    <3> HIDE DEF n, d
    <3>2. n * d \in Nat /\ (n + 1) * d = n * d + d
      BY <3>1, DeadlineStep
    <3>3. start[r] + (n + 1) * d = start[r] + n * d + d
      BY <3>1, <3>2
    <3> QED
      BY <3>3 DEF DeadlineOf, n, d
  <2>6. tickend'[r] = DeadlineOf(r, Len(measured[r]) + 1)
    BY <2>2, <2>3, <2>4, <2>5
  <2>7. clock \in Nat
    BY DEF TypeOK
  <2>8. ASSUME NEW q \in Rank
        PROVE  /\ ticklast'[q] <= ticknow'[q]
               /\ ticknow'[q] <= clock'
               /\ pc'[q] = "spin" =>
                    /\ tickend'[q] = DeadlineOf(q, Len(measured[q]) + 1)
                    /\ count'[q] = 0 => ticknow'[q] = ticklast'[q]
                    /\ count'[q] > 0 => ticklast'[q] < tickend'[q]
               /\ pc'[q] \in {"top", "gather"} =>
                    tickend'[q] = DeadlineOf(q, Len(measured[q]))
               /\ \A s \in 1 .. Len(measured[q]) :
                    /\ measured[q][s].end <= clock
                    /\ pc'[q] = "spin" => measured[q][s].end <= ticklast'[q]
    <3>1. CASE q = r
      BY <2>1, <2>2, <2>6, <2>7, <3>1 DEF Clocks
    <3>2. CASE q # r
      BY <2>1, <2>2, <3>2 DEF Clocks
    <3> QED
      BY <3>1, <3>2
  <2> QED
    BY <2>1, <2>8 DEF Clocks, DeadlineOf
<1>4. ASSUME NEW r \in Rank, DoQuantum(r) PROVE Clocks'
  <2>1. UNCHANGED << clock, tickinterval, pc, tickend, ticklast, start,
                     measured >>
    BY <1>4 DEF DoQuantum
  <2>2. /\ clock \in Nat /\ count[r] \in Nat /\ ticknow[r] \in Nat
        /\ ticklast[r] \in Nat /\ tickend[r] \in Nat
    BY DEF TypeOK
  <2>3. pc[r] = "spin" /\ ticknow[r] < tickend[r]
    BY <1>4, <2>2 DEF DoQuantum, Expired
  <2>4. /\ count'[r] = count[r] + ITERCOUNT - (ITERCOUNT - 1)
        /\ ticknow'[r] = clock
        /\ \A q \in Rank \ {r} : /\ count'[q] = count[q]
                                 /\ ticknow'[q] = ticknow[q]
    BY <1>4 DEF DoQuantum, TypeOK
  <2>5. count'[r] > 0 /\ count'[r] # 0
    BY <2>2, <2>4 DEF ITERCOUNT
  <2>6. ticklast[r] < tickend[r] /\ ticklast[r] <= clock
    BY <2>2, <2>3 DEF Clocks
  <2>7. clock <= clock
    BY <2>2
  <2> QED
    BY <2>1, <2>4, <2>5, <2>6, <2>7 DEF Clocks, DeadlineOf
<1>5. ASSUME NEW r \in Rank, Contribute(r) PROVE Clocks'
  <2>1. UNCHANGED << clock, tickinterval, tickend, ticknow, ticklast, count,
                     start >>
    BY <1>5 DEF Contribute
  <2>2. /\ pc[r] = "spin" /\ pc'[r] \in {"top", "gather"}
        /\ \A q \in Rank \ {r} : pc'[q] = pc[q]
    BY <1>5 DEF Contribute, Goto, AfterContribution, TypeOK
  <2>0. measured'[r][Len(measured[r]) + 1]
          = [begin |-> ticklast[r], end |-> ticknow[r], work |-> count[r]]
    BY <1>5, ContributeFacts
  <2>3. /\ Len(measured'[r]) = Len(measured[r]) + 1
        /\ \A s \in 1 .. Len(measured[r]) : measured'[r][s] = measured[r][s]
        /\ measured'[r][Len(measured[r]) + 1].end = ticknow[r]
        /\ \A q \in Rank \ {r} : measured'[q] = measured[q]
    BY <1>5, <2>0, ContributeFacts
  <2>4. \A s \in 1 .. Len(measured'[r]) : measured'[r][s].end <= clock
    BY <1>0, <2>3 DEF Clocks
  <2>5. tickend[r] = DeadlineOf(r, Len(measured'[r]))
    BY <2>2, <2>3 DEF Clocks
  <2>6. pc'[r] # "spin"
    BY <2>2
  <2>7. ASSUME NEW q \in Rank
        PROVE  /\ ticklast[q] <= ticknow[q]
               /\ ticknow[q] <= clock
               /\ pc'[q] = "spin" =>
                    /\ tickend[q] = DeadlineOf(q, Len(measured'[q]) + 1)
                    /\ count[q] = 0 => ticknow[q] = ticklast[q]
                    /\ count[q] > 0 => ticklast[q] < tickend[q]
               /\ pc'[q] \in {"top", "gather"} =>
                    tickend[q] = DeadlineOf(q, Len(measured'[q]))
               /\ \A s \in 1 .. Len(measured'[q]) :
                    /\ measured'[q][s].end <= clock
                    /\ pc'[q] = "spin" => measured'[q][s].end <= ticklast[q]
    <3>1. CASE q = r
      BY <2>4, <2>5, <2>6, <3>1 DEF Clocks
    <3>2. CASE q # r
      BY <2>2, <2>3, <3>2 DEF Clocks
    <3> QED
      BY <3>1, <3>2
  <2> QED
    BY <2>1, <2>7 DEF Clocks, DeadlineOf
<1>6. ASSUME NEW r \in Rank, Finish(r) PROVE Clocks'
  <2>1. UNCHANGED << clock, tickinterval, tickend, ticknow, ticklast, count,
                     start, measured >>
    BY <1>6 DEF Finish
  <2>2. pc'[r] = "done" /\ \A q \in Rank \ {r} : pc'[q] = pc[q]
    BY <1>6 DEF Finish, Goto, TypeOK
  <2> QED
    BY <2>1, <2>2 DEF Clocks, DeadlineOf
<1>7. CASE GatherReturns
  <2>1. UNCHANGED << clock, tickinterval, tickend, ticknow, ticklast, count,
                     start, measured >>
    BY <1>7 DEF GatherReturns
  <2>2. /\ pc[0] = "gather" /\ pc'[0] = "top"
        /\ \A q \in Rank \ {0} : pc'[q] = pc[q]
    BY <1>7 DEF GatherReturns, Goto, TypeOK
  <2> QED
    BY <2>1, <2>2 DEF Clocks, DeadlineOf
<1>8. CASE Tick
  <2>1. /\ clock' = clock + 1 /\ clock \in Nat
        /\ UNCHANGED << tickinterval, pc, tickend, ticknow, ticklast, count,
                        start, measured >>
    BY <1>8 DEF Tick, TypeOK
  <2>2. ASSUME NEW q \in Rank PROVE ticknow[q] <= clock + 1
    <3>1. ticknow[q] \in Nat
      BY DEF TypeOK
    <3>2. ticknow[q] <= clock
      BY DEF Clocks
    <3> QED
      BY <2>1, <3>1, <3>2
  <2>3. \A q \in Rank : \A s \in 1 .. Len(measured[q]) :
          measured[q][s].end <= clock + 1
    BY <2>1, EndsPassed
  <2> QED
    BY <2>1, <2>2, <2>3 DEF Clocks, DeadlineOf
<1>9. CASE UNCHANGED vars
  BY <1>9 DEF vars, Clocks, DeadlineOf
<1>10. CASE Death
  BY <1>10, DeathFacts DEF Clocks, DeadlineOf
<1>11. ASSUME NEW r \in Rank, SetUp(r) PROVE Clocks'
  <2>1. CASE r = 0
    BY <1>11, <2>1, SetUpFacts DEF Clocks, Early, Parked
  <2>2. CASE r # 0
    BY <1>11, <2>2, SetUpFacts DEF Clocks, DeadlineOf
  <2> QED
    BY <2>1, <2>2
<1> QED
  BY <1>1, <1>2, <1>3, <1>4, <1>5, <1>6, <1>7, <1>8, <1>9, <1>10, <1>11
  DEF Next, RankStep, Terminated, Death

\* What rank 0 has received, every rank has measured.
LEMMA ReceivedIsMeasured ==
  ASSUME Inv, NEW r \in Rank
  PROVE  /\ Len(times) \in Nat /\ Len(measured[r]) \in Nat
         /\ Len(times) <= Len(measured[r])
         /\ Len(sent[r]) = Len(measured[r])
<1>1. Len(measured[r]) \in Nat
  BY MeasuredTyped DEF Inv
<1>2. Len(times) \in Nat
  BY DEF Inv, TypeOK
<1> QED
  BY <1>1, <1>2 DEF Inv, Counters

LEMMA RootLastStep == Inv /\ [Next]_vars => RootLast'
<1> SUFFICES ASSUME Inv, [Next]_vars, pc'[0] = "spin"
             PROVE  \A r \in Rank : \A s \in 1 .. Len(times') :
                      measured'[r][s].end <= ticklast'[0]
  BY DEF RootLast
<1> USE RootIsRank DEF Inv
<1>1. ASSUME UNCHANGED << times, measured >>, ticklast'[0] = ticklast[0],
             pc[0] = "spin"
      PROVE  \A r \in Rank : \A s \in 1 .. Len(times') :
               measured'[r][s].end <= ticklast'[0]
  BY <1>1 DEF RootLast
<1>2. ASSUME NEW r \in Rank, Bcast(r) \/ StartClock(r) \/ DoQuantum(r)
                             \/ Finish(r)
      PROVE  /\ UNCHANGED << times, measured >> /\ ticklast'[0] = ticklast[0]
             /\ pc[0] = "spin"
  BY <1>2 DEF Bcast, StartClock, DoQuantum, Finish, Goto, TypeOK
<1>3. CASE BeginSample(0)
  <2>1. ticklast'[0] = clock /\ UNCHANGED << times, measured >>
    BY <1>3 DEF BeginSample, TypeOK
  <2>2. ASSUME NEW r \in Rank, NEW s \in 1 .. Len(times)
        PROVE  measured[r][s].end <= clock
    <3>1. s \in 1 .. Len(measured[r])
      BY ReceivedIsMeasured
    <3> QED
      BY <3>1, EndsPassed
  <2> QED
    BY <2>1, <2>2
<1>4. ASSUME NEW r \in Rank \ {0}, BeginSample(r)
      PROVE  /\ UNCHANGED << times, measured >> /\ ticklast'[0] = ticklast[0]
             /\ pc[0] = "spin"
  BY <1>4 DEF BeginSample, Goto, TypeOK
<1>5. ASSUME NEW r \in Rank, Contribute(r)
      PROVE  \A q \in Rank : \A s \in 1 .. Len(times') :
               measured'[q][s].end <= ticklast'[0]
  <2>1. pc[0] = "spin" /\ UNCHANGED << times, ticklast >>
    BY <1>5 DEF Contribute, Goto, AfterContribution, TypeOK
  <2>2. ASSUME NEW q \in Rank, NEW s \in 1 .. Len(times)
        PROVE  measured'[q][s] = measured[q][s]
    <3>1. s \in 1 .. Len(measured[q])
      BY ReceivedIsMeasured
    <3> QED
      BY <1>5, <3>1, ContributeFacts
  <2> QED
    BY <2>1, <2>2 DEF RootLast
<1>6. ~GatherReturns
  BY DEF GatherReturns, Goto, TypeOK
<1>7. CASE Tick \/ UNCHANGED vars
  BY <1>1, <1>7 DEF Tick, vars
<1>8. CASE Death
  BY <1>1, <1>8, DeathFacts
<1>9. ASSUME NEW r \in Rank, SetUp(r)
      PROVE  /\ UNCHANGED << times, measured >> /\ ticklast'[0] = ticklast[0]
             /\ pc[0] = "spin"
  BY <1>9, SetUpFacts
<1> QED
  BY <1>1, <1>2, <1>3, <1>4, <1>5, <1>6, <1>7, <1>8, <1>9
  DEF Next, RankStep, Terminated, Death

LEMMA PayloadStep == Inv /\ [Next]_vars => Payload'
<1> SUFFICES ASSUME Inv, [Next]_vars PROVE Payload'
  OBVIOUS
<1> USE RootIsRank DEF Inv
<1>1. ASSUME NEW r \in Rank, Contribute(r) PROVE Payload'
  <2> DEFINE n == Len(measured[r])
             new == [begin |-> ticklast[r], end |-> ticknow[r],
                     work |-> count[r]]
  <2>1. /\ n \in Nat /\ Len(sent[r]) = n /\ Len(sent'[r]) = n + 1
        /\ \A s \in 1 .. n : /\ measured'[r][s] = measured[r][s]
                             /\ sent'[r][s] = sent[r][s]
        /\ measured'[r][n + 1] = new
        /\ sent'[r][n + 1].low = new.work
        /\ \A q \in Rank \ {r} : /\ measured'[q] = measured[q]
                                 /\ sent'[q] = sent[q]
    BY <1>1, ContributeFacts
  <2> HIDE DEF n, new
  <2>2. \A s \in 1 .. n : sent[r][s].low = measured[r][s].work
    BY <2>1 DEF Payload
  <2>3. \A s \in 1 .. n + 1 : sent'[r][s].low = measured'[r][s].work
    BY <2>1, <2>2
  <2>4. ASSUME NEW q \in Rank \ {r}, NEW s \in 1 .. Len(sent'[q])
        PROVE  sent'[q][s].low = measured'[q][s].work
    BY <2>1 DEF Payload
  <2>5. ASSUME NEW q \in Rank, NEW s \in 1 .. Len(sent'[q])
        PROVE  sent'[q][s].low = measured'[q][s].work
    <3>1. CASE q = r
      BY <2>1, <2>3, <3>1
    <3> QED
      BY <2>4, <3>1
  <2> QED
    BY <2>5 DEF Payload
<1>2. ASSUME UNCHANGED << sent, measured >> PROVE Payload'
  BY <1>2 DEF Payload
<1> QED
  BY <1>1, <1>2
  DEF Next, RankStep, Terminated, SetUp, SetUpExits, GatherFaults,
      LauncherEndsJob, loopVars, Bcast, StartClock, BeginSample, DoQuantum,
      Finish, GatherReturns, Tick, vars

LEMMA TableStep == Inv /\ [Next]_vars => Table'
<1> SUFFICES ASSUME Inv, [Next]_vars PROVE Table'
  OBVIOUS
<1> USE RootIsRank DEF Inv
<1>1. ASSUME UNCHANGED << times, data, sent, measured >>,
             pc'[0] = "gather" => pc[0] = "gather" /\ ticklast'[0] = ticklast[0]
      PROVE  Table'
  BY <1>1 DEF Table, RowStart
<1>2. ASSUME NEW r \in Rank, Bcast(r) \/ StartClock(r) \/ BeginSample(r)
                             \/ DoQuantum(r) \/ Finish(r)
      PROVE  /\ UNCHANGED << times, data, sent, measured >>
             /\ pc'[0] = "gather" =>
                  pc[0] = "gather" /\ ticklast'[0] = ticklast[0]
  BY <1>2 DEF Bcast, StartClock, BeginSample, DoQuantum, Finish, Goto, TypeOK
<1>3. ASSUME NEW r \in Rank, Contribute(r) PROVE Table'
  <2> DEFINE n == Len(measured[r])
             new == [begin |-> ticklast[r], end |-> ticknow[r],
                     work |-> count[r]]
  <2>1. /\ n \in Nat /\ Len(sent[r]) = n
        /\ r = 0 => n = Len(times)
        /\ \A s \in 1 .. n : /\ measured'[r][s] = measured[r][s]
                             /\ sent'[r][s] = sent[r][s]
        /\ measured'[r][n + 1] = new
        /\ \A q \in Rank \ {r} : /\ measured'[q] = measured[q]
                                 /\ sent'[q] = sent[q]
    BY <1>3, ContributeFacts
  <2>2. new.begin = ticklast[r]
    OBVIOUS
  <2>3. UNCHANGED << times, data, ticklast >>
    BY <1>3 DEF Contribute
  <2>4. r # 0 => pc'[0] = pc[0]
    BY <1>3 DEF Contribute, Goto, TypeOK
  <2> HIDE DEF n, new
  <2>5. pc'[0] = "gather" => measured'[0][Len(times') + 1].begin = ticklast'[0]
    <3>1. CASE r = 0
      BY <2>1, <2>2, <2>3, <3>1
    <3>2. CASE r # 0
      BY <2>1, <2>3, <2>4, <3>2 DEF Table
    <3> QED
      BY <3>1, <3>2
  <2>6. ASSUME NEW q \in Rank, NEW s \in 1 .. Len(times)
        PROVE  measured'[q][s] = measured[q][s] /\ sent'[q][s] = sent[q][s]
    <3>1. s \in 1 .. Len(measured[q])
      BY ReceivedIsMeasured
    <3> QED
      BY <2>1, <3>1 DEF n
  <2>7. ASSUME NEW s \in 1 .. Len(times)
        PROVE  /\ times'[s] = measured'[0][s].begin
               /\ \A q \in Rank : data'[RowStart(s - 1) + q] = sent'[q][s]
    <3>1. times[s] = measured[0][s].begin
      BY DEF Table
    <3>2. \A q \in Rank : data[RowStart(s - 1) + q] = sent[q][s]
      BY DEF Table
    <3> QED
      BY <2>3, <2>6, <3>1, <3>2
  <2> QED
    BY <2>3, <2>5, <2>7 DEF Table, RowStart
<1>4. CASE GatherReturns
  <2> DEFINE n == Len(times)
  <2>1. /\ n \in Nat
        /\ Len(times') = n + 1
        /\ \A s \in 1 .. n : times'[s] = times[s]
        /\ times'[n + 1] = measured[0][n + 1].begin
        /\ \A s \in 1 .. n : \A r \in Rank :
             data'[RowStart(s - 1) + r] = data[RowStart(s - 1) + r]
        /\ \A r \in Rank : data'[RowStart(n) + r] = sent[r][n + 1]
    BY <1>4, GatherFacts
  <2>2. UNCHANGED << sent, measured >> /\ pc'[0] # "gather"
    BY <1>4 DEF GatherReturns, Goto, TypeOK
  <2>3. ASSUME NEW s \in 1 .. n + 1
        PROVE  /\ times'[s] = measured[0][s].begin
               /\ \A r \in Rank : data'[RowStart(s - 1) + r] = sent[r][s]
    <3>1. CASE s = n + 1
      <4>1. s - 1 = n
        BY <2>1, <3>1
      <4> HIDE DEF n
      <4> QED
        BY <2>1, <3>1, <4>1
    <3>2. CASE s \in 1 .. n
      <4>1. times[s] = measured[0][s].begin
        BY <3>2 DEF Table
      <4>2. \A r \in Rank : data[RowStart(s - 1) + r] = sent[r][s]
        BY <3>2 DEF Table
      <4> QED
        BY <2>1, <3>2, <4>1, <4>2
    <3> QED
      BY <2>1, <3>1, <3>2
  <2> HIDE DEF n
  <2> QED
    BY <2>1, <2>2, <2>3 DEF Table, RowStart
<1>5. CASE Tick \/ UNCHANGED vars
  BY <1>1, <1>5 DEF Tick, vars
<1>6. CASE Death
  BY <1>1, <1>6, DeathFacts
<1>7. ASSUME NEW r \in Rank, SetUp(r) PROVE Table'
  BY <1>1, <1>7, SetUpFacts
<1> QED
  BY <1>1, <1>2, <1>3, <1>4, <1>5, <1>6, <1>7
  DEF Next, RankStep, Terminated, Death

LEMMA WindowsKeptStep == Inv /\ [Next]_vars => WindowsKept'
<1> SUFFICES ASSUME Inv, [Next]_vars PROVE WindowsKept'
  OBVIOUS
<1> USE RootIsRank DEF Inv
<1>1. ASSUME UNCHANGED << start, measured >>,
             tickinterval'[0] = tickinterval[0]
      PROVE  WindowsKept'
  BY <1>1 DEF WindowsKept
<1>2. ASSUME NEW r \in Rank, Bcast(r) PROVE WindowsKept'
  BY <1>1, <1>2, ReceivedIsRoot DEF Bcast, TypeOK
<1>3. ASSUME NEW r \in Rank, StartClock(r) PROVE WindowsKept'
  <2>1. UNCHANGED << tickinterval, measured >>
    BY <1>3 DEF StartClock
  <2>2. \A q \in Rank \ {r} : start'[q] = start[q]
    BY <1>3 DEF StartClock, TypeOK
  <2>3. Len(measured[r]) = 0
    BY <1>3 DEF StartClock, Goto, Counters
  <2> QED
    BY <2>1, <2>2, <2>3 DEF WindowsKept
<1>4. ASSUME NEW r \in Rank, Contribute(r) PROVE WindowsKept'
  <2> DEFINE n == Len(measured[r])
             new == [begin |-> ticklast[r], end |-> ticknow[r],
                     work |-> count[r]]
             d == start[r] + (n + 1) * tickinterval[0]
  <2>1. /\ n \in Nat /\ Len(measured'[r]) = n + 1
        /\ \A s \in 1 .. n : measured'[r][s] = measured[r][s]
        /\ measured'[r][n + 1] = new
        /\ \A q \in Rank \ {r} : measured'[q] = measured[q]
    BY <1>4, ContributeFacts
  <2>2. UNCHANGED << start, tickinterval >>
    BY <1>4 DEF Contribute
  <2>3. tickend[r] = d /\ pc[r] = "spin" /\ Expired(r)
    BY <1>4 DEF Contribute, Goto, Clocks, DeadlineOf
  <2>4. /\ ticklast[r] \in Nat /\ ticknow[r] \in Nat /\ count[r] \in Nat
        /\ tickend[r] \in Nat
    BY DEF TypeOK
  <2>5. d <= new.end /\ (new.work = 0 <=> d <= new.begin)
    <3>1. tickend[r] <= ticknow[r]
      BY <2>3 DEF Expired
    <3>2. count[r] = 0 <=> tickend[r] <= ticklast[r]
      BY <2>3, <2>4, <3>1 DEF Clocks
    <3> QED
      BY <2>3, <3>1, <3>2
  <2>6. \A q \in 1 .. n : measured[r][q].end <= new.begin
    BY <2>3 DEF Clocks
  <2> HIDE DEF new
  <2>7. ASSUME NEW s \in 1 .. n + 1
        PROVE  LET deadline == start[r] + s * tickinterval[0]
                   m == measured'[r][s]
               IN  /\ deadline <= m.end
                   /\ m.work = 0 <=> deadline <= m.begin
                   /\ \A q \in 1 .. s - 1 : measured'[r][q].end <= m.begin
    <3>1. CASE s = n + 1
      <4>1. s - 1 = n
        BY <2>1, <3>1
      <4> HIDE DEF n
      <4> QED
        BY <2>1, <2>5, <2>6, <3>1, <4>1
    <3>2. CASE s \in 1 .. n
      <4>1. \A q \in 1 .. s - 1 : measured'[r][q] = measured[r][q]
        BY <2>1, <3>2
      <4>2. measured'[r][s] = measured[r][s]
        BY <2>1, <3>2
      <4> QED
        BY <3>2, <4>1, <4>2 DEF WindowsKept
    <3> QED
      BY <2>1, <3>1, <3>2
  <2> HIDE DEF n
  <2> QED
    BY <2>1, <2>2, <2>7 DEF WindowsKept
<1>5. CASE Death
  BY <1>1, <1>5, DeathFacts
<1>6. ASSUME NEW r \in Rank, SetUp(r) PROVE WindowsKept'
  <2>1. CASE r = 0
    BY <1>6, <2>1, SetUpFacts DEF WindowsKept, Early
  <2>2. CASE r # 0
    BY <1>1, <1>6, <2>2, SetUpFacts
  <2> QED
    BY <2>1, <2>2
<1> QED
  BY <1>1, <1>2, <1>3, <1>4, <1>5, <1>6
  DEF Next, RankStep, Terminated, Death, BeginSample, DoQuantum, Finish,
      GatherReturns, Tick, vars

LEMMA RootWaitsStep == Inv /\ [Next]_vars => RootWaitsForAll'
<1> SUFFICES ASSUME Inv, [Next]_vars PROVE RootWaitsForAll'
  OBVIOUS
<1> USE RootIsRank DEF Inv
<1>1. ASSUME UNCHANGED measured PROVE RootWaitsForAll'
  BY <1>1 DEF RootWaitsForAll
<1>2. ASSUME NEW r \in Rank, Contribute(r) PROVE RootWaitsForAll'
  <2>1. /\ Len(measured[r]) \in Nat
        /\ Len(measured'[r]) = Len(measured[r]) + 1
        /\ \A s \in 1 .. Len(measured[r]) : measured'[r][s] = measured[r][s]
        /\ \A q \in Rank \ {r} : measured'[q] = measured[q]
    BY <1>2, ContributeFacts
  <2>2. ASSUME NEW q \in Rank
        PROVE  /\ Len(measured[q]) \in Nat
               /\ Len(measured[q]) <= Len(measured'[q])
               /\ \A s \in 1 .. Len(measured[q]) :
                    measured'[q][s] = measured[q][s]
    <3>1. Len(measured[q]) \in Nat
      BY MeasuredTyped
    <3> QED
      BY <2>1, <3>1
  <2>3. ASSUME NEW s \in 2 .. Len(measured[0]), NEW q \in Rank
        PROVE  /\ s - 1 <= Len(measured'[q])
               /\ measured'[q][s - 1].end <= measured'[0][s].begin
    <3>1. s - 1 \in 1 .. Len(measured[q])
      BY <2>2 DEF RootWaitsForAll
    <3>2. measured[q][s - 1].end <= measured[0][s].begin
      BY DEF RootWaitsForAll
    <3>3. /\ measured'[q][s - 1] = measured[q][s - 1]
          /\ measured'[0][s] = measured[0][s]
      BY <2>2, <3>1
    <3> QED
      BY <2>2, <3>1, <3>2, <3>3
  <2>4. CASE r # 0
    BY <2>1, <2>3, <2>4 DEF RootWaitsForAll
  <2>5. CASE r = 0
    <3> DEFINE n == Len(times)
               new == [begin |-> ticklast[0], end |-> ticknow[0],
                       work |-> count[0]]
    <3>1. n \in Nat /\ Len(measured[0]) = n /\ measured'[0][n + 1] = new
      BY <1>2, <2>5, ContributeFacts, ReceivedIsMeasured
    <3>2. pc[0] = "spin" /\ new.begin = ticklast[0]
      BY <1>2, <2>5 DEF Contribute, Goto
    <3>3. ASSUME n # 0, NEW q \in Rank
          PROVE  /\ n <= Len(measured'[q])
                 /\ measured'[q][n].end <= measured'[0][n + 1].begin
      <4>1. n \in 1 .. Len(measured[q])
        BY <3>1, <3>3, ReceivedIsMeasured
      <4>2. measured[q][n].end <= ticklast[0]
        BY <3>1, <3>2, <3>3 DEF RootLast
      <4>3. measured'[q][n] = measured[q][n]
        BY <2>2, <4>1
      <4>4. measured'[0][n + 1].begin = ticklast[0]
        BY <3>1, <3>2
      <4>5. n <= Len(measured'[q])
        BY <2>2, <4>1
      <4> QED
        BY <4>2, <4>3, <4>4, <4>5
    <3> HIDE DEF n, new
    <3>4. ASSUME NEW s \in 2 .. n + 1, NEW q \in Rank
          PROVE  /\ s - 1 <= Len(measured'[q])
                 /\ measured'[q][s - 1].end <= measured'[0][s].begin
      <4>1. CASE s = n + 1
        <5>1. n # 0 /\ s - 1 = n
          BY <3>1, <4>1
        <5> QED
          BY <3>3, <4>1, <5>1
      <4>2. CASE s \in 2 .. n
        BY <2>3, <3>1, <4>2
      <4> QED
        BY <3>1, <4>1, <4>2
    <3> QED
      BY <2>1, <2>5, <3>1, <3>4 DEF RootWaitsForAll
  <2> QED
    BY <2>4, <2>5
<1> QED
  BY <1>1, <1>2
  DEF Next, RankStep, Terminated, SetUp, SetUpExits, GatherFaults,
      LauncherEndsJob, loopVars, Bcast, StartClock, BeginSample, DoQuantum,
      Finish, GatherReturns, Tick, vars

\* The strengthening holds in every reachable state.
THEOREM Invariance == Spec => []Inv
<1>1. Inv /\ [Next]_vars => Inv'
  BY TypeStep, EarlyStep, CountersStep, AgreedStep, ClocksStep, RootLastStep,
     PayloadStep, TableStep, WindowsKeptStep, RootWaitsStep
  DEF Inv
<1> QED
  BY InitInv, <1>1, PTL DEF Spec

\* Every variable keeps its type, and every count MPI_Gather brings goes into
\* data, as long as the size of the table fits an int (mpiftq.c:245-260, 287).
THEOREM TypeCorrect == Spec => []TypeOK
<1>1. Inv => TypeOK
  BY DEF Inv
<1> QED
  BY Invariance, <1>1, PTL

\* A row of the gathered table is one sample of every rank, however far the
\* ranks have run ahead.
THEOREM RowsAreSamples == Spec => []RowsMatch
<1>1. Inv => RowsMatch
  <2> SUFFICES ASSUME Inv, NEW s \in 1 .. Len(times)
               PROVE  /\ times[s] = measured[0][s].begin
                      /\ \A r \in Rank :
                           /\ s <= Len(measured[r])
                           /\ data[RowStart(s - 1) + r].low
                                = measured[r][s].work
    BY DEF RowsMatch
  <2>1. times[s] = measured[0][s].begin
    BY DEF Inv, Table
  <2>2. ASSUME NEW r \in Rank
        PROVE  /\ s <= Len(measured[r])
               /\ data[RowStart(s - 1) + r].low = measured[r][s].work
    <3>1. s \in 1 .. Len(measured[r]) /\ s \in 1 .. Len(sent[r])
      BY ReceivedIsMeasured
    <3>2. data[RowStart(s - 1) + r] = sent[r][s]
      BY DEF Inv, Table
    <3>3. sent[r][s].low = measured[r][s].work
      BY <3>1 DEF Inv, Payload
    <3> QED
      BY <3>1, <3>2, <3>3
  <2> QED
    BY <2>1, <2>2
<1> QED
  BY Invariance, <1>1, PTL

\* The windows of a rank stay on the grid of rank 0's interval, whatever time
\* MPI_Gather takes.
THEOREM WindowsStayKept == Spec => []WindowsKept
<1>1. Inv => WindowsKept
  BY DEF Inv
<1> QED
  BY Invariance, <1>1, PTL

\* Rank 0 prints only what every rank took part in, whichever ranks fail.
THEOREM TableIsComplete == Spec => []TableMeansAllSampled
<1>1. ASSUME Inv, pc[0] = "done"
      PROVE  /\ Len(times) = numsamples
             /\ \A r \in Rank : /\ Len(measured[r]) > 0
                                /\ Len(measured[r]) = numsamples
  <2> USE <1>1, RootIsRank DEF Inv
  <2>1. 0 < numsamples /\ ~MoreSamples(0)
    BY DEF Counters
  <2>a. numsamples \in Nat
    BY DEF TypeOK
  <2>2. Len(times) = numsamples
    BY <2>1, <2>a, ReceivedIsMeasured DEF MoreSamples, Sample, TypeOK
  <2>3. ASSUME NEW r \in Rank PROVE Len(measured[r]) = numsamples
    <3>1. Len(measured[r]) <= numsamples
      BY DEF Counters
    <3> QED
      BY <2>1, <2>a, <2>2, <3>1, ReceivedIsMeasured
  <2> QED
    BY <2>1, <2>2, <2>3
<1>2. Inv => TableMeansAllSampled
  BY <1>1 DEF TableMeansAllSampled
<1> QED
  BY Invariance, <1>2, PTL

\* Rank 0 begins no sample before every rank has ended the one before.
THEOREM RootWaits == Spec => []RootWaitsForAll
<1>1. Inv => RootWaitsForAll
  BY DEF Inv
<1> QED
  BY Invariance, <1>1, PTL

=============================================================================
