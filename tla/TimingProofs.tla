---------------------------- MODULE TimingProofs ----------------------------
(***************************************************************************)
(* What a wrap of the counter does to ftq_mdelay and to main_loops, for    *)
(* every width of a ticks variable, every calibration and every            *)
(* preemption: it does not shorten the delay, and a sample goes wrong only *)
(* where its deadline and the present lie on two sides of the wrap.        *)
(***************************************************************************)
EXTENDS Timing, NatLemmas, TLAPS

-----------------------------------------------------------------------------
(* The inductive invariant                                                 *)

Reads == DOMAIN NoReads

\* What getticks returns at time t.
Counter(t) == (tickorigin + t) % TickRange

BeforeLoops ==
  {"time", "tick", "asleep", "awake", "released", "delay", "call"}

Typed ==
  /\ clock \in Nat
  /\ tickorigin \in Ticks
  /\ at \in [Reads -> Nat]
  /\ \A what \in Reads : at[what] <= clock
  /\ done \in Nat
  /\ pc \in BeforeLoops => done = 0

\* ftq_mdelay counts from its entry.
Delaying ==
  pc = "delay" =>
    /\ start = Counter(at.entry)
    /\ end = (start + InTicks(delay)) % TickRange
    /\ at.entry <= at.now

\* The deadlines are those of unbounded ticks, modulo TickRange.
Scheduled ==
  tickinterval \in Nat =>
    /\ pc = "top" => tickend = Counter(Deadline(done))
    /\ pc = "spin" => tickend = Counter(Deadline(done + 1))
    /\ pc = "spin" \/ (pc = "top" /\ done > 0) => ticknow = Counter(at.now)
    /\ pc = "top" /\ done > 0 => Expired

\* What the other clock shows at time t, in the width of ticks.
TimeRead(t) == IF program = "ftq" THEN TimeAt(t) % TickRange ELSE TimeAt(t)

\* The reads of a calibration, as far as it has come.
Measuring ==
  /\ program \in Programs /\ timeorigin \in Nat
  /\ program = "nspertick" =>
       pc \in {"time", "tick", "asleep", "awake", "done"}
  /\ pc \in {"tick", "asleep", "awake"} => timestart = TimeRead(at.timestart)
  /\ pc \in {"asleep", "awake"} =>
       tickstart = Counter(at.tickstart) /\ at.timestart <= at.tickstart
  /\ pc = "awake" =>
       /\ at.tickstart + Naps[program] * Rate <= at.tickend
       /\ el = (at.tickend - at.tickstart) % TickRange

Inv ==
  Typed /\ Delaying /\ DelayNotEarly /\ Scheduled /\ Measuring
    /\ CalibrationError

LEMMA InitInv == Init => Inv
<1> SUFFICES ASSUME Init PROVE Inv
  OBVIOUS
<1>1. Typed
  BY OriginsAssumption DEF Init, Typed, BeforeLoops, Ticks, NoReads,
                           Reads
<1>2. Delaying /\ DelayNotEarly /\ Scheduled
  BY DEF Init, Delaying, DelayNotEarly, Scheduled
<1>3. Measuring /\ CalibrationError
  BY OriginsAssumption
     DEF Init, Measuring, CalibrationError, Calibrated, Programs
<1> QED
  BY <1>1, <1>2, <1>3 DEF Inv

-----------------------------------------------------------------------------
(* Every step preserves it                                                 *)

LEMMA CounterRange ==
  ASSUME Typed, NEW t \in Nat
  PROVE  Counter(t) \in Ticks
<1>1. tickorigin + t \in Nat
  BY DEF Typed, Ticks
<1> QED
  BY <1>1, RemainderRange, RangeAssumption DEF Counter, Ticks

\* The counter goes on from where it was, whatever has wrapped.
LEMMA CounterPlus ==
  ASSUME Typed, NEW t \in Nat, NEW d \in Nat
  PROVE  (Counter(t) + d) % TickRange = Counter(t + d)
<1>1. tickorigin \in Nat /\ tickorigin + t \in Nat
  BY DEF Typed, Ticks
<1>2. (((tickorigin + t) % TickRange) + d) % TickRange
        = (tickorigin + t + d) % TickRange
  BY <1>1, ModPlus, RangeAssumption
<1>3. tickorigin + t + d = tickorigin + (t + d)
  BY <1>1
<1> QED
  BY <1>2, <1>3 DEF Counter

\* A wait of at least one tick for a count of D <= TickRange - 1 ticks is not
\* left before: the three ways start, end and the counter can lie.
LEMMA WaitIsFull ==
  ASSUME Typed, Delaying, DelayNotEarly, PollDelay, pc' = "call",
         InTicks(delay) \in Ticks
  PROVE  InTicks(delay) <= clock - at.entry
<1> DEFINE R == TickRange
           D == InTicks(delay)
           e == clock - at.entry
           now == getticks
<1>1. /\ at.entry \in Nat /\ at.now \in Nat /\ clock \in Nat
      /\ at.entry <= at.now /\ pc = "delay"
  BY DEF Typed, Delaying, PollDelay, Goto, Reads, NoReads
<1>2. e \in Nat \ {0}
  BY <1>1, PassAssumption DEF PollDelay
<1>3. R \in Nat \ {0} /\ D \in 0 .. R - 1
  BY RangeAssumption DEF Ticks
<1>4. start \in 0 .. R - 1 /\ start = Counter(at.entry)
  BY <1>1, CounterRange DEF Delaying, Ticks
<1>5. now = (start + e) % R
  <2>1. at.entry + e = clock
    BY <1>1
  <2> HIDE DEF e
  <2> QED
    BY <2>1, <1>1, <1>2, <1>4, CounterPlus DEF getticks, Counter
<1>6. end = (start + D) % R
  BY <1>1 DEF Delaying
<1>7. ~(now < end \/ (now > start /\ end < start))
  BY DEF PollDelay, Goto, DelayGoesOn
<1>8. SUFFICES ASSUME e < D PROVE FALSE
  BY <1>1, <1>3
<1> HIDE DEF R, D, e, now
<1>9. e \in 0 .. R - 1
  BY <1>2, <1>3, <1>8
<1>10. end = IF start + D < R THEN start + D ELSE start + D - R
  BY <1>3, <1>4, <1>6, OneWrap
<1>11. now = IF start + e < R THEN start + e ELSE start + e - R
  BY <1>3, <1>4, <1>5, <1>9, OneWrap
<1> QED
  BY <1>2, <1>3, <1>4, <1>7, <1>8, <1>9, <1>10, <1>11

LEMMA TypedStep == Typed /\ [Next]_vars => Typed'
<1> SUFFICES ASSUME Typed, [Next]_vars PROVE Typed'
  OBVIOUS
<1> USE DEF Typed, BeforeLoops, Goto
<1>1. CASE UNCHANGED vars
  BY <1>1 DEF vars, config, loops
<1>2. CASE ReadTimeStart
  BY <1>2 DEF ReadTimeStart, Note, config, loops, Reads, NoReads
<1>3. CASE ReadTickStart
  BY <1>3 DEF ReadTickStart, Note, config, loops, Reads, NoReads
<1>4. CASE WakeUp
  BY <1>4 DEF WakeUp, Note, config, loops, Reads, NoReads
<1>5. CASE ReadTimeEnd
  BY <1>5 DEF ReadTimeEnd, Note, config, loops, Reads, NoReads
<1>6. CASE ClockFails
  BY <1>6 DEF ClockFails, config, loops
<1>7. CASE BeginDelay
  <2>1. NoReads \in [Reads -> Nat] /\ \A what \in Reads : NoReads[what] = 0
    BY DEF Reads, NoReads
  <2>2. at' = [NoReads EXCEPT !.entry = clock, !.now = clock]
    BY <1>7 DEF BeginDelay
  <2> HIDE DEF Reads, NoReads
  <2>3. at' \in [Reads -> Nat] /\ \A what \in Reads : at'[what] <= clock
    <3>1. /\ DOMAIN at' = Reads
          /\ \A what \in Reads :
               at'[what] = IF what \in {"entry", "now"} THEN clock
                                                       ELSE NoReads[what]
      BY <2>1, <2>2
    <3>2. at' = [what \in Reads |-> at'[what]]
      BY <2>1, <2>2
    <3> QED
      BY <2>1, <3>1, <3>2
  <2>4. clock' = clock /\ tickorigin' = tickorigin /\ done' = done
    BY <1>7 DEF BeginDelay, config, loops
  <2> QED
    BY <1>7, <2>3, <2>4 DEF BeginDelay, Goto
<1>8. CASE PollDelay
  BY <1>8 DEF PollDelay, Note, config, loops, Reads, NoReads
<1>9. CASE CallLoops
  BY <1>9 DEF CallLoops, Note, config, loops, Reads, NoReads
<1>10. CASE BeginSample
  BY <1>10 DEF BeginSample, Note, config, Reads, NoReads
<1>11. CASE DoQuantum
  BY <1>11 DEF DoQuantum, Note, config, Reads, NoReads
<1>12. CASE EndSample
  BY <1>12 DEF EndSample, config
<1>13. CASE Return
  BY <1>13 DEF Return, config, loops
<1>14. CASE Tick
  BY <1>14 DEF Tick, config, loops
<1> QED
  BY <1>1, <1>2, <1>3, <1>4, <1>5, <1>6, <1>7, <1>8, <1>9, <1>10, <1>11,
     <1>12, <1>13, <1>14 DEF Next, Thread, Terminated

\* ftq_mdelay is entered and goes on as Delaying says, and is left in time.
LEMMA DelayStep ==
  Typed /\ Delaying /\ DelayNotEarly /\ [Next]_vars
    => Delaying' /\ DelayNotEarly'
<1> SUFFICES ASSUME Typed, Delaying, DelayNotEarly, [Next]_vars
             PROVE  Delaying' /\ DelayNotEarly'
  OBVIOUS
<1> USE DEF Delaying, DelayNotEarly, Counter, InTicks
<1>1. CASE UNCHANGED vars
  BY <1>1 DEF vars, config, calibration, mdelay, Ticks
<1>2. CASE BeginDelay
  <2>1. pc' = "delay" /\ at'.entry = clock /\ at'.now = clock
    BY <1>2 DEF BeginDelay, Goto, NoReads
  <2> QED
    BY <1>2, <2>1 DEF BeginDelay, config, getticks, Typed
<1>3. CASE PollDelay
  <2>1. UNCHANGED << tickorigin, delay, el, ns, start, end >>
    BY <1>3 DEF PollDelay, config, calibration, mdelay
  <2>2. at'.entry = at.entry /\ at'.now = clock /\ pc = "delay"
    BY <1>3 DEF PollDelay, Goto, Note, Typed, Reads, NoReads
  <2>3. pc' \in {"delay", "call"} /\ at.entry <= clock
    BY <1>3 DEF PollDelay, Goto, Typed, Reads, NoReads
  <2>4. CASE pc' = "delay"
    BY <2>1, <2>2, <2>3, <2>4
  <2>5. CASE pc' = "call"
    <3>1. InTicks(delay) \in Ticks => InTicks(delay) <= clock - at.entry
      BY <1>3, <2>5, WaitIsFull
    <3> QED
      BY <2>1, <2>2, <2>5, <3>1 DEF Ticks
  <2> QED
    BY <2>3, <2>4, <2>5
<1>4. CASE Tick
  BY <1>4 DEF Tick, config, calibration, mdelay, Ticks
<1>5. CASE \/ ReadTimeStart \/ ReadTickStart \/ WakeUp \/ ReadTimeEnd
           \/ ClockFails \/ CallLoops \/ BeginSample \/ DoQuantum
           \/ EndSample \/ Return
  <2>1. pc' \notin {"delay", "call"}
    BY <1>5 DEF ReadTimeStart, ReadTickStart, WakeUp, ReadTimeEnd,
                ClockFails, CallLoops, BeginSample, DoQuantum, EndSample,
                Return, Goto
  <2> QED
    BY <2>1
<1> QED
  BY <1>1, <1>2, <1>3, <1>4, <1>5 DEF Next, Thread, Terminated

\* A wrap leaves the deadlines where they were, modulo TickRange.
LEMMA ScheduleStep ==
  Typed /\ Scheduled /\ [Next]_vars => Scheduled'
<1> SUFFICES ASSUME Typed, Scheduled, [Next]_vars, tickinterval' \in Nat
             PROVE  Scheduled'
  BY DEF Scheduled
<1> USE DEF Scheduled
<1>1. CASE UNCHANGED vars \/ Tick
  BY <1>1 DEF vars, Tick, config, calibration, loops, tickinterval, InTicks,
              Deadline, Counter, Expired
<1>2. CASE CallLoops
  <2>1. done' = done /\ pc' = "top" /\ at'.entry = clock
    BY <1>2 DEF CallLoops, Goto, Note, Typed, Reads, NoReads
  <2> QED
    <3>1. done' = 0 /\ tickend' = Counter(clock)' /\ clock' = clock
      BY <1>2, <2>1 DEF CallLoops, Goto, Typed, BeforeLoops, config, getticks,
                        Counter
    <3>2. Deadline(done)' = clock
      <4>1. tickinterval' = tickinterval
        BY <1>2 DEF CallLoops, config, calibration, tickinterval, InTicks
      <4>2. 0 * tickinterval = 0 /\ clock \in Nat
        BY <4>1 DEF Typed
      <4> QED
        BY <2>1, <3>1, <4>1, <4>2 DEF Deadline
    <3> QED
      BY <2>1, <3>1, <3>2
<1>3. CASE BeginSample
  <2>1. /\ pc = "top" /\ pc' = "spin" /\ done' = done /\ done \in Nat
        /\ UNCHANGED << tickorigin, clock >>
        /\ tickinterval' = tickinterval
    BY <1>3 DEF BeginSample, Goto, Typed, config, calibration, tickinterval,
                InTicks
  <2>2. at'.entry = at.entry /\ at'.now = clock /\ at.entry \in Nat
    BY <1>3 DEF BeginSample, Note, Typed, Reads, NoReads
  <2>3. ticknow' = Counter(at.now)'
    BY <1>3, <2>1, <2>2 DEF BeginSample, getticks, Counter
  <2>4. tickend' = Counter(Deadline(done) + tickinterval)
    <3>1. Deadline(done) \in Nat
      <4>1. done * tickinterval \in Nat
        BY <2>1
      <4> QED
        BY <2>2, <4>1 DEF Deadline
    <3> QED
      BY <1>3, <2>1, <3>1, CounterPlus DEF BeginSample
  <2>5. Deadline(done) + tickinterval = Deadline(done + 1)'
    <3>1. (done + 1) * tickinterval = done * tickinterval + tickinterval
      BY <2>1
    <3>2. done * tickinterval \in Nat
      BY <2>1
    <3> QED
      BY <2>1, <2>2, <3>1, <3>2 DEF Deadline
  <2> QED
    BY <2>1, <2>3, <2>4, <2>5 DEF Counter
<1>4. CASE DoQuantum
  <2>1. /\ UNCHANGED << pc, tickorigin, clock, done, tickend >>
        /\ tickinterval' = tickinterval /\ pc = "spin"
        /\ ticknow' = getticks
    BY <1>4 DEF DoQuantum, config, calibration, tickinterval, InTicks
  <2>2. at'.entry = at.entry /\ at'.now = clock
    BY <1>4 DEF DoQuantum, Note, Typed, Reads, NoReads
  <2> QED
    BY <2>1, <2>2 DEF getticks, Counter, Deadline
<1>5. CASE EndSample
  <2>1. /\ UNCHANGED << tickorigin, at, tickend, ticknow >>
        /\ tickinterval' = tickinterval
        /\ pc = "spin" /\ pc' = "top" /\ done' = done + 1 /\ Expired
    BY <1>5 DEF EndSample, Goto, config, calibration, tickinterval, InTicks
  <2> QED
    BY <2>1 DEF Counter, Deadline, Expired
<1>6. CASE \/ ReadTimeStart \/ ReadTickStart \/ WakeUp \/ ReadTimeEnd
           \/ ClockFails \/ BeginDelay \/ PollDelay \/ Return
  <2>1. pc' \notin {"top", "spin"}
    BY <1>6 DEF ReadTimeStart, ReadTickStart, WakeUp, ReadTimeEnd,
                ClockFails, BeginDelay, PollDelay, Return, Goto
  <2> QED
    BY <2>1
<1> QED
  BY <1>1, <1>2, <1>3, <1>4, <1>5, <1>6 DEF Next, Thread, Terminated

-----------------------------------------------------------------------------
(* The calibration                                                         *)

GranuleType == Granule \in Nat \ {0} /\ Rate * Granule \in Nat \ {0}

LEMMA GranuleIsPositive == GranuleType
<1>1. Granule \in Nat \ {0}
  BY RateAssumption DEF Granule
<1>2. \A a \in Nat \ {0}, b \in Nat \ {0} : a * b \in Nat \ {0}
  OBVIOUS
<1> QED
  BY <1>1, <1>2, RateAssumption DEF GranuleType

\* A clock of granule U is off by less than U, at both ends together.
LEMMA GranuleError ==
  ASSUME NEW U \in Nat \ {0}, NEW x \in Nat, NEW y \in Nat, x <= y
  PROVE  /\ (y \div U) - (x \div U) \in Nat
         /\ y - x < ((y \div U) - (x \div U)) * U + U
         /\ ((y \div U) - (x \div U)) * U < y - x + U
<1> DEFINE j == x \div U
           k == y \div U
           r == x % U
           m == y % U
<1>1. j \in Nat /\ k \in Nat /\ r \in 0 .. U - 1 /\ m \in 0 .. U - 1
  BY Quotient, RemainderRange
<1>2. x = j * U + r /\ y = k * U + m
  BY Division
<1>3. j * U \in Nat /\ k * U \in Nat
  BY <1>1, ProductType
<1>4. j * U <= y
  <2> HIDE DEF j, k, r, m
  <2> QED
    BY <1>1, <1>2, <1>3
<1>5. j <= k
  <2> HIDE DEF j
  <2> QED
    BY <1>1, <1>4, QuotientAtLeast
<1> HIDE DEF j, k, r, m
<1>6. (k - j) * U = k * U - j * U
  BY <1>1
<1>7. k - j \in Nat /\ y - x < (k - j) * U + U /\ (k - j) * U < y - x + U
  BY <1>1, <1>2, <1>3, <1>5, <1>6
<1> QED
  BY <1>7 DEF j, k

\* The same of the two clocks there are.
LEMMA TimeError ==
  ASSUME timeorigin \in Nat, NEW s \in Nat, NEW e \in Nat, s <= e,
         NEW d, d = TimeAt(e) - TimeAt(s)
  PROVE  /\ TimeAt(s) \in Nat /\ TimeAt(e) \in Nat /\ d \in Nat
         /\ e - s < Rate * (d + Granule)
         /\ Rate * (d - Granule) < e - s
<1> DEFINE G == Granule
           U == Rate * G
           j == (timeorigin + s) \div U
           k == (timeorigin + e) \div U
<1>1. G \in Nat \ {0} /\ U \in Nat \ {0} /\ Rate \in Nat \ {0}
  BY GranuleIsPositive, RateAssumption DEF GranuleType
<1>2. timeorigin + s \in Nat /\ timeorigin + e \in Nat
      /\ timeorigin + s <= timeorigin + e
      /\ (timeorigin + e) - (timeorigin + s) = e - s
  OBVIOUS
<1>3. j \in Nat /\ k \in Nat
  <2> HIDE DEF U
  <2> QED
    BY <1>1, <1>2, Quotient
<1>4. k - j \in Nat /\ e - s < (k - j) * U + U /\ (k - j) * U < e - s + U
  <2> HIDE DEF U
  <2> QED
    BY <1>1, <1>2, GranuleError
<1>5. TimeAt(s) = j * G /\ TimeAt(e) = k * G
  BY DEF TimeAt
<1> HIDE DEF G, j, k
<1>6. d = (k - j) * G
  BY <1>1, <1>3, <1>5
<1> DEFINE n == k - j
<1>7. n \in Nat
  BY <1>4
<1> HIDE DEF n
<1>8. n * U = Rate * (n * G) /\ n * G \in Nat
  BY <1>1, <1>7 DEF U
<1>9. d = n * G /\ e - s < n * U + U /\ n * U < e - s + U
  BY <1>4, <1>6 DEF n
<1>10. Rate * (d + G) = n * U + U /\ Rate * (d - G) = n * U - U
  BY <1>1, <1>7, <1>8, <1>9 DEF U
<1>11. j * G \in Nat /\ k * G \in Nat
  BY <1>1, <1>3, ProductType
<1>12. n * U \in Nat
  BY <1>1, <1>7, ProductType
<1> HIDE DEF U
<1> QED
  BY <1>1, <1>5, <1>8, <1>9, <1>10, <1>11, <1>12 DEF G

\* The count of a sleep, reduced once or twice.
LEMMA SleepCounted ==
  ASSUME Typed, Measuring, WakeUp
  PROVE  el' = (clock - at.tickstart) % TickRange
<1>1. at.tickstart \in Nat /\ clock \in Nat /\ at.tickstart <= clock
      /\ tickorigin \in Nat
  BY DEF Typed, Reads, NoReads, Ticks
<1>2. tickstart = Counter(at.tickstart)
  BY DEF WakeUp, Goto, Measuring
<1>3. (Counter(clock) - Counter(at.tickstart)) % TickRange
        = ((tickorigin + clock) - (tickorigin + at.tickstart)) % TickRange
  <2>1. /\ tickorigin + clock \in Nat /\ tickorigin + at.tickstart \in Nat
        /\ tickorigin + at.tickstart <= tickorigin + clock
    BY <1>1
  <2> QED
    BY <2>1, ModMinus, RangeAssumption DEF Counter
<1>4. (tickorigin + clock) - (tickorigin + at.tickstart)
        = clock - at.tickstart
  BY <1>1
<1> QED
  BY <1>2, <1>3, <1>4 DEF WakeUp, Elapsed, getticks, Counter

\* The end of a calibration: what is made of its four reads.
LEMMA CalibrationEnds ==
  ASSUME Typed, Measuring, ReadTimeEnd
  PROVE  CalibrationError'
<1> DEFINE s == at.timestart
           e == clock
           d == TimeAt(e) - TimeAt(s)
           z == at.tickend - at.tickstart
           G == Granule
<1>1. /\ s \in Nat /\ e \in Nat /\ s <= at.tickstart /\ at.tickend <= e
      /\ at.tickstart \in Nat /\ at.tickend \in Nat /\ timeorigin \in Nat
      /\ timestart = TimeRead(s)
      /\ at.tickstart + Naps[program] * Rate <= at.tickend
      /\ el = z % TickRange
      /\ program \in Programs
  BY DEF Typed, Measuring, ReadTimeEnd, Goto, Reads, NoReads
<1>2. /\ UNCHANGED << program, timeorigin, el >>
      /\ at'.timestart = s /\ at'.timeend = e
      /\ at'.tickstart = at.tickstart /\ at'.tickend = at.tickend
      /\ ns' = (TimeRead(e) - TimeRead(s)) % LongRange
  BY <1>1 DEF ReadTimeEnd, Note, Typed, Reads, NoReads, config, Time, TimeRead
<1>3. G \in Nat \ {0} /\ Rate \in Nat \ {0}
  BY GranuleIsPositive, RateAssumption DEF GranuleType
<1>4. Naps[program] * Rate \in Nat /\ Rate * G <= Naps[program] * Rate
  <2>1. Naps[program] \in Nat /\ G <= Naps[program]
    BY <1>1, NapsAssumption DEF Granule, Programs
  <2> HIDE DEF G
  <2> QED
    BY <1>3, <2>1, ProductMonotone, ProductType
<1>5. z \in Nat /\ z <= e - s /\ Rate * G <= e - s
  <2> HIDE DEF G
  <2>1. Rate * G \in Nat
    BY <1>3
  <2> QED
    BY <1>1, <1>4, <2>1
<1>6. el \in Nat /\ el <= z /\ (z < TickRange => el = z)
  <2>1. el \in Nat /\ el <= z
    <3> HIDE DEF z
    <3> QED
      <4>1. z \in Nat /\ el = z % TickRange /\ TickRange \in Nat \ {0}
        BY <1>1, <1>5, RangeAssumption
      <4>2. z % TickRange \in 0 .. TickRange - 1 /\ z % TickRange <= z
        BY <4>1, RemainderRange, RemainderAtMost
      <4> QED
        BY <4>1, <4>2
  <2>2. z < TickRange => z % TickRange = z
    <3> HIDE DEF z
    <3>1. 0 * TickRange + z = z
      BY <1>5, RangeAssumption
    <3> QED
      BY <1>5, <3>1, Remainder, RangeAssumption
  <2> QED
    BY <1>1, <2>1, <2>2
<1>7. /\ TimeAt(s) \in Nat /\ TimeAt(e) \in Nat /\ d \in Nat
      /\ e - s < Rate * (d + G) /\ Rate * (d - G) < e - s
  <2>1. s <= e
    BY <1>1, <1>5
  <2> QED
    BY <1>1, <2>1, TimeError
<1> DEFINE T == TimeAt(e)
           S == TimeAt(s)
<1>8. \A n \in Nat : n < LongRange => n % LongRange = n
  <2> SUFFICES ASSUME NEW n \in Nat, n < LongRange
               PROVE  n % LongRange = n
    OBVIOUS
  <2>1. 0 * LongRange + n = n
    BY RangeAssumption
  <2> QED
    BY <2>1, Remainder, RangeAssumption
<1>9. T \in Nat /\ S \in Nat /\ S <= T /\ d = T - S
  BY <1>7
<1>10. ns' = IF program = "ftq"
             THEN ((T % TickRange) - (S % TickRange)) % LongRange
             ELSE d % LongRange
  BY <1>2 DEF TimeRead
<1> HIDE DEF T, S
\* The difference is the true one or more, unless the clock has come round ...
<1>11. ASSUME d < (IF program = "ftq" THEN TickRange ELSE LongRange)
       PROVE  d <= ns' /\ ns' \in Nat
  <2>1. CASE program = "ftq"
    <3> DEFINE w == (T % TickRange) - (S % TickRange)
    <3>1. w \in {d, d - TickRange}
      BY <1>9, <1>11, <2>1, RemaindersApart, RangeAssumption
    <3>2. CASE w = d
      <4>1. d % LongRange = d
        BY <1>8, <1>9, <1>11, <2>1, RangeAssumption
      <4> QED
        BY <1>9, <1>10, <2>1, <3>2, <4>1
    <3>3. CASE w = d - TickRange
      <4> DEFINE v == d - TickRange + LongRange
      <4>1. v \in 0 .. LongRange - 1 /\ d <= v /\ d - TickRange = v - LongRange
        BY <1>9, <1>11, <2>1, RangeAssumption
      <4> HIDE DEF v
      <4>2. (v - LongRange) % LongRange = v
        <5>1. v - LongRange = (0 - 1) * LongRange + v
          BY <4>1, RangeAssumption
        <5> QED
          BY <4>1, <5>1, RangeAssumption
      <4> QED
        BY <1>10, <2>1, <3>3, <4>1, <4>2
    <3> QED
      BY <3>1, <3>2, <3>3
  <2>2. CASE program # "ftq"
    BY <1>8, <1>9, <1>10, <1>11, <2>2
  <2> QED
    BY <2>1, <2>2
\* ... and no more than that, unless it has wrapped.
<1>12. ASSUME program = "ftq" => T \div TickRange = S \div TickRange
       PROVE  ns' <= d /\ ns' \in Nat
  <2>1. CASE program = "ftq"
    <3>1. /\ T = (T \div TickRange) * TickRange + (T % TickRange)
          /\ S = (S \div TickRange) * TickRange + (S % TickRange)
      BY <1>9, Division, RangeAssumption
    <3>2. /\ T % TickRange \in 0 .. TickRange - 1
          /\ S % TickRange \in 0 .. TickRange - 1
          /\ (S \div TickRange) * TickRange \in Nat
      BY <1>9, Quotient, RemainderRange, ProductType, RangeAssumption
    <3>3. (T % TickRange) - (S % TickRange) = d
      BY <1>9, <1>12, <2>1, <3>1, <3>2
    <3>4. d < LongRange
      BY <1>9, <3>2, <3>3, RangeAssumption
    <3> QED
      BY <1>8, <1>9, <1>10, <2>1, <3>3, <3>4
  <2>2. CASE program # "ftq"
    <3>1. d % LongRange \in 0 .. LongRange - 1 /\ d % LongRange <= d
      BY <1>7, RemainderRange, RemainderAtMost, RangeAssumption
    <3> QED
      BY <1>10, <2>2, <3>1
  <2> QED
    BY <2>1, <2>2
<1>13. /\ TimeAt(at.timestart)' = S /\ TimeAt(at.timeend)' = T
       /\ Granule' = G
  BY <1>2 DEF TimeAt, Granule, S, T
<1>14. TimeCameRound' \/ (0 < ns' /\ el' < Rate * (ns' + G))
  <2> SUFFICES ASSUME ~TimeCameRound'
               PROVE  0 < ns' /\ el' < Rate * (ns' + G)
    OBVIOUS
  <2>1. d <= ns' /\ ns' \in Nat
    BY <1>2, <1>9, <1>11, <1>13, RangeAssumption DEF TimeCameRound
  <2> DEFINE n == ns'
  <2>2. n \in Nat /\ d <= n
    BY <2>1
  <2> HIDE DEF n, G, d
  <2>3. Rate * (d + G) <= Rate * (n + G)
    BY <1>3, <1>7, <2>2
  <2>4. d # 0
    <3>1. d = 0 => Rate * (d + G) = Rate * G
      BY <1>3
    <3>2. /\ Rate * G \in Nat /\ Rate * (d + G) \in Nat
          /\ e - s < Rate * (d + G) /\ Rate * G <= e - s /\ e - s \in Int
      BY <1>1, <1>3, <1>5, <1>7
    <3> QED
      BY <3>1, <3>2
  <2>5. /\ Rate * (n + G) \in Nat /\ Rate * (d + G) \in Nat
    BY <1>3, <1>7, <2>2
  <2>6. 0 < n /\ el < Rate * (n + G)
    BY <1>1, <1>5, <1>6, <1>7, <2>2, <2>3, <2>4, <2>5
  <2> QED
    BY <1>2, <2>6 DEF n
<1>15. TimeWrapped' \/ CameRound' \/ Rate * (ns' - G) < el' + Gap'
  <2> SUFFICES ASSUME ~TimeWrapped', ~CameRound'
               PROVE  Rate * (ns' - G) < el' + Gap'
    OBVIOUS
  <2>1. ns' <= d /\ ns' \in Nat
    BY <1>2, <1>12, <1>13 DEF TimeWrapped
  <2>2. el = z
    BY <1>2, <1>5, <1>6, RangeAssumption DEF CameRound
  <2>3. el' + Gap' = e - s
    BY <1>1, <1>2, <2>2 DEF Gap
  <2> DEFINE n == ns'
  <2>4. n \in Nat /\ n <= d
    BY <2>1
  <2> HIDE DEF n, G, d
  <2>5. Rate * (n - G) <= Rate * (d - G)
    BY <1>3, <1>7, <2>4
  <2>6. Rate * (n - G) \in Int /\ Rate * (d - G) \in Int
    BY <1>3, <1>7, <2>4
  <2>7. Rate * (n - G) < e - s
    BY <1>1, <1>7, <2>5, <2>6
  <2> QED
    BY <2>3, <2>7 DEF n
<1> QED
  BY <1>13, <1>14, <1>15 DEF CalibrationError

LEMMA MeasuringStep ==
  Typed /\ Measuring /\ CalibrationError /\ [Next]_vars
    => Measuring' /\ CalibrationError'
<1> SUFFICES ASSUME Typed, Measuring, CalibrationError, [Next]_vars
             PROVE  Measuring' /\ CalibrationError'
  OBVIOUS
<1>1. /\ at.timestart <= clock /\ at.tickstart <= clock /\ clock \in Nat
      /\ at \in [Reads -> Nat]
  BY DEF Typed, Reads, NoReads
<1>2. /\ "timestart" \in Reads /\ "tickstart" \in Reads
      /\ "tickend" \in Reads /\ "timeend" \in Reads
  BY DEF Reads, NoReads
<1>3. UNCHANGED << program, timeorigin, tickorigin >>
  BY DEF Next, Thread, ReadTimeStart, ReadTickStart, WakeUp, ReadTimeEnd,
         ClockFails, BeginDelay, PollDelay, CallLoops, BeginSample,
         DoQuantum, EndSample, Return, Tick, Terminated, config, vars
<1>4. /\ \A t : TimeRead(t)' = TimeRead(t)
      /\ \A t : Counter(t)' = Counter(t)
  BY <1>3 DEF TimeRead, TimeAt, Granule, Counter
<1> USE DEF Measuring, Goto
<1>5. CASE UNCHANGED vars \/ Tick
  BY <1>3, <1>4, <1>5
     DEF vars, Tick, config, calibration, CalibrationError, Calibrated,
         Granule, TimeCameRound, TimeWrapped, TimeAt, CameRound, Gap
<1>6. CASE ReadTimeStart
  <2>1. at'.timestart = clock /\ timestart' = TimeRead(clock)
    BY <1>1, <1>2, <1>6 DEF ReadTimeStart, Note, Time, TimeRead
  <2> QED
    BY <1>3, <1>4, <1>6, <2>1
       DEF ReadTimeStart, CalibrationError, Calibrated
<1>7. CASE ReadTickStart
  <2>1. /\ at'.tickstart = clock /\ at'.timestart = at.timestart
        /\ tickstart' = Counter(clock) /\ timestart' = timestart
    BY <1>1, <1>2, <1>7 DEF ReadTickStart, Note, getticks, Counter
  <2> QED
    BY <1>1, <1>3, <1>4, <1>7, <2>1
       DEF ReadTickStart, CalibrationError, Calibrated
<1>8. CASE WakeUp
  <2>1. /\ at'.tickend = clock /\ at'.timestart = at.timestart
        /\ at'.tickstart = at.tickstart
        /\ UNCHANGED << timestart, tickstart >>
    BY <1>1, <1>2, <1>8 DEF WakeUp, Note
  <2>2. el' = (clock - at.tickstart) % TickRange
    BY <1>8, SleepCounted
  <2> QED
    BY <1>3, <1>4, <1>8, <2>1, <2>2
       DEF WakeUp, Slept, CalibrationError, Calibrated
<1>9. CASE ReadTimeEnd
  <2>1. CalibrationError'
    BY <1>9, CalibrationEnds
  <2> QED
    BY <1>3, <1>9, <2>1 DEF ReadTimeEnd, Programs
<1>10. CASE ClockFails
  BY <1>3, <1>10 DEF ClockFails, CalibrationError, Calibrated
<1>11. CASE \/ BeginDelay \/ PollDelay \/ CallLoops \/ BeginSample
            \/ DoQuantum \/ EndSample \/ Return
  <2>1. /\ pc' \in {"delay", "call", "top", "spin", "done"}
        /\ pc \in {"released", "delay", "call", "top", "spin"}
    BY <1>11 DEF BeginDelay, PollDelay, CallLoops, BeginSample, DoQuantum,
                 EndSample, Return
  <2>2. program = "ftq"
    BY <2>1 DEF Programs
  <2> QED
    BY <1>3, <2>1, <2>2 DEF CalibrationError, Calibrated
<1> QED
  BY <1>5, <1>6, <1>7, <1>8, <1>9, <1>10, <1>11
     DEF Next, Thread, Terminated

THEOREM InvIsInvariant == Spec => []Inv
<1>1. Inv /\ [Next]_vars => Inv'
  BY TypedStep, DelayStep, ScheduleStep, MeasuringStep DEF Inv
<1> QED
  BY InitInv, <1>1, PTL DEF Spec

-----------------------------------------------------------------------------
(* What it is for                                                          *)

\* ftq_mdelay (ftq.c) is never left before the delay is over, wherever the
\* counter wraps: DelayNotEarly, for every width, origin and calibration.
THEOREM DelayIsKept == Spec => []DelayNotEarly
<1>1. Inv => DelayNotEarly
  BY DEF Inv
<1> QED
  BY InvIsInvariant, <1>1, PTL

\* Within one period the counter orders two times as real time does.
LEMMA SamePeriod ==
  ASSUME Typed, NEW t \in Nat, NEW u \in Nat, Period(t) = Period(u)
  PROVE  t - u = Counter(t) - Counter(u)
<1> DEFINE p == Period(t) * TickRange
<1>1. tickorigin + t \in Nat /\ tickorigin + u \in Nat /\ tickorigin \in Nat
  BY DEF Typed, Ticks
<1>2. tickorigin + t = p + Counter(t) /\ tickorigin + u = p + Counter(u)
  BY <1>1, Division, RangeAssumption DEF Period, Counter
<1>3. p \in Nat
  BY <1>1, Quotient, RangeAssumption DEF Period
<1>4. Counter(t) \in Nat /\ Counter(u) \in Nat
  BY CounterRange, RangeAssumption DEF Ticks
<1> HIDE DEF p
<1> QED
  BY <1>1, <1>2, <1>3, <1>4

\* What a wrap does to main_loops (ftqcore.c) it does only to samples whose
\* deadline lies on its other side: WrapConfined, for every interval.
THEOREM WrapIsConfined == Spec => []WrapConfined
<1>1. Typed /\ Scheduled => WrapConfined
  <2> SUFFICES ASSUME Typed, Scheduled, tickinterval \in Nat
               PROVE  WrapConfined
    BY DEF WrapConfined
  <2>1. done \in Nat /\ at.now \in Nat /\ at.entry \in Nat
    BY DEF Typed, Reads, NoReads
  <2>2. \A k \in Nat : Deadline(k) \in Nat
    <3> SUFFICES ASSUME NEW k \in Nat PROVE Deadline(k) \in Nat
      OBVIOUS
    <3>1. k * tickinterval \in Nat
      OBVIOUS
    <3> QED
      BY <2>1, <3>1 DEF Deadline
  <2>3. \A t \in Nat : Counter(t) \in Nat
    BY CounterRange, RangeAssumption DEF Ticks
  <2>4. ASSUME pc = "top", done > 0, Period(at.now) = Period(Deadline(done))
        PROVE  Deadline(done) <= at.now
    <3>1. Counter(Deadline(done)) <= Counter(at.now)
      BY <2>4 DEF Scheduled, Expired
    <3> QED
      BY <2>1, <2>2, <2>3, <2>4, <3>1, SamePeriod
  <2>5. ASSUME pc = "spin", ~Expired,
               Period(at.now) = Period(Deadline(done + 1))
        PROVE  at.now < Deadline(done + 1)
    <3>1. ~(Counter(Deadline(done + 1)) <= Counter(at.now))
      BY <2>5 DEF Scheduled, Expired
    <3>2. done + 1 \in Nat
      BY <2>1
    <3> QED
      BY <2>1, <2>2, <2>3, <2>5, <3>1, <3>2, SamePeriod
  <2> QED
    BY <2>4, <2>5 DEF WrapConfined
<1>2. Inv => Typed /\ Scheduled
  BY DEF Inv
<1> QED
  BY InvIsInvariant, <1>1, <1>2, PTL

\* ticksperns is right but for the granule of the other clock, what was lost
\* between two reads of a pair, and the wraps the code cannot see, wherever
\* compute_ticksperns and nspertick are preempted and however long.
THEOREM CalibrationIsRight == Spec => []CalibrationError
<1>1. Inv => CalibrationError
  BY DEF Inv
<1> QED
  BY InvIsInvariant, <1>1, PTL

-----------------------------------------------------------------------------
(* Types                                                                   *)

\* Until when a program may be preempted while it calibrates.
LastPreemption == IF program = "ftq" THEN MaxCalibration ELSE MaxClock

SleepTicks == Naps[program] * Rate

Bounded ==
  /\ pc \in {"time", "tick"} => clock <= LastPreemption
  /\ pc \in {"asleep", "awake"} =>
       /\ at.tickstart <= LastPreemption
       /\ clock <= LastPreemption + SleepTicks
  /\ pc = "spin" => done < NumSamples

Types == TypeOK /\ Bounded

LEMMA InTicksType ==
  ASSUME TypeOK, NEW x \in Nat
  PROVE  InTicks(x) \in Nat
<1>1. x * el \in Nat /\ ns \in Nat \ {0}
  BY RangeAssumption DEF TypeOK, Ticks
<1> QED
  BY <1>1, Quotient DEF InTicks

LEMMA TicksModulo ==
  ASSUME NEW a \in Int
  PROVE  a % TickRange \in Ticks
BY RangeAssumption DEF Ticks

LEMMA LongIsLong ==
  ASSUME CalibrationIsShort
  PROVE  1 < LongRange
<1> DEFINE n == Naps["nspertick"]
<1>1. /\ Rate \in Nat \ {0} /\ n \in Nat \ {0} /\ Second \in Nat \ {0}
      /\ LongRange \in Nat \ {0} /\ MaxClock \in Nat
  BY RateAssumption, NapsAssumption, RangeAssumption, BoundAssumption
     DEF Programs
<1>2. MaxClock + Rate * n + Rate * Second <= Rate * LongRange
  BY DEF CalibrationIsShort
<1> HIDE DEF n
<1>3. Rate <= Rate * n /\ Rate <= Rate * Second /\ Rate * n \in Nat
      /\ Rate * Second \in Nat
  BY <1>1
<1>4. LongRange = 1 => Rate * LongRange = Rate
  BY <1>1
<1> QED
  BY <1>1, <1>2, <1>3, <1>4

LEMMA TypesInit ==
  ASSUME CalibrationIsShort
  PROVE  Init => Types
<1> SUFFICES ASSUME Init PROVE Types
  OBVIOUS
<1>1. 0 \in Ticks /\ 1 \in 1 .. LongRange - 1
  BY LongIsLong, RangeAssumption DEF Ticks
<1>2. \A what \in DOMAIN at : at[what] \in 0 .. clock
  BY DEF Init, NoReads
<1>3. TypeOK
  BY <1>1, <1>2, OptionsAssumption DEF Init, TypeOK
<1>4. 0 <= LastPreemption
  BY BoundAssumption DEF LastPreemption
<1> QED
  BY <1>3, <1>4 DEF Init, Types, Bounded

\* What a program is delayed by until it has calibrated is less than a period
\* of the time it calibrates by.
LEMMA TimeHolds ==
  ASSUME CalibrationIsShort, Inv, Types, ReadTimeEnd
  PROVE  ~TimeCameRound'
<1> DEFINE s == at.timestart
           e == clock
           d == TimeAt(e) - TimeAt(s)
           G == Granule
           range == IF program = "ftq" THEN TickRange ELSE LongRange
<1>1. /\ s \in Nat /\ e \in Nat /\ s <= e /\ timeorigin \in Nat
      /\ program \in Programs
  BY DEF Inv, Typed, Measuring, Reads, NoReads
<1>2. /\ UNCHANGED << program, timeorigin >>
      /\ at'.timestart = s /\ at'.timeend = e
  BY DEF ReadTimeEnd, Note, Inv, Typed, Reads, NoReads, config
<1>3. e <= LastPreemption + SleepTicks
  BY DEF Types, Bounded, ReadTimeEnd, Goto
<1>4. /\ Rate \in Nat \ {0} /\ G \in Nat \ {0} /\ range \in Nat \ {0}
      /\ LastPreemption \in Nat /\ SleepTicks \in Nat
  <2>1. Naps[program] \in Nat
    BY <1>1, NapsAssumption
  <2> QED
    BY <2>1, GranuleIsPositive, RateAssumption, RangeAssumption,
       BoundAssumption, ProductType
       DEF GranuleType, LastPreemption, SleepTicks
<1>5. LastPreemption + SleepTicks + Rate * G <= Rate * range
  <2>1. /\ MaxCalibration + Rate * Naps["ftq"] + Rate <= Rate * TickRange
        /\ MaxClock + Rate * Naps["nspertick"] + Rate * Second
             <= Rate * LongRange
    BY DEF CalibrationIsShort
  <2>2. /\ Naps["ftq"] \in Nat /\ Naps["nspertick"] \in Nat
        /\ Rate * 1 = Rate
    BY NapsAssumption, RateAssumption DEF Programs
  <2>3. /\ Naps["ftq"] * Rate = Rate * Naps["ftq"]
        /\ Naps["nspertick"] * Rate = Rate * Naps["nspertick"]
    BY <2>2, RateAssumption
  <2>4. CASE program = "ftq"
    BY <2>1, <2>2, <2>3, <2>4 DEF LastPreemption, SleepTicks, Granule
  <2>5. CASE program = "nspertick"
    BY <2>1, <2>2, <2>3, <2>5 DEF LastPreemption, SleepTicks, Granule
  <2> QED
    BY <1>1, <2>4, <2>5 DEF Programs
<1>6. d \in Nat /\ Rate * (d - G) < e - s
  BY <1>1, TimeError
<1>7. ~(range <= d)
  <2> HIDE DEF d, G, range, s
  <2> SUFFICES ASSUME range <= d PROVE FALSE
    OBVIOUS
  <2>1. Rate * range <= Rate * d /\ Rate * d \in Nat /\ Rate * range \in Nat
    BY <1>4, <1>6
  <2>2. Rate * (d - G) = Rate * d - Rate * G /\ Rate * G \in Nat
    BY <1>4, <1>6
  <2> QED
    BY <1>1, <1>3, <1>4, <1>5, <1>6, <2>1, <2>2
<1>8. /\ TimeAt(at.timestart)' = TimeAt(s) /\ TimeAt(at.timeend)' = TimeAt(e)
  BY <1>2 DEF TimeAt, Granule
<1> QED
  BY <1>2, <1>7, <1>8 DEF TimeCameRound

LEMMA TypesStep ==
  ASSUME CalibrationIsShort
  PROVE  Inv /\ Inv' /\ Types /\ [Next]_vars => Types'
<1> SUFFICES ASSUME Inv, Inv', Types, [Next]_vars PROVE Types'
  OBVIOUS
<1>1. TypeOK /\ Bounded
  BY DEF Types
<1>2. 0 \in Ticks /\ Ticks \subseteq Nat
  BY RangeAssumption DEF Ticks
\* That at keeps its type is in Inv'.
<1>3. \A what \in DOMAIN at' : at'[what] \in 0 .. clock'
  BY DEF Inv, Typed
<1>4. LastPreemption \in Nat /\ SleepTicks \in Nat
  <2>1. Naps[program] \in Nat
    BY <1>1, NapsAssumption DEF TypeOK
  <2> QED
    BY <2>1, RateAssumption, BoundAssumption, ProductType
       DEF LastPreemption, SleepTicks
<1>5. UNCHANGED << program, tickorigin, timeorigin, delay >>
  BY DEF Next, Thread, ReadTimeStart, ReadTickStart, WakeUp, ReadTimeEnd,
         ClockFails, BeginDelay, PollDelay, CallLoops, BeginSample,
         DoQuantum, EndSample, Return, Tick, Terminated, config, vars
<1>6. LastPreemption' = LastPreemption /\ SleepTicks' = SleepTicks
  BY <1>5 DEF LastPreemption, SleepTicks
<1>7. getticks \in Ticks /\ clock \in Nat
  BY CounterRange DEF Inv, Typed, getticks, Counter
<1> USE DEF Goto
<1>8. CASE UNCHANGED vars
  BY <1>1, <1>5, <1>6, <1>8
     DEF Types, TypeOK, Bounded, vars, calibration, mdelay, loops
<1>9. CASE Tick
  <2>1. /\ clock' = clock + 1
        /\ UNCHANGED << pc, calibration, mdelay, loops, at >>
    BY <1>9 DEF Tick
  <2>2. TypeOK'
    BY <1>1, <1>3, <1>5, <1>7, <2>1
       DEF TypeOK, calibration, mdelay, loops
  <2>3. pc \in {"time", "tick", "awake"} => clock < LastPreemption
    <3>1. program = "nspertick" \/ program = "ftq"
      BY <1>1 DEF TypeOK, Programs
    <3> QED
      BY <1>1, <1>9, <3>1 DEF Tick, Waits, Calibrating, LastPreemption
  <2>4. pc = "asleep" =>
          clock < LastPreemption \/ clock < at.tickstart + SleepTicks
    <3>1. program = "nspertick" \/ program = "ftq"
      BY <1>1 DEF TypeOK, Programs
    <3>2. at.tickstart \in Nat
      BY DEF Inv, Typed, Reads, NoReads
    <3> QED
      BY <1>1, <1>4, <1>7, <1>9, <3>1, <3>2
         DEF Tick, Waits, Calibrating, LastPreemption, Slept, SleepTicks
  <2>5. at.tickstart \in Nat
    BY DEF Inv, Typed, Reads, NoReads
  <2>6. Bounded'
    BY <1>1, <1>4, <1>6, <1>7, <2>1, <2>3, <2>4, <2>5 DEF Bounded, loops
  <2> QED
    BY <2>2, <2>6 DEF Types
<1>10. CASE ReadTimeStart
  <2>1. program = "ftq" => timestart' \in Ticks
    <3>1. TimeAt(clock) \in Int
      BY <1>7, TimeError DEF Inv, Measuring
    <3> QED
      BY <1>10, <3>1, TicksModulo DEF ReadTimeStart, Time
  <2> QED
    BY <1>1, <1>3, <1>5, <1>6, <1>10, <2>1
       DEF ReadTimeStart, Types, TypeOK, Bounded, mdelay, loops
<1>11. CASE ReadTickStart
  <2>1. at'.tickstart = clock
    BY <1>11 DEF ReadTickStart, Note, Inv, Typed, Reads, NoReads
  <2> QED
    BY <1>1, <1>3, <1>4, <1>5, <1>6, <1>7, <1>11, <2>1
       DEF ReadTickStart, Types, TypeOK, Bounded, mdelay, loops
<1>12. CASE WakeUp
  <2>1. el' \in Ticks
    <3>1. getticks - tickstart \in Int
      BY <1>1, <1>2, <1>7 DEF TypeOK
    <3> QED
      BY <1>12, <3>1, TicksModulo DEF WakeUp, Elapsed
  <2>2. at'.tickstart = at.tickstart
    BY <1>12 DEF WakeUp, Note, Inv, Typed, Reads, NoReads
  <2> QED
    BY <1>1, <1>3, <1>5, <1>6, <1>12, <2>1, <2>2
       DEF WakeUp, Types, TypeOK, Bounded, mdelay, loops
<1>13. CASE ReadTimeEnd
  <2>1. Calibrated'
    BY <1>5, <1>13 DEF ReadTimeEnd, Calibrated
  <2>2. 0 < ns'
    BY <1>13, <2>1, TimeHolds DEF Inv, CalibrationError
  <2>3. Time - timestart \in Int
    <3>1. TimeAt(clock) \in Nat
      BY <1>7, TimeError DEF Inv, Measuring
    <3>2. at.timestart \in Nat
      BY DEF Inv, Typed, Reads, NoReads
    <3>3. TimeAt(at.timestart) \in Nat
      BY <3>2, TimeError DEF Inv, Measuring
    <3>4. timestart = TimeRead(at.timestart)
      BY <1>13 DEF ReadTimeEnd, Inv, Measuring
    <3>5. /\ TimeAt(at.timestart) % TickRange \in Nat
          /\ TimeAt(clock) % TickRange \in Nat
      <4>1. TickRange \in Nat \ {0}
        BY RangeAssumption
      <4>2. \A a \in Nat : a % TickRange \in Nat
        BY <4>1
      <4> QED
        BY <4>2, <3>1, <3>3, Zenon
    <3>6. TimeRead(at.timestart) \in Nat
      BY <3>3, <3>5 DEF TimeRead
    <3>7. Time \in Nat
      BY <3>1, <3>5 DEF Time
    <3> QED
      BY <3>4, <3>6, <3>7
  <2>4. ns' \in 0 .. LongRange - 1
    BY <1>13, <2>3, RangeAssumption DEF ReadTimeEnd
  <2> QED
    BY <1>1, <1>3, <1>5, <1>6, <1>13, <2>2, <2>4
       DEF ReadTimeEnd, Types, TypeOK, Bounded, mdelay, loops
<1>14. CASE ClockFails
  BY <1>1, <1>3, <1>5, <1>6, <1>14
     DEF ClockFails, Types, TypeOK, Bounded, calibration, mdelay, loops
<1>15. CASE BeginDelay
  <2>1. InTicks(delay) \in Nat
    BY <1>1, InTicksType, OptionsAssumption DEF TypeOK
  <2>2. end' \in Ticks
    BY <1>2, <1>7, <1>15, <2>1, TicksModulo DEF BeginDelay
  <2> QED
    BY <1>1, <1>2, <1>3, <1>5, <1>7, <1>15, <2>2
       DEF BeginDelay, Types, TypeOK, Bounded, loops
<1>16. CASE PollDelay
  BY <1>1, <1>3, <1>5, <1>16
     DEF PollDelay, Types, TypeOK, Bounded, calibration, mdelay, loops
<1>17. CASE CallLoops
  BY <1>1, <1>2, <1>3, <1>5, <1>7, <1>17
     DEF CallLoops, Types, TypeOK, Bounded, calibration
<1>18. CASE BeginSample
  <2>1. tickinterval \in Nat
    BY <1>1, InTicksType, OptionsAssumption DEF tickinterval
  <2>2. tickend' \in Ticks
    BY <1>1, <1>2, <1>18, <2>1, TicksModulo DEF BeginSample, TypeOK
  <2> QED
    BY <1>1, <1>3, <1>5, <1>7, <1>18, <2>2
       DEF BeginSample, Types, TypeOK, Bounded, calibration, mdelay
<1>19. CASE DoQuantum
  BY <1>1, <1>3, <1>5, <1>7, <1>19
     DEF DoQuantum, Types, TypeOK, Bounded, calibration, mdelay
<1>20. CASE EndSample
  BY <1>1, <1>3, <1>5, <1>20, OptionsAssumption
     DEF EndSample, Types, TypeOK, Bounded, calibration, mdelay
<1>21. CASE Return
  BY <1>1, <1>3, <1>5, <1>21
     DEF Return, Types, TypeOK, Bounded, calibration, mdelay, loops
<1> QED
  BY <1>8, <1>9, <1>10, <1>11, <1>12, <1>13, <1>14, <1>15, <1>16, <1>17,
     <1>18, <1>19, <1>20, <1>21 DEF Next, Thread, Terminated

\* Every variable keeps the type, and the width, of its C counterpart, and no
\* interval is divided by 0: provided that no preemption lasts until the time
\* of the calibration has come round, which takes 4 seconds where ticks have
\* 32 bits (cycle.h) and centuries where they have 64.
THEOREM TypeCorrect ==
  ASSUME CalibrationIsShort
  PROVE  Spec => []TypeOK
<1>1. Init => Types
  BY TypesInit
<1>2. Inv /\ Inv' /\ Types /\ [Next]_vars => Types'
  BY TypesStep
<1>3. Types => TypeOK
  BY DEF Types
<1> QED
  BY InvIsInvariant, <1>1, <1>2, <1>3, PTL DEF Spec

=============================================================================
