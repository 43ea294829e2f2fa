------------------------------- MODULE Timing -------------------------------
(***************************************************************************)
(* One thread of ftq and its clocks, from the calibration of               *)
(* compute_ticksperns (linux.c, illumos.c) over the delay of -d            *)
(* (ftq_mdelay) to the samples of main_loops; and the program nspertick,   *)
(* which calibrates by the seconds of the day.                             *)
(*                                                                         *)
(* FtqCore takes ticks for unbounded numbers.  Here a ticks variable has   *)
(* the width of its type, 64 bits or, on Alpha, 32, and wraps around.  Two *)
(* clocks are read one after the other, with the thread preempted for any  *)
(* time in between.  Real time is counted in ticks.                        *)
(***************************************************************************)
EXTENDS Integers

CONSTANTS
  TickRange,       \* number of values of a ticks variable
  LongRange,       \* number of values of an unsigned long long
  Rate,            \* ticks per ns, in truth
  Second,          \* the granule of nspertick's time, in ns
  Naps,            \* per program: how long it sleeps, in ns
  TickOrigins,     \* what the counter shows at first
  TimeOrigins,     \* and the other clock, in ticks
  Delays,          \* the values of -d, in ns
  Interval,        \* interval, in ns
  NumSamples,
  MinPass,         \* ticks that one pass of a loop takes, from read to read:
  MaxPass,         \*   the least, and the most if nobody preempts the thread
  MaxCalibration,  \* bound: by then ftq has calibrated
  MaxClock,        \* bound: from then on nobody is preempted
  Horizon          \* bound: by then all must be over

Programs == {"ftq", "nspertick"}

\* A difference of ticks fits an unsigned long long.
ASSUME RangeAssumption ==
  TickRange \in Nat \ {0} /\ LongRange \in Nat \ {0} /\ TickRange <= LongRange
ASSUME RateAssumption == Rate \in Nat \ {0} /\ Second \in Nat \ {0}
\* nspertick sleeps for a second at least.
ASSUME NapsAssumption ==
  Naps \in [Programs -> Nat \ {0}] /\ Second <= Naps["nspertick"]
ASSUME OriginsAssumption ==
  TickOrigins \subseteq 0 .. TickRange - 1 /\ TimeOrigins \subseteq Nat
ASSUME OptionsAssumption ==
  Delays \subseteq Nat /\ Interval \in Nat /\ NumSamples \in Nat
\* Two reads of a loop differ: a cycle counter, not a slow bus clock.
ASSUME PassAssumption ==
  MinPass \in Nat \ {0} /\ MaxPass \in Nat /\ MinPass <= MaxPass
ASSUME BoundAssumption ==
  MaxCalibration \in Nat /\ MaxClock \in Nat /\ Horizon \in Nat

VARIABLES
  clock,         \* real time
  program,
  tickorigin,
  timeorigin,
  pc,
  timestart,     \* of compute_ticksperns and nspertick, like the next one
  tickstart,
  el,            \* ticksperns is el / ns
  ns,
  delay,
  start,         \* of ftq_mdelay, like the next one
  end,
  tickend,       \* of main_loops, like the next two
  ticknow,
  done,
  at             \* when the latest reads were made, by name, in real time

config == << program, tickorigin, timeorigin, delay >>

calibration == << timestart, tickstart, el, ns >>

mdelay == << start, end >>

loops == << tickend, ticknow, done >>

vars == << clock, config, pc, calibration, mdelay, loops, at >>

\* getticks: on Alpha the lower half of a counter.
getticks == (tickorigin + clock) % TickRange

Granule == IF program = "ftq" THEN 1 ELSE Second

\* What the other clock shows at t, in ns.
TimeAt(t) == ((timeorigin + t) \div (Rate * Granule)) * Granule

\* nsec_ticks, whose result is of type ticks, or the seconds of gettimeofday.
Time == IF program = "ftq" THEN TimeAt(clock) % TickRange ELSE TimeAt(clock)

NoReads == [timestart |-> 0, tickstart |-> 0, tickend |-> 0, timeend |-> 0,
            entry |-> 0, now |-> 0]

Init ==
  /\ clock = 0
  /\ program \in Programs
  /\ tickorigin \in TickOrigins
  /\ timeorigin \in TimeOrigins
  /\ delay \in Delays
  /\ pc = "time"
  /\ timestart = 0 /\ tickstart = 0 /\ el = 0 /\ ns = 1
  /\ start = 0 /\ end = 0
  /\ tickend = 0 /\ ticknow = 0 /\ done = 0
  /\ at = NoReads

Goto(from, to) == pc = from /\ pc' = to

\* A clock is read: when, for the record.
Note(what) == at' = [at EXCEPT ![what] = clock]

-----------------------------------------------------------------------------
(* Calibration                                                             *)

ReadTimeStart ==
  /\ Goto("time", "tick")
  /\ timestart' = Time
  /\ Note("timestart")
  /\ UNCHANGED << clock, config, tickstart, el, ns, mdelay, loops >>

ReadTickStart ==
  /\ Goto("tick", "asleep")
  /\ tickstart' = getticks
  /\ Note("tickstart")
  /\ UNCHANGED << clock, config, timestart, el, ns, mdelay, loops >>

Slept == at.tickstart + Naps[program] * Rate <= clock

\* Mutant of Elapsed: the difference is taken of signed numbers.
ElapsedSigned == getticks - tickstart

Elapsed == (getticks - tickstart) % TickRange

WakeUp ==
  /\ Slept
  /\ Goto("asleep", "awake")
  /\ el' = Elapsed
  /\ Note("tickend")
  /\ UNCHANGED << clock, config, timestart, tickstart, ns, mdelay, loops >>

\* The two times have the width of ticks, but their difference has 64 bits.
ReadTimeEnd ==
  /\ Goto("awake", IF program = "ftq" THEN "released" ELSE "done")
  /\ ns' = (Time - timestart) % LongRange
  /\ Note("timeend")
  /\ UNCHANGED << clock, config, timestart, tickstart, el, mdelay, loops >>

\* clock_gettime fails, and nsec_ticks with it.
ClockFails ==
  /\ program = "ftq"
  /\ pc \in {"time", "awake"}
  /\ pc' = "exited"
  /\ UNCHANGED << clock, config, calibration, mdelay, loops, at >>

\* x ns in ticks: x * ticksperns, truncated.
InTicks(x) == (x * el) \div ns

-----------------------------------------------------------------------------
(* ftq_mdelay                                                              *)

\* What only the calibration needed goes out of scope.
BeginDelay ==
  /\ Goto("released", "delay")
  /\ start' = getticks
  /\ end' = (getticks + InTicks(delay)) % TickRange
  /\ at' = [NoReads EXCEPT !.entry = clock, !.now = clock]
  /\ timestart' = 0 /\ tickstart' = 0
  /\ UNCHANGED << clock, config, el, ns, loops >>

\* Mutant of DelayGoesOn: wrap-around is not thought of.
DelayGoesOnPlainly(now) == now < end

\* Mutant of DelayGoesOn: it is not seen that the counter has wrapped, too.
DelayGoesOnWrapped(now) == now < end \/ end < start

DelayGoesOn(now) == now < end \/ (now > start /\ end < start)

\* One read of the loop, which ends with it or goes on.
PollDelay ==
  /\ at.now + MinPass <= clock
  /\ Goto("delay", IF DelayGoesOn(getticks) THEN "delay" ELSE "call")
  /\ Note("now")
  /\ UNCHANGED << clock, config, calibration, mdelay, loops >>

-----------------------------------------------------------------------------
(* main_loops                                                              *)

tickinterval == InTicks(Interval)

CallLoops ==
  /\ Goto("call", "top")
  /\ tickend' = getticks
  /\ Note("entry")
  /\ start' = 0 /\ end' = 0
  /\ UNCHANGED << clock, config, calibration, ticknow, done >>

BeginSample ==
  /\ Goto("top", "spin")
  /\ done < NumSamples
  /\ tickend' = (tickend + tickinterval) % TickRange
  /\ ticknow' = getticks
  /\ Note("now")
  /\ UNCHANGED << clock, config, calibration, mdelay, done >>

\* Mutant of Expired: the loop stops only on the very tick of the deadline.
ExpiredExactly == tickend = ticknow

Expired == tickend <= ticknow

DoQuantum ==
  /\ pc = "spin"
  /\ ~Expired
  /\ at.now + MinPass <= clock
  /\ ticknow' = getticks
  /\ Note("now")
  /\ UNCHANGED << clock, config, pc, calibration, mdelay, tickend, done >>

EndSample ==
  /\ Goto("spin", "top")
  /\ Expired
  /\ done' = done + 1
  /\ UNCHANGED << clock, config, calibration, mdelay, tickend, ticknow, at >>

Return ==
  /\ Goto("top", "done")
  /\ done = NumSamples
  /\ UNCHANGED << clock, config, calibration, mdelay, loops, at >>

-----------------------------------------------------------------------------

\* A thread that takes its time without being preempted.
Waits ==
  \/ pc = "asleep" /\ ~Slept
  \/ pc \in {"delay", "spin"} /\ clock < at.now + MaxPass

Calibrating == program = "ftq" /\ pc \in {"time", "tick", "asleep", "awake"}

Tick ==
  /\ pc \notin {"done", "exited"}
  /\ clock < Horizon
  /\ Waits \/ clock < IF Calibrating THEN MaxCalibration ELSE MaxClock
  /\ clock' = clock + 1
  /\ UNCHANGED << config, pc, calibration, mdelay, loops, at >>

\* The end, which a thread that is not done by the horizon misses.
Over == pc \in {"done", "exited"} \/ clock = Horizon

Terminated == Over /\ UNCHANGED vars

Thread ==
  \/ ReadTimeStart \/ ReadTickStart \/ WakeUp \/ ReadTimeEnd
  \/ ClockFails
  \/ BeginDelay \/ PollDelay
  \/ CallLoops \/ BeginSample \/ DoQuantum \/ EndSample \/ Return

Next == Thread \/ Tick \/ Terminated

Spec == Init /\ [][Next]_vars

\* The clock never stops for good and the thread is never starved for good.
FairSpec == Spec /\ WF_vars(Thread) /\ WF_vars(Tick)

-----------------------------------------------------------------------------

Ticks == 0 .. TickRange - 1

\* Every variable has the type, and the width, of its C counterpart.
TypeOK ==
  /\ clock \in Nat
  /\ program \in Programs
  /\ delay \in Delays
  /\ tickstart \in Ticks /\ el \in Ticks
  /\ start \in Ticks /\ end \in Ticks
  /\ tickend \in Ticks /\ ticknow \in Ticks
  /\ program = "ftq" => timestart \in Ticks
  /\ ns \in 1 .. LongRange - 1
  /\ \A what \in DOMAIN at : at[what] \in 0 .. clock
  /\ done \in 0 .. NumSamples

Calibrated == pc = IF program = "ftq" THEN "released" ELSE "done"

\* The times between two reads that are meant to be one.
Gap == (at.tickstart - at.timestart) + (at.timeend - at.tickend)

\* Has the clock of nsec_ticks, cut to the width of ticks, begun a new period?
TimeWrapped ==
  /\ program = "ftq"
  /\ TimeAt(at.timestart) \div TickRange # TimeAt(at.timeend) \div TickRange

\* Has it, or the difference of its times, come round within the calibration?
TimeCameRound ==
  (IF program = "ftq" THEN TickRange ELSE LongRange)
    <= TimeAt(at.timeend) - TimeAt(at.timestart)

\* Has the counter come round within the sleep?
CameRound == at.tickend - at.tickstart >= TickRange

\* ticksperns = el / ns is never too high by more than the granule of the
\* clock, unless that came round, and too low by no more than the granule,
\* what the thread lost between two reads of a pair, and the two wraps the
\* code cannot see.
CalibrationError ==
  Calibrated =>
    /\ ~TimeCameRound => 0 < ns /\ el < Rate * (ns + Granule)
    /\ ~TimeWrapped /\ ~CameRound => Rate * (ns - Granule) < el + Gap

\* The bounds leave no room for a preemption that lasts until the time of a
\* calibration has come round, after which ns may be 0.
CalibrationIsShort ==
  /\ MaxCalibration + Rate * Naps["ftq"] + Rate <= Rate * TickRange
  /\ MaxClock + Rate * Naps["nspertick"] + Rate * Second <= Rate * LongRange

\* However start, end and the counter lie around a wrap, nobody leaves
\* ftq_mdelay before the delay is over, if it fits the counter at all.
DelayNotEarly ==
  pc = "call" /\ InTicks(delay) \in Ticks => InTicks(delay) <= at.now - at.entry

\* The end of sample k, in real time, as it would be with unbounded ticks.
Deadline(k) == at.entry + k * tickinterval

Period(t) == (tickorigin + t) \div TickRange

\* main_loops compares without care for wrap-around, but that is all: while
\* the deadline and the present belong to one period of the counter, a sample
\* neither ends before its deadline nor goes on after it.
WrapConfined ==
  tickinterval \in Nat =>
    /\ pc = "top" /\ done > 0 /\ Period(at.now) = Period(Deadline(done)) =>
         Deadline(done) <= at.now
    /\ pc = "spin" /\ ~Expired /\ Period(at.now) = Period(Deadline(done + 1))
         => at.now < Deadline(done + 1)

\* How many values of the counter end the loop the thread is in: those from
\* the deadline to the wrap, or, if the end of a delay lies behind a wrap,
\* those from the end to the start.
ExitRoom ==
  IF pc = "delay" /\ end < start THEN start - end + 1
  ELSE TickRange - (IF pc = "delay" THEN end ELSE tickend)

\* A pass may jump over all of them, in every period of the counter.
MayBeJumped == pc \in {"delay", "spin"} /\ ExitRoom < MaxPass

\* Wherever the deadlines lie, and whatever preemptions there have been, once
\* they are over ftq and nspertick come to an end; or ftq comes to a loop
\* whose exit is narrower than one pass, and for which the code promises
\* nothing: a deadline just before a wrap may be missed for a whole period.
Finishes == <>(pc \in {"done", "exited"} \/ MayBeJumped)

=============================================================================
