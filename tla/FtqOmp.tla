------------------------------- MODULE FtqOmp -------------------------------
(***************************************************************************)
(* The program ftq_omp (ftq_omp.c, built with _WITH_OMP): the threads of a *)
(* parallel region share out the samples.  A sample lasts from its first   *)
(* clock read to the next multiple of interval_length, so that there is no *)
(* schedule to catch up with.                                              *)
(*                                                                         *)
(* The array holds time and count of sample s in cells 2s and 2s + 1; on   *)
(* entering the region every thread also stores its number in cell tid.    *)
(* Stores to the same cell race; each is one aligned 8-byte store, and the *)
(* last one stays.  OpenMP, as the program uses it: the threads enter the  *)
(* region at any time, `nowait' lets them leave the loop at any time, and  *)
(* the region ends when all have.                                          *)
(*                                                                         *)
(* Neither malloc nor fopen nor fprintf is checked: without memory, or     *)
(* without a file, the program crashes, and on a full disk a file is cut   *)
(* short.                                                                  *)
(***************************************************************************)
EXTENDS Integers, Sequences

CONSTANTS
  NumThreads,
  Requests,     \* the arguments of -n
  MaxSamples,   \* MAX_SAMPLES
  RequestBits,  \* the arguments of -i
  MinBits,      \* MIN_BITS
  MaxBits,      \* MAX_BITS
  WorkCost,     \* least number of ticks between two clock reads
  MaxClock      \* bound: from then on nobody is preempted

ASSUME NumThreadsAssumption == NumThreads \in Nat \ {0}
ASSUME SamplesAssumption == Requests \subseteq Int /\ MaxSamples \in Nat
ASSUME BitsAssumption ==
  RequestBits \subseteq Int /\ MaxBits \in Nat /\ MinBits \in 0 .. MaxBits
ASSUME ClockAssumption == WorkCost \in Nat \ {0} /\ MaxClock \in Nat

Thread == 0 .. NumThreads - 1

VARIABLES
  status,       \* how far main is, or how it ended
  numsamples,
  interval_length,
  use_stdout,
  output,       \* what has been printed: the lines of each file, if there
  clock,
  pc,           \* per thread, like the next five
  done,
  last,
  now,
  endinterval,
  count,
  samples,      \* shared
  measured      \* history: [begin, end, work] of each sample, if taken

config == << numsamples, interval_length, use_stdout >>

sampling == << clock, pc, done, last, now, endinterval, count, samples,
               measured >>

vars == << status, config, output, sampling >>

Sample == 0 .. numsamples - 1

\* The cells in use, of MAX_SAMPLES * 2.
Cells == 0 .. 2 * numsamples + NumThreads - 1

NotTaken == [begin |-> 0, end |-> 0, work |-> 0]

\* The argument of -n as an unsigned number, which is huge if it was negative,
\* and then clamped.
Clamped(n) == IF n \in 0 .. MaxSamples THEN n ELSE MaxSamples

\* Too few bits make the longest interval, too.
ClampedBits(b) == IF b \in MinBits .. MaxBits THEN b ELSE MaxBits

Init ==
  /\ status = "options"
  /\ numsamples \in { Clamped(n) : n \in Requests }
  /\ interval_length \in { 2 ^ ClampedBits(b) : b \in RequestBits }
  /\ use_stdout \in BOOLEAN
  /\ output = << >>
  /\ clock = 0
  /\ pc = [t \in Thread |-> "tag"]
  /\ done = [t \in Thread |-> 0]
  /\ last = [t \in Thread |-> 0]
  /\ now = [t \in Thread |-> 0]
  /\ endinterval = [t \in Thread |-> 0]
  /\ count = [t \in Thread |-> 0]
  /\ samples = [c \in Cells |-> 0]
  /\ measured = [s \in Sample |-> NotTaken]

\* The options are refused, or read through the NULL that a long option, all
\* of them declared without an argument, leaves in optarg.
OptionsFail ==
  /\ status = "options"
  /\ status' \in {"failure", "crashed"}
  /\ UNCHANGED << config, output, sampling >>

\* malloc, and a store into what it returned.
Start ==
  /\ status = "options"
  /\ status' \in {"sampling", "crashed"}
  /\ UNCHANGED << config, output, sampling >>

-----------------------------------------------------------------------------
(* The parallel region                                                     *)

Goto(t, from, to) == pc[t] = from /\ pc' = [pc EXCEPT ![t] = to]

\* schedule(static): contiguous blocks, the first ones longer by one.
BlockStart(t) ==
  LET extra == numsamples % NumThreads
  IN  t * (numsamples \div NumThreads) + (IF t < extra THEN t ELSE extra)

\* Mutant of InBlock: the loop bound is off by one.
InBlockInclusive(t, s) == BlockStart(t) <= s /\ s <= BlockStart(t + 1)

InBlock(t, s) == BlockStart(t) <= s /\ s < BlockStart(t + 1)

\* Mutant of NextBoundary: rounded down instead of up.
NextBoundaryDown(x) == x - (x % interval_length)

\* (last + interval_length) & ~(interval_length - 1)
NextBoundary(x) == x + interval_length - (x % interval_length)

TagSlot(t) ==
  /\ Goto(t, "tag", "align")
  /\ samples' = [samples EXCEPT ![t] = t]
  /\ UNCHANGED << clock, done, last, now, endinterval, count,
                  measured >>

\* The first interval is laid out by one clock read ...
AlignFirst(t) ==
  /\ Goto(t, "align", "enter")
  /\ endinterval' = [endinterval EXCEPT ![t] = NextBoundary(clock)]
  /\ UNCHANGED << clock, done, last, now, count, samples, measured >>

\* ... and begun by another.
EnterLoop(t) ==
  /\ Goto(t, "enter", "loop")
  /\ last' = [last EXCEPT ![t] = clock]
  /\ done' = [done EXCEPT ![t] = BlockStart(t)]
  /\ UNCHANGED << clock, now, endinterval, count, samples, measured >>

BeginSample(t) ==
  /\ Goto(t, "loop", "spin")
  /\ InBlock(t, done[t])
  /\ count' = [count EXCEPT ![t] = 0]
  /\ now' = [now EXCEPT ![t] = last[t]]
  /\ UNCHANGED << clock, done, last, endinterval, samples, measured >>

\* Mutant of Expired: the loop stops only on the very tick of the boundary.
ExpiredExactly(t) == now[t] = endinterval[t]

Expired(t) == endinterval[t] <= now[t]

DoQuantum(t) ==
  /\ pc[t] = "spin"
  /\ ~Expired(t)
  /\ now[t] + WorkCost <= clock
  /\ count' = [count EXCEPT ![t] = @ + 1]
  /\ now' = [now EXCEPT ![t] = clock]
  /\ UNCHANGED << clock, pc, done, last, endinterval, samples,
                  measured >>

\* Mutant of CountCell: time and count of neighbouring samples overlap.
CountCellOverlapping(s) == s * 2 + 2

TimeCell(s) == s * 2
CountCell(s) == s * 2 + 1

\* The sample is stored, and the next one begins at once.
EndSample(t) ==
  /\ Expired(t)
  /\ Goto(t, "spin", "loop")
  /\ samples' = [samples EXCEPT ![TimeCell(done[t])] = last[t],
                                ![CountCell(done[t])] = count[t]]
  /\ measured' = [measured EXCEPT ![done[t]] =
       [begin |-> last[t], end |-> now[t], work |-> count[t]]]
  /\ last' = [last EXCEPT ![t] = clock]
  /\ endinterval' = [endinterval EXCEPT ![t] = NextBoundary(clock)]
  /\ done' = [done EXCEPT ![t] = @ + 1]
  /\ UNCHANGED << clock, now, count >>

LeaveLoop(t) ==
  /\ Goto(t, "loop", "end")
  /\ ~InBlock(t, done[t])
  /\ UNCHANGED << clock, done, last, now, endinterval, count, samples,
                  measured >>

\* Mutant of RegionOver: main goes on with the first thread to leave the loop.
RegionOverForOne == \E t \in Thread : pc[t] = "end"

RegionOver == \A t \in Thread : pc[t] = "end"

-----------------------------------------------------------------------------
(* Output                                                                  *)

\* What file f has of sample s.
Cell(f, s) == IF f = "times" THEN TimeCell(s) ELSE CountCell(s)

\* The first n lines of file f.
Lines(f, n) == [i \in 1 .. n |-> samples[Cell(f, i - 1)]]

\* Printing into file f; the disk may be full any time.
PrintLines(f) ==
  \E n \in 0 .. numsamples :
    output' = [g \in DOMAIN output \cup {f} |->
                 IF g = f THEN Lines(f, n) ELSE output[g]]

\* Pairs of time and count; what stdout cannot take is lost.
PrintStdout ==
  /\ status = "sampling" /\ RegionOver
  /\ use_stdout
  /\ \E n \in 0 .. numsamples :
       output' = [f \in {"times", "counts"} |-> Lines(f, n)]
  /\ status' = "success"
  /\ UNCHANGED << config, sampling >>

PrintTimes ==
  /\ status = "sampling" /\ RegionOver
  /\ ~use_stdout
  /\ PrintLines("times")
  /\ status' = "times"
  /\ UNCHANGED << config, sampling >>

PrintCounts ==
  /\ status = "times"
  /\ PrintLines("counts")
  /\ status' = "success"
  /\ UNCHANGED << config, sampling >>

Opening ==
  \/ status = "sampling" /\ RegionOver /\ ~use_stdout
  \/ status = "times"

\* Mutant of OpenFails: main does without a file it cannot create.
OpenFailsIgnored ==
  /\ Opening
  /\ status' = IF status = "times" THEN "success" ELSE "times"
  /\ UNCHANGED << config, output, sampling >>

\* fopen returns NULL, and fprintf or fclose uses it.
OpenFails ==
  /\ Opening
  /\ status' = "crashed"
  /\ UNCHANGED << config, output, sampling >>

\* A thread that needs the clock to go on, at most to the first read past its
\* boundary.
Waits(t) ==
  /\ pc[t] = "spin" /\ ~Expired(t)
  /\ clock < now[t] + WorkCost /\ clock < endinterval[t] + WorkCost

Tick ==
  /\ status = "sampling" /\ ~RegionOver
  /\ clock < MaxClock \/ \E t \in Thread : Waits(t)
  /\ clock' = clock + 1
  /\ UNCHANGED << status, config, output, pc, done, last, now, endinterval,
                  count, samples, measured >>

Over == status \in {"success", "failure", "crashed"}

Terminated == Over /\ UNCHANGED vars

ThreadStep(t) ==
  /\ status = "sampling"
  /\ \/ TagSlot(t) \/ AlignFirst(t) \/ EnterLoop(t) \/ BeginSample(t)
     \/ DoQuantum(t) \/ EndSample(t) \/ LeaveLoop(t)
  /\ UNCHANGED << status, config, output >>

MainStep ==
  \/ OptionsFail \/ Start
  \/ PrintStdout \/ PrintTimes \/ PrintCounts \/ OpenFails

Next ==
  \/ \E t \in Thread : ThreadStep(t)
  \/ MainStep
  \/ Tick
  \/ Terminated

Spec == Init /\ [][Next]_vars

\* No thread is starved for good and the clock never stops for good.
FairSpec ==
  /\ Spec
  /\ \A t \in Thread : WF_vars(ThreadStep(t))
  /\ WF_vars(MainStep)
  /\ WF_vars(Tick)

-----------------------------------------------------------------------------

\* Every variable has the type of its C counterpart.
TypeOK ==
  /\ status \in {"options", "sampling", "times", "success", "failure",
                "crashed"}
  /\ numsamples \in Nat
  /\ interval_length \in Nat \ {0}
  /\ use_stdout \in BOOLEAN
  /\ output \in [DOMAIN output -> Seq(Nat)]
  /\ clock \in Nat
  /\ pc \in [Thread -> {"tag", "align", "enter", "loop", "spin", "end"}]
  /\ done \in [Thread -> 0 .. numsamples]
  /\ last \in [Thread -> Nat]
  /\ now \in [Thread -> Nat]
  /\ endinterval \in [Thread -> Nat]
  /\ count \in [Thread -> Nat]
  /\ samples \in [Cells -> Nat]
  /\ measured \in [Sample -> [begin : Nat, end : Nat, work : Nat]]

\* The samples thread t has recorded.
Recorded(t) == { s \in Sample : InBlock(t, s) /\ s < done[t] }

\* Cell c holds v, unless c is one of those the threads also number.
Holds(c, v) == samples[c] = v \/ (c < NumThreads /\ samples[c] = c)

\* The race of the array is confined to its first NumThreads cells, and there
\* to the number of the thread: everywhere else, and whatever the order of
\* the threads, the array holds what was measured.
RaceIsConfined ==
  \A t \in Thread : \A s \in Recorded(t) :
    /\ Holds(TimeCell(s), measured[s].begin)
    /\ Holds(CountCell(s), measured[s].work)

\* But for its first, a thread's samples are never empty, each ends in a later
\* interval than it began in, and none begins before the one before ended.
OneSamplePerInterval ==
  \A t \in Thread : \A s \in Recorded(t) \ {BlockStart(t)} :
    /\ measured[s].work > 0
    /\ measured[s].begin \div interval_length
         < measured[s].end \div interval_length
    /\ measured[s - 1].end <= measured[s].begin

\* Although the loop is nowait and no file is checked: whatever line i of an
\* output says is of sample i, taken by one thread and over, or the number of a
\* thread where that race was lost.
PrintedIsMeasured ==
  \A f \in DOMAIN output : \A i \in 1 .. Len(output[f]) :
    LET s == i - 1
        cell == IF f = "times" THEN 2 * s ELSE 2 * s + 1
        value == IF f = "times" THEN measured[s].begin ELSE measured[s].work
    IN  /\ output[f][i] = value \/ (cell < NumThreads /\ output[f][i] = cell)
        /\ \E t \in Thread :
             /\ s \in Recorded(t)
             /\ \A u \in Thread \ {t} : ~InBlock(u, s)

\* Success is never claimed with one file of the two missing, and a crash never
\* leaves counts without their times.
FilesPaired ==
  /\ status = "success" => DOMAIN output = {"times", "counts"}
  /\ "counts" \in DOMAIN output => "times" \in DOMAIN output

\* ftq_omp.c: "samples: each sample has a timestamp and a work count."
TimestampAndCount ==
  status = "success" =>
    \A s \in Sample :
      /\ samples[TimeCell(s)] = measured[s].begin
      /\ samples[CountCell(s)] = measured[s].work

\* The program comes to print its samples, or fails.
Finishes == <>Over

=============================================================================
