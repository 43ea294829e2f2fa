---------------------------- MODULE SampleSeries ----------------------------
(***************************************************************************)
(* What an FTQ run promises of its time series, with none of the loop that *)
(* produces it.  Time from `origin' on is cut into windows of `interval'   *)
(* ticks.  Sample k belongs to window k; its end is never before the end   *)
(* of that window, it does work exactly when it begins before the end of   *)
(* that window, and samples follow one another without overlap.  A sample  *)
(* that overran is therefore paid for by the samples after it (README.txt, *)
(* section 1: "shrinking subsequent samples to get the time series back on *)
(* track").                                                                *)
(***************************************************************************)
EXTENDS Naturals

CONSTANTS
  NumSamples,   \* length of the series
  QuantumTicks  \* least number of ticks one work quantum takes

VARIABLES
  origin,       \* tick at which window 0 opens
  interval,     \* length of a window in ticks
  taken,        \* number of samples recorded
  series        \* the samples, indexed from 0

vars == << origin, interval, taken, series >>

Index == 0 .. NumSamples - 1

Sample == [begin : Nat, end : Nat, work : Nat]

NoSample == [begin |-> 0, end |-> 0, work |-> 0]

Init ==
  /\ origin \in Nat
  /\ interval \in Nat
  /\ taken = 0
  /\ series = [k \in Index |-> NoSample]

\* The end of window k.
Deadline(k) == origin + (k + 1) * interval

\* The earliest time at which sample k may begin.
Earliest(k) == IF k = 0 THEN origin ELSE series[k - 1].end

\* What one recorded sample must look like when it is number k.
Legal(k, s) ==
  /\ s \in Sample
  /\ Earliest(k) <= s.begin
  /\ s.begin <= s.end
  /\ Deadline(k) <= s.end
  /\ (s.work = 0) <=> (Deadline(k) <= s.begin)
  /\ s.begin + s.work * QuantumTicks <= s.end

\* The only step: the next sample appears, complete, and the samples
\* recorded before it stay as they are.
Record ==
  /\ taken < NumSamples
  /\ taken' = taken + 1
  /\ Legal(taken, series'[taken])
  /\ series' = [series EXCEPT ![taken] = series'[taken]]
  /\ UNCHANGED << origin, interval >>

Spec == Init /\ [][Record]_vars

=============================================================================
