------------------------------- MODULE FtqRun -------------------------------
(***************************************************************************)
(* What one run of ftq promises, with none of its threads, cores and       *)
(* locks: nobody measures before the start; then every member of the crew  *)
(* measures a series of its own; only when all series are complete are     *)
(* they published, in order; and the run succeeds exactly when all of them *)
(* have been.  It may fail at any time before that.  A published series    *)
(* may be cut short, which goes unnoticed and spoils no other.             *)
(***************************************************************************)
EXTENDS Naturals, Sequences

CONSTANTS
  Member,     \* all who may be in a crew
  Value       \* what one sample may be

VARIABLES
  crew,       \* the members of this run
  columns,    \* how many series are to be published
  length,     \* samples per series, settled before the start
  started,
  series,     \* what each member has measured
  published,  \* the series made public
  spoilt,     \* the members whose series is not whole there
  outcome     \* "running", "success", or the manner of failing

vars == << crew, columns, length, started, series, published, spoilt,
           outcome >>

Failures == { "failure", "aborted" }

Init ==
  /\ crew \subseteq Member
  /\ columns \in Nat
  /\ length \in Nat
  /\ started = FALSE
  /\ series = [t \in Member |-> << >>]
  /\ published = << >>
  /\ spoilt = {}
  /\ outcome = "running"

Settle ==
  /\ outcome = "running" /\ ~started
  /\ length' \in 0 .. length
  /\ UNCHANGED << crew, columns, started, series, published, spoilt, outcome >>

Start ==
  /\ outcome = "running" /\ ~started
  /\ started' = TRUE
  /\ UNCHANGED << crew, columns, length, series, published, spoilt, outcome >>

Measure(t) ==
  /\ outcome = "running" /\ started
  /\ published = << >>
  /\ Len(series[t]) < length
  /\ \E x \in Value : series' = [series EXCEPT ![t] = Append(@, x)]
  /\ UNCHANGED << crew, columns, length, started, published, spoilt, outcome >>

Complete == \A t \in crew : Len(series[t]) = length

\* What is left of a series that is cut short.
CutShort(whole) == { SubSeq(whole, 1, n) : n \in 0 .. Len(whole) - 1 }

Publishing ==
  /\ outcome = "running" /\ started
  /\ Complete
  /\ Len(published) < columns
  /\ UNCHANGED << crew, columns, length, started, series, outcome >>

Publish ==
  /\ Publishing
  /\ published' = Append(published, series[Len(published)])
  /\ UNCHANGED spoilt

Spoil ==
  /\ Publishing
  /\ spoilt' = spoilt \cup {Len(published)}
  /\ \E part \in CutShort(series[Len(published)]) :
       published' = Append(published, part)

Succeed ==
  /\ outcome = "running" /\ started
  /\ Complete
  /\ Len(published) = columns
  /\ outcome' = "success"
  /\ UNCHANGED << crew, columns, length, started, series, published, spoilt >>

Fail ==
  /\ outcome = "running"
  /\ Len(published) < columns
  /\ outcome' \in Failures
  /\ UNCHANGED << crew, columns, length, started, series, published, spoilt >>

Next ==
  Settle \/ Start \/ (\E t \in crew : Measure(t)) \/ Publish \/ Spoil
  \/ Succeed \/ Fail

Spec == Init /\ [][Next]_vars

=============================================================================
