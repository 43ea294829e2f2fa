------------------------------ MODULE TimeBase ------------------------------
(***************************************************************************)
(* getticks of cycle.h on PowerPC: the 64-bit time base can only be read   *)
(* in halves, and goes on between the reads.  The upper half is read       *)
(* before and after the lower one, and all is done again if it changed.    *)
(*                                                                         *)
(* A value of the time base is a pair << upper, lower >>.  One reader      *)
(* calls getticks again and again.  The upper half does not wrap around.   *)
(***************************************************************************)
EXTENDS Naturals

CONSTANTS
  HalfRange,  \* number of values of the lower half, 2^32
  MaxUpper    \* bound: the upper half stops there

ASSUME HalfRangeAssumption == HalfRange \in Nat \ {0}
ASSUME MaxUpperAssumption == MaxUpper \in Nat

VARIABLES
  base,    \* the time base
  pc,
  tbu0,
  tbl,
  result,  \* what the latest call returned
  begin,   \* history: the time base when the present call began
  seen,    \* history: the time base when tbl was read
  retries  \* history: the attempts of the present call that failed

vars == << base, pc, tbu0, tbl, result, begin, seen, retries >>

Lower == 0 .. HalfRange - 1

Value == Nat \X Lower

\* The order of time base values.
Leq(v, w) == v[1] < w[1] \/ (v[1] = w[1] /\ v[2] <= w[2])

Init ==
  /\ base \in (0 .. MaxUpper) \X Lower
  /\ pc = "idle"
  /\ tbu0 = 0
  /\ tbl = 0
  /\ result = << 0, 0 >>
  /\ begin = << 0, 0 >>
  /\ seen = << 0, 0 >>
  /\ retries = 0

Call ==
  /\ pc = "idle"
  /\ pc' = "upper"
  /\ begin' = base
  /\ retries' = 0
  /\ UNCHANGED << base, tbu0, tbl, result, seen >>

ReadUpper ==
  /\ pc = "upper"
  /\ pc' = "lower"
  /\ tbu0' = base[1]
  /\ UNCHANGED << base, tbl, result, begin, seen, retries >>

ReadLower ==
  /\ pc = "lower"
  /\ pc' = "check"
  /\ tbl' = base[2]
  /\ seen' = base
  /\ UNCHANGED << base, tbu0, result, begin, retries >>

\* Mutant of Unchanged: the second read is not compared.
UnchangedAlways == TRUE

\* tbu1, read now, is what tbu0 was.
Unchanged == base[1] = tbu0

\* (tbu0 << 32) | tbl
ReturnTicks ==
  /\ pc = "check"
  /\ Unchanged
  /\ pc' = "idle"
  /\ result' = << tbu0, tbl >>
  /\ UNCHANGED << base, tbu0, tbl, begin, seen, retries >>

\* Mutant of LoopStart: tbu0 is not read again.
LoopStartLower == "lower"

LoopStart == "upper"

Retry ==
  /\ pc = "check"
  /\ ~Unchanged
  /\ pc' = LoopStart
  /\ retries' = retries + 1
  /\ UNCHANGED << base, tbu0, tbl, result, begin, seen >>

\* The hardware counts on, carrying into the upper half.
Tick ==
  /\ base # << MaxUpper, HalfRange - 1 >>
  /\ base' = IF base[2] = HalfRange - 1 THEN << base[1] + 1, 0 >>
                                        ELSE << base[1], base[2] + 1 >>
  /\ UNCHANGED << pc, tbu0, tbl, result, begin, seen, retries >>

Reader == Call \/ ReadUpper \/ ReadLower \/ ReturnTicks \/ Retry

Next == Reader \/ Tick

Spec == Init /\ [][Next]_vars

-----------------------------------------------------------------------------

\* Every variable has the type of its C counterpart.
TypeOK ==
  /\ base \in Value
  /\ pc \in {"idle", "upper", "lower", "check"}
  /\ tbu0 \in Nat
  /\ tbl \in Lower
  /\ result \in Value
  /\ begin \in Value
  /\ seen \in Value
  /\ retries \in Nat

\* A call returns a value the time base really had during the call: at most
\* what it is on return, and no less than what it was at the call.
ReadsPresentTime ==
  [][pc # "idle" /\ pc' = "idle" =>
       Leq(begin, result') /\ Leq(result', base)]_vars

\* Time never runs backwards between calls, whatever carries happen.
TimeIsMonotone == [][Leq(result, result')]_vars

\* A call is held up by nothing but carries, and by none of them twice: it
\* never makes more attempts in vain than the upper half has changed since it
\* began.  An attempt without a carry is thus its last.
RetriesPerCarry == pc # "idle" => retries <= base[1] - begin[1]

=============================================================================
