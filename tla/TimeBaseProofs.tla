--------------------------- MODULE TimeBaseProofs ---------------------------
(***************************************************************************)
(* What TimeBase promises holds for every size of the halves: a value      *)
(* assembled from two reads was a value of the time base, at the moment    *)
(* the lower half was read.                                                *)
(***************************************************************************)
EXTENDS TimeBase, TLAPS

\* The times a call remembers are in order, up to the present.
Ordered ==
  /\ Leq(result, base)
  /\ pc # "idle" => Leq(begin, base) /\ Leq(result, begin)
  /\ pc \in {"lower", "check"} => tbu0 <= base[1]
  /\ pc = "check" =>
       /\ tbl = seen[2]
       /\ tbu0 <= seen[1]
       /\ Leq(begin, seen)
       /\ Leq(seen, base)

\* The carries that spoilt an attempt came before what is now in tbu0.
Paid ==
  /\ pc = "upper" => begin[1] + retries <= base[1]
  /\ pc \in {"lower", "check"} => begin[1] + retries <= tbu0

Inv == TypeOK /\ Ordered /\ Paid

LEMMA InitInv == Init => Inv
<1> SUFFICES ASSUME Init PROVE Inv
  OBVIOUS
<1>1. (0 .. MaxUpper) \X Lower \subseteq Value
  BY MaxUpperAssumption DEF Value, Lower
<1>2. << 0, 0 >> \in Value /\ 0 \in Lower
  BY HalfRangeAssumption DEF Value, Lower
<1>3. TypeOK
  BY <1>1, <1>2 DEF Init, TypeOK
<1>4. Ordered
  BY <1>1 DEF Init, Ordered, Leq, Value, Lower
<1>5. Paid
  BY DEF Init, Paid
<1> QED
  BY <1>3, <1>4, <1>5 DEF Inv

\* The time base only goes forward.
LEMMA TickForward ==
  ASSUME TypeOK, Tick
  PROVE  /\ base' \in Value
         /\ base[1] <= base[1]'
         /\ base[1] = base[1]' => base[2] <= base[2]'
<1> USE HalfRangeAssumption DEF TypeOK, Tick, Value, Lower
<1>1. CASE base[2] = HalfRange - 1
  BY <1>1
<1>2. CASE base[2] # HalfRange - 1
  BY <1>2
<1> QED
  BY <1>1, <1>2

LEMMA TypeStep == Inv /\ [Next]_vars => TypeOK'
<1> SUFFICES ASSUME Inv, [Next]_vars PROVE TypeOK'
  OBVIOUS
<1> USE DEF Inv, TypeOK
<1>1. CASE Call
  BY <1>1 DEF Call
<1>2. CASE ReadUpper
  BY <1>2 DEF ReadUpper, Value
<1>3. CASE ReadLower
  BY <1>3 DEF ReadLower, Value
<1>4. CASE ReturnTicks
  BY <1>4 DEF ReturnTicks, Value
<1>5. CASE Retry
  BY <1>5 DEF Retry, LoopStart
<1>6. CASE Tick
  BY <1>6, TickForward DEF Tick
<1>7. CASE UNCHANGED vars
  BY <1>7 DEF vars
<1> QED
  BY <1>1, <1>2, <1>3, <1>4, <1>5, <1>6, <1>7 DEF Next, Reader

\* The heart of the matter: if the upper half is now what it was before the
\* lower half was read, then it was the same when the lower half was read.
LEMMA ReturnedWasSeen ==
  ASSUME Inv, ReturnTicks
  PROVE  result' = seen
<1>1. tbu0 = seen[1]
  BY DEF Inv, TypeOK, Ordered, ReturnTicks, Unchanged, Leq, Value, Lower
<1>2. result' = << seen[1], seen[2] >>
  BY <1>1 DEF Inv, Ordered, ReturnTicks
<1> QED
  BY <1>2 DEF Inv, TypeOK, Value

LEMMA LeqTransitive ==
  ASSUME NEW u \in Value, NEW v \in Value, NEW w \in Value,
         Leq(u, v), Leq(v, w)
  PROVE  Leq(u, w)
BY DEF Leq, Value, Lower

LEMMA OrderedStep == Inv /\ [Next]_vars => Ordered'
<1> SUFFICES ASSUME Inv, [Next]_vars PROVE Ordered'
  OBVIOUS
<1> USE DEF Inv, Ordered
<1>1. CASE Call
  BY <1>1 DEF Call, TypeOK, Leq, Value, Lower
<1>2. CASE ReadUpper
  BY <1>2 DEF ReadUpper, TypeOK, Value, Lower
<1>3. CASE ReadLower
  BY <1>3 DEF ReadLower, TypeOK, Leq, Value, Lower
<1>4. CASE ReturnTicks
  <2>1. result' = seen /\ base' = base /\ pc' = "idle" /\ pc = "check"
    BY <1>4, ReturnedWasSeen DEF ReturnTicks
  <2> QED
    BY <2>1
<1>5. CASE Retry
  BY <1>5 DEF Retry, LoopStart
<1>6. CASE Tick
  <2>1. Leq(base, base') /\ base' \in Value /\ base[1] <= base[1]'
    BY <1>6, TickForward DEF Leq, TypeOK, Value, Lower
  <2>2. UNCHANGED << pc, tbu0, tbl, result, begin, seen >>
    BY <1>6 DEF Tick
  <2>3. \A v \in Value : Leq(v, base) => Leq(v, base')
    BY <2>1, LeqTransitive DEF TypeOK
  <2>4. pc \in {"lower", "check"} => tbu0' <= base'[1]
    BY <2>1, <2>2 DEF TypeOK, Value
  <2> QED
    BY <2>2, <2>3, <2>4 DEF TypeOK
<1>7. CASE UNCHANGED vars
  BY <1>7 DEF vars
<1> QED
  BY <1>1, <1>2, <1>3, <1>4, <1>5, <1>6, <1>7 DEF Next, Reader

\* A failed attempt has seen a carry that no attempt before it has seen.
LEMMA PaidStep == Inv /\ [Next]_vars => Paid'
<1> SUFFICES ASSUME Inv, [Next]_vars PROVE Paid'
  OBVIOUS
<1> USE DEF Inv, TypeOK, Paid, Value, Lower
<1>1. CASE Call
  BY <1>1 DEF Call
<1>2. CASE ReadUpper
  BY <1>2 DEF ReadUpper
<1>3. CASE ReadLower
  BY <1>3 DEF ReadLower
<1>4. CASE ReturnTicks
  BY <1>4 DEF ReturnTicks
<1>5. CASE Retry
  <2>1. tbu0 < base[1]
    BY <1>5 DEF Retry, Unchanged, Ordered
  <2> QED
    BY <1>5, <2>1 DEF Retry, LoopStart
<1>6. CASE Tick
  <2>1. base[1] <= base'[1] /\ base'[1] \in Nat
    BY <1>6, TickForward
  <2>2. UNCHANGED << pc, tbu0, begin, retries >>
    BY <1>6 DEF Tick
  <2> QED
    BY <2>1, <2>2
<1>7. CASE UNCHANGED vars
  BY <1>7 DEF vars
<1> QED
  BY <1>1, <1>2, <1>3, <1>4, <1>5, <1>6, <1>7 DEF Next, Reader

\* The strengthening holds in every reachable state.
THEOREM Invariance == Spec => []Inv
<1>1. Inv /\ [Next]_vars => Inv'
  BY TypeStep, OrderedStep, PaidStep DEF Inv
<1> QED
  BY InitInv, <1>1, PTL DEF Spec

\* A call of getticks returns a value the time base had while the call was
\* running, for every size of the two halves.
THEOREM ReadIsAtomic == Spec => ReadsPresentTime
<1>1. Inv /\ [Next]_vars =>
        [pc # "idle" /\ pc' = "idle" =>
           Leq(begin, result') /\ Leq(result', base)]_vars
  <2> SUFFICES ASSUME Inv, Next, pc # "idle", pc' = "idle"
               PROVE  Leq(begin, result') /\ Leq(result', base)
    OBVIOUS
  <2>1. ReturnTicks
    BY DEF Next, Reader, Call, ReadUpper, ReadLower, Retry, LoopStart, Tick
  <2> QED
    BY <2>1, ReturnedWasSeen DEF Inv, Ordered, ReturnTicks
<1> QED
  BY Invariance, <1>1, PTL DEF Spec, ReadsPresentTime

\* Each attempt that fails costs a carry of its own (cycle.h:142-146).
THEOREM RetriesArePaidFor == Spec => []RetriesPerCarry
<1>1. Inv => RetriesPerCarry
  BY DEF Inv, TypeOK, Ordered, Paid, RetriesPerCarry, Value
<1> QED
  BY Invariance, <1>1, PTL

\* The values returned by successive calls never decrease.
THEOREM NeverBackwards == Spec => TimeIsMonotone
<1>1. Inv /\ [Next]_vars => [Leq(result, result')]_vars
  <2> SUFFICES ASSUME Inv, Next PROVE Leq(result, result')
    OBVIOUS
  <2>1. CASE ReturnTicks
    <3>1. result' = seen /\ Leq(result, begin) /\ Leq(begin, seen)
      BY <2>1, ReturnedWasSeen DEF Inv, Ordered, ReturnTicks
    <3> QED
      BY <3>1, LeqTransitive DEF Inv, TypeOK
  <2>2. CASE ~ReturnTicks
    <3>1. result' = result
      BY <2>2 DEF Next, Reader, Call, ReadUpper, ReadLower, Retry, Tick
    <3> QED
      BY <3>1 DEF Inv, TypeOK, Leq, Value, Lower
  <2> QED
    BY <2>1, <2>2
<1> QED
  BY Invariance, <1>1, PTL DEF Spec, TimeIsMonotone

=============================================================================
