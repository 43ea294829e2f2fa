---------------------------- MODULE FtqOmpProofs ----------------------------
(***************************************************************************)
(* What the threads of ftq_omp share is safe, for every number of threads  *)
(* and of samples: the static schedule deals out every sample once, the    *)
(* race of the array does not leave its first cells, and what is printed   *)
(* was measured.                                                           *)
(***************************************************************************)
EXTENDS FtqOmp, NatLemmas, TLAPS

-----------------------------------------------------------------------------
(* The static schedule                                                     *)

\* What BlockStart is computed from.
LEMMA Share ==
  ASSUME numsamples \in Nat
  PROVE  /\ numsamples \div NumThreads \in Nat
         /\ numsamples % NumThreads \in 0 .. NumThreads - 1
         /\ numsamples = NumThreads * (numsamples \div NumThreads)
                           + (numsamples % NumThreads)
<1>1. numsamples = (numsamples \div NumThreads) * NumThreads
                     + (numsamples % NumThreads)
  BY Division, NumThreadsAssumption
<1>2. numsamples \div NumThreads \in Nat
  BY Quotient, NumThreadsAssumption
<1>3. numsamples % NumThreads \in 0 .. NumThreads - 1
  BY RemainderRange, NumThreadsAssumption
<1>4. (numsamples \div NumThreads) * NumThreads
        = NumThreads * (numsamples \div NumThreads)
  BY <1>2, NumThreadsAssumption
<1> QED
  BY <1>1, <1>2, <1>3, <1>4

LEMMA BlockStartType ==
  ASSUME numsamples \in Nat, NEW t \in Nat
  PROVE  BlockStart(t) \in Nat
<1>1. t * (numsamples \div NumThreads) \in Nat
  BY Share, ProductType
<1> QED
  BY <1>1, Share, NumThreadsAssumption DEF BlockStart

\* Blocks follow one another.
LEMMA BlocksOrdered ==
  ASSUME numsamples \in Nat, NEW t \in Nat, NEW u \in Nat, t <= u
  PROVE  BlockStart(t) <= BlockStart(u)
<1>1. t * (numsamples \div NumThreads) <= u * (numsamples \div NumThreads)
  BY Share, ProductMonotone
<1>2. /\ t * (numsamples \div NumThreads) \in Nat
      /\ u * (numsamples \div NumThreads) \in Nat
  BY Share, ProductType
<1> QED
  BY <1>1, <1>2, Share, NumThreadsAssumption DEF BlockStart

LEMMA LastBlockEnds ==
  ASSUME numsamples \in Nat
  PROVE  BlockStart(NumThreads) = numsamples
BY Share, NumThreadsAssumption DEF BlockStart

\* No sample is dealt out beyond the array ...
LEMMA BlockInside ==
  ASSUME numsamples \in Nat, NEW t \in Thread
  PROVE  /\ BlockStart(t) \in Nat
         /\ BlockStart(t + 1) \in Nat
         /\ BlockStart(t) <= BlockStart(t + 1)
         /\ BlockStart(t + 1) <= numsamples
<1>1. t \in Nat /\ t + 1 \in Nat /\ t + 1 <= NumThreads /\ NumThreads \in Nat
  BY NumThreadsAssumption DEF Thread
<1>2. BlockStart(t + 1) <= BlockStart(NumThreads)
  BY <1>1, BlocksOrdered
<1> QED
  BY <1>1, <1>2, BlockStartType, BlocksOrdered, LastBlockEnds

\* ... or twice ...
LEMMA BlocksDisjoint ==
  ASSUME numsamples \in Nat, NEW t \in Thread, NEW u \in Thread,
         NEW s \in Nat, InBlock(t, s), InBlock(u, s)
  PROVE  t = u
<1>1. ASSUME NEW v \in Thread, NEW w \in Thread, v < w,
             InBlock(v, s), InBlock(w, s)
      PROVE  FALSE
  <2>1. v + 1 \in Nat /\ w \in Nat /\ v + 1 <= w
    BY <1>1, NumThreadsAssumption DEF Thread
  <2>2. BlockStart(v + 1) <= BlockStart(w)
    BY <2>1, BlocksOrdered
  <2> QED
    BY <1>1, <2>1, <2>2, BlockStartType DEF InBlock
<1> QED
  BY <1>1, NumThreadsAssumption DEF Thread

\* ... and none is left out.
LEMMA BlocksCover ==
  ASSUME numsamples \in Nat, NEW s \in Sample
  PROVE  \E t \in Thread : InBlock(t, s)
<1> DEFINE q == numsamples \div NumThreads
           e == numsamples % NumThreads
<1>1. /\ q \in Nat /\ e \in Nat /\ e < NumThreads /\ NumThreads \in Nat
      /\ numsamples = NumThreads * q + e
  BY Share, NumThreadsAssumption
<1>2. s \in Nat /\ s < numsamples
  BY DEF Sample
<1>3. \A t \in Nat : BlockStart(t) = t * q + (IF t < e THEN t ELSE e)
  BY DEF BlockStart
<1> HIDE DEF q, e
<1>4. CASE s < e * (q + 1)
  <2> DEFINE t == s \div (q + 1)
             r == s % (q + 1)
  <2>1. q + 1 \in Nat \ {0}
    BY <1>1
  <2>2. t \in Nat /\ r \in 0 .. q
    <3>1. t \in Nat
      BY <2>1, <1>2, Quotient
    <3>2. r \in 0 .. (q + 1) - 1
      BY <2>1, <1>2, RemainderRange
    <3>3. (q + 1) - 1 = q
      BY <1>1
    <3> QED
      BY <3>1, <3>2, <3>3
  <2>3. s = t * (q + 1) + r
    BY <2>1, <1>2, Division
  <2>4. t < e
    BY <2>1, <1>1, <1>2, <1>4, QuotientBelow
  <2> HIDE DEF t, r
  <2>5. t * (q + 1) = t * q + t /\ (t + 1) * q = t * q + q /\ t * q \in Nat
    BY <1>1, <2>2
  <2>6. BlockStart(t) = t * q + t /\ BlockStart(t + 1) = (t + 1) * q + (t + 1)
    <3>1. BlockStart(t) = t * q + t
      BY <1>3, <2>2, <2>4
    <3>2. t + 1 \in Nat /\ (t + 1 < e \/ t + 1 = e)
      BY <1>1, <2>2, <2>4
    <3>3. BlockStart(t + 1)
            = (t + 1) * q + (IF t + 1 < e THEN t + 1 ELSE e)
      BY <1>3, <3>2
    <3> QED
      BY <3>1, <3>2, <3>3
  <2>7. InBlock(t, s)
    BY <1>1, <2>2, <2>3, <2>5, <2>6 DEF InBlock
  <2> QED
    BY <1>1, <2>2, <2>4, <2>7 DEF Thread
<1>5. CASE e * (q + 1) <= s
  <2>1. e * (q + 1) = e * q + e /\ e * q \in Nat /\ NumThreads * q \in Nat
    BY <1>1
  <2>2. s - e \in Nat /\ e * q <= s - e /\ s - e < NumThreads * q
    BY <1>1, <1>2, <1>5, <2>1
  <2>3. q # 0
    <3>1. q = 0 => NumThreads * q = 0
      BY <1>1
    <3> QED
      BY <2>2, <3>1
  <2>4. q \in Nat \ {0}
    BY <1>1, <2>3
  <2> DEFINE t == (s - e) \div q
             r == (s - e) % q
  <2>5. t \in Nat /\ r \in 0 .. q - 1
    BY <2>2, <2>4, Quotient, RemainderRange
  <2>6. s - e = t * q + r
    BY <2>2, <2>4, Division
  <2>7. e <= t /\ t < NumThreads
    BY <1>1, <2>2, <2>4, QuotientAtLeast, QuotientBelow
  <2> HIDE DEF t, r
  <2>8. (t + 1) * q = t * q + q /\ t * q \in Nat
    BY <1>1, <2>5
  <2>9. BlockStart(t) = t * q + e /\ BlockStart(t + 1) = (t + 1) * q + e
    BY <1>1, <1>3, <2>5, <2>7
  <2>10. InBlock(t, s)
    BY <1>1, <1>2, <2>5, <2>6, <2>8, <2>9 DEF InBlock
  <2> QED
    BY <1>1, <2>5, <2>7, <2>10 DEF Thread
<1> QED
  BY <1>1, <1>2, <1>4, <1>5

-----------------------------------------------------------------------------
(* The inductive invariant                                                 *)

\* A thread stays in its block, and leaves it only at its end.
InOwnBlock(t) ==
  /\ pc[t] \in {"tag", "align", "enter"} => done[t] = 0
  /\ pc[t] \in {"loop", "spin", "end"} =>
       BlockStart(t) <= done[t] /\ done[t] <= BlockStart(t + 1)
  /\ pc[t] = "spin" => InBlock(t, done[t])
  /\ pc[t] = "end" => done[t] = BlockStart(t + 1)

\* The present sample, unless it is the first, begins where the one before
\* ended, or later, and ends at the boundary that follows its begin.
Punctual(t) ==
  /\ last[t] <= clock /\ now[t] <= clock
  /\ pc[t] \in {"loop", "spin"} /\ BlockStart(t) < done[t] =>
       /\ endinterval[t] = NextBoundary(last[t])
       /\ measured[done[t] - 1].end <= last[t]
  /\ pc[t] = "spin" => now[t] = last[t] \/ count[t] > 0

\* The conjuncts of RaceIsConfined and of OneSamplePerInterval.
Confined(t) ==
  \A s \in Recorded(t) :
    /\ Holds(TimeCell(s), measured[s].begin)
    /\ Holds(CountCell(s), measured[s].work)

Filled(t) ==
  \A s \in Recorded(t) \ {BlockStart(t)} :
    /\ measured[s].work > 0
    /\ measured[s].begin \div interval_length
         < measured[s].end \div interval_length
    /\ measured[s - 1].end <= measured[s].begin

Threads ==
  \A t \in Thread : InOwnBlock(t) /\ Punctual(t) /\ Confined(t) /\ Filled(t)

\* Nothing is printed before the region is over.
Printing ==
  /\ status \in {"options", "sampling"} => output = << >>
  /\ status \in {"times", "success"} => RegionOver
  /\ status = "times" => DOMAIN output = {"times"}

Inv == TypeOK /\ Threads /\ Printing /\ PrintedIsMeasured /\ FilesPaired

LEMMA InitType == Init => TypeOK
<1> SUFFICES ASSUME Init PROVE TypeOK
  OBVIOUS
<1>1. numsamples \in Nat
  BY SamplesAssumption DEF Init, Clamped
<1>2. interval_length \in Nat \ {0}
  <2>1. PICK b \in RequestBits : interval_length = 2 ^ ClampedBits(b)
    BY DEF Init
  <2>2. ClampedBits(b) \in Nat
    BY BitsAssumption DEF ClampedBits
  <2> QED
    BY <2>1, <2>2, PowerOfTwo
<1>3. output \in [DOMAIN output -> Seq(Nat)]
  BY DEF Init
<1>4. done \in [Thread -> 0 .. numsamples]
  BY <1>1 DEF Init
<1>5. measured \in [Sample -> [begin : Nat, end : Nat, work : Nat]]
  BY DEF Init, NotTaken
<1> QED
  BY <1>1, <1>2, <1>3, <1>4, <1>5 DEF Init, TypeOK

LEMMA InitInv == Init => Inv
<1> SUFFICES ASSUME Init PROVE Inv
  OBVIOUS
<1>1. TypeOK
  BY InitType
<1>2. Threads
  <2> SUFFICES ASSUME NEW t \in Thread
               PROVE  InOwnBlock(t) /\ Punctual(t) /\ Confined(t) /\ Filled(t)
    BY DEF Threads
  <2>1. /\ pc[t] = "tag" /\ done[t] = 0 /\ last[t] = 0 /\ now[t] = 0
        /\ clock = 0
    BY DEF Init
  <2>2. Recorded(t) = {}
    BY <1>1, <2>1 DEF Recorded, Sample, TypeOK
  <2> QED
    BY <2>1, <2>2 DEF InOwnBlock, Punctual, Confined, Filled
<1>3. Printing /\ PrintedIsMeasured /\ FilesPaired
  <2>1. DOMAIN output = {} /\ status = "options" /\ output = << >>
    BY DEF Init
  <2> QED
    BY <2>1 DEF Printing, PrintedIsMeasured, FilesPaired
<1> QED
  BY <1>1, <1>2, <1>3 DEF Inv

-----------------------------------------------------------------------------
(* Types                                                                   *)

LEMMA NextBoundaryType ==
  ASSUME TypeOK, NEW x \in Nat
  PROVE  NextBoundary(x) \in Nat
<1>1. interval_length \in Nat \ {0}
  BY DEF TypeOK
<1>2. x % interval_length \in 0 .. interval_length - 1
  BY <1>1, RemainderRange
<1> QED
  BY <1>1, <1>2 DEF NextBoundary

\* What is stored is stored within the array.
LEMMA CellsInside ==
  ASSUME TypeOK, NEW s \in Sample
  PROVE  /\ TimeCell(s) \in Cells
         /\ CountCell(s) \in Cells
BY NumThreadsAssumption DEF TypeOK, Sample, Cells, TimeCell, CountCell

LEMMA LinesType ==
  ASSUME TypeOK, NEW f, NEW n \in 0 .. numsamples
  PROVE  /\ Lines(f, n) \in Seq(Nat)
         /\ Len(Lines(f, n)) = n
         /\ \A k \in 1 .. n : Lines(f, n)[k] = samples[Cell(f, k - 1)]
<1>1. n \in Nat
  BY DEF TypeOK
<1>2. ASSUME NEW k \in 1 .. n PROVE samples[Cell(f, k - 1)] \in Nat
  <2>1. k - 1 \in Sample
    BY <1>1 DEF Sample, TypeOK
  <2> QED
    BY <2>1, CellsInside DEF Cell, TypeOK
<1>3. Lines(f, n) \in [1 .. n -> Nat]
  BY <1>2 DEF Lines
<1> QED
  BY <1>1, <1>3 DEF Lines

LEMMA PrintType ==
  ASSUME TypeOK, NEW f, PrintLines(f)
  PROVE  output' \in [DOMAIN output' -> Seq(Nat)]
<1>1. PICK n \in 0 .. numsamples :
        output' = [g \in DOMAIN output \cup {f} |->
                     IF g = f THEN Lines(f, n) ELSE output[g]]
  BY DEF PrintLines
<1> QED
  BY <1>1, LinesType DEF TypeOK

LEMMA ThreadType ==
  ASSUME Inv, NEW t \in Thread, ThreadStep(t)
  PROVE  TypeOK'
<1> USE DEF TypeOK, Goto, Sample, Cells
<1>1. TypeOK
  BY DEF Inv
<1>2. UNCHANGED << status, numsamples, interval_length, use_stdout, output >>
  BY DEF ThreadStep, config
<1>3. CASE TagSlot(t)
  <2>1. t \in Cells /\ t \in Nat
    BY <1>1, NumThreadsAssumption DEF Thread
  <2> QED
    BY <1>1, <1>2, <1>3, <2>1 DEF TagSlot
<1>4. CASE AlignFirst(t)
  BY <1>1, <1>2, <1>4, NextBoundaryType DEF AlignFirst
<1>5. CASE EnterLoop(t)
  <2>1. BlockStart(t) \in 0 .. numsamples
    BY <1>1, BlockInside
  <2> QED
    BY <1>1, <1>2, <1>5, <2>1 DEF EnterLoop
<1>6. CASE BeginSample(t)
  BY <1>1, <1>2, <1>6 DEF BeginSample
<1>7. CASE DoQuantum(t)
  BY <1>1, <1>2, <1>7 DEF DoQuantum
<1>8. CASE EndSample(t)
  <2>1. done[t] \in Sample /\ done[t] + 1 \in 0 .. numsamples
    <3>1. InBlock(t, done[t])
      BY <1>8 DEF EndSample, Inv, Threads, InOwnBlock
    <3> QED
      BY <1>1, <3>1, BlockInside DEF InBlock
  <2>2. TimeCell(done[t]) \in Cells /\ CountCell(done[t]) \in Cells
    BY <1>1, <2>1, CellsInside
  <2>3. samples' \in [Cells -> Nat]
    BY <1>1, <1>8, <2>2 DEF EndSample
  <2>4. measured' \in [Sample -> [begin : Nat, end : Nat, work : Nat]]
    BY <1>1, <1>8, <2>1 DEF EndSample
  <2>5. /\ done' \in [Thread -> 0 .. numsamples]
        /\ last' \in [Thread -> Nat]
        /\ endinterval' \in [Thread -> Nat]
    BY <1>1, <1>8, <2>1, NextBoundaryType DEF EndSample
  <2> QED
    BY <1>1, <1>2, <1>8, <2>3, <2>4, <2>5 DEF EndSample
<1>9. CASE LeaveLoop(t)
  BY <1>1, <1>2, <1>9 DEF LeaveLoop
<1> QED
  BY <1>3, <1>4, <1>5, <1>6, <1>7, <1>8, <1>9 DEF ThreadStep

LEMMA MainType ==
  ASSUME TypeOK, MainStep
  PROVE  TypeOK'
<1>1. UNCHANGED << config, sampling >>
  BY DEF MainStep, OptionsFail, Start, PrintStdout, PrintTimes, PrintCounts,
         OpenFails
<1>2. status' \in {"options", "sampling", "times", "success", "failure",
                   "crashed"}
  BY DEF MainStep, OptionsFail, Start, PrintStdout, PrintTimes, PrintCounts,
         OpenFails
<1>3. output' \in [DOMAIN output' -> Seq(Nat)]
  <2>1. CASE OptionsFail \/ Start \/ OpenFails
    BY <2>1 DEF OptionsFail, Start, OpenFails, TypeOK
  <2>2. CASE PrintStdout
    BY <2>2, LinesType DEF PrintStdout
  <2>3. CASE PrintTimes \/ PrintCounts
    BY <2>3, PrintType DEF PrintTimes, PrintCounts
  <2> QED
    BY <2>1, <2>2, <2>3 DEF MainStep
<1> QED
  BY <1>1, <1>2, <1>3 DEF TypeOK, config, sampling, Sample, Cells

-----------------------------------------------------------------------------
(* The threads                                                             *)

LEMMA SameBlocks ==
  ASSUME UNCHANGED numsamples, NEW t, NEW s
  PROVE  /\ BlockStart(t)' = BlockStart(t)
         /\ BlockStart(t + 1)' = BlockStart(t + 1)
         /\ InBlock(t, s)' <=> InBlock(t, s)
         /\ Sample' = Sample
BY DEF BlockStart, InBlock, Sample

\* A step of one thread leaves the others alone, but for the array.
LEMMA OthersStay ==
  ASSUME TypeOK, NEW t \in Thread, ThreadStep(t), NEW u \in Thread, u # t
  PROVE  /\ pc'[u] = pc[u] /\ done'[u] = done[u] /\ last'[u] = last[u]
         /\ now'[u] = now[u] /\ endinterval'[u] = endinterval[u]
         /\ count'[u] = count[u]
BY DEF TypeOK, ThreadStep, Goto, TagSlot, AlignFirst, EnterLoop, BeginSample,
       DoQuantum, EndSample, LeaveLoop

LEMMA ThreadKeeps ==
  ASSUME NEW t \in Thread, ThreadStep(t)
  PROVE  UNCHANGED << status, config, numsamples, interval_length, output,
                      clock >>
BY DEF ThreadStep, config, TagSlot, AlignFirst, EnterLoop, BeginSample,
       DoQuantum, EndSample, LeaveLoop

LEMMA OwnBlockStep ==
  ASSUME Inv, NEW t \in Thread, ThreadStep(t)
  PROVE  InOwnBlock(t)'
<1>1. TypeOK /\ InOwnBlock(t) /\ t \in Nat
  BY NumThreadsAssumption DEF Inv, Threads, Thread
<1>2. UNCHANGED numsamples
  BY ThreadKeeps
<1>3. /\ BlockStart(t) \in Nat /\ BlockStart(t + 1) \in Nat
      /\ BlockStart(t) <= BlockStart(t + 1) /\ done[t] \in Nat
  BY <1>1, BlockInside DEF TypeOK
<1>4. /\ BlockStart(t)' = BlockStart(t)
      /\ BlockStart(t + 1)' = BlockStart(t + 1)
      /\ \A s : InBlock(t, s)' <=> InBlock(t, s)
  BY <1>2, SameBlocks
<1> USE DEF InOwnBlock, TypeOK, Goto
<1>5. CASE TagSlot(t) \/ AlignFirst(t)
  BY <1>1, <1>5 DEF TagSlot, AlignFirst
<1>6. CASE EnterLoop(t)
  BY <1>1, <1>3, <1>4, <1>6 DEF EnterLoop
<1>7. CASE BeginSample(t)
  BY <1>1, <1>4, <1>7 DEF BeginSample
<1>8. CASE DoQuantum(t)
  BY <1>1, <1>4, <1>8 DEF DoQuantum
<1>9. CASE EndSample(t)
  <2>1. pc[t] = "spin" /\ pc'[t] = "loop" /\ done'[t] = done[t] + 1
    BY <1>1, <1>9 DEF EndSample
  <2> QED
    BY <1>1, <1>3, <1>4, <2>1 DEF InBlock
<1>10. CASE LeaveLoop(t)
  <2>1. pc[t] = "loop" /\ pc'[t] = "end" /\ done' = done
        /\ ~InBlock(t, done[t])
    BY <1>1, <1>10 DEF LeaveLoop
  <2> QED
    BY <1>1, <1>3, <1>4, <2>1 DEF InBlock
<1> QED
  BY <1>5, <1>6, <1>7, <1>8, <1>9, <1>10 DEF ThreadStep

\* What has been recorded of a block: a step of its thread adds the sample in
\* progress, and nothing else is ever added.
LEMMA RecordedStep ==
  ASSUME Inv, NEW t \in Thread, ThreadStep(t), NEW u \in Thread
  PROVE  /\ u = t /\ EndSample(t) =>
              Recorded(u)' = Recorded(u) \cup {done[t]}
         /\ ~(u = t /\ EndSample(t)) => Recorded(u)' = Recorded(u)
<1>1. TypeOK /\ InOwnBlock(t)
  BY DEF Inv, Threads
<1>2. UNCHANGED numsamples
  BY ThreadKeeps
<1>3. /\ Sample' = Sample
      /\ \A s : InBlock(u, s)' <=> InBlock(u, s)
  BY <1>2, SameBlocks
<1>4. BlockStart(t) \in Nat /\ done[t] \in Nat
  BY <1>1, BlockInside DEF TypeOK
<1>5. CASE u # t
  BY <1>1, <1>3, <1>5, OthersStay DEF Recorded
<1>6. CASE u = t /\ EndSample(t)
  <2>1. done'[t] = done[t] + 1 /\ InBlock(t, done[t])
    BY <1>1, <1>6 DEF EndSample, TypeOK, InOwnBlock, Goto
  <2>2. done[t] \in Sample
    BY <1>1, <2>1, BlockInside DEF InBlock, Sample, TypeOK
  <2> QED
    <3>1. ASSUME NEW s \in Sample
          PROVE  s < done'[t] <=> s < done[t] \/ s = done[t]
      BY <1>1, <1>4, <2>1 DEF Sample, TypeOK
    <3>2. Recorded(t)' = { s \in Sample : InBlock(t, s) /\ s < done'[t] }
      BY <1>3, <1>6 DEF Recorded
    <3>3. \A s : s \in Recorded(t)' <=> s \in Recorded(t) \cup {done[t]}
      BY <2>1, <2>2, <3>1, <3>2 DEF Recorded
    <3> QED
      BY <1>6, <3>3
<1>7. CASE u = t /\ EnterLoop(t)
  <2>1. done[t] = 0 /\ done'[t] = BlockStart(t)
    BY <1>1, <1>7 DEF EnterLoop, TypeOK, InOwnBlock, Goto
  <2>2. Recorded(t) = {}
    BY <2>1 DEF Recorded, Sample
  <2>3. Recorded(t)' = {}
    BY <1>3, <1>4, <1>7, <2>1 DEF Recorded, Sample, InBlock
  <2>4. ~EndSample(t)
    BY <1>7 DEF EnterLoop, EndSample, Goto
  <2> QED
    BY <1>7, <2>2, <2>3, <2>4
<1>8. CASE /\ u = t
           /\ \/ TagSlot(t) \/ AlignFirst(t) \/ BeginSample(t)
              \/ DoQuantum(t) \/ LeaveLoop(t)
  <2>1. done' = done
    BY <1>8 DEF TagSlot, AlignFirst, BeginSample, DoQuantum, LeaveLoop
  <2>2. Recorded(u)' = Recorded(u)
    BY <1>3, <2>1 DEF Recorded
  <2>3. EndSample(t) => FALSE
    <3>1. EndSample(t) => done'[t] = done[t] + 1
      BY <1>1 DEF EndSample, TypeOK
    <3> QED
      BY <1>4, <2>1, <3>1
  <2> QED
    BY <1>8, <2>2, <2>3
<1> QED
  BY <1>5, <1>6, <1>7, <1>8 DEF ThreadStep

\* A boundary is the first multiple of the interval that is yet to come.
LEMMA BoundaryIsNext ==
  ASSUME TypeOK, NEW x \in Nat, NEW y \in Nat, NextBoundary(x) <= y
  PROVE  x < y /\ x \div interval_length < y \div interval_length
<1> DEFINE L == interval_length
           q == x \div L
           r == x % L
<1>1. L \in Nat \ {0}
  BY DEF TypeOK
<1>2. q \in Nat /\ r \in 0 .. L - 1
  BY <1>1, Quotient, RemainderRange
<1>3. x = q * L + r
  BY <1>1, Division
<1>4. NextBoundary(x) = x + L - r
  BY DEF NextBoundary
<1>5. (q + 1) * L = q * L + L /\ q * L \in Nat
  BY <1>1, <1>2
<1>6. x < y /\ (q + 1) * L <= y
  <2> HIDE DEF L, q, r
  <2> QED
    BY <1>1, <1>2, <1>3, <1>4, <1>5
<1>7. q + 1 <= y \div L
  <2>1. q + 1 \in Nat
    BY <1>2
  <2> HIDE DEF q
  <2> QED
    BY <1>1, <1>6, <2>1, QuotientAtLeast
<1>8. y \div L \in Nat
  BY <1>1, Quotient
<1> QED
  BY <1>2, <1>6, <1>7, <1>8

LEMMA PunctualStep ==
  ASSUME Inv, NEW t \in Thread, ThreadStep(t)
  PROVE  Punctual(t)'
<1>1. TypeOK /\ InOwnBlock(t) /\ Punctual(t)
  BY DEF Inv, Threads
<1>2. UNCHANGED << numsamples, interval_length, clock >>
  BY ThreadKeeps
<1>3. BlockStart(t)' = BlockStart(t) /\ BlockStart(t) \in Nat
  BY <1>1, <1>2, SameBlocks, BlockInside DEF TypeOK
<1>4. \A x : NextBoundary(x)' = NextBoundary(x)
  BY <1>2 DEF NextBoundary
<1>5. last[t] \in Nat /\ now[t] \in Nat /\ clock \in Nat /\ done[t] \in Nat
      /\ count[t] \in Nat
  BY <1>1 DEF TypeOK
<1> USE DEF Punctual, TypeOK, Goto
<1>6. CASE TagSlot(t) \/ AlignFirst(t)
  BY <1>1, <1>2, <1>5, <1>6 DEF TagSlot, AlignFirst
<1>7. CASE EnterLoop(t)
  <2>1. done'[t] = BlockStart(t) /\ pc'[t] = "loop" /\ last'[t] = clock
        /\ now' = now
    BY <1>1, <1>7 DEF EnterLoop
  <2> QED
    BY <1>1, <1>2, <1>3, <1>5, <2>1
<1>8. CASE BeginSample(t)
  <2>1. /\ pc[t] = "loop" /\ pc'[t] = "spin" /\ now'[t] = last[t]
        /\ UNCHANGED << done, last, endinterval, measured >>
    BY <1>1, <1>8 DEF BeginSample
  <2> QED
    BY <1>1, <1>2, <1>3, <1>4, <1>5, <2>1
<1>9. CASE DoQuantum(t)
  <2>1. /\ pc[t] = "spin" /\ now'[t] = clock /\ count'[t] = count[t] + 1
        /\ UNCHANGED << pc, done, last, endinterval, measured >>
    BY <1>1, <1>9 DEF DoQuantum
  <2> QED
    BY <1>1, <1>2, <1>3, <1>4, <1>5, <2>1
<1>10. CASE EndSample(t)
  <2>1. /\ pc'[t] = "loop" /\ done'[t] = done[t] + 1 /\ last'[t] = clock
        /\ endinterval'[t] = NextBoundary(clock)
        /\ now' = now
    BY <1>1, <1>10 DEF EndSample
  <2>2. done[t] \in Sample
    BY <1>1, <1>10, BlockInside DEF EndSample, InOwnBlock, InBlock, Sample
  <2>3. measured'[done[t]].end = now[t]
    BY <1>1, <1>10, <2>2 DEF EndSample
  <2>4. done'[t] - 1 = done[t]
    BY <1>5, <2>1
  <2> QED
    BY <1>1, <1>2, <1>4, <1>5, <2>1, <2>3, <2>4
<1>11. CASE LeaveLoop(t)
  BY <1>1, <1>2, <1>5, <1>11 DEF LeaveLoop
<1> QED
  BY <1>6, <1>7, <1>8, <1>9, <1>10, <1>11 DEF ThreadStep

\* What the end of a sample stores, and nothing but that.
LEMMA EndStores ==
  ASSUME Inv, NEW t \in Thread, EndSample(t)
  PROVE  /\ done[t] \in Sample
         /\ measured'[done[t]]
              = [begin |-> last[t], end |-> now[t], work |-> count[t]]
         /\ \A s \in Sample \ {done[t]} : measured'[s] = measured[s]
         /\ samples'[TimeCell(done[t])] = last[t]
         /\ samples'[CountCell(done[t])] = count[t]
         /\ \A c \in Cells \ {TimeCell(done[t]), CountCell(done[t])} :
              samples'[c] = samples[c]
<1>1. TypeOK /\ InOwnBlock(t)
  BY DEF Inv, Threads
<1>2. done[t] \in Sample
  BY <1>1, BlockInside DEF EndSample, Goto, InOwnBlock, InBlock, Sample, TypeOK
<1>3. TimeCell(done[t]) \in Cells /\ CountCell(done[t]) \in Cells
  BY <1>1, <1>2, CellsInside
<1>4. TimeCell(done[t]) # CountCell(done[t])
  BY <1>1, <1>2 DEF TimeCell, CountCell, Sample, TypeOK
<1> QED
  BY <1>1, <1>2, <1>3, <1>4 DEF EndSample, TypeOK

\* A sample that has been recorded is not the one any thread is at.
LEMMA RecordedIsNotNow ==
  ASSUME Inv, NEW t \in Thread, pc[t] = "spin", NEW u \in Thread,
         NEW s \in Recorded(u)
  PROVE  s # done[t]
<1>1. TypeOK /\ InOwnBlock(t)
  BY DEF Inv, Threads
<1>2. s \in Nat /\ InBlock(u, s) /\ s < done[u]
  BY DEF Recorded, Sample
<1>3. InBlock(t, done[t])
  BY <1>1 DEF InOwnBlock
<1>4. u # t => s # done[t]
  <2>1. numsamples \in Nat
    BY <1>1 DEF TypeOK
  <2> QED
    BY <1>2, <1>3, <2>1, BlocksDisjoint
<1>5. done[u] \in Nat
  BY <1>1 DEF TypeOK
<1> QED
  BY <1>2, <1>4, <1>5

LEMMA ConfinedStep ==
  ASSUME Inv, NEW t \in Thread, ThreadStep(t), NEW u \in Thread
  PROVE  Confined(u)'
<1>1. TypeOK /\ Confined(u)
  BY DEF Inv, Threads
<1>2. ASSUME NEW s \in Recorded(u)
      PROVE  s \in Sample /\ TimeCell(s) \in Cells /\ CountCell(s) \in Cells
  BY <1>1, CellsInside DEF Recorded
<1>3. CASE TagSlot(t)
  <2>1. Recorded(u)' = Recorded(u)
    BY <1>3, RecordedStep DEF TagSlot, EndSample, Goto
  <2>2. /\ measured' = measured
        /\ \A c \in Cells : samples'[c] = samples[c] \/ samples'[c] = c
    BY <1>1, <1>3 DEF TagSlot, TypeOK
  <2>3. \A c \in Cells : samples'[c] = samples[c]
                           \/ (c < NumThreads /\ samples'[c] = c)
    BY <1>1, <1>3, NumThreadsAssumption DEF TagSlot, TypeOK, Thread
  <2> QED
    BY <1>1, <1>2, <2>1, <2>2, <2>3
       DEF Confined, Holds, TimeCell, CountCell
<1>4. CASE EndSample(t)
  <2>1. pc[t] = "spin"
    BY <1>4 DEF EndSample, Goto
  <2>2. ASSUME NEW s \in Recorded(u)
        PROVE  /\ measured'[s] = measured[s]
               /\ samples'[TimeCell(s)] = samples[TimeCell(s)]
               /\ samples'[CountCell(s)] = samples[CountCell(s)]
    <3>1. s # done[t] /\ s \in Nat /\ done[t] \in Nat
      BY <1>1, <1>2, <2>1, RecordedIsNotNow DEF Sample, TypeOK
    <3>2. /\ TimeCell(s) \notin {TimeCell(done[t]), CountCell(done[t])}
          /\ CountCell(s) \notin {TimeCell(done[t]), CountCell(done[t])}
      BY <3>1 DEF TimeCell, CountCell
    <3> QED
      BY <1>2, <1>4, <3>1, <3>2, EndStores
  <2>3. ASSUME NEW s \in Recorded(u)'
        PROVE  s \in Recorded(u) \/ s = done[t]
    BY <1>4, <2>3, RecordedStep
  <2>4. /\ samples'[TimeCell(done[t])] = measured'[done[t]].begin
        /\ samples'[CountCell(done[t])] = measured'[done[t]].work
    <3>1. measured'[done[t]]
            = [begin |-> last[t], end |-> now[t], work |-> count[t]]
      BY <1>4, EndStores
    <3>2. /\ samples'[TimeCell(done[t])] = last[t]
          /\ samples'[CountCell(done[t])] = count[t]
      BY <1>4, EndStores
    <3> QED
      BY <3>1, <3>2
  <2> QED
    BY <1>1, <2>2, <2>3, <2>4 DEF Confined, Holds, TimeCell, CountCell
<1>5. CASE \/ AlignFirst(t) \/ EnterLoop(t) \/ BeginSample(t)
           \/ DoQuantum(t) \/ LeaveLoop(t)
  <2>1. UNCHANGED << samples, measured >>
    BY <1>5 DEF AlignFirst, EnterLoop, BeginSample, DoQuantum, LeaveLoop
  <2>2. ~EndSample(t)
    <3>1. EndSample(t) => pc[t] = "spin" /\ pc'[t] = "loop"
      BY <1>1 DEF EndSample, Goto, TypeOK
    <3> QED
      BY <1>5, <3>1 DEF AlignFirst, EnterLoop, BeginSample, DoQuantum,
                        LeaveLoop, Goto
  <2>3. Recorded(u)' = Recorded(u)
    BY <2>2, RecordedStep
  <2> QED
    BY <1>1, <2>1, <2>3 DEF Confined, Holds, TimeCell, CountCell
<1> QED
  BY <1>3, <1>4, <1>5 DEF ThreadStep

LEMMA FilledStep ==
  ASSUME Inv, NEW t \in Thread, ThreadStep(t), NEW u \in Thread
  PROVE  Filled(u)'
<1>1. TypeOK /\ Filled(u) /\ Punctual(t) /\ InOwnBlock(t)
  BY DEF Inv, Threads
<1>2. UNCHANGED << numsamples, interval_length >>
  BY ThreadKeeps
<1>3. BlockStart(u)' = BlockStart(u) /\ BlockStart(u) \in Nat
  BY <1>1, <1>2, SameBlocks, BlockInside DEF TypeOK
<1>4. CASE ~EndSample(t)
  <2>1. Recorded(u)' = Recorded(u)
    BY <1>4, RecordedStep
  <2>2. measured' = measured
    BY <1>4 DEF ThreadStep, TagSlot, AlignFirst, EnterLoop, BeginSample,
                DoQuantum, LeaveLoop
  <2> QED
    BY <1>1, <1>2, <1>3, <2>1, <2>2 DEF Filled
<1>5. CASE EndSample(t)
  <2>1. pc[t] = "spin"
    BY <1>5 DEF EndSample, Goto
  <2>2. ASSUME NEW s \in Recorded(u) \ {BlockStart(u)}
        PROVE  /\ s \in Nat /\ s - 1 \in Recorded(u)
               /\ measured'[s] = measured[s]
               /\ measured'[s - 1] = measured[s - 1]
    <3>1. s \in Sample /\ s < done[u] /\ InBlock(u, s)
      BY DEF Recorded
    <3>2. s - 1 \in Recorded(u)
      <4>1. s \in Nat /\ s # BlockStart(u) /\ done[u] \in Nat
            /\ numsamples \in Nat
        BY <1>1, <3>1 DEF Sample, TypeOK
      <4>2. s - 1 \in Sample
        BY <1>3, <3>1, <4>1 DEF Sample, InBlock
      <4>3. BlockStart(u + 1) \in Nat
        BY <4>1, BlockInside
      <4>4. InBlock(u, s - 1) /\ s - 1 < done[u]
        BY <1>3, <3>1, <4>1, <4>3 DEF InBlock
      <4> QED
        BY <4>2, <4>4 DEF Recorded
    <3>3. s - 1 \in Sample /\ s # done[t] /\ s - 1 # done[t]
      BY <2>1, <3>2, RecordedIsNotNow DEF Recorded
    <3> QED
      <4>1. /\ measured'[s] = measured[s]
            /\ measured'[s - 1] = measured[s - 1]
        BY <1>5, <3>1, <3>3, EndStores
      <4> QED
        BY <3>1, <3>2, <4>1 DEF Sample
  <2>3. ASSUME NEW s \in Recorded(u)' \ {BlockStart(u)}, s \in Recorded(u)
        PROVE  /\ measured'[s].work > 0
               /\ measured'[s].begin \div interval_length
                    < measured'[s].end \div interval_length
               /\ measured'[s - 1].end <= measured'[s].begin
    BY <1>1, <2>2, <2>3 DEF Filled
  <2>4. ASSUME u = t, done[t] # BlockStart(t)
        PROVE  /\ count[t] > 0
               /\ last[t] \div interval_length < now[t] \div interval_length
               /\ measured'[done[t] - 1].end <= last[t]
    <3>1. done[t] \in Nat /\ done[t] \in Sample /\ BlockStart(t) < done[t]
      <4>1. done[t] \in Nat /\ done[t] \in Sample
        <5>1. done[t] \in Sample
          BY <1>5, EndStores
        <5> QED
          BY <1>1, <5>1 DEF Sample, TypeOK
      <4>2. BlockStart(t) <= done[t] /\ BlockStart(t) \in Nat
        BY <1>1, <1>3, <2>1, <2>4 DEF InOwnBlock
      <4> QED
        BY <2>4, <4>1, <4>2
    <3>2. /\ endinterval[t] = NextBoundary(last[t])
          /\ measured[done[t] - 1].end <= last[t]
          /\ now[t] = last[t] \/ count[t] > 0
      BY <1>1, <2>1, <3>1 DEF Punctual
    <3>3. last[t] < now[t]
          /\ last[t] \div interval_length < now[t] \div interval_length
      BY <1>1, <1>5, <3>2, BoundaryIsNext DEF EndSample, Expired, TypeOK
    <3>4. measured'[done[t] - 1] = measured[done[t] - 1]
      <4>1. done[t] - 1 \in Sample /\ done[t] - 1 # done[t]
        BY <1>1, <1>3, <2>4, <3>1 DEF Sample, TypeOK
      <4> QED
        BY <1>5, <4>1, EndStores
    <3> QED
      BY <1>1, <3>2, <3>3, <3>4 DEF TypeOK
  <2>5. ASSUME NEW s \in Recorded(u)' \ {BlockStart(u)}, s \notin Recorded(u)
        PROVE  /\ measured'[s].work > 0
               /\ measured'[s].begin \div interval_length
                    < measured'[s].end \div interval_length
               /\ measured'[s - 1].end <= measured'[s].begin
    <3>1. u = t /\ s = done[t]
      BY <1>5, <2>5, RecordedStep
    <3> QED
      <4>1. measured'[s]
              = [begin |-> last[t], end |-> now[t], work |-> count[t]]
        BY <1>5, <3>1, EndStores
      <4>2. /\ count[t] > 0
            /\ last[t] \div interval_length < now[t] \div interval_length
            /\ measured'[s - 1].end <= last[t]
        BY <2>4, <2>5, <3>1
      <4> QED
        BY <4>1, <4>2
  <2> QED
    BY <1>2, <1>3, <2>3, <2>5 DEF Filled
<1> QED
  BY <1>4, <1>5

LEMMA ThreadsStep ==
  ASSUME Inv, NEW t \in Thread, ThreadStep(t)
  PROVE  Threads'
<1> SUFFICES ASSUME NEW u \in Thread
             PROVE  (InOwnBlock(u) /\ Punctual(u) /\ Confined(u)
                       /\ Filled(u))'
  BY DEF Threads
<1>1. Confined(u)' /\ Filled(u)'
  BY ConfinedStep, FilledStep
<1>2. CASE u = t
  BY <1>1, <1>2, OwnBlockStep, PunctualStep
<1>3. CASE u # t
  <2>1. TypeOK /\ InOwnBlock(u) /\ Punctual(u)
    BY DEF Inv, Threads
  <2>2. /\ pc'[u] = pc[u] /\ done'[u] = done[u] /\ last'[u] = last[u]
        /\ now'[u] = now[u] /\ endinterval'[u] = endinterval[u]
        /\ count'[u] = count[u]
    BY <1>3, <2>1, OthersStay
  <2>3. /\ UNCHANGED << numsamples, interval_length, clock >>
        /\ BlockStart(u)' = BlockStart(u)
        /\ BlockStart(u + 1)' = BlockStart(u + 1)
        /\ \A s : InBlock(u, s)' <=> InBlock(u, s)
    BY ThreadKeeps, SameBlocks
  <2>4. InOwnBlock(u)'
    BY <2>1, <2>2, <2>3 DEF InOwnBlock
  <2>5. ASSUME pc[u] \in {"loop", "spin"}, BlockStart(u) < done[u]
        PROVE  measured'[done[u] - 1] = measured[done[u] - 1]
    <3>1. done[u] - 1 \in Recorded(u)
      BY <2>1, <2>5, BlockInside
         DEF Recorded, Sample, InBlock, InOwnBlock, TypeOK
    <3>2. EndSample(t) => done[u] - 1 # done[t]
      BY <3>1, RecordedIsNotNow DEF EndSample, Goto
    <3>3. EndSample(t) => measured'[done[u] - 1] = measured[done[u] - 1]
      BY <3>1, <3>2, EndStores DEF Recorded
    <3>4. ~EndSample(t) => measured' = measured
      BY DEF ThreadStep, TagSlot, AlignFirst, EnterLoop, BeginSample,
             DoQuantum, LeaveLoop
    <3> QED
      BY <3>3, <3>4
  <2>6. Punctual(u)'
    BY <2>1, <2>2, <2>3, <2>5 DEF Punctual, NextBoundary
  <2> QED
    BY <1>1, <2>4, <2>6
<1> QED
  BY <1>2, <1>3

-----------------------------------------------------------------------------
(* The output                                                              *)

\* Once the region is over every block has been recorded, so that every sample
\* has been, by the one thread in whose block it is.
LEMMA AllRecorded ==
  ASSUME Inv, RegionOver, NEW s \in Sample
  PROVE  \E t \in Thread :
           /\ s \in Recorded(t)
           /\ \A u \in Thread \ {t} : ~InBlock(u, s)
<1>1. numsamples \in Nat /\ s \in Nat
  BY DEF Inv, TypeOK, Sample
<1>2. PICK t \in Thread : InBlock(t, s)
  BY <1>1, BlocksCover
<1>3. s \in Recorded(t)
  BY <1>2 DEF Inv, Threads, InOwnBlock, RegionOver, InBlock, Recorded
<1>4. \A u \in Thread \ {t} : ~InBlock(u, s)
  BY <1>1, <1>2, BlocksDisjoint
<1> QED
  BY <1>3, <1>4

\* A line says of its sample what was measured of it, or lost the race.
LineOK(f, k, line) ==
  LET s == k - 1
      cell == IF f = "times" THEN 2 * s ELSE 2 * s + 1
      value == IF f = "times" THEN measured[s].begin ELSE measured[s].work
  IN  /\ line = value \/ (cell < NumThreads /\ line = cell)
      /\ \E t \in Thread :
           /\ s \in Recorded(t)
           /\ \A u \in Thread \ {t} : ~InBlock(u, s)

LEMMA LinesOK ==
  ASSUME Inv, RegionOver, NEW f, NEW n \in 0 .. numsamples,
         NEW k \in 1 .. Len(Lines(f, n))
  PROVE  LineOK(f, k, Lines(f, n)[k])
<1> DEFINE s == k - 1
<1>1. TypeOK
  BY DEF Inv
<1>2. /\ s \in Sample /\ s \in Nat
      /\ Lines(f, n)[k] = samples[Cell(f, s)]
  <2>1. Len(Lines(f, n)) = n /\ n \in Nat
    BY <1>1, LinesType DEF TypeOK
  <2> QED
    BY <1>1, <2>1, LinesType DEF Sample, TypeOK
<1>3. PICK t \in Thread : /\ s \in Recorded(t)
                          /\ \A u \in Thread \ {t} : ~InBlock(u, s)
  BY <1>2, AllRecorded
<1>4. /\ Holds(TimeCell(s), measured[s].begin)
      /\ Holds(CountCell(s), measured[s].work)
  BY <1>3 DEF Inv, Threads, Confined
<1>5. TimeCell(s) = 2 * s /\ CountCell(s) = 2 * s + 1
  BY <1>2 DEF TimeCell, CountCell
<1> QED
  BY <1>2, <1>3, <1>4, <1>5 DEF LineOK, Holds, Cell

LEMMA PrintedIsLineOK ==
  PrintedIsMeasured <=>
    \A f \in DOMAIN output : \A k \in 1 .. Len(output[f]) :
      LineOK(f, k, output[f][k])
BY DEF PrintedIsMeasured, LineOK

LEMMA MainPrints ==
  ASSUME Inv, MainStep
  PROVE  (Printing /\ PrintedIsMeasured /\ FilesPaired)'
<1> USE DEF Printing, FilesPaired
<1>1. TypeOK /\ Printing /\ PrintedIsMeasured /\ FilesPaired
  BY DEF Inv
<1>2. UNCHANGED << config, sampling >>
  BY DEF MainStep, OptionsFail, Start, PrintStdout, PrintTimes, PrintCounts,
         OpenFails
<1>3. RegionOver' <=> RegionOver
  BY <1>2 DEF RegionOver, sampling
<1>4. ASSUME \A f \in DOMAIN output' : \A k \in 1 .. Len(output'[f]) :
               LineOK(f, k, output'[f][k])
      PROVE  PrintedIsMeasured'
  BY <1>2, <1>4 DEF PrintedIsMeasured, LineOK, Recorded, Sample, InBlock,
                    BlockStart, config, sampling
<1>5. CASE OptionsFail \/ Start \/ OpenFails
  <2>1. output' = output
    BY <1>5 DEF OptionsFail, Start, OpenFails
  <2>2. PrintedIsMeasured'
    BY <1>1, <1>4, <2>1, PrintedIsLineOK
  <2> QED
    BY <1>1, <1>3, <1>5, <2>1, <2>2
       DEF OptionsFail, Start, OpenFails, Opening
<1>6. CASE PrintStdout
  <2>1. PICK n \in 0 .. numsamples :
          output' = [f \in {"times", "counts"} |-> Lines(f, n)]
    BY <1>6 DEF PrintStdout
  <2>2. RegionOver /\ status' = "success"
    BY <1>6 DEF PrintStdout
  <2>3. PrintedIsMeasured'
    <3>1. \A f \in DOMAIN output' : \A k \in 1 .. Len(output'[f]) :
            LineOK(f, k, output'[f][k])
      BY <2>1, <2>2, LinesOK
    <3> QED
      BY <1>4, <3>1, PrintedIsLineOK
  <2> QED
    BY <1>3, <2>1, <2>2, <2>3
<1>7. ASSUME NEW f, PrintLines(f), RegionOver
      PROVE  PrintedIsMeasured' /\ DOMAIN output' = DOMAIN output \cup {f}
  <2>1. PICK n \in 0 .. numsamples :
          output' = [g \in DOMAIN output \cup {f} |->
                       IF g = f THEN Lines(f, n) ELSE output[g]]
    BY <1>7 DEF PrintLines
  <2>2. \A g \in DOMAIN output' : \A k \in 1 .. Len(output'[g]) :
          LineOK(g, k, output'[g][k])
    BY <1>1, <1>7, <2>1, LinesOK, PrintedIsLineOK
  <2> QED
    BY <1>4, <2>1, <2>2, PrintedIsLineOK
<1>8. CASE PrintTimes
  <2>1. /\ PrintedIsMeasured' /\ DOMAIN output' = DOMAIN output \cup {"times"}
        /\ status = "sampling" /\ RegionOver /\ status' = "times"
    BY <1>7, <1>8 DEF PrintTimes
  <2> QED
    BY <1>1, <1>3, <2>1
<1>9. CASE PrintCounts
  <2>1. status = "times" /\ RegionOver /\ status' = "success"
    BY <1>1, <1>9 DEF PrintCounts
  <2>2. /\ PrintedIsMeasured'
        /\ DOMAIN output' = DOMAIN output \cup {"counts"}
    BY <1>7, <1>9, <2>1 DEF PrintCounts
  <2> QED
    BY <1>1, <1>3, <2>1, <2>2
<1> QED
  BY <1>5, <1>6, <1>8, <1>9 DEF MainStep

-----------------------------------------------------------------------------
(* Every step preserves the invariant                                      *)

\* The clock goes on, or nothing happens.
LEMMA TickStep ==
  ASSUME Inv, Tick \/ UNCHANGED vars
  PROVE  Inv'
<1>1. /\ UNCHANGED << status, config, output, pc, done, last, now,
                      endinterval, count, samples, measured >>
      /\ clock' \in {clock, clock + 1}
  BY DEF Tick, vars, sampling, Inv, TypeOK
<1>2. TypeOK'
  BY <1>1 DEF Inv, TypeOK, config, Sample, Cells
<1>3. Threads'
  BY <1>1 DEF Inv, TypeOK, Threads, InOwnBlock, Punctual, Confined, Filled,
              Recorded, Sample, InBlock, BlockStart, Holds, NextBoundary,
              config
<1>4. Printing' /\ PrintedIsMeasured' /\ FilesPaired'
  BY <1>1 DEF Inv, Printing, PrintedIsMeasured, FilesPaired, RegionOver,
              Recorded, Sample, InBlock, BlockStart, config
<1> QED
  BY <1>2, <1>3, <1>4 DEF Inv

LEMMA InvStep == Inv /\ [Next]_vars => Inv'
<1> SUFFICES ASSUME Inv, [Next]_vars PROVE Inv'
  OBVIOUS
<1>1. ASSUME NEW t \in Thread, ThreadStep(t)
      PROVE  Inv'
  <2>1. TypeOK' /\ Threads'
    BY <1>1, ThreadType, ThreadsStep
  <2>2. status = "sampling" /\ status' = "sampling" /\ output' = output
    BY <1>1 DEF ThreadStep
  <2>3. output = << >> /\ DOMAIN output = {}
    BY <2>2 DEF Inv, Printing
  <2>4. Printing' /\ PrintedIsMeasured' /\ FilesPaired'
    BY <2>2, <2>3 DEF Printing, PrintedIsMeasured, FilesPaired
  <2> QED
    BY <2>1, <2>4 DEF Inv
<1>2. CASE MainStep
  <2>1. TypeOK' /\ (Printing /\ PrintedIsMeasured /\ FilesPaired)'
    BY <1>2, MainType, MainPrints DEF Inv
  <2>2. Threads'
    <3>1. UNCHANGED << config, sampling >>
      BY <1>2 DEF MainStep, OptionsFail, Start, PrintStdout, PrintTimes,
                  PrintCounts, OpenFails
    <3> QED
      BY <3>1 DEF Inv, Threads, InOwnBlock, Punctual, Confined, Filled,
                  Recorded, Sample, InBlock, BlockStart, Holds, NextBoundary,
                  config, sampling
  <2> QED
    BY <2>1, <2>2 DEF Inv
<1>3. CASE Tick \/ UNCHANGED vars
  BY <1>3, TickStep
<1> QED
  BY <1>1, <1>2, <1>3 DEF Next, Terminated

THEOREM InvIsInvariant == Spec => []Inv
BY InitInv, InvStep, PTL DEF Spec

-----------------------------------------------------------------------------
(* What it is for                                                          *)

\* Every variable keeps the type of its C counterpart, and no loop
\* counter passes numsamples (ftq_omp.c:69-86, 142-195).
THEOREM TypeCorrect == Spec => []TypeOK
<1>1. Inv => TypeOK
  BY DEF Inv
<1> QED
  BY InvIsInvariant, <1>1, PTL

\* Threads enter the region at any time and number their cell of the array,
\* perhaps after a sample has been stored there: no other cell is hurt.
THEOREM RaceStaysConfined == Spec => []RaceIsConfined
<1>1. Inv => RaceIsConfined
  BY DEF Inv, Threads, Confined, RaceIsConfined
<1> QED
  BY InvIsInvariant, <1>1, PTL

\* However threads are preempted, no sample of the loop but a thread's first
\* is empty, ends in the interval it began in, or overlaps the one before.
THEOREM SamplesFillIntervals == Spec => []OneSamplePerInterval
<1>1. Inv => OneSamplePerInterval
  BY DEF Inv, Threads, Filled, OneSamplePerInterval
<1> QED
  BY InvIsInvariant, <1>1, PTL

\* Whatever order the threads leave the nowait loop in, and wherever a file is
\* cut short: main prints nothing that was not measured, but for the race.
THEOREM OutputIsFaithful == Spec => []PrintedIsMeasured
<1>1. Inv => PrintedIsMeasured
  BY DEF Inv
<1> QED
  BY InvIsInvariant, <1>1, PTL

\* No file is checked, yet success means two files, and counts never come
\* without times.
THEOREM FilesComeInPairs == Spec => []FilesPaired
<1>1. Inv => FilesPaired
  BY DEF Inv
<1> QED
  BY InvIsInvariant, <1>1, PTL

=============================================================================
