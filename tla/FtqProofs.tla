----------------------------- MODULE FtqProofs ------------------------------
(***************************************************************************)
(* Proofs about Ftq for every number of threads, samples and cores.        *)
(*                                                                         *)
(* What the shared array and the reports hold depends on where main and    *)
(* the threads are: Phases relates the two program counters, Ledger what   *)
(* each thread has measured to what it has stored, and Inv is their        *)
(* conjunction with the types.                                             *)
(***************************************************************************)
EXTENDS Ftq, NatLemmas, SequenceTheorems, TLAPS

Busy == {"sample", "returned"}

\* Where main stands decides which threads exist and whether they may go.
Phases ==
  /\ numsamples \in Nat
  /\ mpc \in {"alloc", "check"} =>
       /\ \A t \in Thread : tpc[t] = "unborn"
       /\ pin_threads
  /\ mpc = "create" =>
       /\ opt.use_threads
       /\ i <= numthreads
       /\ \A t \in Thread : tpc[t] # "unborn" <=> t < i
  /\ mpc \in {"join", "inline", "tally", "report"} =>
       \A t \in Thread : tpc[t] # "unborn" <=> t \in Crew
  /\ mpc = "join" =>
       /\ i <= numthreads
       /\ \A t \in Crew : t < i => tpc[t] = "returned"
  /\ mpc \in {"tally", "report"} => \A t \in Crew : tpc[t] = "returned"
  /\ hounds <=> mpc \in {"join", "inline", "tally", "report"}
  /\ mpc \notin {"alloc", "check"} => ~StdoutConflict
  /\ mpc = "inline" => ~opt.use_threads
  /\ pin_threads \/ ~opt.use_threads

\* What a thread has done agrees with where it is.
Ledger ==
  \A t \in Thread :
    /\ tpc[t] \in Busy => hounds
    /\ tpc[t] \notin Busy => done[t] = 0
    /\ done[t] <= numsamples
    /\ tpc[t] = "returned" => done[t] = numsamples
    /\ Len(measured[t]) = done[t]
    /\ \A k \in 0 .. done[t] - 1 : samples[Offset(t) + k] = measured[t][k + 1]

\* How each thread was set up.
SetUp ==
  \A t \in Thread :
    /\ tpc[t] \notin {"unborn", "wire"} /\ ~pinned[t] =>
         opt.ignore_wire_failures \/ os = "akaros" \/ ~opt.use_threads
    /\ sched[t] = "fifo" => MayGoRealtime(t)

\* How far main has come with the reports decides how it may end.
Reporting ==
  /\ mpc # "report" => reports = << >>
  /\ mpc = "report" => i = Len(reports) /\ i <= NumReports
  /\ ReportsFaithful
  /\ status = "success" => mpc = "report" /\ i = NumReports
  /\ status \in {"failure", "aborted"} => Len(reports) < NumReports

Inv == TypeOK /\ Phases /\ Ledger /\ SetUp /\ Reporting

USE MaxThreadsAssumption, SamplesAssumption, CoresAssumption,
    RtFreeCoresAssumption, MaxCountAssumption

-----------------------------------------------------------------------------

\* A window ends before the windows of the threads after it begin.
LEMMA WindowEnds ==
  ASSUME NEW n \in Nat, NEW a \in Nat, NEW b \in Nat, a < b
  PROVE  a * n \in Nat /\ b * n \in Nat /\ a * n + n <= b * n
<1>1. PICK d \in Nat : b = a + 1 + d
  OBVIOUS
<1>2. d * n \in Nat
  OBVIOUS
<1>3. b * n = a * n + n + d * n
  BY <1>1
<1>4. QED
  BY <1>2, <1>3

\* No window leaves the array.
LEMMA WindowInArray ==
  ASSUME NEW n \in Nat, NEW crew \in Nat, NEW t \in Nat, NEW j \in Nat,
         j < n, t < crew
  PROVE  t * n + j \in 0 .. crew * n - 1
  BY WindowEnds

\* The windows of two threads do not overlap.
LEMMA WindowsDisjoint ==
  ASSUME NEW n \in Nat, NEW t \in Nat, NEW j \in Nat, NEW u \in Nat,
         NEW k \in Nat, j < n, k < n, t * n + j = u * n + k
  PROVE  t = u /\ j = k
<1>1. ~(t < u)
  BY WindowEnds
<1>2. ~(u < t)
  BY WindowEnds
<1>3. t = u
  BY <1>1, <1>2
<1>4. t * n \in Nat
  OBVIOUS
<1>5. QED
  BY <1>3, <1>4

\* What is known of the command line.
LEMMA OptionFacts ==
  ASSUME opt \in Options
  PROVE  /\ numthreads \in 1 .. MaxThreads
         /\ opt.use_threads \in BOOLEAN
         /\ opt.use_stdout \in BOOLEAN
         /\ opt.set_realtime \in BOOLEAN
         /\ opt.ignore_wire_failures \in BOOLEAN
         /\ ~opt.use_threads => numthreads = 1
         /\ Crew \subseteq Thread
         /\ 0 \in Crew
         /\ NumReports \in 1 .. MaxThreads
         /\ ~StdoutConflict => NumReports = numthreads
  BY DEF Options, numthreads, Crew, Thread, NumReports, StdoutConflict

LEMMA InvInit == Init => Inv
<1> SUFFICES ASSUME Init PROVE Inv
  OBVIOUS
<1>1. TypeOK
  BY OptionFacts DEF Init, TypeOK, Counts
<1>2. Phases
  BY DEF Init, Phases
<1>3. Ledger
  BY DEF Init, Ledger, Busy
<1>4. SetUp
  BY DEF Init, SetUp
<1>5. Reporting
  BY OptionFacts DEF Init, Reporting, ReportsFaithful
<1>6. QED
  BY <1>1, <1>2, <1>3, <1>4, <1>5 DEF Inv

-----------------------------------------------------------------------------
(* Steps that end the process                                              *)

\* Nothing but the status changes, so only Reporting has to be looked at.
LEMMA DieInv ==
  ASSUME Inv, NEW how \in {"success", "failure", "aborted"}, Die(how),
         how = "success" => mpc = "report" /\ i = NumReports,
         how # "success" => Len(reports) < NumReports
  PROVE  Inv'
<1> USE DEF Inv, Die, confVars, memVars, mainVars, threadVars
<1>1. TypeOK'
  BY DEF TypeOK, Slots, numthreads
<1>2. Phases'
  BY DEF Phases, Crew, numthreads, StdoutConflict
<1>3. Ledger'
  BY DEF Ledger, Offset
<1>4. SetUp'
  BY DEF SetUp, MayGoRealtime, NumCores
<1>5. Reporting'
  BY DEF Reporting, ReportsFaithful, NumReports, numthreads
<1>6. QED
  BY <1>1, <1>2, <1>3, <1>4, <1>5

\* Every failure before the last report leaves a report missing.
LEMMA FailureInv ==
  ASSUME Inv,
         \/ RefuseOptions \/ AllocateFails \/ RefuseStdout
         \/ CalibrationExits \/ SetUpFails \/ CreateFails \/ JoinFails
         \/ OpenFails
         \/ \E t \in Thread : WireExits(t) \/ RealtimeExits(t)
  PROVE  Inv'
<1>1. NumReports \in 1 .. MaxThreads
  BY OptionFacts DEF Inv, TypeOK
<1>2. mpc # "report" => Len(reports) < NumReports
  BY <1>1 DEF Inv, Reporting
<1>3. CASE RefuseOptions \/ AllocateFails
  BY <1>2, <1>3, DieInv DEF RefuseOptions, AllocateFails
<1>4. CASE RefuseStdout
  BY <1>2, <1>4, DieInv DEF RefuseStdout
<1>5. CASE CalibrationExits \/ SetUpFails
  BY <1>2, <1>5, DieInv DEF CalibrationExits, SetUpFails
<1>6. CASE CreateFails
  BY <1>2, <1>6, DieInv DEF CreateFails
<1>7. CASE JoinFails
  BY <1>2, <1>7, DieInv DEF JoinFails
<1>8. CASE OpenFails
  BY <1>8, DieInv DEF OpenFails, Inv, Reporting
<1>9. ASSUME NEW t \in Thread, WireExits(t) \/ RealtimeExits(t)
      PROVE  Inv'
  <2>1. tpc[t] # "returned" /\ tpc[t] # "unborn"
    BY <1>9 DEF WireExits, RealtimeExits
  <2>2. mpc # "report"
    BY <2>1 DEF Inv, Phases
  <2>3. Die("failure")
    BY <1>9 DEF WireExits, RealtimeExits
  <2>4. QED
    BY <1>2, <2>2, <2>3, DieInv
<1>10. QED
  BY <1>3, <1>4, <1>5, <1>6, <1>7, <1>8, <1>9

LEMMA FinishInv == Inv /\ Finish => Inv'
<1> SUFFICES ASSUME Inv, Finish PROVE Inv'
  OBVIOUS
<1>1. NumReports \in Nat /\ i \in Nat
  BY OptionFacts DEF Inv, TypeOK
<1>2. i = NumReports
  BY <1>1 DEF Inv, Reporting, Finish
<1>3. QED
  BY <1>2, DieInv DEF Finish

-----------------------------------------------------------------------------
(* What keeps each part of Inv when the rest of the state moves            *)

LEMMA LedgerFrame ==
  ASSUME Ledger, hounds => hounds',
         UNCHANGED << numsamples, samples, threadVars >>
  PROVE  Ledger'
  BY DEF Ledger, Busy, Offset, threadVars

LEMMA SetUpFrame ==
  ASSUME SetUp, UNCHANGED << confVars, threadVars >>
  PROVE  SetUp'
  BY DEF SetUp, MayGoRealtime, NumCores, confVars, threadVars

LEMMA ReportingFrame ==
  ASSUME Reporting, mpc # "report", mpc' # "report",
         UNCHANGED << opt, reports, damaged, status >>
  PROVE  Reporting'
  BY DEF Reporting, ReportsFaithful, NumReports, numthreads

-----------------------------------------------------------------------------
(* Steps of main                                                           *)

LEMMA AllocateInv == Inv /\ AllocateSamples => Inv'
<1> SUFFICES ASSUME Inv, AllocateSamples PROVE Inv'
  OBVIOUS
<1> USE DEF Inv, AllocateSamples, confVars, threadVars
<1>1. Clamped \in Nat
  BY DEF Clamped, TypeOK
<1>2. TypeOK'
  BY <1>1 DEF TypeOK, Slots, numthreads, Counts, Allocated
<1>3. Phases'
  BY <1>1 DEF Phases, StdoutConflict
<1>4. Ledger'
  BY <1>1 DEF Ledger, Phases, Busy, Offset, TypeOK
<1>5. SetUp'
  BY DEF SetUp, MayGoRealtime, NumCores
<1>6. Reporting'
  BY DEF Reporting, ReportsFaithful, NumReports, numthreads
<1>7. QED
  BY <1>2, <1>3, <1>4, <1>5, <1>6

LEMMA SetUpThreadsInv == Inv /\ SetUpThreads => Inv'
<1> SUFFICES ASSUME Inv, SetUpThreads PROVE Inv'
  OBVIOUS
<1> USE DEF Inv, SetUpThreads, confVars, memVars, threadVars
<1>1. TypeOK'
  BY DEF TypeOK, Slots, numthreads
<1>2. Phases'
  <2>1. 0 <= numthreads'
    BY OptionFacts DEF TypeOK, numthreads
  <2>2. QED
    BY <2>1 DEF Phases, StdoutConflict, numthreads, Thread
<1>3. Ledger'
  BY LedgerFrame
<1>4. SetUp'
  BY SetUpFrame
<1>5. Reporting'
  BY ReportingFrame
<1>6. QED
  BY <1>1, <1>2, <1>3, <1>4, <1>5

LEMMA CreateThreadInv == Inv /\ CreateThread => Inv'
<1> SUFFICES ASSUME Inv, CreateThread PROVE Inv'
  OBVIOUS
<1> USE DEF Inv, CreateThread, MoreThreads, confVars, memVars
<1>0. /\ numthreads \in 1 .. MaxThreads
      /\ i \in Nat
      /\ i < numthreads
      /\ i \in Thread
      /\ tpc[i] = "unborn"
      /\ tpc' = [tpc EXCEPT ![i] = "wire"]
  BY OptionFacts DEF TypeOK, Thread, Phases
<1>1. TypeOK'
  <2>1. i' \in 0 .. MaxThreads
    BY <1>0
  <2>2. tpc' \in [Thread -> {"unborn", "wire", "sched", "spin", "sample",
                             "returned"}]
    BY <1>0 DEF TypeOK
  <2>3. QED
    BY <2>1, <2>2 DEF TypeOK, Slots, numthreads
<1>2. Phases'
  <2>1. \A t \in Thread : tpc'[t] # "unborn" <=> t < i'
    BY <1>0 DEF Phases, TypeOK, Thread
  <2>2. i' <= numthreads'
    BY <1>0 DEF numthreads
  <2>3. QED
    BY <2>1, <2>2 DEF Phases, StdoutConflict, numthreads
<1>3. Ledger'
  BY <1>0 DEF Ledger, Offset, Busy, TypeOK
<1>4. SetUp'
  <2>1. \A t \in Thread : tpc'[t] \notin {"unborn", "wire"} => tpc'[t] = tpc[t]
    BY <1>0 DEF TypeOK
  <2>2. QED
    BY <2>1 DEF SetUp, MayGoRealtime, NumCores
<1>5. Reporting'
  BY ReportingFrame
<1>6. QED
  BY <1>1, <1>2, <1>3, <1>4, <1>5

LEMMA ReleaseHoundsInv == Inv /\ ReleaseHounds => Inv'
<1> SUFFICES ASSUME Inv, ReleaseHounds PROVE Inv'
  OBVIOUS
<1> USE DEF Inv, ReleaseHounds, MoreThreads, confVars, threadVars
<1>1. TypeOK'
  BY DEF TypeOK, Slots, numthreads
<1>2. Phases'
  <2>1. numthreads \in Nat /\ i = numthreads
    BY OptionFacts DEF TypeOK, Phases
  <2>2. \A t \in Thread : t \in Crew <=> t < i
    BY <2>1 DEF Crew, Thread
  <2>3. Crew' = Crew /\ numthreads' = numthreads
    BY DEF Crew, numthreads
  <2>4. \A t \in Crew' : ~(t < i')
    BY <2>1, <2>3 DEF Crew
  <2>5. QED
    BY <2>1, <2>2, <2>3, <2>4 DEF Phases, StdoutConflict
<1>3. Ledger'
  BY LedgerFrame
<1>4. SetUp'
  BY SetUpFrame
<1>5. Reporting'
  BY ReportingFrame
<1>6. QED
  BY <1>1, <1>2, <1>3, <1>4, <1>5

LEMMA JoinThreadInv == Inv /\ JoinThread => Inv'
<1> SUFFICES ASSUME Inv, JoinThread PROVE Inv'
  OBVIOUS
<1> USE DEF Inv, JoinThread, MoreThreads, CanJoin, confVars, memVars, threadVars
<1>0. /\ i \in Nat /\ i + 1 \in 0 .. MaxThreads
      /\ numthreads \in Nat
      /\ total_count + retval[i] \in Nat
  <2>1. numthreads \in 1 .. MaxThreads /\ i \in Nat
    BY OptionFacts DEF TypeOK
  <2>2. i \in Thread
    BY <2>1 DEF Thread
  <2>3. QED
    BY <2>1, <2>2 DEF TypeOK
<1>1. TypeOK'
  BY <1>0 DEF TypeOK, Slots, numthreads
<1>2. Phases'
  <2>1. Crew' = Crew /\ numthreads' = numthreads
    BY DEF Crew, numthreads
  <2>2. \A t \in Crew : t < i' => t < i \/ t = i
    BY <1>0 DEF Crew
  <2>3. i' <= numthreads
    BY <1>0
  <2>4. QED
    BY <2>1, <2>2, <2>3 DEF Phases, StdoutConflict
<1>3. Ledger'
  BY LedgerFrame
<1>4. SetUp'
  BY SetUpFrame
<1>5. Reporting'
  BY ReportingFrame
<1>6. QED
  BY <1>1, <1>2, <1>3, <1>4, <1>5

LEMMA AllJoinedInv == Inv /\ AllJoined => Inv'
<1> SUFFICES ASSUME Inv, AllJoined PROVE Inv'
  OBVIOUS
<1> USE DEF Inv, AllJoined, MoreThreads, confVars, memVars, threadVars
<1>1. TypeOK'
  BY DEF TypeOK, Slots, numthreads
<1>2. Phases'
  <2>1. numthreads \in Nat /\ i = numthreads
    BY OptionFacts DEF TypeOK, Phases
  <2>2. \A t \in Crew : t < i
    BY <2>1 DEF Crew
  <2>3. Crew' = Crew
    BY DEF Crew, numthreads
  <2>4. QED
    BY <2>2, <2>3 DEF Phases, StdoutConflict, numthreads
<1>3. Ledger'
  BY LedgerFrame
<1>4. SetUp'
  BY SetUpFrame
<1>5. Reporting'
  BY ReportingFrame
<1>6. QED
  BY <1>1, <1>2, <1>3, <1>4, <1>5

LEMMA RunInlineInv == Inv /\ RunInline => Inv'
<1> SUFFICES ASSUME Inv, RunInline PROVE Inv'
  OBVIOUS
<1> USE DEF Inv, RunInline, confVars
<1>0. numthreads = 1 /\ 0 \in Thread
  BY OptionFacts DEF TypeOK, Thread
<1>1. TypeOK'
  BY <1>0 DEF TypeOK, Slots, numthreads
<1>2. Phases'
  <2>1. Crew' = {0}
    BY <1>0 DEF Crew, numthreads
  <2>2. \A t \in Thread : tpc'[t] # "unborn" <=> t = 0
    BY <1>0 DEF Phases, TypeOK
  <2>3. QED
    BY <2>1, <2>2 DEF Phases, StdoutConflict, numthreads
<1>3. Ledger'
  <2>1. \A t \in Thread : tpc[t] \notin Busy /\ tpc'[t] \notin Busy
    BY <1>0 DEF Phases, TypeOK, Busy
  <2>2. QED
    BY <2>1 DEF Ledger, Offset, Busy
<1>4. SetUp'
  <2>1. \A t \in Thread : tpc'[t] \in {"unborn", "wire"}
    BY <1>0 DEF Phases, TypeOK
  <2>2. QED
    BY <2>1 DEF SetUp, MayGoRealtime, NumCores
<1>5. Reporting'
  BY ReportingFrame
<1>6. QED
  BY <1>1, <1>2, <1>3, <1>4, <1>5

LEMMA InlineReturnsInv == Inv /\ InlineReturns => Inv'
<1> SUFFICES ASSUME Inv, InlineReturns PROVE Inv'
  OBVIOUS
<1> USE DEF Inv, InlineReturns, confVars, memVars, threadVars
<1>0. numthreads = 1 /\ 0 \in Thread
  BY OptionFacts DEF TypeOK, Thread, Phases
<1>1. TypeOK'
  BY <1>0 DEF TypeOK, Slots, numthreads
<1>2. Phases'
  <2>1. Crew = {0} /\ Crew' = {0}
    BY <1>0 DEF Crew, numthreads
  <2>2. QED
    BY <2>1 DEF Phases, StdoutConflict, numthreads
<1>3. Ledger'
  BY LedgerFrame
<1>4. SetUp'
  BY SetUpFrame
<1>5. Reporting'
  BY ReportingFrame
<1>6. QED
  BY <1>1, <1>2, <1>3, <1>4, <1>5

\* A non-empty set of naturals below a bound has a greatest element, and Max
\* finds it.
LEMMA MaxOfBounded ==
  ASSUME NEW b \in Nat, NEW S \in SUBSET (0 .. b), S # {}
  PROVE  Max(S) \in S /\ \A y \in S : y <= Max(S)
<1> DEFINE T == { x \in 0 .. b : b - x \in S }
<1>1. T \subseteq Nat /\ T # {}
  <2>1. PICK y \in S : TRUE
    OBVIOUS
  <2>2. b - y \in 0 .. b /\ b - (b - y) = y
    OBVIOUS
  <2>3. b - y \in T
    BY <2>2
  <2>4. T \subseteq Nat
    OBVIOUS
  <2>5. QED
    BY <2>3, <2>4
<1>2. PICK m \in T : \A x \in T : m <= x
  <2> HIDE DEF T
  <2> QED
    BY <1>1, Least
<1>3. b - m \in S /\ \A y \in S : b - m >= y
  <2>1. b - m \in S
    OBVIOUS
  <2>2. ASSUME NEW y \in S PROVE b - m >= y
    <3>1. b - y \in T
      OBVIOUS
    <3>2. QED
      BY <3>1, <1>2
  <2>3. QED
    BY <2>1, <2>2
<1>4. Max(S) \in S /\ \A y \in S : Max(S) >= y
  BY <1>3 DEF Max
<1>5. QED
  BY <1>4

\* The best sample is no less than any sample.
LEMMA BestSampleFacts ==
  ASSUME samples \in [Slots -> Counts]
  PROVE  /\ BestSample \in Nat
         /\ \A s \in Slots : samples[s] <= BestSample
<1> DEFINE S == {0} \cup { samples[s] : s \in Slots }
<1>1. S \in SUBSET (0 .. MaxCount) /\ S # {}
  BY DEF Counts
<1>2. Max(S) \in S /\ \A y \in S : y <= Max(S)
  BY <1>1, MaxOfBounded
<1>3. BestSample = Max(S)
  BY DEF BestSample
<1>4. QED
  BY <1>1, <1>2, <1>3

LEMMA TallyInv == Inv /\ Tally => Inv'
<1> SUFFICES ASSUME Inv, Tally PROVE Inv'
  OBVIOUS
<1> USE DEF Inv, Tally, confVars, memVars, threadVars
<1>0. numthreads \in Nat /\ NumReports \in Nat
  BY OptionFacts DEF TypeOK
<1>1. TypeOK'
  <2>1. BestSample \in Nat
    BY BestSampleFacts DEF TypeOK
  <2>2. MaxWork \in Nat
    BY <1>0, <2>1 DEF MaxWork, TypeOK
  <2>3. stray' \subseteq Int
    BY DEF Access, Slots, TypeOK
  <2>4. QED
    BY <2>2, <2>3 DEF TypeOK, Slots, numthreads
<1>2. Phases'
  BY DEF Phases, Crew, numthreads, StdoutConflict
<1>3. Ledger'
  BY LedgerFrame
<1>4. SetUp'
  BY SetUpFrame
<1>5. Reporting'
  BY <1>0 DEF Reporting, ReportsFaithful, NumReports, numthreads
<1>6. QED
  BY <1>1, <1>2, <1>3, <1>4, <1>5

\* What main prints for thread j is what thread j measured.
LEMMA ColumnIsMeasured ==
  ASSUME Inv, mpc = "report", i < NumReports
  PROVE  /\ i \in Thread
         /\ Len(measured[i]) = numsamples
         /\ Column(i) = measured[i]
<1> USE DEF Inv
<1>1. i \in Crew
  <2>1. i \in Nat /\ numthreads \in Nat /\ 0 < numthreads
    BY OptionFacts DEF TypeOK
  <2>2. i < numthreads
    BY <2>1 DEF NumReports
  <2>3. QED
    BY <2>1, <2>2 DEF Crew
<1>2. i \in Thread
  BY <1>1, OptionFacts DEF TypeOK
<1>3. done[i] = numsamples /\ Len(measured[i]) = numsamples
  BY <1>1, <1>2 DEF Phases, Ledger
<1>4. measured[i] \in [1 .. numsamples -> Counts]
  BY <1>2, <1>3 DEF TypeOK
<1>5. ASSUME NEW k \in 1 .. numsamples
      PROVE  samples[i * numsamples + k - 1] = measured[i][k]
  <2>1. numsamples \in Nat /\ i * numsamples \in Int
    BY <1>2 DEF TypeOK, Thread
  <2>2. k - 1 \in 0 .. done[i] - 1 /\ (k - 1) + 1 = k
    BY <1>3, <2>1
  <2>3. samples[Offset(i) + (k - 1)] = measured[i][(k - 1) + 1]
    BY <1>2, <2>2 DEF Ledger
  <2>4. Offset(i) + (k - 1) = i * numsamples + k - 1
    BY <2>1 DEF Offset
  <2>5. QED
    BY <2>2, <2>3, <2>4
<1>6. QED
  BY <1>2, <1>3, <1>4, <1>5 DEF Column, RowSlot

\* What is left of counts are counts.
LEMMA CutShortType ==
  ASSUME NEW rows \in Seq(Counts)
  PROVE  CutShort(rows) \subseteq Seq(Counts)
<1> SUFFICES ASSUME NEW n \in 0 .. Len(rows) - 1
             PROVE  SubSeq(rows, 1, n) \in Seq(Counts)
  BY DEF CutShort
<1>1. QED
  OBVIOUS

LEMMA WriteReportInv == Inv /\ status = "running" /\ WriteReport => Inv'
<1> SUFFICES ASSUME Inv, status = "running", WriteReport PROVE Inv'
  OBVIOUS
<1> USE DEF Inv, WriteReport, confVars, memVars, threadVars
<1>0. /\ NumReports \in 1 .. MaxThreads
      /\ i \in Nat
      /\ i < NumReports
      /\ i = Len(reports)
      /\ reports \in Seq(Seq(Counts))
  BY OptionFacts DEF TypeOK, Reporting
<1>a. /\ i \in Thread
      /\ Len(measured[i]) = numsamples
      /\ Column(i) = measured[i]
      /\ Column(i) \in Seq(Counts)
  BY ColumnIsMeasured DEF TypeOK
<1>b. PICK rows \in Seq(Counts) :
        /\ reports' = Append(reports, rows)
        /\ \/ rows = measured[i] /\ damaged' = damaged
           \/ rows \in CutShort(measured[i]) /\ damaged' = damaged \cup {i}
  BY <1>a, CutShortType
<1>c. /\ reports' \in Seq(Seq(Counts))
      /\ Len(reports') = i + 1
      /\ \A j \in 1 .. i : reports'[j] = reports[j]
      /\ reports'[i + 1] = rows
  BY <1>0, <1>b
<1>d. /\ damaged \subseteq 0 .. i - 1
      /\ damaged' \subseteq 0 .. i
      /\ \A j \in 1 .. i : j - 1 \in damaged' <=> j - 1 \in damaged
  <2>1. damaged \subseteq 0 .. i - 1
    BY <1>0 DEF TypeOK
  <2>2. damaged' = damaged \/ damaged' = damaged \cup {i}
    BY <1>b
  <2>3. \A j \in 1 .. i : j - 1 # i
    BY <1>0
  <2>4. 0 .. i - 1 \subseteq 0 .. i /\ i \in 0 .. i
    BY <1>0
  <2>5. QED
    BY <2>1, <2>2, <2>3, <2>4
<1>1. TypeOK'
  <2>1. BaseSlot(i) \in Int /\ \A k \in 1 .. numsamples : RowSlot(i, k) \in Int
    BY <1>0 DEF BaseSlot, RowSlot, TypeOK
  <2>2. stray' \subseteq Int
    BY <2>1 DEF Access, TypeOK
  <2>3. QED
    BY <1>0, <1>c, <1>d, <2>2 DEF TypeOK, Slots, numthreads
<1>2. Phases'
  BY DEF Phases, Crew, numthreads, StdoutConflict
<1>3. Ledger'
  BY LedgerFrame
<1>4. SetUp'
  BY SetUpFrame
<1>5. Reporting'
  <2>1. ReportsFaithful'
    <3> SUFFICES ASSUME NEW j \in 1 .. Len(reports')
                 PROVE  /\ Len(measured[j - 1]) = numsamples
                        /\ IF j - 1 \in damaged'
                           THEN reports'[j] \in CutShort(measured[j - 1])
                           ELSE reports'[j] = measured[j - 1]
      BY DEF ReportsFaithful
    <3>1. CASE j = i + 1
      <4>1. j - 1 = i /\ i \notin damaged
        BY <1>0, <1>d, <3>1
      <4>2. QED
        BY <1>a, <1>b, <1>c, <3>1, <4>1
    <3>2. CASE j \in 1 .. i
      BY <1>0, <1>c, <1>d, <3>2 DEF Reporting, ReportsFaithful
    <3>3. QED
      BY <1>0, <1>c, <3>1, <3>2
  <2>2. NumReports' = NumReports
    BY DEF NumReports, numthreads
  <2>3. status' # "success" /\ status' \notin {"failure", "aborted"}
    OBVIOUS
  <2>4. QED
    BY <1>0, <1>c, <2>1, <2>2, <2>3 DEF Reporting
<1>6. QED
  BY <1>1, <1>2, <1>3, <1>4, <1>5

-----------------------------------------------------------------------------
(* Steps of the threads                                                    *)

\* A thread that is born, and does not die or turn back, moves.
LEMMA PhasesFrame ==
  ASSUME Inv, UNCHANGED << confVars, mainVars, memVars >>,
         NEW t \in Thread,
         NEW from \in {"wire", "sched", "spin", "sample"},
         NEW to \in {"sched", "spin", "sample", "returned"},
         Goto(t, from, to)
  PROVE  Phases'
<1> USE DEF Inv, Goto, confVars, mainVars, memVars
<1>1. Crew' = Crew /\ numthreads' = numthreads /\ Crew \subseteq Thread
  BY OptionFacts DEF Crew, numthreads, TypeOK
<1>2. \A u \in Thread : /\ tpc'[u] # "unborn" <=> tpc[u] # "unborn"
                        /\ tpc[u] = "returned" => tpc'[u] = "returned"
  BY DEF TypeOK
<1>3. mpc \notin {"alloc", "check"}
  BY DEF Phases
<1>4. QED
  BY <1>1, <1>2, <1>3 DEF Phases, StdoutConflict

LEMMA ThreadReportingFrame ==
  ASSUME Reporting, NEW t \in Thread,
         UNCHANGED << confVars, mainVars, numsamples, measured, status >>
  PROVE  Reporting'
  BY DEF Reporting, ReportsFaithful, NumReports, numthreads, confVars, mainVars

LEMMA WireThreadInv ==
  ASSUME Inv, NEW t \in Thread, WireThread(t)
  PROVE  Inv'
<1> USE DEF Inv, WireThread, confVars, memVars, mainVars
<1>1. TypeOK'
  BY DEF TypeOK, Slots, numthreads, Goto
<1>2. Phases'
  BY PhasesFrame
<1>3. Ledger'
  BY DEF Ledger, Offset, Busy, TypeOK, Goto
<1>4. SetUp'
  BY DEF SetUp, MayGoRealtime, NumCores, TypeOK, Goto
<1>5. Reporting'
  BY ThreadReportingFrame
<1>6. QED
  BY <1>1, <1>2, <1>3, <1>4, <1>5

LEMMA StayUnwiredInv ==
  ASSUME Inv, NEW t \in Thread, StayUnwired(t)
  PROVE  Inv'
<1> USE DEF Inv, StayUnwired, confVars, memVars, mainVars
<1>1. TypeOK'
  BY DEF TypeOK, Slots, numthreads, Goto
<1>2. Phases'
  BY PhasesFrame
<1>3. Ledger'
  BY DEF Ledger, Offset, Busy, TypeOK, Goto
<1>4. SetUp'
  BY DEF SetUp, MayGoRealtime, NumCores, TypeOK,
  Goto, MayStayUnwired, Wires, Phases
<1>5. Reporting'
  BY ThreadReportingFrame
<1>6. QED
  BY <1>1, <1>2, <1>3, <1>4, <1>5

LEMMA GoRealtimeInv ==
  ASSUME Inv, NEW t \in Thread, GoRealtime(t)
  PROVE  Inv'
<1> USE DEF Inv, GoRealtime, confVars, memVars, mainVars
<1>1. TypeOK'
  BY DEF TypeOK, Slots, numthreads, Goto
<1>2. Phases'
  BY PhasesFrame
<1>3. Ledger'
  BY DEF Ledger, Offset, Busy, TypeOK, Goto
<1>4. SetUp'
  BY DEF SetUp, MayGoRealtime, NumCores, TypeOK, Goto
<1>5. Reporting'
  BY ThreadReportingFrame
<1>6. QED
  BY <1>1, <1>2, <1>3, <1>4, <1>5

LEMMA StayOrdinaryInv ==
  ASSUME Inv, NEW t \in Thread, StayOrdinary(t)
  PROVE  Inv'
<1> USE DEF Inv, StayOrdinary, confVars, memVars, mainVars
<1>1. TypeOK'
  BY DEF TypeOK, Slots, numthreads, Goto
<1>2. Phases'
  BY PhasesFrame
<1>3. Ledger'
  BY DEF Ledger, Offset, Busy, TypeOK, Goto
<1>4. SetUp'
  BY DEF SetUp, MayGoRealtime, NumCores, TypeOK, Goto
<1>5. Reporting'
  BY ThreadReportingFrame
<1>6. QED
  BY <1>1, <1>2, <1>3, <1>4, <1>5

LEMMA LeaveSpinInv ==
  ASSUME Inv, NEW t \in Thread, LeaveSpin(t)
  PROVE  Inv'
<1> USE DEF Inv, LeaveSpin, confVars, memVars, mainVars
<1>1. TypeOK'
  BY DEF TypeOK, Slots, numthreads, Goto
<1>2. Phases'
  BY PhasesFrame
<1>3. Ledger'
  BY DEF Ledger, Offset, Busy, TypeOK, Goto, Released
<1>4. SetUp'
  BY DEF SetUp, MayGoRealtime, NumCores, TypeOK, Goto
<1>5. Reporting'
  BY ThreadReportingFrame
<1>6. QED
  BY <1>1, <1>2, <1>3, <1>4, <1>5

LEMMA ThreadReturnsInv ==
  ASSUME Inv, NEW t \in Thread, ThreadReturns(t)
  PROVE  Inv'
<1> USE DEF Inv, ThreadReturns, confVars, memVars, mainVars
<1>1. TypeOK'
  BY DEF TypeOK, Slots, numthreads, Goto
<1>2. Phases'
  BY PhasesFrame
<1>3. Ledger'
  BY DEF Ledger, Offset, Busy, TypeOK, Goto
<1>4. SetUp'
  BY DEF SetUp, MayGoRealtime, NumCores, TypeOK, Goto
<1>5. Reporting'
  BY ThreadReportingFrame
<1>6. QED
  BY <1>1, <1>2, <1>3, <1>4, <1>5

\* A thread that measures is one of the crew, and main has not begun to read.
LEMMA SamplingFacts ==
  ASSUME Inv, NEW t \in Thread, tpc[t] = "sample"
  PROVE  /\ t \in Crew
         /\ hounds
         /\ mpc \in {"join", "inline"}
<1>1. hounds
  BY DEF Inv, Ledger, Busy
<1>2. mpc \in {"join", "inline", "tally", "report"}
  BY <1>1 DEF Inv, Phases
<1>3. t \in Crew
  BY <1>2 DEF Inv, Phases
<1>4. QED
  BY <1>1, <1>2, <1>3 DEF Inv, Phases

\* The slot of the next sample is in the array and in no other window.
LEMMA SlotFacts ==
  ASSUME Inv, NEW t \in Thread, tpc[t] = "sample", done[t] < numsamples
  PROVE  /\ Offset(t) + done[t] \in Slots
         /\ \A u \in Thread : \A k \in 0 .. done[u] - 1 :
              /\ Offset(u) + k # Offset(t) + done[t]
              /\ Offset(u) + k \in Slots
<1>1. /\ numsamples \in Nat
      /\ numthreads \in Nat
      /\ t \in Nat
      /\ t < numthreads
      /\ done[t] \in Nat
  <2>1. t \in Crew /\ numthreads \in Nat
    BY SamplingFacts, OptionFacts DEF Inv, TypeOK
  <2>2. QED
    BY <2>1 DEF Inv, TypeOK, Crew, Phases
<1>2. Offset(t) + done[t] \in Slots
  BY <1>1, WindowInArray DEF Offset, Slots
<1>3. ASSUME NEW u \in Thread, NEW k \in 0 .. done[u] - 1
      PROVE  /\ Offset(u) + k # Offset(t) + done[t]
             /\ Offset(u) + k \in Slots
  <2>1. u \in Nat /\ k \in Nat /\ k < numsamples /\ k < done[u]
    BY <1>1 DEF Inv, TypeOK, Thread, Ledger
  <2>2. u < numthreads
    <3>1. tpc[u] \in Busy
      BY <2>1 DEF Inv, Ledger
    <3>2. u \in Crew
      BY <3>1, SamplingFacts DEF Inv, Phases, Busy
    <3>3. QED
      BY <1>1, <3>2 DEF Crew
  <2>3. ASSUME t * numsamples + done[t] = u * numsamples + k
        PROVE  FALSE
    <3>1. t = u /\ done[t] = k
      <4>1. done[t] < numsamples
        OBVIOUS
      <4>2. QED
        BY <1>1, <2>1, <2>3, <4>1, WindowsDisjoint
    <3>2. QED
      BY <1>1, <2>1, <3>1
  <2>4. u * numsamples + k \in 0 .. numthreads * numsamples - 1
    BY <1>1, <2>1, <2>2, WindowInArray
  <2>5. QED
    BY <2>3, <2>4 DEF Offset, Slots
<1>4. QED
  BY <1>2, <1>3

LEMMA TakeSampleInv ==
  ASSUME Inv, NEW t \in Thread, TakeSample(t)
  PROVE  Inv'
<1> USE DEF Inv, confVars, mainVars
<1>0. PICK c \in Counts :
        /\ samples' = [samples EXCEPT ![Offset(t) + done[t]] = c]
        /\ retval' = [retval EXCEPT ![t] = @ + c]
        /\ measured' = [measured EXCEPT ![t] = Append(@, c)]
  BY DEF TakeSample
<1>a. /\ tpc[t] = "sample"
      /\ done[t] < numsamples
      /\ Access({Offset(t) + done[t]})
      /\ done' = [done EXCEPT ![t] = @ + 1]
      /\ UNCHANGED << confVars, numsamples, pin_threads, hounds, mainVars, tpc,
                      pinned, sched, status >>
  BY DEF TakeSample
<1>b. /\ Offset(t) + done[t] \in Slots
      /\ mpc \in {"join", "inline"}
      /\ samples \in [Slots -> Counts]
  BY <1>a, SlotFacts, SamplingFacts DEF TypeOK
<1>c. /\ Slots' = Slots
      /\ \A u \in Thread : Offset(u)' = Offset(u)
  BY <1>a DEF Slots, Offset, numthreads
<1>d. /\ measured'[t] \in Seq(Counts)
      /\ Len(measured'[t]) = done[t] + 1
      /\ measured'[t][done[t] + 1] = c
      /\ \A k \in 0 .. done[t] - 1 : measured'[t][k + 1] = measured[t][k + 1]
      /\ \A u \in Thread : u # t => measured'[u] = measured[u]
  BY <1>0 DEF TypeOK, Ledger
<1>1. TypeOK'
  <2>1. samples' \in [Slots' -> Counts]
    BY <1>0, <1>b, <1>c
  <2>2. retval' \in [Thread -> Nat] /\ done' \in [Thread -> Nat]
    BY <1>0, <1>a DEF TypeOK, Counts
  <2>3. measured' \in [Thread -> Seq(Counts)]
    BY <1>0, <1>d DEF TypeOK
  <2>4. stray' \subseteq Int
    BY <1>a, <1>b DEF Access, Slots, TypeOK
  <2>5. QED
    BY <1>a, <2>1, <2>2, <2>3, <2>4 DEF TypeOK
<1>2. Phases'
  BY <1>a DEF Phases, Crew, numthreads, StdoutConflict
<1>3. Ledger'
  <2> SUFFICES ASSUME NEW u \in Thread
               PROVE  /\ tpc'[u] \in Busy => hounds'
                      /\ tpc'[u] \notin Busy => done'[u] = 0
                      /\ done'[u] <= numsamples'
                      /\ tpc'[u] = "returned" => done'[u] = numsamples'
                      /\ Len(measured'[u]) = done'[u]
                      /\ \A k \in 0 .. done'[u] - 1 :
                           samples'[Offset(u)' + k] = measured'[u][k + 1]
    BY DEF Ledger
  <2>1. \A k \in 0 .. done[u] - 1 : samples'[Offset(u) + k] = measured[u][k + 1]
    <3>1. \A k \in 0 .. done[u] - 1 : /\ Offset(u) + k # Offset(t) + done[t]
                                      /\ Offset(u) + k \in Slots
      BY <1>a, SlotFacts
    <3>2. \A k \in 0 .. done[u] - 1 :
    samples[Offset(u) + k] = measured[u][k + 1]
      BY DEF Ledger
    <3>3. \A s \in Slots : s # Offset(t) + done[t] => samples'[s] = samples[s]
      BY <1>0, <1>b
    <3>4. QED
      BY <3>1, <3>2, <3>3
  <2>2. CASE u # t
    BY <1>a, <1>c, <1>d, <2>1, <2>2 DEF Ledger, TypeOK
  <2>3. CASE u = t
    <3>1. samples'[Offset(t) + done[t]] = c
      BY <1>0, <1>b
    <3>2. done'[t] = done[t] + 1 /\ done[t] \in Nat /\ numsamples \in Nat
      BY <1>a DEF TypeOK
    <3>3. ASSUME NEW k \in 0 .. done'[t] - 1
          PROVE  samples'[Offset(t) + k] = measured'[t][k + 1]
      <4>1. CASE k = done[t]
        BY <1>d, <3>1, <4>1
      <4>2. CASE k \in 0 .. done[t] - 1
        BY <1>d, <2>1, <2>3, <4>2
      <4>3. QED
        BY <3>2, <4>1, <4>2
    <3>4. QED
      BY <1>a, <1>c, <1>d, <2>3, <3>2, <3>3 DEF Ledger, Busy
  <2>4. QED
    BY <2>2, <2>3
<1>4. SetUp'
  BY <1>a DEF SetUp, MayGoRealtime, NumCores
<1>5. Reporting'
  BY <1>a, <1>b, ReportingFrame
<1>6. QED
  BY <1>1, <1>2, <1>3, <1>4, <1>5

-----------------------------------------------------------------------------
(* The invariant, and what follows from it                                 *)

LEMMA StutterInv == Inv /\ UNCHANGED vars => Inv'
<1> SUFFICES ASSUME Inv, UNCHANGED vars PROVE Inv'
  OBVIOUS
<1> USE DEF Inv, vars, confVars, memVars, mainVars, threadVars
<1>1. TypeOK' /\ Phases'
  BY DEF TypeOK, Phases, Slots, Crew, numthreads, StdoutConflict
<1>2. Ledger' /\ SetUp'
  BY LedgerFrame, SetUpFrame
<1>3. Reporting'
  BY DEF Reporting, ReportsFaithful, NumReports, numthreads
<1>4. QED
  BY <1>1, <1>2, <1>3

LEMMA InvHolds == Spec => []Inv
<1>1. Inv /\ [Next]_vars => Inv'
  <2> SUFFICES ASSUME Inv, [Next]_vars PROVE Inv'
    OBVIOUS
  <2>1. CASE Main
    BY <2>1, AllocateInv, FailureInv, SetUpThreadsInv, CreateThreadInv,
       ReleaseHoundsInv, JoinThreadInv, AllJoinedInv, RunInlineInv,
       InlineReturnsInv, TallyInv, WriteReportInv, FinishInv
       DEF Main
  <2>2. ASSUME NEW t \in Thread, ThreadStep(t) PROVE Inv'
    BY <2>2, WireThreadInv, StayUnwiredInv, GoRealtimeInv, StayOrdinaryInv,
       LeaveSpinInv, TakeSampleInv, ThreadReturnsInv, FailureInv
       DEF ThreadStep
  <2>3. CASE UNCHANGED vars
    BY <2>3, StutterInv
  <2>4. QED
    BY <2>1, <2>2, <2>3 DEF Next, Terminated
<1>2. QED
  BY <1>1, InvInit, PTL DEF Spec

\* Type correctness.  In particular the array has the room it is read with,
\* numthreads * numsamples (ftq.c:215, 277-279).
THEOREM TypeCorrect == Spec => []TypeOK
<1>1. Inv => TypeOK
  BY DEF Inv
<1>2. QED
  BY <1>1, InvHolds, PTL

\* Main reads inside the array; with no samples there is nothing inside it
\* and the base is slot 0.
LEMMA ReadsInside ==
  ASSUME Inv, mpc \in {"tally", "report"}
  PROVE  /\ Slots \ DOMAIN samples = {}
         /\ mpc = "report" /\ i < NumReports =>
              /\ \A k \in 1 .. numsamples : RowSlot(i, k) \in DOMAIN samples
              /\ IF numsamples = 0 THEN BaseSlot(i) = 0
                 ELSE BaseSlot(i) \in DOMAIN samples
<1>1. DOMAIN samples = Slots
  BY DEF Inv, TypeOK
<1>2. numthreads \in Nat /\ numsamples \in Nat /\ i \in Nat
  BY OptionFacts DEF Inv, TypeOK
<1>3. ASSUME mpc = "report", i < NumReports,
             NEW k \in 0 .. numsamples - 1
      PROVE  i * numsamples + k \in Slots
  <2>1. i < numthreads
    BY <1>2, <1>3, OptionFacts DEF NumReports, Inv, TypeOK
  <2>2. QED
    BY <1>2, <2>1, WindowInArray DEF Slots
<1>4. ASSUME mpc = "report", i < NumReports, NEW k \in 1 .. numsamples
      PROVE  RowSlot(i, k) \in Slots
  <2>1. k - 1 \in 0 .. numsamples - 1 /\ i * numsamples \in Int
    BY <1>2
  <2>2. RowSlot(i, k) = i * numsamples + (k - 1)
    BY <2>1 DEF RowSlot
  <2>3. QED
    BY <1>3, <1>4, <2>1, <2>2
<1>5. ASSUME mpc = "report", i < NumReports, numsamples # 0
      PROVE  BaseSlot(i) \in Slots
  <2>1. 0 \in 0 .. numsamples - 1 /\ i * numsamples \in Int
    BY <1>2, <1>5
  <2>2. BaseSlot(i) = i * numsamples + 0
    BY <1>2 DEF BaseSlot
  <2>3. QED
    BY <1>3, <1>5, <2>1, <2>2
<1>6. numsamples = 0 => BaseSlot(i) = 0
  BY <1>2 DEF BaseSlot
<1>7. QED
  BY <1>1, <1>4, <1>5, <1>6

\* Until the array is there, nobody touches it.
Contained == AccessesInside /\ (mpc = "alloc" => stray = {})

LEMMA ContainedStep == Inv /\ Contained /\ [Next]_vars => Contained'
<1> SUFFICES ASSUME Inv, Contained, [Next]_vars PROVE Contained'
  OBVIOUS
<1> USE DEF Contained, AccessesInside, confVars, memVars, mainVars, threadVars
<1>1. CASE AllocateSamples
  BY <1>1 DEF AllocateSamples
<1>2. CASE Tally
  <2>1. stray' = stray
    BY <1>2, ReadsInside DEF Tally, Access
  <2>2. QED
    BY <1>2, <2>1 DEF Tally
<1>3. CASE WriteReport
  <2>1. stray' \subseteq stray \cup (IF numsamples = 0 THEN {0} ELSE {})
    BY <1>3, ReadsInside DEF WriteReport, Access
  <2>2. QED
    BY <1>3, <2>1 DEF WriteReport
<1>4. ASSUME NEW how, Die(how) PROVE Contained'
  BY <1>4 DEF Die
<1>5. CASE Main
  BY <1>1, <1>2, <1>3, <1>4, <1>5 DEF Main, RefuseOptions, AllocateFails,
     RefuseStdout, CalibrationExits, SetUpThreads, SetUpFails, CreateThread,
     CreateFails, ReleaseHounds, JoinThread, JoinFails, AllJoined, RunInline,
     InlineReturns, OpenFails, Finish
<1>6. ASSUME NEW t \in Thread, ThreadStep(t) PROVE Contained'
  <2>1. CASE TakeSample(t)
    <3>1. /\ Offset(t) + done[t] \in Slots
          /\ DOMAIN samples = Slots
      BY <2>1, SlotFacts, SamplingFacts DEF TakeSample, Inv, TypeOK
    <3>2. stray' = stray
      BY <2>1, <3>1 DEF TakeSample, Access
    <3>3. QED
      BY <2>1, <3>2 DEF TakeSample
  <2>2. CASE WireExits(t) \/ RealtimeExits(t)
    BY <1>4, <2>2 DEF WireExits, RealtimeExits
  <2>3. CASE \/ WireThread(t) \/ StayUnwired(t) \/ GoRealtime(t)
             \/ StayOrdinary(t) \/ LeaveSpin(t) \/ ThreadReturns(t)
    BY <2>3 DEF WireThread, StayUnwired, GoRealtime, StayOrdinary, LeaveSpin,
       ThreadReturns
  <2>4. QED
    BY <1>6, <2>1, <2>2, <2>3 DEF ThreadStep
<1>7. CASE UNCHANGED vars
  BY <1>7 DEF vars
<1>8. QED
  BY <1>5, <1>6, <1>7 DEF Next, Terminated

\* No store of a thread and no read of main leaves the array, whichever the
\* thread and however many samples were asked for; only with none is the base
\* of a report read beside it (ftq.c:112-119, 277-280, 291, 307-311).
THEOREM AccessesStayInside == Spec => []AccessesInside
<1>1. Init => Contained
  BY DEF Init, Contained, AccessesInside
<1>2. Contained => AccessesInside
  BY DEF Contained
<1>3. QED
  BY <1>1, <1>2, ContainedStep, InvHolds, PTL DEF Spec

\* Nobody measures before all threads of the run exist (ftq.c:115, 244-254).
THEOREM ThreadsStartTogether == Spec => []StartTogether
<1>1. Inv => StartTogether
  <2> SUFFICES ASSUME Inv, NEW t \in Crew, done[t] > 0, NEW u \in Crew
               PROVE  tpc[u] # "unborn"
    BY DEF StartTogether
  <2>1. t \in Thread /\ u \in Thread
    BY OptionFacts DEF Inv, TypeOK
  <2>2. hounds
    BY <2>1 DEF Inv, Ledger, TypeOK
  <2>3. QED
    BY <2>1, <2>2 DEF Inv, Phases
<1>2. QED
  BY <1>1, InvHolds, PTL

\* The threads share the array without a lock and none ever touches what
\* another stored (ftq.c:112, ftqcore.c:50-51).
THEOREM NoSlotIsClobbered == Spec => []SlotsHoldMeasured
<1>1. Inv => SlotsHoldMeasured
  <2> SUFFICES ASSUME Inv PROVE SlotsHoldMeasured
    OBVIOUS
  <2>1. Crew \subseteq Thread
    BY OptionFacts DEF Inv, TypeOK
  <2>2. QED
    BY <2>1 DEF Inv, Ledger, SlotsHoldMeasured
<1>2. QED
  BY <1>1, InvHolds, PTL

\* Every report is the series of its own thread, complete unless one of its
\* writes failed (ftq.c:289-316).
THEOREM ReportsAreFaithful == Spec => []ReportsFaithful
<1>1. Inv => ReportsFaithful
  BY DEF Inv, Reporting
<1>2. QED
  BY <1>1, InvHolds, PTL

\* A run that succeeds has reached every report, whole unless its own writes
\* failed, and one that fails, whichever thread ended it, has left some out
\* (ftq.c:221-321, linux.c:27-30, 92-95, 136-139).
THEOREM SuccessIsReported == Spec => []SuccessMeansReported
<1>1. Inv => SuccessMeansReported
  <2> SUFFICES ASSUME Inv PROVE SuccessMeansReported
    OBVIOUS
  <2>1. NumReports \in Nat /\ Len(reports) \in Nat
    BY OptionFacts DEF Inv, TypeOK
  <2>2. status = "success" => Len(reports) = NumReports
    BY <2>1 DEF Inv, Reporting
  <2>3. ASSUME NEW j \in 1 .. Len(reports), j - 1 \notin damaged
        PROVE  Len(reports[j]) = numsamples
    BY <2>3 DEF Inv, Reporting, ReportsFaithful
  <2>4. QED
    BY <2>2, <2>3 DEF Inv, Reporting, SuccessMeansReported
<1>2. QED
  BY <1>1, InvHolds, PTL

\* A thread that measures without its core was allowed to (linux.c:92-95).
THEOREM WiredUnlessAllowed == Spec => []WiredUnlessTold
<1>1. Inv => WiredUnlessTold
  <2> SUFFICES ASSUME Inv, NEW t \in Crew, done[t] > 0, ~pinned[t]
               PROVE  \/ opt.ignore_wire_failures
                      \/ os = "akaros"
                      \/ ~opt.use_threads
    BY DEF WiredUnlessTold
  <2>1. t \in Thread
    BY OptionFacts DEF Inv, TypeOK
  <2>2. tpc[t] \in Busy
    BY <2>1 DEF Inv, Ledger
  <2>3. QED
    BY <2>1, <2>2 DEF Inv, SetUp, Busy
<1>2. QED
  BY <1>1, InvHolds, PTL

\* Real-time threads never fill the machine: rt_free_cores cores are left to
\* main and the OS (ftq.c:104-109).
THEOREM RealtimeLeavesCores == Spec => []RtLeavesCores
<1>1. Inv => RtLeavesCores
  <2> SUFFICES ASSUME Inv, Realtime # {}
               PROVE  Cardinality(Realtime) + RtFreeCores <= cores
    BY DEF RtLeavesCores
  <2>1. cores \in Nat /\ NumCores \in Nat /\ NumCores <= cores
    BY DEF Inv, TypeOK, NumCores
  <2>2. \A t \in Realtime : t \in Nat /\ t + RtFreeCores < NumCores
    BY DEF Realtime, Inv, SetUp, MayGoRealtime, Thread
  <2>3. RtFreeCores < NumCores
    BY <2>1, <2>2
  <2>4. Realtime \in SUBSET (0 .. NumCores - RtFreeCores - 1)
    BY <2>1, <2>2
  <2>5. /\ IsFiniteSet(0 .. NumCores - RtFreeCores - 1)
        /\ Cardinality(0 .. NumCores - RtFreeCores - 1) = NumCores - RtFreeCores
    BY <2>1, <2>3, FS_Interval
  <2>6. /\ Cardinality(Realtime) <= NumCores - RtFreeCores
        /\ Cardinality(Realtime) \in Nat
    <3> DEFINE Low == 0 .. NumCores - RtFreeCores - 1
    <3> HIDE DEF Low
    <3>1. /\ IsFiniteSet(Realtime)
          /\ Cardinality(Realtime) <= Cardinality(Low)
      BY <2>4, <2>5, FS_Subset DEF Low
    <3>2. Cardinality(Realtime) \in Nat
      BY <3>1, FS_CardinalityType
    <3>3. QED
      BY <2>5, <3>1, <3>2 DEF Low
  <2>7. QED
    BY <2>1, <2>6
<1>2. QED
  BY <1>1, InvHolds, PTL

\* Once main reads the array nobody writes it (ftq.c:257-272).
THEOREM SamplesAreFrozen == Spec => SamplesFrozen
<1>1. Inv /\ [Next]_vars =>
        [(mpc \in {"tally", "report"}) => (samples' = samples)]_vars
  <2> SUFFICES ASSUME Inv, [Next]_vars, mpc \in {"tally", "report"}
               PROVE  samples' = samples
    OBVIOUS
  <2>1. CASE Main
    BY <2>1 DEF Main, RefuseOptions, AllocateSamples, AllocateFails,
       RefuseStdout, CalibrationExits, SetUpThreads, SetUpFails,
       CreateThread, CreateFails, ReleaseHounds,
       JoinThread, JoinFails, AllJoined, RunInline, InlineReturns, Tally,
       WriteReport, OpenFails, Finish, Die, memVars
  <2>2. ASSUME NEW t \in Thread, ThreadStep(t) PROVE samples' = samples
    <3>1. ~TakeSample(t)
      BY SamplingFacts DEF TakeSample
    <3>2. QED
      BY <2>2, <3>1 DEF ThreadStep, WireThread, StayUnwired, WireExits,
         GoRealtime, RealtimeExits, StayOrdinary, LeaveSpin, ThreadReturns,
         Die, memVars
  <2>3. CASE UNCHANGED vars
    BY <2>3 DEF vars, memVars
  <2>4. QED
    BY <2>1, <2>2, <2>3 DEF Next, Terminated
<1>2. QED
  BY <1>1, InvHolds, PTL DEF Spec, SamplesFrozen

-----------------------------------------------------------------------------
(* The fraction of the header.  Whatever bounds every sample also bounds,  *)
(* times the number of samples, each thread's total and main's sum.        *)

Bound(m) ==
  \A t \in Thread : \A k \in 0 .. done[t] - 1 : measured[t][k + 1] <= m

Work ==
  /\ mpc \in {"alloc", "check", "create", "inline"} => total_count = 0
  /\ \A m \in Nat : Bound(m) =>
       /\ \A t \in Thread : retval[t] <= m * done[t]
       /\ mpc = "join" => total_count <= m * (i * numsamples)
       /\ mpc \in {"tally", "report"} =>
            total_count <= m * (numthreads * numsamples)
  /\ mpc = "report" => total_count <= max_work

LEMMA ProductStep ==
  ASSUME NEW m \in Nat, NEW a \in Nat, NEW n \in Nat
  PROVE  /\ m * n \in Nat
         /\ m * (a * n) \in Nat
         /\ m * ((a + 1) * n) = m * (a * n) + m * n
         /\ m * (a + 1) = m * a + m
  OBVIOUS

LEMMA WorkInit == Init => Work
  BY DEF Init, Work

\* Most steps touch nothing that Work speaks of.
LEMMA WorkFrame ==
  ASSUME Work, mpc' = mpc \/ mpc' \in {"alloc", "check", "create", "inline"},
         mpc \in {"alloc", "check", "create", "inline"} \/ mpc' = mpc,
         mpc = "join" => i' = i,
         UNCHANGED << opt, numsamples, total_count, max_work, done, retval,
                      measured >>
  PROVE  Work'
  BY DEF Work, Bound, numthreads

LEMMA WorkTakeSample ==
  ASSUME Inv, Work, NEW t \in Thread, TakeSample(t)
  PROVE  Work'
<1> USE DEF mainVars, confVars
<1>0. PICK c \in Counts :
        /\ retval' = [retval EXCEPT ![t] = @ + c]
        /\ measured' = [measured EXCEPT ![t] = Append(@, c)]
  BY DEF TakeSample
<1>1. /\ done' = [done EXCEPT ![t] = @ + 1]
      /\ UNCHANGED << mpc, i, total_count, max_work, opt, numsamples >>
  BY DEF TakeSample
<1>2. /\ done[t] \in Nat
      /\ c \in Nat
      /\ retval[t] \in Nat
      /\ Len(measured[t]) = done[t]
      /\ measured[t] \in Seq(Counts)
  BY DEF Inv, TypeOK, Ledger, Counts
<1>3. ASSUME NEW m \in Nat, Bound(m)'
      PROVE  Bound(m) /\ c <= m
  <2>1. /\ measured'[t][done[t] + 1] = c
        /\ \A k \in 0 .. done[t] - 1 : measured'[t][k + 1] = measured[t][k + 1]
        /\ \A u \in Thread : u # t => measured'[u] = measured[u]
        /\ \A u \in Thread : u # t => done'[u] = done[u]
        /\ done'[t] = done[t] + 1
    BY <1>0, <1>1, <1>2 DEF Inv, TypeOK
  <2>2. c <= m
    BY <1>2, <1>3, <2>1 DEF Bound
  <2>3. ASSUME NEW u \in Thread, NEW k \in 0 .. done[u] - 1
        PROVE  measured[u][k + 1] <= m
    <3>1. done[u] \in Nat
      BY DEF Inv, TypeOK
    <3>2. k \in 0 .. done'[u] - 1
      BY <2>1, <3>1
    <3>3. measured'[u][k + 1] <= m
      BY <1>3, <3>2 DEF Bound
    <3>4. measured'[u][k + 1] = measured[u][k + 1]
      BY <2>1
    <3>5. QED
      BY <3>3, <3>4
  <2>4. QED
    BY <2>2, <2>3 DEF Bound
<1>4. ASSUME NEW m \in Nat, Bound(m)', NEW u \in Thread
      PROVE  retval'[u] <= m * done'[u]
  <2>1. retval[u] <= m * done[u] /\ c <= m
    BY <1>3, <1>4 DEF Work
  <2>2. CASE u = t
    <3>1. /\ retval'[u] = retval[t] + c
          /\ done'[u] = done[t] + 1
      BY <1>0, <1>1, <2>2 DEF Inv, TypeOK
    <3>2. m * (done[t] + 1) = m * done[t] + m /\ m * done[t] \in Nat
      BY <1>2, ProductStep
    <3>3. QED
      BY <1>2, <2>1, <2>2, <3>1, <3>2
  <2>3. CASE u # t
    BY <1>0, <1>1, <2>1, <2>3 DEF Inv, TypeOK
  <2>4. QED
    BY <2>2, <2>3
<1>5. QED
  BY <1>1, <1>3, <1>4 DEF Work, numthreads

LEMMA WorkJoin == Inv /\ Work /\ JoinThread => Work'
<1> SUFFICES ASSUME Inv, Work, JoinThread PROVE Work'
  OBVIOUS
<1>1. /\ mpc = "join" /\ mpc' = "join"
      /\ i \in Nat /\ i \in Thread
      /\ i' = i + 1
      /\ total_count' = total_count + retval[i]
      /\ tpc[i] = "returned"
      /\ UNCHANGED << opt, numsamples, done, measured, retval >>
  <2>1. i \in Nat /\ i < numthreads /\ numthreads \in 1 .. MaxThreads
    BY OptionFacts DEF Inv, TypeOK, JoinThread, MoreThreads
  <2>2. i \in Thread
    BY <2>1 DEF Thread
  <2>3. QED
    BY <2>1, <2>2 DEF JoinThread, CanJoin, confVars, memVars, threadVars
<1>2. /\ done[i] = numsamples
      /\ numsamples \in Nat
      /\ total_count \in Nat
      /\ retval[i] \in Nat
  BY <1>1 DEF Inv, TypeOK, Ledger
<1>3. ASSUME NEW m \in Nat, Bound(m)'
      PROVE  total_count' <= m * (i' * numsamples')
  <2>1. Bound(m)
    BY <1>1, <1>3 DEF Bound
  <2>2. total_count <= m * (i * numsamples) /\ retval[i] <= m * numsamples
    BY <1>1, <1>2, <2>1 DEF Work
  <2>3. /\ m * ((i + 1) * numsamples) = m * (i * numsamples) + m * numsamples
        /\ m * (i * numsamples) \in Nat
        /\ m * numsamples \in Nat
    BY <1>1, <1>2, ProductStep
  <2>4. QED
    BY <1>1, <1>2, <2>2, <2>3
<1>4. ASSUME NEW m \in Nat, Bound(m)' PROVE Bound(m)
  BY <1>1, <1>4 DEF Bound
<1>5. QED
  BY <1>1, <1>3, <1>4 DEF Work

LEMMA WorkAllJoined == Inv /\ Work /\ AllJoined => Work'
<1> SUFFICES ASSUME Inv, Work, AllJoined PROVE Work'
  OBVIOUS
<1>1. i = numthreads
  BY OptionFacts DEF Inv, TypeOK, Phases, AllJoined, MoreThreads
<1>2. QED
  BY <1>1 DEF AllJoined, Work, Bound, numthreads, confVars, memVars, threadVars

\* Here the crew is main alone: its total is that of thread 0.
LEMMA WorkInline == Inv /\ Work /\ InlineReturns => Work'
<1> SUFFICES ASSUME Inv, Work, InlineReturns PROVE Work'
  OBVIOUS
<1>1. numthreads = 1 /\ 0 \in Thread /\ numsamples \in Nat
  BY OptionFacts DEF Inv, TypeOK, Phases, InlineReturns, Thread
<1>2. done[0] = numsamples /\ numthreads * numsamples = numsamples
  BY <1>1 DEF Inv, Ledger, InlineReturns
<1>3. QED
  BY <1>1, <1>2 DEF InlineReturns, Work, Bound, numthreads, confVars, memVars,
     threadVars

\* The best sample bounds them all.
LEMMA BestSampleBounds ==
  ASSUME Inv, mpc = "tally"
  PROVE  BestSample \in Nat /\ Bound(BestSample)
<1>1. BestSample \in Nat /\ \A s \in Slots : samples[s] <= BestSample
  BY BestSampleFacts DEF Inv, TypeOK
<1>2. ASSUME NEW t \in Thread, NEW k \in 0 .. done[t] - 1
      PROVE  measured[t][k + 1] <= BestSample
  <2>1. /\ t \in Nat /\ k \in Nat /\ k < numsamples
        /\ numsamples \in Nat /\ numthreads \in Nat
    BY OptionFacts DEF Inv, TypeOK, Ledger, Thread
  <2>2. t \in Crew
    <3>1. tpc[t] \in Busy
      BY <2>1 DEF Inv, Ledger, TypeOK
    <3>2. QED
      BY <3>1 DEF Inv, Phases, Busy
  <2>3. t < numthreads
    BY <2>1, <2>2 DEF Crew
  <2>4. Offset(t) + k \in Slots
    BY <2>1, <2>3, WindowInArray DEF Offset, Slots
  <2>5. QED
    BY <1>1, <2>4 DEF Inv, Ledger
<1>3. QED
  BY <1>1, <1>2 DEF Bound

LEMMA WorkTally == Inv /\ Work /\ Tally => Work'
<1> SUFFICES ASSUME Inv, Work, Tally PROVE Work'
  OBVIOUS
<1>1. BestSample \in Nat /\ Bound(BestSample)
  BY BestSampleBounds DEF Tally
<1>2. total_count <= MaxWork
  BY <1>1 DEF Work, MaxWork, Tally
<1>3. QED
  BY <1>2 DEF Tally, Work, Bound, numthreads, confVars, memVars, threadVars

\* The fraction shown in the header is at most 1 (ftq.c:266, 277-287).
THEOREM FractionIsAtMostOne == Spec => []FractionAtMostOne
<1>1. Inv /\ Work /\ [Next]_vars => Work'
  <2> SUFFICES ASSUME Inv, Work, [Next]_vars PROVE Work'
    OBVIOUS
  <2>1. CASE AllocateSamples
    <3>1. \A m \in Nat : Bound(m)' => Bound(m)
      BY <2>1 DEF Bound, AllocateSamples, threadVars
    <3>2. QED
      BY <2>1, <3>1 DEF Work, AllocateSamples, threadVars, confVars
  <2>2. CASE SetUpThreads \/ CreateThread \/ RunInline
    BY <2>2, WorkFrame DEF SetUpThreads, CreateThread, RunInline, confVars,
       memVars, threadVars
  <2>3. CASE ReleaseHounds
    <3>1. i' = 0 /\ \A m \in Nat : m * (i' * numsamples) = 0
      BY <2>3 DEF ReleaseHounds, Inv, TypeOK
    <3>2. QED
      BY <2>3, <3>1 DEF ReleaseHounds, Work, Bound, threadVars
  <2>4. CASE WriteReport
    BY <2>4 DEF Work, Bound, WriteReport, numthreads, confVars, memVars,
       threadVars
  <2>5. ASSUME NEW how, Die(how) PROVE Work'
    BY <2>5, WorkFrame DEF Die, confVars, memVars, mainVars, threadVars
  <2>6. CASE Main
    BY <2>1, <2>2, <2>3, <2>4, <2>5, <2>6, WorkJoin, WorkAllJoined,
       WorkInline, WorkTally
       DEF Main, RefuseOptions, AllocateFails, RefuseStdout,
       CalibrationExits, SetUpFails, CreateFails, JoinFails, OpenFails, Finish
  <2>7. ASSUME NEW t \in Thread, ThreadStep(t) PROVE Work'
    <3>1. TakeSample(t) => Work'
      BY WorkTakeSample
    <3>2. WireExits(t) \/ RealtimeExits(t) => Work'
      BY <2>5 DEF WireExits, RealtimeExits
    <3>3. CASE \/ WireThread(t) \/ StayUnwired(t) \/ GoRealtime(t)
               \/ StayOrdinary(t) \/ LeaveSpin(t) \/ ThreadReturns(t)
      BY <3>3, WorkFrame DEF WireThread, StayUnwired, GoRealtime,
         StayOrdinary, LeaveSpin, ThreadReturns, confVars, memVars, mainVars
    <3>4. QED
      BY <2>7, <3>1, <3>2, <3>3 DEF ThreadStep
  <2>8. CASE UNCHANGED vars
    BY <2>8, WorkFrame DEF vars, confVars, memVars, mainVars, threadVars
  <2>9. QED
    BY <2>6, <2>7, <2>8 DEF Next, Terminated
<1>2. Work => FractionAtMostOne
  BY DEF Work, FractionAtMostOne
<1>3. QED
  BY <1>1, <1>2, WorkInit, InvHolds, PTL DEF Spec

-----------------------------------------------------------------------------
(* The total of the header.  A thread's running total is the sum of its    *)
(* part of the array, main's that of the parts of the threads it joined.   *)

\* The slots where a thread has stored samples.
Stored(t) == Offset(t) .. Offset(t) + done[t] - 1

SumOver(S) == SumFunctionOnSet(samples, S)

Totals ==
  /\ \A t \in Thread : retval[t] = SumOver(Stored(t))
  /\ mpc \in {"alloc", "check", "create", "inline"} => total_count = 0
  /\ mpc = "join" => total_count = SumOver(0 .. i * numsamples - 1)
  /\ mpc \in {"tally", "report"} => total_count = SumOver(Slots)

\* Where the slots lie, and that there is something in each of them.
LEMMA StoredFacts ==
  ASSUME Inv, NEW t \in Thread
  PROVE  /\ Offset(t) \in Nat /\ done[t] \in Nat
         /\ mpc = "alloc" => Stored(t) = {}
         /\ Stored(t) \subseteq Slots
<1>1. /\ t \in Nat /\ numsamples \in Nat /\ done[t] \in Nat
      /\ done[t] <= numsamples /\ numthreads \in Nat
  BY OptionFacts DEF Inv, TypeOK, Ledger, Thread
<1>2. Offset(t) \in Nat
  BY <1>1, ProductType DEF Offset
<1>3. done[t] = 0 => Stored(t) = {}
  BY <1>2 DEF Stored
<1>4. mpc = "alloc" => done[t] = 0
  BY DEF Inv, Phases, Ledger, Busy
<1>5. ASSUME done[t] # 0 PROVE t < numthreads
  <2>1. tpc[t] \in Busy
    BY <1>5 DEF Inv, Ledger
  <2>2. t \in Crew
    BY <2>1 DEF Inv, Phases, Ledger, Busy
  <2> QED
    BY <1>1, <2>2 DEF Crew
<1>6. ASSUME done[t] # 0 PROVE Stored(t) \subseteq Slots
  <2> SUFFICES ASSUME NEW s \in Stored(t) PROVE s \in Slots
    OBVIOUS
  <2>1. /\ s - Offset(t) \in Nat /\ s - Offset(t) < numsamples
        /\ s = Offset(t) + (s - Offset(t))
    BY <1>1, <1>2 DEF Stored
  <2>2. t < numthreads
    BY <1>5, <1>6
  <2>3. Offset(t) + (s - Offset(t)) \in Slots
    BY <1>1, <2>1, <2>2, WindowInArray DEF Offset, Slots
  <2> QED
    BY <2>1, <2>3
<1> QED
  BY <1>1, <1>2, <1>3, <1>4, <1>6

LEMMA SlotsSummable ==
  ASSUME Inv, mpc # "alloc", NEW S \in SUBSET Slots
  PROVE  Summable(samples, S)
<1>1. IsFiniteSet(Slots)
  BY OptionFacts, ProductType, FS_Interval DEF Inv, TypeOK, Slots
<1>2. \A s \in Slots : samples[s] \in Nat
  BY DEF Inv, TypeOK, Counts
<1> QED
  BY <1>1, <1>2, FS_Subset DEF Summable

LEMMA TotalsInit == Init => Totals
<1> SUFFICES ASSUME Init PROVE Totals
  OBVIOUS
<1>1. ASSUME NEW t \in Thread PROVE Stored(t) = {}
  <2>1. done[t] = 0 /\ numsamples \in Nat /\ t \in Nat
    BY DEF Init, Thread
  <2>2. Offset(t) \in Nat
    BY <2>1, ProductType DEF Offset
  <2> QED
    BY <2>1, <2>2 DEF Stored
<1>2. \A t \in Thread : retval[t] = 0 /\ SumOver(Stored(t)) = 0
  BY <1>1, SumOfNone DEF Init, SumOver
<1> QED
  BY <1>2 DEF Init, Totals

\* Most steps touch nothing that Totals speaks of.
LEMMA TotalsFrame ==
  ASSUME Totals,
         mpc' = mpc
           \/ {mpc, mpc'} \subseteq {"alloc", "check", "create", "inline"},
         mpc = "join" => i' = i,
         UNCHANGED << opt, numsamples, samples, total_count, done, retval >>
  PROVE  Totals'
BY DEF Totals, SumOver, Stored, Offset, Slots, numthreads

\* The array is replaced while nothing is stored in it.
LEMMA TotalsAllocate == Inv /\ Inv' /\ Totals /\ AllocateSamples => Totals'
<1> SUFFICES ASSUME Inv, Inv', Totals, AllocateSamples PROVE Totals'
  OBVIOUS
<1>1. /\ mpc = "alloc" /\ mpc' = "check"
      /\ UNCHANGED << total_count, done, retval >>
  BY DEF AllocateSamples, threadVars
<1>2. ASSUME NEW t \in Thread PROVE retval'[t] = SumOver(Stored(t))'
  <2>1. Stored(t) = {} /\ done[t] = 0
    BY <1>1, StoredFacts DEF Inv, Phases, Ledger, Busy
  <2>2. numsamples' \in Nat /\ t \in Nat
    BY DEF Inv, TypeOK, Thread
  <2>3. t * numsamples' \in Nat
    BY <2>2, ProductType
  <2>4. Stored(t)' = {}
    BY <1>1, <2>1, <2>3 DEF Stored, Offset
  <2> QED
    BY <1>1, <2>1, <2>4, SumOfNone DEF Totals, SumOver
<1> QED
  BY <1>1, <1>2 DEF Totals

\* The sample goes into a slot that no sum contains yet.
LEMMA TotalsTakeSample ==
  ASSUME Inv, Totals, NEW t \in Thread, TakeSample(t)
  PROVE  Totals'
<1> DEFINE new == Offset(t) + done[t]
<1>1. PICK c \in Counts : /\ samples' = [samples EXCEPT ![new] = c]
                          /\ retval' = [retval EXCEPT ![t] = @ + c]
  BY DEF TakeSample
<1>2. /\ tpc[t] = "sample" /\ done[t] < numsamples
      /\ done' = [done EXCEPT ![t] = @ + 1]
      /\ UNCHANGED << mpc, i, total_count, opt, numsamples >>
  BY DEF TakeSample, mainVars, confVars
<1>3. /\ mpc \in {"join", "inline"} /\ t \in Crew
      /\ samples \in [Slots -> Counts] /\ new \in Slots
      /\ done \in [Thread -> Nat] /\ retval \in [Thread -> Nat]
      /\ Offset(t) \in Nat /\ new \in Nat
  <2>1. mpc \in {"join", "inline"} /\ t \in Crew
    BY <1>2, SamplingFacts
  <2>2. new \in Slots
    BY <1>2, SlotFacts
  <2>3. Offset(t) \in Nat /\ new \in Nat
    BY StoredFacts
  <2>4. /\ mpc # "alloc" => samples \in [Slots -> Counts]
        /\ done \in [Thread -> Nat] /\ retval \in [Thread -> Nat]
    BY DEF Inv, TypeOK
  <2> QED
    BY <2>1, <2>2, <2>3, <2>4
<1>4. /\ samples'[new] = c
      /\ \A s \in Slots : s # new => samples'[s] = samples[s]
  BY <1>1, <1>3
<1> HIDE DEF new
<1>5. ASSUME NEW S \in SUBSET Slots, new \notin S
      PROVE  SumOver(S) = SumFunctionOnSet(samples', S)
  <2>1. Summable(samples, S) /\ \A s \in S : samples[s] = samples'[s]
    BY <1>3, <1>4, <1>5, SlotsSummable
  <2> QED
    BY <2>1, SumOfEqual DEF SumOver
<1>6. ASSUME NEW u \in Thread
      PROVE  new \notin Stored(u) /\ Stored(u) \in SUBSET Slots
  <2>1. \A k \in 0 .. done[u] - 1 : Offset(u) + k # new
    BY <1>2, SlotFacts DEF new
  <2>2. Offset(u) \in Nat /\ done[u] \in Nat /\ Stored(u) \subseteq Slots
    BY StoredFacts
  <2>3. ASSUME new \in Stored(u) PROVE FALSE
    <3>1. new - Offset(u) \in 0 .. done[u] - 1
      BY <1>3, <2>2, <2>3 DEF Stored
    <3>2. Offset(u) + (new - Offset(u)) = new
      BY <1>3, <2>2
    <3> QED
      BY <2>1, <3>1, <3>2
  <2> QED
    BY <2>2, <2>3
<1>7. ASSUME NEW u \in Thread PROVE retval'[u] = SumOver(Stored(u))'
  <2>1. CASE u = t
    <3>1. Stored(t)' = Stored(t) \cup {new}
      BY <1>2, <1>3 DEF Stored, new, Offset
    <3>2. Summable(samples', Stored(t) \cup {new})
      <4>1. Summable(samples, Stored(t) \cup {new})
        BY <1>3, <1>6, SlotsSummable
      <4>2. \A s \in Slots : samples'[s] \in Counts
        BY <1>1, <1>3
      <4>3. Stored(t) \cup {new} \subseteq Slots /\ Counts \subseteq Nat
        BY <1>3, <1>6 DEF Counts
      <4> QED
        BY <4>1, <4>2, <4>3 DEF Summable
    <3>3. SumFunctionOnSet(samples', Stored(t) \cup {new})
            = SumFunctionOnSet(samples', Stored(t)) + c
      BY <1>4, <1>6, <3>2, SumOfOneMore
    <3>4. SumFunctionOnSet(samples', Stored(t)) = retval[t]
      BY <1>5, <1>6 DEF Totals
    <3> QED
      BY <1>1, <1>3, <2>1, <3>1, <3>3, <3>4 DEF SumOver
  <2>2. CASE u # t
    <3>1. Stored(u)' = Stored(u) /\ retval'[u] = retval[u]
      BY <1>1, <1>2, <1>3, <2>2 DEF Stored, Offset
    <3> QED
      BY <1>5, <1>6, <3>1 DEF Totals, SumOver
  <2> QED
    BY <2>1, <2>2
<1>8. ASSUME mpc = "join"
      PROVE  total_count' = SumOver(0 .. i * numsamples - 1)'
  <2>1. /\ i \in Nat /\ i <= numthreads /\ numthreads \in Nat
        /\ numsamples \in Nat /\ t \in Nat /\ i <= t
    <3>1. ~(t < i)
      BY <1>2, <1>3, <1>8 DEF Inv, Phases
    <3> QED
      BY <1>8, <3>1, OptionFacts DEF Inv, TypeOK, Phases, Thread
  <2>2. i * numsamples <= t * numsamples
    BY <2>1, ProductMonotone
  <2>3. i * numsamples <= numthreads * numsamples
    BY <2>1, ProductMonotone
  <2>4. /\ i * numsamples \in Nat /\ t * numsamples \in Nat
        /\ numthreads * numsamples \in Nat
    BY <2>1, ProductType
  <2>5. i * numsamples <= new
    BY <1>3, <2>2, <2>4 DEF new, Offset
  <2>6. /\ 0 .. i * numsamples - 1 \in SUBSET Slots
        /\ new \notin 0 .. i * numsamples - 1
    BY <1>3, <2>3, <2>4, <2>5 DEF Slots
  <2> QED
    BY <1>2, <1>5, <1>8, <2>6 DEF Totals, SumOver
<1> QED
  BY <1>2, <1>3, <1>7, <1>8 DEF Totals

\* The part of the thread that is joined follows those of the others.
LEMMA TotalsJoin == Inv /\ Totals /\ JoinThread => Totals'
<1> SUFFICES ASSUME Inv, Totals, JoinThread PROVE Totals'
  OBVIOUS
<1>1. /\ mpc = "join" /\ mpc' = "join" /\ i' = i + 1
      /\ total_count' = total_count + retval[i]
      /\ tpc[i] = "returned"
      /\ UNCHANGED << opt, numsamples, samples, done, retval >>
  BY DEF JoinThread, CanJoin, confVars, memVars, threadVars
<1>2. /\ i \in Nat /\ i < numthreads /\ numthreads \in 1 .. MaxThreads
      /\ numsamples \in Nat /\ i \in Thread
  BY OptionFacts DEF Inv, TypeOK, JoinThread, MoreThreads, Thread
<1> DEFINE Before == 0 .. i * numsamples - 1
           Now == 0 .. (i + 1) * numsamples - 1
<1>3. Stored(i) = i * numsamples .. i * numsamples + numsamples - 1
  <2>1. done[i] = numsamples
    BY <1>1, <1>2 DEF Inv, Ledger
  <2> QED
    BY <2>1 DEF Stored, Offset
<1>4. /\ (i + 1) * numsamples = i * numsamples + numsamples
      /\ i * numsamples \in Nat
  BY <1>2, OneMore, ProductType
<1>5. Before \cup Stored(i) = Now /\ Before \cap Stored(i) = {}
  BY <1>2, <1>3, <1>4
<1>6. Now \in SUBSET Slots
  <2>1. (i + 1) * numsamples <= numthreads * numsamples
    BY <1>2, ProductMonotone
  <2>2. numthreads * numsamples \in Nat /\ (i + 1) * numsamples \in Nat
    BY <1>2, <1>4, ProductType
  <2> QED
    BY <2>1, <2>2 DEF Slots
<1> HIDE DEF Before, Now
<1>7. SumOver(Now) = SumOver(Before) + SumOver(Stored(i))
  BY <1>1, <1>5, <1>6, SlotsSummable, SumOfUnion DEF SumOver
<1>8. total_count = SumOver(Before) /\ retval[i] = SumOver(Stored(i))
  BY <1>1, <1>2 DEF Totals, Before
<1>9. total_count' = SumOver(0 .. i * numsamples - 1)'
  BY <1>1, <1>7, <1>8 DEF SumOver, Now
<1> QED
  BY <1>1, <1>9 DEF Totals, SumOver, Stored, Offset

LEMMA TotalsAllJoined == Inv /\ Totals /\ AllJoined => Totals'
<1> SUFFICES ASSUME Inv, Totals, AllJoined PROVE Totals'
  OBVIOUS
<1>1. i = numthreads
  BY OptionFacts DEF Inv, TypeOK, Phases, AllJoined, MoreThreads
<1> QED
  BY <1>1 DEF AllJoined, Totals, SumOver, Stored, Offset, Slots, numthreads,
     confVars, memVars, threadVars

\* Here the only part is the whole array.
LEMMA TotalsInline == Inv /\ Totals /\ InlineReturns => Totals'
<1> SUFFICES ASSUME Inv, Totals, InlineReturns PROVE Totals'
  OBVIOUS
<1>1. numthreads = 1 /\ 0 \in Thread /\ numsamples \in Nat
  BY OptionFacts DEF Inv, TypeOK, Phases, InlineReturns, Thread
<1>2. done[0] = numsamples
  BY <1>1 DEF Inv, Ledger, InlineReturns
<1>3. Stored(0) = Slots
  BY <1>1, <1>2 DEF Stored, Offset, Slots
<1>4. retval[0] = SumOver(Slots)
  BY <1>1, <1>3 DEF Totals
<1> QED
  BY <1>4 DEF InlineReturns, Totals, SumOver, Stored, Offset, Slots,
     numthreads, confVars, memVars, threadVars

LEMMA TotalsStep == Inv /\ Inv' /\ Totals /\ [Next]_vars => Totals'
<1> SUFFICES ASSUME Inv, Inv', Totals, [Next]_vars PROVE Totals'
  OBVIOUS
<1>1. CASE SetUpThreads \/ CreateThread \/ RunInline
  BY <1>1, TotalsFrame DEF SetUpThreads, CreateThread, RunInline, confVars,
     memVars, threadVars
<1>2. CASE ReleaseHounds
  <2>1. i' = 0 /\ 0 .. i' * numsamples - 1 = {}
    BY <1>2 DEF ReleaseHounds, Inv, TypeOK
  <2>2. SumFunctionOnSet(samples', 0 .. i' * numsamples' - 1) = 0
    BY <1>2, <2>1, SumOfNone DEF ReleaseHounds
  <2> QED
    BY <1>2, <2>2 DEF ReleaseHounds, Totals, SumOver, Stored, Offset,
       threadVars
<1>3. CASE Tally
  BY <1>3 DEF Tally, Totals, SumOver, Stored, Offset, Slots, numthreads,
     confVars, memVars, threadVars
<1>4. CASE WriteReport
  BY <1>4 DEF WriteReport, Totals, SumOver, Stored, Offset, Slots,
     numthreads, confVars, memVars, threadVars
<1>5. ASSUME NEW how, Die(how) PROVE Totals'
  BY <1>5, TotalsFrame DEF Die, confVars, memVars, mainVars, threadVars
<1>6. CASE Main
  BY <1>1, <1>2, <1>3, <1>4, <1>5, <1>6, TotalsAllocate, TotalsJoin,
     TotalsAllJoined, TotalsInline
     DEF Main, RefuseOptions, AllocateFails, RefuseStdout,
     CalibrationExits, SetUpFails, CreateFails, JoinFails, OpenFails, Finish
<1>7. ASSUME NEW t \in Thread, ThreadStep(t) PROVE Totals'
  <2>1. TakeSample(t) => Totals'
    BY TotalsTakeSample
  <2>2. WireExits(t) \/ RealtimeExits(t) => Totals'
    BY <1>5 DEF WireExits, RealtimeExits
  <2>3. CASE \/ WireThread(t) \/ StayUnwired(t) \/ GoRealtime(t)
             \/ StayOrdinary(t) \/ LeaveSpin(t) \/ ThreadReturns(t)
    BY <2>3, TotalsFrame DEF WireThread, StayUnwired, GoRealtime,
       StayOrdinary, LeaveSpin, ThreadReturns, confVars, memVars, mainVars
  <2> QED
    BY <1>7, <2>1, <2>2, <2>3 DEF ThreadStep
<1>8. CASE UNCHANGED vars
  BY <1>8, TotalsFrame DEF vars, confVars, memVars, mainVars, threadVars
<1> QED
  BY <1>6, <1>7, <1>8 DEF Next, Terminated

\* The total shown in the header is the sum of all samples of all threads
\* (ftq.c:266, 271-275, ftqcore.c:51-52).
THEOREM TotalIsOfSamples == Spec => []TotalOfSamples
<1>1. Inv /\ Totals => TotalOfSamples
  <2> SUFFICES ASSUME Inv, Totals, mpc = "report"
               PROVE  total_count = FoldFunction(+, 0, samples)
    BY DEF TotalOfSamples
  <2>1. DOMAIN samples = Slots
    BY DEF Inv, TypeOK
  <2>2. FoldFunction(+, 0, samples) = SumFunctionOnSet(samples, Slots)
    BY <2>1 DEF FoldFunction, SumFunctionOnSet
  <2> QED
    BY <2>2 DEF Totals, SumOver
<1> QED
  BY <1>1, TotalsInit, TotalsStep, InvHolds, PTL DEF Spec

-----------------------------------------------------------------------------
(* The refinement                                                          *)

\* The crew and the number of reports are settled by the command line.
LEMMA RunFixed ==
  ASSUME UNCHANGED confVars
  PROVE  Crew' = Crew /\ NumReports' = NumReports
  BY DEF Crew, NumReports, numthreads, confVars

\* A failure of the program is a failure of the run.
LEMMA RunFails ==
  ASSUME Inv, status = "running", NEW how \in {"failure", "aborted"}, Die(how),
         Len(reports) < NumReports
  PROVE  Run!Fail
  BY RunFixed DEF Die, Run!Fail, Run!Failures, memVars, mainVars, threadVars

LEMMA RunMain ==
  ASSUME Inv, Main
  PROVE  Run!Next \/ UNCHANGED Run!vars
<1> USE DEF Run!vars, confVars, memVars, mainVars, threadVars
<1>0. /\ status = "running"
      /\ NumReports \in 1 .. MaxThreads
      /\ Crew \subseteq Thread
  BY OptionFacts DEF Main, Inv, TypeOK
<1>1. mpc # "report" => Len(reports) < NumReports
  BY <1>0 DEF Inv, Reporting
<1>2. CASE AllocateSamples
  <2>1. Clamped \in 0 .. numsamples
    BY DEF Clamped, Inv, TypeOK
  <2>2. ~hounds
    BY <1>2 DEF AllocateSamples, Inv, Phases
  <2>3. Run!Settle
    BY <1>0, <1>2, <2>1, <2>2, RunFixed DEF AllocateSamples, Run!Settle
  <2>4. QED
    BY <2>3 DEF Run!Next
<1>3. CASE ReleaseHounds \/ RunInline
  <2>1. ~hounds
    BY <1>3 DEF ReleaseHounds, RunInline, Inv, Phases
  <2>2. Run!Start
    BY <1>0, <1>3, <2>1, RunFixed DEF ReleaseHounds, RunInline, Run!Start
  <2>3. QED
    BY <2>2 DEF Run!Next
<1>4. CASE WriteReport
  <2>1. mpc = "report" /\ i < NumReports /\ hounds /\ i = Len(reports)
    BY <1>4 DEF WriteReport, Inv, Phases, Reporting
  <2>2. Column(i) = measured[i]
    BY <2>1, ColumnIsMeasured
  <2>3. \A t \in Crew : Len(measured[t]) = numsamples
    BY <1>0, <2>1 DEF Inv, Phases, Ledger
  <2>4. Run!Publishing
    BY <1>0, <1>4, <2>1, <2>3, RunFixed
       DEF WriteReport, Run!Publishing, Run!Complete
  <2>5. Run!Publish \/ Run!Spoil
    BY <1>4, <2>1, <2>2, <2>4
       DEF WriteReport, CutShort, Run!Publish, Run!Spoil, Run!CutShort
  <2>6. QED
    BY <2>5 DEF Run!Next
<1>5. CASE Finish
  <2>1. mpc = "report" /\ hounds /\ i = Len(reports) /\ i = NumReports
    BY <1>0, <1>5 DEF Finish, Inv, TypeOK, Phases, Reporting
  <2>2. \A t \in Crew : Len(measured[t]) = numsamples
    BY <1>0, <2>1 DEF Inv, Phases, Ledger
  <2>3. Run!Succeed
    BY <1>0, <1>5, <2>1, <2>2, RunFixed
       DEF Finish, Die, Run!Succeed, Run!Complete
  <2>4. QED
    BY <2>3 DEF Run!Next
<1>6. CASE \/ RefuseOptions \/ AllocateFails \/ RefuseStdout
           \/ CalibrationExits \/ SetUpFails \/ CreateFails \/ JoinFails
           \/ OpenFails
  <2>1. Len(reports) < NumReports
    BY <1>1, <1>6 DEF RefuseOptions, AllocateFails, RefuseStdout,
       CalibrationExits, SetUpFails, CreateFails, JoinFails, OpenFails, Inv,
       Reporting
  <2>2. Die("failure") \/ Die("aborted")
    BY <1>6 DEF RefuseOptions, AllocateFails, RefuseStdout, CalibrationExits,
       SetUpFails, CreateFails, JoinFails, OpenFails
  <2>3. Run!Fail
    BY <1>0, <2>1, <2>2, RunFails
  <2>4. QED
    BY <2>3 DEF Run!Next
<1>7. CASE \/ SetUpThreads \/ CreateThread \/ JoinThread \/ AllJoined
           \/ InlineReturns \/ Tally
  BY <1>7, RunFixed DEF SetUpThreads, CreateThread, JoinThread, AllJoined,
     InlineReturns, Tally
<1>8. QED
  BY <1>2, <1>3, <1>4, <1>5, <1>6, <1>7 DEF Main

LEMMA RunThread ==
  ASSUME Inv, NEW t \in Thread, ThreadStep(t)
  PROVE  Run!Next \/ UNCHANGED Run!vars
<1> USE DEF Run!vars, confVars, memVars, mainVars, threadVars
<1>0. status = "running" /\ NumReports \in 1 .. MaxThreads
  BY OptionFacts DEF ThreadStep, Inv, TypeOK
<1>1. CASE TakeSample(t)
  <2>1. t \in Crew /\ hounds /\ mpc \in {"join", "inline"}
    BY <1>1, SamplingFacts DEF TakeSample
  <2>2. reports = << >> /\ Len(measured[t]) < numsamples
    BY <1>1, <2>1 DEF Inv, Reporting, Ledger, TakeSample
  <2>3. /\ \E c \in Counts :
             measured' = [measured EXCEPT ![t] = Append(@, c)]
        /\ UNCHANGED << confVars, numsamples, hounds, reports, damaged,
                        status >>
    BY <1>1 DEF TakeSample
  <2>4. Run!Measure(t)
    BY <1>0, <2>1, <2>2, <2>3, RunFixed DEF Run!Measure
  <2>5. QED
    BY <2>1, <2>4 DEF Run!Next
<1>2. CASE WireExits(t) \/ RealtimeExits(t)
  <2>1. mpc # "report"
    BY <1>2 DEF WireExits, RealtimeExits, Inv, Phases
  <2>2. Len(reports) < NumReports
    BY <1>0, <2>1 DEF Inv, Reporting
  <2>3. Run!Fail
    BY <1>0, <1>2, <2>2, RunFails DEF WireExits, RealtimeExits
  <2>4. QED
    BY <2>3 DEF Run!Next
<1>3. CASE \/ WireThread(t) \/ StayUnwired(t) \/ GoRealtime(t)
           \/ StayOrdinary(t) \/ LeaveSpin(t) \/ ThreadReturns(t)
  BY <1>3, RunFixed DEF WireThread, StayUnwired, GoRealtime, StayOrdinary,
     LeaveSpin, ThreadReturns
<1>4. QED
  BY <1>1, <1>2, <1>3 DEF ThreadStep

\* The program implements the run that FtqRun describes: a common start, a
\* private series per thread, and publication of complete series, which a
\* full disk may cut short.
THEOREM RunRefinement == Spec => ImplementsRun
<1>1. Init => Run!Init
  <2> SUFFICES ASSUME Init PROVE Run!Init
    OBVIOUS
  <2>1. Crew \subseteq Thread /\ NumReports \in Nat
    BY OptionFacts DEF Init
  <2>2. QED
    BY <2>1 DEF Init, Run!Init
<1>2. Inv /\ [Next]_vars => [Run!Next]_(Run!vars)
  <2> SUFFICES ASSUME Inv, [Next]_vars
               PROVE  Run!Next \/ UNCHANGED Run!vars
    OBVIOUS
  <2>1. CASE UNCHANGED vars
    BY <2>1, RunFixed DEF vars, Run!vars, confVars, memVars, mainVars,
       threadVars
  <2>2. QED
    BY <2>1, RunMain, RunThread DEF Next, Terminated
<1>3. QED
  BY <1>1, <1>2, InvHolds, PTL DEF Spec, ImplementsRun, Run!Spec

=============================================================================
