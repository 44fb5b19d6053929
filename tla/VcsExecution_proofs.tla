------------------------- MODULE VcsExecution_proofs -------------------------
(***************************************************************************)
(* Theorems about VcsExecution, for every set of metrics, coverage points     *)
(* and inputs and any number of executions and starts.  The history is what    *)
(* the corpus was seen to cover, wherever the reports came from; that what was  *)
(* seen is the inputs' own holds until a simulation is left running or a        *)
(* testcase is not written, because every report is merged before the next      *)
(* execution can leave it behind again.                                      *)
(***************************************************************************)
EXTENDS VcsExecution, FiniteSetTheorems, TLAPS

(* What one evaluation does to the history, the corpus and the score.          *)

\* The history after an evaluation is the union of the history before with the
\* map: where nothing is new the map is in the history already.
LEMMA MergedIsUnion ==
    ASSUME NEW bits
    PROVE  \A m \in Metrics : Merged(bits)[m] = history[m] \cup bits[m]
BY DEF Merged, NewIn, IsNew

\* The entries and the history keep their shape, and the score stays a count.
LEMMA ProcessTyped ==
    ASSUME FeedbackTypeOK, NEW i \in Maps, NEW bits \in Maps, Process(i, bits)
    PROVE  FeedbackTypeOK'
<1>1. Merged(bits) \in Maps
  BY DEF FeedbackTypeOK, Merged, Maps
<1>2. reported' \in [Metrics -> Nat \cup {NotReported}]
  <2>1. \A m \in Metrics : Cardinality(history[m]) \in Nat
    BY FS_Subset, FS_CardinalityType, CoverageAssumption DEF FeedbackTypeOK, Maps
  <2> QED  BY <2>1 DEF FeedbackTypeOK, Process, Reported
<1>3. corpus' \in Seq(Testcases)
  <2>1. Merged(bits)[Minimized] \in SUBSET Bits
    BY <1>1, CoverageAssumption DEF Maps
  <2>2. [input |-> i, seen |-> bits, history_map |-> Merged(bits)[Minimized]] \in Testcases
    BY <2>1 DEF Testcases
  <2>3. corpus \in Seq(Testcases)
    BY DEF FeedbackTypeOK
  <2>4. CASE NewIn(bits) = {}
    BY <2>3, <2>4 DEF Process
  <2>5. CASE NewIn(bits) # {}
    <3>1. corpus' = Append(corpus, [input |-> i, seen |-> bits,
                                    history_map |-> Merged(bits)[Minimized]])
      BY <2>5 DEF Process
    <3> QED  BY <2>2, <2>3, <3>1
  <2> QED  BY <2>4, <2>5
<1> QED  BY <1>1, <1>2, <1>3 DEF FeedbackTypeOK, Process

\* The history stays the union of what the entries were seen to cover.
LEMMA ProcessKeepsHistory ==
    ASSUME FeedbackTypeOK, NEW i \in Maps, NEW bits \in Maps, Process(i, bits),
           HistoryIsTheCorpus
    PROVE  HistoryIsTheCorpus'
<1> SUFFICES ASSUME NEW m \in Metrics
             PROVE  history'[m] = UNION {corpus'[j].seen[m] : j \in 1..Len(corpus')}
  BY DEF HistoryIsTheCorpus, SeenBefore
<1>1. history[m] = UNION {corpus[j].seen[m] : j \in 1..Len(corpus)}
  BY DEF HistoryIsTheCorpus, SeenBefore, FeedbackTypeOK
<1>2. history'[m] = history[m] \cup bits[m]
  BY MergedIsUnion DEF Process
<1>3. CASE NewIn(bits) = {}
  <2>1. bits[m] \subseteq history[m]
    BY <1>3 DEF NewIn, IsNew
  <2> QED  BY <1>1, <1>2, <1>3, <2>1 DEF Process
<1>4. CASE NewIn(bits) # {}
  <2> DEFINE e == [input |-> i, seen |-> bits, history_map |-> Merged(bits)[Minimized]]
  <2>1. corpus' = Append(corpus, e)
    BY <1>4 DEF Process
  <2>2. /\ Len(corpus') = Len(corpus) + 1
        /\ corpus'[Len(corpus) + 1].seen = bits
        /\ \A j \in 1..Len(corpus) : corpus'[j] = corpus[j]
    BY <2>1 DEF FeedbackTypeOK
  <2>3. 1..Len(corpus') = (1..Len(corpus)) \cup {Len(corpus) + 1}
    BY <2>2 DEF FeedbackTypeOK
  <2> HIDE DEF e
  <2>4. {corpus'[j].seen[m] : j \in 1..Len(corpus')}
          = {corpus[j].seen[m] : j \in 1..Len(corpus)} \cup {bits[m]}
    BY <2>2, <2>3
  <2> QED  BY <1>1, <1>2, <2>4
<1> QED  BY <1>3, <1>4
-----------------------------------------------------------------------------
IInv == TypeOK /\ HistoryIsTheCorpus

\* The state in which a client starts.
LEMMA InitInv == Init => IInv
<1> SUFFICES ASSUME Init PROVE IInv
  OBVIOUS
<1>1. NoMap \in Maps
  BY DEF NoMap, Maps
<1>2. FeedbackTypeOK
  BY DEF Init, FeedbackInit, FeedbackTypeOK, Maps
<1>3. TypeOK
  BY <1>1, <1>2 DEF Init, TypeOK, Phases
<1>4. HistoryIsTheCorpus
  BY DEF Init, FeedbackInit, HistoryIsTheCorpus, SeenBefore
<1> QED  BY <1>3, <1>4 DEF IInv

\* A step that leaves the feedback alone keeps what is said of it.
LEMMA FeedbackUntouched ==
    ASSUME IInv, UNCHANGED feedbackVars
    PROVE  FeedbackTypeOK' /\ HistoryIsTheCorpus'
BY DEF IInv, TypeOK, feedbackVars, FeedbackTypeOK, HistoryIsTheCorpus, SeenBefore

\* So does an evaluation, whatever map it gets.
LEMMA FeedbackProcesses ==
    ASSUME IInv, NEW i \in Maps, NEW m \in Maps, Process(i, m)
    PROVE  FeedbackTypeOK' /\ HistoryIsTheCorpus'
<1>1. FeedbackTypeOK /\ HistoryIsTheCorpus
  BY DEF IInv, TypeOK
<1> QED  BY <1>1, ProcessTyped, ProcessKeepsHistory

OrphanTypes == [input : Maps, phase : Phases]

\* What is left running is one of the inputs.
LEMMA OrphanTyped == ASSUME IInv, LeavesOrphan PROVE orphans' \subseteq OrphanTypes
BY DEF LeavesOrphan, OrphanTypes, IInv, TypeOK

\* Every step keeps the invariant.
LEMMA NextInv ==
    ASSUME IInv, [Next]_vars
    PROVE  IInv'
<1> USE DEF Phases, clientVars
<1>1. ASSUME NEW i \in Inputs, Execute(i) \/ ExecuteUnwritten(i) PROVE IInv'
  <2>1. i \in Maps /\ NoMap \in Maps
    BY CoverageAssumption DEF NoMap, Maps
  <2>2. Spawn(i) /\ testcase' \in Maps /\ stray' \in BOOLEAN
    BY <1>1, <2>1 DEF Execute, ExecuteUnwritten, IInv, TypeOK
  <2>3. UNCHANGED feedbackVars
    BY <2>2 DEF Spawn
  <2> QED  BY <2>1, <2>2, <2>3, FeedbackUntouched DEF Spawn, IInv, TypeOK
<1>2. ASSUME NEW i \in Imported, NEW seen \in Imported, Import(i, seen) PROVE IInv'
  <2>1. i \in Maps /\ seen \in Maps
    BY ExecutionAssumption
  <2> QED  BY <1>2, <2>1, FeedbackProcesses DEF Import, execVars, IInv, TypeOK
<1>3. CASE SimulatorBeginsReport \/ SimulatorBlocks \/ SimulatorEnds \/ Exits
           \/ Observe \/ ObserverPanics
  <2>1. UNCHANGED feedbackVars
    BY <1>3 DEF SimulatorBeginsReport, SimulatorBlocks, SimulatorEnds, Exits, Observe,
                ObserverPanics
  <2> QED  BY <1>3, <2>1, FeedbackUntouched
           DEF SimulatorBeginsReport, SimulatorBlocks, SimulatorEnds, Exits, Observe,
               ObserverPanics, IInv, TypeOK
<1>4. CASE TimesOut \/ AlarmFires
  <2>1. UNCHANGED feedbackVars
    BY <1>4 DEF TimesOut, AlarmFires
  <2>2. orphans' \subseteq OrphanTypes
    BY <1>4, OrphanTyped DEF TimesOut, AlarmFires, OrphanTypes, IInv, TypeOK
  <2> QED  BY <1>4, <2>1, <2>2, FeedbackUntouched
           DEF TimesOut, AlarmFires, OrphanTypes, IInv, TypeOK
<1>5. CASE Evaluate
  <2>1. input \in Maps /\ map \in Maps
    BY DEF IInv, TypeOK
  <2> QED  BY <1>5, <2>1, FeedbackProcesses DEF Evaluate, IInv, TypeOK
<1>6. CASE Orphan
  <2> PICK o \in orphans : OrphanBeginsReport(o) \/ OrphanEnds(o)
    BY <1>6 DEF Orphan
  <2>1. UNCHANGED feedbackVars
    BY DEF OrphanBeginsReport, OrphanEnds
  <2>2. o \in [input : Maps, phase : Phases]
    BY DEF IInv, TypeOK
  <2>3. [o EXCEPT !.phase = "writes"] \in [input : Maps, phase : Phases]
    BY <2>2
  <2>4. orphans' \subseteq [input : Maps, phase : Phases]
    BY <2>3 DEF OrphanBeginsReport, OrphanEnds, IInv, TypeOK
  <2>5. report' \in Maps \cup {NoReport, Torn}
    BY <2>2 DEF OrphanBeginsReport, OrphanEnds
  <2> QED  BY <2>1, <2>4, <2>5, FeedbackUntouched
           DEF OrphanBeginsReport, OrphanEnds, IInv, TypeOK
<1>7. CASE Restart
  <2>1. NoMap \in Maps
    BY DEF NoMap, Maps
  <2>2. FeedbackTypeOK'
    BY <1>7, <2>1 DEF Restart, FeedbackTypeOK
  <2>3. HistoryIsTheCorpus'
    BY <1>7 DEF Restart, NoMap, HistoryIsTheCorpus, SeenBefore
  <2>4. /\ UNCHANGED executor /\ starts' = starts + 1 /\ pc' = "idle"
        /\ input' = NoMap /\ testcase' = NoMap /\ phase' = "done" /\ orphans' = {}
        /\ report' = NoReport /\ map' = NoMap /\ stray' = FALSE
    BY <1>7 DEF Restart
  <2>5. executor' \in Executors /\ starts' \in Nat
    BY <2>4 DEF IInv, TypeOK
  <2>6. /\ pc' \in {"idle", "running", "ended", "observed", "dead"}
        /\ input' \in Maps /\ testcase' \in Maps /\ map' \in Maps
        /\ phase' \in Phases
        /\ orphans' \subseteq [input : Maps, phase : Phases]
        /\ report' \in Maps \cup {NoReport, Torn}
        /\ stray' \in BOOLEAN
    BY <2>1, <2>4 DEF Phases
  <2>7. TypeOK'
    BY <2>2, <2>5, <2>6, Zenon DEF TypeOK
  <2> QED  BY <2>3, <2>7 DEF IInv
<1>8. CASE UNCHANGED vars
  <2>1. UNCHANGED feedbackVars
    BY <1>8 DEF vars
  <2> QED  BY <1>8, <2>1, FeedbackUntouched DEF vars, execVars, IInv, TypeOK
<1> QED  BY <1>1, <1>2, <1>3, <1>4, <1>5, <1>6, <1>7, <1>8 DEF Next, Executing

\* The invariant holds in every reachable state.
THEOREM Invariance == Spec => []IInv
<1> QED  BY InitInv, NextInv, PTL DEF Spec

\* The history, the corpus, the maps and the report keep their shape.
THEOREM TypeCorrect == Spec => []TypeOK
<1>1. IInv => TypeOK
  BY DEF IInv
<1> QED  BY <1>1, Invariance, PTL

\* The history of every metric is what the entries of the corpus were seen to
\* cover, with stale reports and reports of killed executions among them.
THEOREM HistoryAlwaysTheCorpus == Spec => []HistoryIsTheCorpus
<1>1. IInv => HistoryIsTheCorpus
  BY DEF IInv
<1> QED  BY <1>1, Invariance, PTL

-----------------------------------------------------------------------------
(* As long as no simulation was left running and every testcase was written, the *)
(* report that lies in the directory is the input's own or has been merged: a    *)
(* killed execution that reads it finds nothing new in it. A client that is gone  *)
(* reads no report, so that nothing is said of its directory.                   *)

Known(r) == \A m \in Metrics : r[m] \subseteq history[m]

OwnReport ==
    /\ pc \in {"running", "ended", "observed"} /\ phase = "done"
    /\ report = input

Own == \A k \in 1..Len(corpus) : corpus[k].seen = corpus[k].input

SInv ==
    ~stray =>
        /\ pc # "dead" =>
               /\ orphans = {}
               /\ report \in Maps => Known(report) \/ OwnReport
        /\ pc = "running" => testcase = input
        /\ pc = "observed" => report \in Maps /\ map = report
        /\ Own
        /\ OnlyNovelInputsAreKept


\* What is known stays known.
LEMMA KnownStays ==
    ASSUME NEW i, NEW m, Process(i, m)
    PROVE  /\ \A r : Known(r) => Known(r)'
           /\ Known(m)'
<1>1. \A x \in Metrics : history'[x] = history[x] \cup m[x]
  BY MergedIsUnion DEF Process
<1> QED  BY <1>1 DEF Known

\* An evaluation of an input by its own map, or by one that is known, keeps the
\* entries what they are, and adds one only for coverage nothing before it had.
LEMMA ProcessesOwn ==
    ASSUME IInv, Own, OnlyNovelInputsAreKept,
           NEW i \in Maps, NEW m \in Maps, Process(i, m), Known(m) \/ m = i
    PROVE  Own' /\ OnlyNovelInputsAreKept'
<1>0. FeedbackTypeOK /\ HistoryIsTheCorpus
  BY DEF IInv, TypeOK
<1>1. CASE NewIn(m) = {}
  <2>1. corpus' = corpus
    BY <1>1 DEF Process
  <2> QED  BY <2>1 DEF Own, OnlyNovelInputsAreKept, CoveredBefore
<1>2. CASE NewIn(m) # {}
  <2> DEFINE e == [input |-> i, seen |-> m, history_map |-> Merged(m)[Minimized]]
             n == Len(corpus)
  <2>1. PICK x \in Metrics : ~(m[x] \subseteq history[x])
    BY <1>2 DEF NewIn, IsNew
  <2>2. m = i
    BY <2>1 DEF Known
  <2>3. corpus' = Append(corpus, e)
    BY <1>2 DEF Process
  <2>4. /\ n \in Nat /\ Len(corpus') = n + 1
        /\ corpus'[n + 1] = e
        /\ \A j \in 1..n : corpus'[j] = corpus[j]
    BY <1>0, <2>3 DEF FeedbackTypeOK
  <2>5. e.seen = m /\ e.input = i
    OBVIOUS
  <2> HIDE DEF e, n
  <2>6. Own'
    BY <2>2, <2>4, <2>5 DEF Own, n
  <2>7. \A k \in 1..(n + 1), y \in Metrics :
            CoveredBefore(k, y)' = CoveredBefore(k, y)
    <3> SUFFICES ASSUME NEW k \in 1..(n + 1), NEW y \in Metrics
                 PROVE  CoveredBefore(k, y)' = CoveredBefore(k, y)
      OBVIOUS
    <3>1. \A j \in 1..(k - 1) : corpus'[j] = corpus[j]
      BY <2>4
    <3> QED  BY <3>1 DEF CoveredBefore
  <2>8. CoveredBefore(n + 1, x) = history[x]
    <3>1. history[x] = UNION {corpus[j].seen[x] : j \in 1..n}
      BY <1>0, <2>4 DEF HistoryIsTheCorpus, SeenBefore, n
    <3>2. \A j \in 1..n : corpus[j].seen = corpus[j].input
      BY DEF Own, n
    <3> QED  BY <2>4, <3>1, <3>2 DEF CoveredBefore
  <2>9. ASSUME NEW k \in 1..Len(corpus')
        PROVE  \E y \in Metrics : ~(corpus'[k].input[y] \subseteq CoveredBefore(k, y)')
    <3>1. CASE k = n + 1
      BY <2>1, <2>2, <2>4, <2>5, <2>7, <2>8, <3>1
    <3>2. CASE k \in 1..n
      <4>1. PICK y \in Metrics : ~(corpus[k].input[y] \subseteq CoveredBefore(k, y))
        BY <3>2 DEF OnlyNovelInputsAreKept, n
      <4> QED  BY <2>4, <2>7, <3>2, <4>1
    <3> QED  BY <2>4, <3>1, <3>2
  <2> QED  BY <2>6, <2>9 DEF OnlyNovelInputsAreKept
<1> QED  BY <1>1, <1>2

\* A step that leaves the feedback alone keeps what is said of the corpus.
LEMMA OwnUntouched ==
    ASSUME ~stray, SInv, UNCHANGED feedbackVars
    PROVE  /\ Own' /\ OnlyNovelInputsAreKept'
           /\ \A r : Known(r) => Known(r)'
BY DEF SInv, feedbackVars, Own, OnlyNovelInputsAreKept, CoveredBefore, Known

\* Every step keeps the second invariant.
LEMMA NextOwn ==
    ASSUME IInv, SInv, [Next]_vars
    PROVE  SInv'
<1>0. NoReport \notin Maps /\ Torn \notin Maps
  BY ExecutionAssumption
<1> SUFFICES ASSUME ~stray' PROVE SInv'
  BY DEF SInv
<1>1. ASSUME NEW i \in Inputs, Execute(i) \/ ExecuteUnwritten(i) PROVE SInv'
  <2>1. Spawn(i) /\ testcase' = i /\ ~stray
    <3>1. CASE Execute(i)
      BY <3>1 DEF Execute
    <3>2. CASE ExecuteUnwritten(i)
      <4>1. Spawn(i) /\ testcase' = testcase /\ stray' = (stray \/ testcase # i)
        BY <3>2 DEF ExecuteUnwritten
      <4>2. ~stray /\ testcase = i
        BY <4>1, Zenon
      <4> QED  BY <4>1, <4>2
    <3> QED  BY <1>1, <3>1, <3>2
  <2>2. UNCHANGED feedbackVars
    BY <2>1 DEF Spawn
  <2> QED  BY <2>1, <2>2, OwnUntouched DEF Spawn, SInv, OwnReport
<1>2. ASSUME NEW i \in Imported, NEW seen \in Imported, Import(i, seen) PROVE SInv'
  <2>1. i \in Maps /\ seen = i /\ ~stray
    BY <1>2, ExecutionAssumption DEF Import
  <2>2. Own' /\ OnlyNovelInputsAreKept'
    BY <1>2, <2>1, ProcessesOwn DEF Import, SInv
  <2>3. \A r : Known(r) => Known(r)'
    BY <1>2, KnownStays DEF Import
  <2> QED  BY <1>2, <2>1, <2>2, <2>3 DEF Import, execVars, SInv, OwnReport
<1>3. CASE SimulatorBeginsReport \/ SimulatorBlocks \/ SimulatorEnds \/ Exits
           \/ Observe \/ ObserverPanics
  <2>1. UNCHANGED feedbackVars /\ ~stray
    BY <1>3 DEF SimulatorBeginsReport, SimulatorBlocks, SimulatorEnds, Exits, Observe,
                ObserverPanics
  <2> QED  BY <1>0, <1>3, <2>1, OwnUntouched
           DEF SimulatorBeginsReport, SimulatorBlocks, SimulatorEnds, Exits, Observe,
               ObserverPanics, SInv, OwnReport
<1>4. CASE TimesOut
  <2>1. UNCHANGED <<feedbackVars, orphans>> /\ ~stray
    BY <1>4 DEF TimesOut
  <2> QED  BY <1>4, <2>1, OwnUntouched DEF TimesOut, SInv, OwnReport
<1>5. CASE AlarmFires
  <2>1. UNCHANGED feedbackVars /\ ~stray
    BY <1>5 DEF AlarmFires
  <2> QED  BY <1>5, <2>1, OwnUntouched DEF AlarmFires, SInv
<1>6. CASE Evaluate
  <2>0. ~stray
    BY <1>6 DEF Evaluate
  <2>1. report \in Maps /\ map = report /\ (Known(report) \/ report = input)
    BY <1>6, <2>0 DEF Evaluate, SInv, OwnReport
  <2>2. input \in Maps
    BY DEF IInv, TypeOK
  <2>3. Own' /\ OnlyNovelInputsAreKept'
    BY <1>6, <2>0, <2>1, <2>2, ProcessesOwn DEF Evaluate, SInv
  <2>4. Known(map)'
    BY <1>6, KnownStays DEF Evaluate, Known
  <2> QED  BY <1>6, <2>0, <2>1, <2>3, <2>4 DEF Evaluate, SInv, Known
<1>7. CASE Orphan
  <2>1. ~stray /\ orphans # {} /\ UNCHANGED <<feedbackVars, pc>>
    BY <1>7 DEF Orphan, OrphanBeginsReport, OrphanEnds
  <2>2. pc = "dead"
    BY <2>1 DEF SInv
  <2> QED  BY <2>1, <2>2, OwnUntouched DEF SInv
<1>8. CASE Restart
  BY <1>0, <1>8 DEF Restart, SInv, Own, OnlyNovelInputsAreKept
<1>9. CASE UNCHANGED vars
  <2>1. UNCHANGED feedbackVars /\ ~stray
    BY <1>9 DEF vars
  <2> QED  BY <1>9, <2>1, OwnUntouched DEF vars, execVars, SInv, OwnReport
<1> QED
  BY <1>1, <1>2, <1>3, <1>4, <1>5, <1>6, <1>7, <1>8, <1>9 DEF Next, Executing

\* A client starts with an empty corpus and without a report.
LEMMA InitOwn == Init => SInv
BY ExecutionAssumption
   DEF Init, FeedbackInit, SInv, OwnReport, Own, OnlyNovelInputsAreKept

\* The second invariant always holds.
THEOREM OwnInvariance == Spec => []SInv
<1>1. IInv /\ SInv /\ [Next]_vars => SInv'
  BY NextOwn
<1> QED  BY <1>1, InitOwn, Invariance, PTL DEF Spec

\* Until a simulation is left running or a testcase is not written, what an entry
\* of the corpus was seen to
\* cover is what its input covers.
THEOREM SeenAlwaysTheInputs == Spec => []SeenIsTheInputs
<1>1. SInv => SeenIsTheInputs
  BY DEF SInv, Own, SeenIsTheInputs
<1> QED  BY <1>1, OwnInvariance, PTL

\* Under the same conditions, an input is kept only for coverage that
\* no entry before it has.
THEOREM OnlyNovelKept == Spec => []OnlyNovelIsKept
<1>1. SInv => OnlyNovelIsKept
  BY DEF SInv, OnlyNovelIsKept
<1> QED  BY <1>1, OwnInvariance, PTL

-----------------------------------------------------------------------------
(* The score is the size of the history, and a history only grows.               *)

\* No metric was ever reported with more points than its history has.
ReportedInv == \A m \in Metrics : reported[m] <= Cardinality(history[m])

\* Coverage is finite, and no part of it has more points than the whole.
LEMMA HistoryIsFinite ==
    ASSUME NEW h \in SUBSET Bits, NEW g \in SUBSET h
    PROVE  /\ Cardinality(g) \in Nat /\ Cardinality(h) \in Nat
           /\ Cardinality(g) <= Cardinality(h)
<1>1. IsFiniteSet(h) /\ g \in SUBSET h
  BY CoverageAssumption, FS_Subset
<1> QED  BY <1>1, FS_Subset, FS_CardinalityType

\* An evaluation reports the history as it was, or what was reported before it.
LEMMA ProcessReports ==
    ASSUME IInv, ReportedInv, NEW i \in Maps, NEW map_ \in Maps, Process(i, map_)
    PROVE  ReportedInv' /\ \A m \in Metrics : reported'[m] >= reported[m]
<1> SUFFICES ASSUME NEW m \in Metrics
             PROVE  /\ reported'[m] <= Cardinality(history'[m])
                    /\ reported'[m] >= reported[m]
  BY DEF ReportedInv
<1>1. FeedbackTypeOK /\ FeedbackTypeOK'
  BY FeedbackProcesses DEF IInv, TypeOK
<1>2. history'[m] = history[m] \cup map_[m]
  BY MergedIsUnion DEF Process
<1>3. history'[m] \in SUBSET Bits /\ history[m] \in SUBSET history'[m]
  BY <1>1, <1>2 DEF FeedbackTypeOK, Maps
<1>4. /\ Cardinality(history[m]) \in Nat /\ Cardinality(history'[m]) \in Nat
      /\ Cardinality(history[m]) <= Cardinality(history'[m])
  BY <1>3, HistoryIsFinite
<1>5. reported[m] \in Int /\ reported[m] <= Cardinality(history[m])
  BY <1>1 DEF FeedbackTypeOK, NotReported, ReportedInv
<1>6. reported'[m] = IF m \in NewIn(map_) THEN Cardinality(history[m]) ELSE reported[m]
  BY DEF Process, Reported
<1> QED  BY <1>4, <1>5, <1>6

\* Every step keeps that, and none but the start of a client lowers a score.
LEMMA NextReports ==
    ASSUME IInv, ReportedInv, [Next]_vars
    PROVE  /\ ReportedInv'
           /\ starts' = starts => \A m \in Metrics : reported'[m] >= reported[m]
<1>1. CASE UNCHANGED feedbackVars
  <2>1. \A m \in Metrics : reported[m] \in Int
    BY DEF IInv, TypeOK, FeedbackTypeOK, NotReported
  <2> QED  BY <1>1, <2>1 DEF feedbackVars, ReportedInv
<1>2. ASSUME NEW i \in Imported, NEW seen \in Imported, Import(i, seen)
      PROVE  ReportedInv' /\ \A m \in Metrics : reported'[m] >= reported[m]
  BY <1>2, ExecutionAssumption, ProcessReports DEF Import
<1>3. CASE Evaluate
  BY <1>3, ProcessReports DEF Evaluate, IInv, TypeOK
<1>4. CASE Restart
  <2>1. starts' # starts /\ \A m \in Metrics : reported'[m] = -1 /\ history'[m] = {}
    BY <1>4 DEF Restart, NoMap, NotReported, IInv, TypeOK
  <2> QED  BY <2>1, FS_EmptySet DEF ReportedInv
<1>5. \/ UNCHANGED feedbackVars
      \/ \E i, seen \in Imported : Import(i, seen)
      \/ Evaluate \/ Restart
  BY DEF Next, Execute, ExecuteUnwritten, Spawn, SimulatorBeginsReport, SimulatorBlocks,
     SimulatorEnds, Executing, Exits, TimesOut, AlarmFires, Observe, ObserverPanics,
     Orphan, OrphanBeginsReport, OrphanEnds, vars
<1> QED  BY <1>1, <1>2, <1>3, <1>4, <1>5

\* The scores stay below the histories.
LEMMA ReportsHold == Spec => []ReportedInv
<1>1. Init => ReportedInv
  <2> SUFFICES ASSUME Init, NEW m \in Metrics
               PROVE  reported[m] <= Cardinality(history[m])
    BY DEF ReportedInv
  <2>1. reported[m] = -1 /\ history[m] = {}
    BY DEF Init, FeedbackInit, NotReported
  <2> QED  BY <2>1, FS_EmptySet
<1>2. IInv /\ ReportedInv /\ [Next]_vars => ReportedInv'
  BY NextReports
<1> QED  BY <1>1, <1>2, Invariance, PTL DEF Spec

\* The score that is plotted over time never goes down while a client runs, although it
\* is the size of the history before the merge and a metric without news is left out.
THEOREM ReportsGrow == Spec => ReportsNeverShrink
<1>1. IInv /\ ReportedInv /\ [Next]_vars =>
        [starts' = starts => \A m \in Metrics : reported'[m] >= reported[m]]_vars
  BY NextReports
<1> QED  BY <1>1, Invariance, ReportsHold, PTL DEF Spec, ReportsNeverShrink
=============================================================================
