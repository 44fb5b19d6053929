----------------------- MODULE VerilatorExecution_proofs -----------------------
(***************************************************************************)
(* Theorems about VerilatorExecution, for maps and reports of any size and      *)
(* wherever a testbench is killed.  That a testcase is not kept for the report of   *)
(* an execution before it rests on what the history has: when an evaluation is      *)
(* over, nothing of the report that lies there is more than the history (InPlace).   *)
(***************************************************************************)
EXTENDS VerilatorExecution, SequenceTheorems, TLAPS

Fields == Counts \cup {Unreadable}
Entries == [input : Inputs, seen : Maps, unset : BOOLEAN]

TypeInv ==
    /\ lines \in Nat
    /\ pc \in {"idle", "writing", "running", "ended", "observed", "exited"}
    /\ input \in Inputs
    /\ phase \in {"runs", "writes", "done"}
    /\ report \in Seq(Fields) \cup {NoReport}
    /\ mapped \in BOOLEAN /\ unset \in BOOLEAN
    /\ map \in Maps /\ history \in Maps
    /\ kept \in Seq(Entries)

\* A report of the testcase that is executed, whole or cut off.
Own(r) == Len(r) <= lines /\ \A k \in 1..Len(r) : r[k] <= input[k]

\* A report of which the history has everything.
Known(r) == \A k \in 1..Len(r) : r[k] <= history[k]

\* Where the execution is, what may lie there as the report, and what the map has
\* of it.
InPlace ==
    /\ pc = "idle" /\ mapped => Readable /\ Known(report)
    /\ pc \in {"writing", "running", "ended"} =>
          /\ map = Zeros
          /\ mapped /\ Readable => Own(report) \/ Known(report)
    /\ pc = "observed" =>
          /\ mapped /\ Readable
          /\ \A k \in 1..Size : k <= Len(report) => map[k] = report[k]
          /\ ~unset => /\ Own(report) \/ Known(report)
                       /\ \A k \in 1..Size : k > Len(report) => map[k] = 0

\* The history is the last map that was kept, and the first that is evaluated is
\* the only one that was unset.
LastKept ==
    /\ ~mapped \/ (pc = "observed" /\ unset) => kept = <<>>
    /\ kept # <<>> => history = kept[Len(kept)].seen

IInv == TypeInv /\ InPlace /\ LastKept /\ KeptForItsOwnCounts /\ NotTheSameAgain

-----------------------------------------------------------------------------
\* The map has a size, and an empty map is one.
LEMMA SizeType == Size \in Nat \ {0} /\ Zeros \in Maps /\ \A k \in 1..Size : Zeros[k] = 0
BY VerilatorAssumption DEF Zeros, Maps, Counts

\* A report is a sequence of its counts.
LEMMA InputIsReport ==
    ASSUME lines \in Nat, NEW i \in Inputs
    PROVE  /\ i \in Seq(Fields) /\ Len(i) = lines
           /\ \A k \in 1..lines : i[k] \in Nat
<1>1. i \in Seq(Fields)
  <2>1. i \in [1..lines -> Fields]
    BY DEF Inputs, Fields
  <2> QED  BY <2>1, SeqDef
<1>2. DOMAIN i = 1..lines /\ DOMAIN i = 1..Len(i) /\ Len(i) \in Nat
  BY <1>1, LenProperties DEF Inputs
<1> QED  BY <1>1, <1>2, VerilatorAssumption DEF Inputs, Counts

\* What is there of a report that is being written is the testcase's own, or lacks
\* something of its last count.
LEMMA PartIsOwn ==
    ASSUME lines \in Nat, NEW i \in Inputs, NEW r \in PartsOf(i)
    PROVE  /\ r \in Seq(Fields) /\ Len(r) <= lines
           /\ \A k \in 1..Len(r) : r[k] # Unreadable => r[k] <= i[k]
<1>1. /\ i \in Seq(Fields) /\ Len(i) = lines
      /\ \A k \in 1..lines : i[k] \in Nat /\ i[k] \in Counts
  BY InputIsReport DEF Inputs
<1>2. CASE \E k \in 0..lines : r = SubSeq(i, 1, k)
  BY <1>1, <1>2
<1>3. CASE \E k \in 0..(lines - 1) : \E c \in Shortened(i[k + 1]) :
              r = Append(SubSeq(i, 1, k), c)
  <2>0. PICK k \in 0..(lines - 1) : \E c \in Shortened(i[k + 1]) :
            r = Append(SubSeq(i, 1, k), c)
    BY <1>3
  <2>1. PICK c \in Shortened(i[k + 1]) : r = Append(SubSeq(i, 1, k), c)
    BY <2>0
  <2>2. k + 1 \in 1..lines /\ c \in Fields /\ (c # Unreadable => c <= i[k + 1])
    <3>1. k + 1 \in 1..lines
      OBVIOUS
    <3>2. i[k + 1] \in Nat /\ i[k + 1] \in 0..MaxCount
      BY <1>1, <3>1 DEF Counts
    <3>3. CASE c = Unreadable
      BY <3>1, <3>3 DEF Fields
    <3>4. CASE c # Unreadable
      <4>1. c \in 0..i[k + 1]
        BY <3>4 DEF Shortened
      <4> QED  BY <3>1, <3>2, <3>4, <4>1, VerilatorAssumption DEF Fields, Counts
    <3> QED  BY <3>3, <3>4
  <2>3. /\ SubSeq(i, 1, k) \in Seq(Fields) /\ Len(SubSeq(i, 1, k)) = k
        /\ \A j \in 1..k : SubSeq(i, 1, k)[j] = i[j]
    BY <1>1
  <2> HIDE DEF Shortened
  <2>4. /\ r \in Seq(Fields) /\ Len(r) = k + 1 /\ r[k + 1] = c
        /\ \A j \in 1..k : r[j] = i[j]
    BY <2>1, <2>2, <2>3
  <2> QED  BY <1>1, <2>2, <2>4
<1>4. (\E k \in 0..lines : r = SubSeq(i, 1, k))
        \/ (\E k \in 0..(lines - 1) : \E c \in Shortened(i[k + 1]) :
               r = Append(SubSeq(i, 1, k), c))
  BY DEF PartsOf
<1> QED  BY <1>2, <1>3, <1>4

\* What can be read of a report are counts, no more than the map has elements.
LEMMA ReadableReport ==
    ASSUME TypeInv, Readable
    PROVE  /\ report \in Seq(Fields) /\ Len(report) \in 0..Size
           /\ \A k \in 1..Len(report) : report[k] \in Counts /\ report[k] \in Nat
BY SizeType, VerilatorAssumption DEF TypeInv, Readable, Fields, Counts

\* Nothing that an evaluation looks at changes in these steps.
LEMMA KeptStays ==
    ASSUME IInv, UNCHANGED <<feedbackVars, lines>>
    PROVE  KeptForItsOwnCounts' /\ NotTheSameAgain'
BY DEF IInv, feedbackVars, KeptForItsOwnCounts, NotTheSameAgain

\* Nothing has been executed at the start.
LEMMA InitInv == Init => IInv
<1> SUFFICES ASSUME Init PROVE IInv
  OBVIOUS
<1>1. lines \in Nat
  BY VerilatorAssumption DEF Init
<1>2. input \in Inputs
  BY VerilatorAssumption DEF Init, Inputs, Counts
<1>3. report \in Seq(Fields) \cup {NoReport}
  BY <1>1, InputIsReport DEF Init
<1>4. TypeInv
  <2>1. kept \in Seq(Entries)
    BY DEF Init
  <2> QED  BY <1>1, <1>2, <1>3, <2>1, SizeType DEF Init, TypeInv
<1>5. InPlace /\ LastKept
  BY DEF Init, InPlace, LastKept
<1>6. KeptForItsOwnCounts /\ NotTheSameAgain
  BY DEF Init, KeptForItsOwnCounts, NotTheSameAgain
<1> QED  BY <1>4, <1>5, <1>6 DEF IInv

\* The report that is started on is cleared of nothing: it lies there as it was.
LEMMA SpawnInv == ASSUME IInv, NEW i \in Inputs, NEW l \in BOOLEAN, Spawn(i, l) PROVE IInv'
<1>1. TypeInv'
  <2>1. Inputs' = Inputs /\ Entries' = Entries
    BY DEF Spawn, Inputs, Entries
  <2> QED  BY <2>1, SizeType DEF Spawn, IInv, TypeInv, feedbackVars
<1>2. Readable' = Readable /\ (Known(report) <=> Known(report)')
  BY DEF Spawn, Readable, Known, feedbackVars
<1>3. InPlace'
  BY <1>2 DEF Spawn, IInv, InPlace
<1>4. LastKept'
  BY DEF Spawn, IInv, LastKept, feedbackVars
<1> QED  BY <1>1, <1>3, <1>4, KeptStays DEF Spawn, IInv

\* The testbench writes its report in place of the one before it.
LEMMA ReportInv ==
    ASSUME IInv, BeginsReport \/ EndsReport \/ Aborts
    PROVE  IInv'
<1>1. /\ pc \in {"writing", "running"} /\ pc' = pc
      /\ UNCHANGED <<feedbackVars, lines, input, mapped, map, unset>>
      /\ phase' \in {"writes", "done"}
  BY DEF BeginsReport, EndsReport, Aborts
<1>2. /\ report' \in Seq(Fields) \cup {NoReport}
      /\ mapped /\ Readable' => Own(report)' \/ Known(report)'
  <2>1. CASE BeginsReport
    <3>1. /\ report' \in Seq(Fields) /\ Len(report') <= lines
          /\ \A k \in 1..Len(report') : report'[k] # Unreadable => report'[k] <= input[k]
      BY <2>1, PartIsOwn DEF BeginsReport, IInv, TypeInv
    <3> QED  BY <1>1, <3>1 DEF Readable, Own
  <2>2. CASE EndsReport
    <3>1. report' = input /\ input \in Seq(Fields) /\ Len(input) = lines
          /\ \A k \in 1..lines : input[k] \in Nat
      BY <2>2, InputIsReport DEF EndsReport, IInv, TypeInv
    <3> QED  BY <1>1, <3>1 DEF Own
  <2>3. CASE Aborts
    BY <1>1, <2>3 DEF Aborts, IInv, TypeInv, InPlace, Readable, Own, Known, feedbackVars
  <2> QED  BY <2>1, <2>2, <2>3
<1>3. TypeInv'
  BY <1>1, <1>2 DEF IInv, TypeInv, feedbackVars, Inputs, Entries
<1>4. InPlace'
  BY <1>1, <1>2 DEF IInv, InPlace
<1>5. LastKept'
  BY <1>1 DEF IInv, LastKept, feedbackVars
<1> QED  BY <1>1, <1>3, <1>4, <1>5, KeptStays DEF IInv

\* The steps of the executor that leave the report.
LEMMA WaitInv ==
    ASSUME IInv, Written \/ WriteFails \/ Exits \/ TimesOut \/ ObserverFails \/ UNCHANGED vars
    PROVE  IInv'
<1>1. /\ UNCHANGED <<feedbackVars, lines, input, report, mapped, map, unset>>
      /\ \/ pc = "writing" /\ pc' \in {"running", "exited"}
         \/ pc = "running" /\ pc' = "ended"
         \/ pc = "ended" /\ pc' = "exited"
         \/ pc' = pc
      /\ phase' \in {phase, "done"}
  BY DEF Written, WriteFails, Exits, TimesOut, ObserverFails, vars, simulationVars
<1>2. TypeInv'
  BY <1>1 DEF IInv, TypeInv, feedbackVars, Inputs, Entries
<1>3. Readable' = Readable /\ Own(report)' = Own(report) /\ Known(report)' = Known(report)
  BY <1>1 DEF Readable, Own, Known, feedbackVars
<1>4. InPlace'
  BY <1>1, <1>3 DEF IInv, InPlace
<1>5. LastKept'
  BY <1>1 DEF IInv, LastKept, feedbackVars
<1> QED  BY <1>1, <1>2, <1>4, <1>5, KeptStays DEF IInv

\* The observer reads the report, whoever has left it.
LEMMA ObserveInv == ASSUME IInv, Observe PROVE IInv'
<1>1. /\ pc = "ended" /\ pc' = "observed" /\ mapped' = TRUE /\ unset' = ~mapped
      /\ UNCHANGED <<feedbackVars, lines, input, report, phase>> /\ Readable
  BY DEF Observe, simulationVars
<1>2. PICK memory \in IF mapped THEN {map} ELSE Maps :
          map' = [k \in 1..Size |-> IF k <= Len(report) THEN report[k] ELSE memory[k]]
  BY DEF Observe
<1>3. memory \in Maps
  BY <1>2 DEF IInv, TypeInv
<1>4. map' \in Maps
  BY <1>1, <1>2, <1>3, ReadableReport DEF IInv, Maps
<1>5. TypeInv'
  BY <1>1, <1>4 DEF IInv, TypeInv, feedbackVars, Inputs, Entries
<1>6. Readable' /\ (Own(report) => Own(report)') /\ (Known(report) => Known(report)')
  BY <1>1 DEF Readable, Own, Known, feedbackVars
<1>7. \A k \in 1..Size : k <= Len(report) => map'[k] = report[k]
  BY <1>2
<1>8. mapped => \A k \in 1..Size : k > Len(report) => map'[k] = 0
  <2>1. map = Zeros /\ Len(report) \in Nat
    BY <1>1, ReadableReport DEF IInv, InPlace
  <2>2. \A k \in 1..Size : k > Len(report) => ~(k <= Len(report))
    BY <2>1, SizeType
  <2> QED  BY <1>2, <2>1, <2>2, SizeType
<1>9. InPlace'
  BY <1>1, <1>6, <1>7, <1>8 DEF IInv, InPlace
<1>10. LastKept'
  BY <1>1 DEF IInv, TypeInv, LastKept, feedbackVars
<1> QED  BY <1>1, <1>5, <1>9, <1>10, KeptStays DEF IInv

\* A map that shows something new is of the testcase's own report.
LEMMA NewIsOwn ==
    ASSUME IInv, pc = "observed", Interesting(map), ~unset
    PROVE  \A k \in 1..Size : map[k] <= IF k <= lines THEN input[k] ELSE 0
<1>1. /\ report \in Seq(Fields) /\ Len(report) \in 0..Size
      /\ \A k \in 1..Len(report) : report[k] \in Nat
      /\ \A k \in 1..Size : k <= Len(report) => map[k] = report[k]
      /\ \A k \in 1..Size : k > Len(report) => map[k] = 0
      /\ Own(report) \/ Known(report)
  BY ReadableReport DEF IInv, InPlace
<1>2. Size \in Nat /\ \A k \in 1..Size : history[k] \in Nat /\ map[k] \in Nat
  BY SizeType, VerilatorAssumption DEF IInv, TypeInv, Maps, Counts
<1>3. lines \in Nat /\ \A k \in 1..lines : input[k] \in Nat
  BY InputIsReport DEF IInv, TypeInv
<1>4. ~Known(report)
  BY <1>1, <1>2 DEF Known, Interesting
<1>5. Len(report) <= lines /\ \A k \in 1..Len(report) : report[k] <= input[k]
  BY <1>1, <1>4 DEF Own
<1>6. ASSUME NEW k \in 1..Size PROVE map[k] <= IF k <= lines THEN input[k] ELSE 0
  <2>1. CASE k <= Len(report)
    <3>1. k \in 1..Len(report) /\ k <= lines
      BY <1>1, <1>2, <1>3, <1>5, <2>1
    <3> QED  BY <1>1, <1>5, <2>1, <3>1
  <2>2. CASE k > Len(report)
    <3>1. map[k] = 0
      BY <1>1, <2>2
    <3>2. k <= lines => k \in 1..lines
      BY <1>2, <1>3
    <3> QED  BY <1>3, <3>1, <3>2
  <2> QED  BY <1>1, <1>2, <2>1, <2>2
<1> QED  BY <1>6

\* The feedback takes the map for its history if it differs.
LEMMA EvaluateInv == ASSUME IInv, Evaluate PROVE IInv'
<1>1. /\ pc = "observed" /\ pc' = "idle" /\ mapped
      /\ UNCHANGED <<lines, input, report, phase, mapped, map, unset>>
  BY DEF Evaluate, simulationVars, IInv, InPlace
<1>2. /\ Readable' /\ Readable /\ Size \in Nat /\ Len(report) \in 0..Size
      /\ \A k \in 1..Len(report) : report[k] \in Nat /\ map[k] = report[k]
      /\ \A k \in 1..Size : map[k] \in Nat /\ history[k] \in Nat
  <2>1. Readable /\ \A k \in 1..Size : k <= Len(report) => map[k] = report[k]
    BY <1>1 DEF IInv, InPlace
  <2>2. Readable'
    BY <1>1, <2>1 DEF Readable
  <2>3. /\ Size \in Nat /\ Len(report) \in 0..Size
        /\ \A k \in 1..Len(report) : report[k] \in Nat
    BY <2>1, ReadableReport, SizeType DEF IInv
  <2>4. \A k \in 1..Size : map[k] \in Nat /\ history[k] \in Nat
    BY VerilatorAssumption DEF IInv, TypeInv, Maps, Counts
  <2> QED  BY <2>1, <2>2, <2>3, <2>4
<1>3. CASE ~Interesting(map)
  <2>1. UNCHANGED feedbackVars
    BY <1>3 DEF Evaluate
  <2>2. \A k \in 1..Size : map[k] <= history[k]
    BY <1>2, <1>3 DEF Interesting
  <2>3. Known(report)'
    BY <1>1, <1>2, <2>1, <2>2 DEF Known, feedbackVars
  <2>4. TypeInv'
    BY <1>1, <2>1 DEF IInv, TypeInv, feedbackVars, Inputs, Entries
  <2>5. InPlace'
    BY <1>1, <1>2, <2>3 DEF InPlace
  <2>6. LastKept'
    BY <1>1, <2>1 DEF IInv, LastKept, feedbackVars
  <2> QED  BY <1>1, <2>1, <2>4, <2>5, <2>6, KeptStays DEF IInv
<1>4. CASE Interesting(map)
  <2> DEFINE e == [input |-> input, seen |-> map, unset |-> unset]
             n == Len(kept)
  <2>1. history' = map /\ kept' = Append(kept, e) /\ e \in Entries /\ kept \in Seq(Entries)
    BY <1>4 DEF Evaluate, IInv, TypeInv, Entries
  <2>2. e.input = input /\ e.seen = map /\ e.unset = unset
    OBVIOUS
  <2> HIDE DEF e
  <2>3. /\ n \in Nat /\ Len(kept') = n + 1 /\ kept'[n + 1] = e /\ kept' # <<>>
        /\ \A k \in 1..n : kept'[k] = kept[k]
        /\ kept' \in Seq(Entries)
    BY <2>1
  <2>4. TypeInv'
    BY <1>1, <2>1, <2>3 DEF IInv, TypeInv, Inputs, Entries
  <2>5. Known(report)'
    BY <1>1, <1>2, <2>1 DEF Known
  <2>6. InPlace'
    BY <1>1, <1>2, <2>5 DEF InPlace
  <2>7. LastKept'
    BY <1>1, <2>1, <2>2, <2>3 DEF LastKept
  <2>8. KeptForItsOwnCounts'
    <3> SUFFICES ASSUME NEW m \in 1..(n + 1), ~kept'[m].unset, NEW k \in 1..Size
                 PROVE  kept'[m].seen[k] <= IF k <= lines THEN kept'[m].input[k] ELSE 0
      BY <1>1, <2>3 DEF KeptForItsOwnCounts
    <3>1. CASE m = n + 1
      BY <1>1, <1>4, <2>2, <2>3, <3>1, NewIsOwn
    <3>2. CASE m \in 1..n
      BY <2>3, <3>2 DEF IInv, KeptForItsOwnCounts
    <3> QED  BY <2>3, <3>1, <3>2
  <2>9. NotTheSameAgain'
    <3> SUFFICES ASSUME NEW m \in 1..n,
                        \A k \in 1..lines : k <= Size /\ kept'[m].seen[k] = kept'[m].input[k]
                 PROVE  kept'[m + 1].input # kept'[m].input
      BY <1>1, <2>3 DEF NotTheSameAgain
    <3>1. CASE m \in 1..(n - 1)
      <4>1. kept'[m] = kept[m] /\ kept'[m + 1] = kept[m + 1] /\ n - 1 \in Int
        BY <2>3, <3>1
      <4> QED  BY <3>1, <4>1 DEF IInv, NotTheSameAgain
    <3>2. CASE m = n
      <4>1. /\ history = kept[n].seen /\ kept'[n] = kept[n] /\ kept[n] \in Entries
            /\ kept # <<>> /\ ~unset
        BY <1>1, <2>3, <3>2 DEF IInv, TypeInv, LastKept
      <4>2. SUFFICES ASSUME input = kept[n].input PROVE FALSE
        BY <2>2, <2>3, <3>2, <4>1
      <4>3. \A k \in 1..Size : map[k] <= IF k <= lines THEN input[k] ELSE 0
        BY <1>1, <1>4, <4>1, NewIsOwn
      <4>4. \A k \in 1..Size : k <= lines => history[k] = input[k]
        BY <3>2, <4>1, <4>2, SizeType DEF IInv, TypeInv
      <4>5. \A k \in 1..Size : map[k] <= history[k]
        BY <1>2, <4>3, <4>4
      <4> QED  BY <1>2, <1>4, <4>5 DEF Interesting
    <3> QED  BY <2>3, <3>1, <3>2
  <2> QED  BY <2>4, <2>6, <2>7, <2>8, <2>9 DEF IInv
<1> QED  BY <1>3, <1>4

\* Every step keeps the invariant.
LEMMA NextInv == ASSUME IInv, [Next]_vars PROVE IInv'
BY SpawnInv, ReportInv, WaitInv, ObserveInv, EvaluateInv DEF Next

\* The invariant holds in every reachable state.
THEOREM Invariance == Spec => []IInv
<1> QED  BY InitInv, NextInv, PTL DEF Spec

\* A report that was left behind by an execution before shows nothing that the
\* history does not have, so that a testcase is kept for its own counts alone.
THEOREM AlwaysKeptForItsOwnCounts == Spec => []KeptForItsOwnCounts
<1>1. IInv => KeptForItsOwnCounts
  BY DEF IInv
<1> QED  BY <1>1, Invariance, PTL

\* A testcase is not kept twice in a row, if it was seen as a whole.
THEOREM NeverTheSameAgain == Spec => []NotTheSameAgain
<1>1. IInv => NotTheSameAgain
  BY DEF IInv
<1> QED  BY <1>1, Invariance, PTL
=============================================================================
