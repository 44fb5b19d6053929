--------------------- MODULE HWMinimizerScheduler_proofs ---------------------
(***************************************************************************)
(* Theorems about HWMinimizerScheduler, for every design, every corpus and   *)
(* every order the ids are shuffled into.  What the favored testcases cover   *)
(* is compared with two things: with what `history` knows, which may be less   *)
(* than they cover, since the copy stops at the count in word 1, and never     *)
(* more; and with the ids that the loop has passed over or favored.           *)
(***************************************************************************)
EXTENDS HWMinimizerScheduler, FiniteSetTheorems, TLAPS

\* What the favored testcases cover together.
FavoredMaps == UNION {corpus[f].history_map : f \in FavoredIds}

\* The loop of update_favored, between two rounds and when it is through.
LoopInv ==
    /\ phase # "updating" => left = {}
    /\ FavoredIds \subseteq evaluated \ left
    /\ known \subseteq FavoredMaps
    /\ \A id \in evaluated \ left :
          Points(corpus[id].history_map) \subseteq FavoredMaps

IInv == TypeOK /\ LoopInv /\ FavoredOnce

-----------------------------------------------------------------------------
\* The entries and the history keep their shape, and the score stays a count.
LEMMA ProcessTyped ==
    ASSUME FeedbackTypeOK, NEW i \in Maps, NEW map \in Maps, Process(i, map)
    PROVE  FeedbackTypeOK'
<1>1. Merged(map) \in Maps
  BY DEF FeedbackTypeOK, Merged, Maps
<1>2. reported' \in [Metrics -> Nat \cup {NotReported}]
  <2>1. \A m \in Metrics : Cardinality(history[m]) \in Nat
    BY FS_Subset, FS_CardinalityType, CoverageAssumption DEF FeedbackTypeOK, Maps
  <2> QED  BY <2>1 DEF FeedbackTypeOK, Process, Reported
<1>3. corpus' \in Seq(Testcases)
  <2>1. Merged(map)[Minimized] \in SUBSET Bits
    BY <1>1, CoverageAssumption DEF Maps
  <2>2. [input |-> i, seen |-> map, history_map |-> Merged(map)[Minimized]] \in Testcases
    BY <2>1 DEF Testcases
  <2>3. corpus \in Seq(Testcases)
    BY DEF FeedbackTypeOK
  <2>4. CASE NewIn(map) = {}
    BY <2>3, <2>4 DEF Process
  <2>5. CASE NewIn(map) # {}
    <3>1. corpus' = Append(corpus, [input |-> i, seen |-> map,
                                    history_map |-> Merged(map)[Minimized]])
      BY <2>5 DEF Process
    <3> QED  BY <2>2, <2>3, <3>1
  <2> QED  BY <2>4, <2>5
<1> QED  BY <1>1, <1>2, <1>3 DEF FeedbackTypeOK, Process

\* A testcase that is kept comes behind the others, which stay as they are.
LEMMA CorpusGrows ==
    ASSUME IInv, NEW i \in Inputs, Process(i, i)
    PROVE  /\ FeedbackTypeOK'
           /\ Len(corpus') \in Nat /\ Len(corpus') >= Len(corpus)
           /\ \A j \in 1..Len(corpus) : corpus'[j] = corpus[j]
<1>1. corpus \in Seq(Testcases) /\ FeedbackTypeOK
  BY DEF IInv, TypeOK, FeedbackTypeOK
<1>2. i \in Maps
  BY CoverageAssumption
<1>3. FeedbackTypeOK'
  BY <1>1, <1>2, ProcessTyped
<1>4. CASE NewIn(i) = {}
  BY <1>1, <1>3, <1>4 DEF Process
<1>5. CASE NewIn(i) # {}
  <2> DEFINE e == [input |-> i, seen |-> i, history_map |-> Merged(i)[Minimized]]
  <2>1. corpus' = Append(corpus, e)
    BY <1>5 DEF Process
  <2> HIDE DEF e
  <2> QED  BY <1>1, <1>3, <2>1
<1> QED  BY <1>4, <1>5

\* The ids that are favored are those of entries of the corpus.
LEMMA FavoredInCorpus ==
    ASSUME IInv
    PROVE  /\ Len(favored) \in Nat /\ Len(corpus) \in Nat
           /\ FavoredIds \subseteq 1..Len(corpus)
           /\ \A k \in 1..Len(favored) : favored[k] \in FavoredIds
           /\ IsFiniteSet(FavoredIds)
           /\ Len(favored) <= Len(corpus)
<1>1. favored \in Seq(1..Len(corpus)) /\ corpus \in Seq(Testcases)
  BY DEF IInv, TypeOK, FeedbackTypeOK
<1>2. Len(favored) \in Nat /\ Len(corpus) \in Nat
  BY <1>1
<1>3. FavoredIds \subseteq 1..Len(corpus)
  BY <1>1 DEF FavoredIds
<1>4. \A k \in 1..Len(favored) : favored[k] \in FavoredIds
  BY DEF FavoredIds
<1>5. IsFiniteSet(1..Len(corpus)) /\ Cardinality(1..Len(corpus)) = Len(corpus)
  <2>1. \A n \in Nat : IsFiniteSet(1..n) /\ Cardinality(1..n) = n
    BY FS_Interval
  <2> QED  BY <1>2, <2>1
<1>6. IsFiniteSet(FavoredIds) /\ Cardinality(FavoredIds) <= Len(corpus)
  BY <1>3, <1>5, FS_Subset
<1> QED  BY <1>2, <1>3, <1>4, <1>6 DEF IInv, FavoredOnce

\* What the loop has established stays when the corpus grows.
LEMMA LoopInvStays ==
    ASSUME IInv, UNCHANGED <<favored, phase, left, known, evaluated>>,
           \A j \in 1..Len(corpus) : corpus'[j] = corpus[j]
    PROVE  LoopInv' /\ FavoredOnce'
<1>1. FavoredIds' = FavoredIds
  BY DEF FavoredIds
<1>2. FavoredIds \subseteq 1..Len(corpus) /\ evaluated \subseteq 1..Len(corpus)
  BY FavoredInCorpus DEF IInv, TypeOK
<1>3. FavoredMaps' = FavoredMaps
  BY <1>1, <1>2 DEF FavoredMaps
<1> QED  BY <1>1, <1>2, <1>3 DEF IInv, LoopInv, FavoredOnce, Points

\* A new update has nothing to show and everything before it.
LEMMA UpdateStarts ==
    ASSUME StartUpdate, Len(corpus') \in Nat
    PROVE  /\ LoopInv' /\ FavoredOnce'
           /\ favored' \in Seq(1..Len(corpus')) /\ phase' = "updating"
           /\ left' \subseteq evaluated' /\ known' \subseteq Bits
           /\ evaluated' \subseteq 1..Len(corpus')
<1>1. FavoredIds' = {}
  BY DEF StartUpdate, FavoredIds
<1>2. evaluated' \ left' = {}
  BY DEF StartUpdate
<1>3. LoopInv'
  BY <1>1, <1>2 DEF StartUpdate, LoopInv
<1>4. FavoredOnce'
  BY <1>1, FS_EmptySet DEF StartUpdate, FavoredOnce
<1> QED  BY <1>3, <1>4 DEF StartUpdate

-----------------------------------------------------------------------------
\* The state in which a client starts.
LEMMA InitInv == Init => IInv
<1> SUFFICES ASSUME Init PROVE IInv
  OBVIOUS
<1>1. FeedbackTypeOK
  BY DEF Init, FeedbackInit, FeedbackTypeOK, Maps
<1>2. TypeOK
  BY <1>1, SchedulerAssumption DEF Init, FeedbackInit, TypeOK
<1>3. FavoredIds = {}
  BY DEF Init, FavoredIds
<1>4. LoopInv
  BY <1>3 DEF Init, LoopInv
<1>5. FavoredOnce
  BY <1>3, FS_EmptySet DEF Init, FavoredOnce
<1> QED  BY <1>2, <1>4, <1>5 DEF IInv

\* A testcase is evaluated, and the favored ones are looked for anew or not.
LEMMA AddInv ==
    ASSUME IInv, NEW i \in Inputs, Add(i)
    PROVE  IInv'
<1>1. /\ FeedbackTypeOK'
      /\ Len(corpus') \in Nat /\ Len(corpus') >= Len(corpus)
      /\ \A j \in 1..Len(corpus) : corpus'[j] = corpus[j]
  BY CorpusGrows DEF Add
<1>2. Len(corpus) \in Nat
  BY FavoredInCorpus
<1>3. next' \in 0..Len(corpus')
  BY <1>1, <1>2 DEF Add, IInv, TypeOK
<1>4. counter' \in 0..Period
  BY SchedulerAssumption DEF Add, IInv, TypeOK
<1>5. CASE StartUpdate
  BY <1>1, <1>3, <1>4, <1>5, UpdateStarts DEF IInv, TypeOK
<1>6. CASE UNCHANGED <<favored, phase, left, known, evaluated>>
  <2>1. LoopInv' /\ FavoredOnce'
    BY <1>1, <1>6, LoopInvStays
  <2>2. 1..Len(corpus) \subseteq 1..Len(corpus')
    BY <1>1, <1>2
  <2>3. favored' \in Seq(1..Len(corpus'))
    BY <1>6, <2>2 DEF IInv, TypeOK
  <2> QED  BY <1>1, <1>3, <1>4, <1>6, <2>1, <2>2, <2>3 DEF IInv, TypeOK
<1> QED  BY <1>5, <1>6 DEF Add

\* One round: the testcase is passed over, or favored for the first time.
LEMMA RoundInv ==
    ASSUME IInv, NEW id \in left, EvaluateTestcase(id)
    PROVE  IInv'
<1> DEFINE map == corpus[id].history_map
<1>1. /\ id \in evaluated /\ id \in 1..Len(corpus) /\ id \notin FavoredIds
      /\ left' = left \ {id} /\ evaluated' = evaluated /\ corpus' = corpus
      /\ phase' # "updating" => left' = {}
      /\ phase' \in {"idle", "updating", "panicked"}
  BY DEF EvaluateTestcase, IInv, TypeOK, LoopInv, feedbackVars
<1>2. FeedbackTypeOK' /\ UNCHANGED <<counter, next>>
  BY DEF EvaluateTestcase, feedbackVars, FeedbackTypeOK, IInv, TypeOK
<1>3. map \subseteq Bits
  <2>1. corpus[id] \in Testcases
    BY <1>1 DEF IInv, TypeOK, FeedbackTypeOK
  <2> QED  BY <2>1 DEF Testcases
<1>4. CASE Points(map) \subseteq known
  <2>1. favored' = favored /\ known' = known
    BY <1>4 DEF EvaluateTestcase
  <2>2. FavoredIds' = FavoredIds /\ FavoredMaps' = FavoredMaps
    BY <1>1, <2>1 DEF FavoredIds, FavoredMaps
  <2>3. LoopInv'
    BY <1>1, <1>4, <2>1, <2>2 DEF IInv, LoopInv, Points
  <2>4. FavoredOnce'
    BY <2>1, <2>2 DEF IInv, FavoredOnce
  <2> QED  BY <1>1, <1>2, <2>1, <2>3, <2>4 DEF IInv, TypeOK
<1>5. CASE ~(Points(map) \subseteq known)
  <2>1. favored' = Append(favored, id) /\ known' = known \cup Copied(map)
    BY <1>5 DEF EvaluateTestcase
  <2>2. favored \in Seq(1..Len(corpus))
    BY DEF IInv, TypeOK
  <2>3. /\ favored' \in Seq(1..Len(corpus)) /\ Len(favored') = Len(favored) + 1
        /\ favored'[Len(favored) + 1] = id
        /\ \A k \in 1..Len(favored) : favored'[k] = favored[k]
    BY <1>1, <2>1, <2>2
  <2>4. FavoredIds' = FavoredIds \cup {id}
    <3>1. 1..Len(favored') = (1..Len(favored)) \cup {Len(favored) + 1}
      BY <2>2, <2>3
    <3> QED  BY <2>3, <3>1 DEF FavoredIds
  <2>5. FavoredMaps' = FavoredMaps \cup map
    BY <1>1, <2>4 DEF FavoredMaps
  <2>6. Copied(map) \subseteq Points(map) /\ Points(map) \subseteq map
    BY DEF Copied, Points
  <2>7. LoopInv'
    BY <1>1, <2>1, <2>4, <2>5, <2>6 DEF IInv, LoopInv, Points
  <2>8. FavoredOnce'
    <3>1. Cardinality(FavoredIds \cup {id}) = Cardinality(FavoredIds) + 1
      BY <1>1, FavoredInCorpus, FS_AddElement
    <3> QED  BY <2>3, <2>4, <3>1 DEF IInv, FavoredOnce
  <2> QED  BY <1>1, <1>2, <1>3, <2>1, <2>3, <2>6, <2>7, <2>8 DEF IInv, TypeOK
<1> QED  BY <1>4, <1>5

\* next() only moves along the list.
LEMMA NextFavoredInv ==
    ASSUME IInv, NextFavored \/ NextPanics
    PROVE  IInv'
<1>1. UNCHANGED <<feedbackVars, counter, favored, left, known, evaluated>>
  BY DEF NextFavored, NextPanics
<1>2. corpus' = corpus /\ FeedbackTypeOK'
  BY <1>1 DEF feedbackVars, FeedbackTypeOK, IInv, TypeOK
<1>3. phase = "idle" /\ phase' \in {"idle", "panicked"}
  BY DEF NextFavored, NextPanics
<1>4. next' \in 0..Len(corpus')
  <2>1. CASE NextPanics
    BY <1>2, <2>1 DEF NextPanics, IInv, TypeOK
  <2>2. CASE NextFavored
    <3>1. next \in Nat /\ Len(favored) \in Nat /\ next < Len(favored)
      BY <2>2, FavoredInCorpus DEF NextFavored, IInv, TypeOK
    <3>2. (next + 1) % Len(favored) \in 0..(Len(favored) - 1)
      BY <3>1
    <3> QED  BY <1>2, <2>2, <3>1, <3>2, FavoredInCorpus DEF NextFavored
  <2> QED  BY <2>1, <2>2
<1>5. FavoredIds' = FavoredIds
  BY <1>1 DEF FavoredIds
<1>6. FavoredMaps' = FavoredMaps
  BY <1>2, <1>5 DEF FavoredMaps
<1>7. LoopInv'
  BY <1>1, <1>2, <1>3, <1>5, <1>6 DEF IInv, LoopInv, Points
<1>8. FavoredOnce'
  BY <1>1, <1>5 DEF IInv, FavoredOnce
<1> QED  BY <1>1, <1>2, <1>3, <1>4, <1>7, <1>8 DEF IInv, TypeOK

\* Every step keeps the invariant.
LEMMA NextInv ==
    ASSUME IInv, [Next]_vars
    PROVE  IInv'
<1>1. ASSUME NEW i \in Inputs, Add(i) PROVE IInv'
  BY <1>1, AddInv
<1>2. CASE OnReplace
  <2>1. FeedbackTypeOK' /\ corpus' = corpus /\ UNCHANGED <<counter, next>>
    BY <1>2 DEF OnReplace, feedbackVars, FeedbackTypeOK, IInv, TypeOK
  <2> QED  BY <1>2, <2>1, FavoredInCorpus, UpdateStarts DEF OnReplace, IInv, TypeOK
<1>3. ASSUME NEW id \in left, EvaluateTestcase(id) PROVE IInv'
  BY <1>3, RoundInv
<1>4. CASE NextFavored \/ NextPanics
  BY <1>4, NextFavoredInv
<1>5. CASE UNCHANGED vars
  BY <1>5, LoopInvStays
     DEF vars, feedbackVars, schedulerVars, FeedbackTypeOK, IInv, TypeOK
<1> QED  BY <1>1, <1>2, <1>3, <1>4, <1>5 DEF Next, NextOfBase

\* The invariant holds in every reachable state.
THEOREM Invariance == Spec => []IInv
<1> QED  BY InitInv, NextInv, PTL DEF Spec

\* The counter, the favored list and the loop's sets keep their shape.
THEOREM TypeCorrect == Spec => []TypeOK
<1>1. IInv => TypeOK
  BY DEF IInv
<1> QED  BY <1>1, Invariance, PTL

\* The favored testcases have all the coverage of the corpus that
\* update_favored looked at, in whatever order and whatever the count is.
THEOREM FavoredAlwaysCover == Spec => []FavoredCoverTheMaps
<1>1. IInv => FavoredCoverTheMaps
  BY DEF IInv, LoopInv, FavoredMaps, FavoredCoverTheMaps
<1> QED  BY <1>1, Invariance, PTL

\* No testcase is favored twice.
THEOREM FavoredAtMostOnce == Spec => []FavoredOnce
<1>1. IInv => FavoredOnce
  BY DEF IInv
<1> QED  BY <1>1, Invariance, PTL
=============================================================================
