-------------------------- MODULE VerdiShMap_proofs --------------------------
(***************************************************************************)
(* Theorems about VerdiShMap and the execution of the chipyard fuzzer that it   *)
(* is a part of, for every layout of the database and wherever its   *)
(* readers are killed.  The merge stops at the count in word 1; that it    *)
(* does not miss a bit is because the reader counts as it writes, so that a    *)
(* count that is there is above all bits (MapInv), also when the map has no     *)
(* room for the last of them.                                                *)
(***************************************************************************)
EXTENDS ChipyardExecution, FiniteSetTheorems, WellFoundedInduction, TLAPS

Wholes(n) == {i \in 1..n : corpus[i].whole}

\* The bits that are there against the count, and against the reader's place.
MapInv ==
    /\ pc # "idle" => db \in Databases
    /\ pc = "executed" => map = Zeroed
    /\ reader.pc \in {"writing", "blocked"} =>
          map.coverable = 0 /\ \A b \in map.bits : b < reader.written
    /\ map.coverable # 0 => \A b \in map.bits : b < map.coverable

IInv == TypeOK /\ MapInv /\ HistoryIsTheReads /\ OnlyNewBitsAreKept

\* Steps of the observer leave what the feedback has.
LEMMA FeedbackUntouched ==
    ASSUME IInv, UNCHANGED feedbackVars
    PROVE  /\ history' \in SUBSET Nat /\ ratio' \in Nat \X Nat
           /\ corpus' \in Seq(Testcases) /\ room' \in Rooms
           /\ HistoryIsTheReads' /\ OnlyNewBitsAreKept'
BY DEF IInv, TypeOK, feedbackVars, HistoryIsTheReads, OnlyNewBitsAreKept

\* The state in which a client starts.
LEMMA InitInv == Init => IInv
<1> SUFFICES ASSUME Init PROVE IInv
  OBVIOUS
<1>1. TypeOK
  BY DEF Init, TypeOK, Gone, Started, ReaderStates, Zeroed, NotFired
<1>2. MapInv
  BY DEF Init, MapInv, Gone, Started, Zeroed
<1>3. HistoryIsTheReads /\ OnlyNewBitsAreKept
  BY DEF Init, HistoryIsTheReads, OnlyNewBitsAreKept
<1> QED  BY <1>1, <1>2, <1>3 DEF IInv

\* The child writes one bit after the other.
LEMMA WriteInv == ASSUME IInv, ReaderWritesBit PROVE IInv'
<1>1. /\ reader \in ReaderStates /\ reader.pc = "writing"
      /\ map \in [bits : SUBSET Nat, coverable : Nat]
      /\ map.coverable = 0 /\ \A b \in map.bits : b < reader.written
  BY DEF ReaderWritesBit, IInv, TypeOK, MapInv
<1>2. /\ reader' \in ReaderStates /\ reader'.pc = "writing"
      /\ reader'.written = reader.written + 1
  <2> DEFINE block == IF reader.point = Coverable[reader.block]
                      THEN reader.block + 1 ELSE reader.block
             point == IF reader.point = Coverable[reader.block]
                      THEN 1 ELSE reader.point + 1
  <2>1. reader' = [pc |-> "writing", block |-> block, point |-> point,
                   written |-> reader.written + 1]
    BY <1>1 DEF ReaderWritesBit, ReaderStates
  <2>2. block \in Nat \ {0} /\ point \in Nat \ {0} /\ reader.written + 1 \in Nat
    BY <1>1 DEF ReaderStates
  <2> HIDE DEF block, point
  <2> QED  BY <2>1, <2>2 DEF ReaderStates
<1>3. /\ map' \in [bits : SUBSET Nat, coverable : Nat] /\ map'.coverable = 0
      /\ map'.bits \subseteq map.bits \cup {reader.written}
  BY <1>1 DEF ReaderWritesBit, ReaderStates
<1>4. \A b \in map'.bits : b < reader'.written
  BY <1>1, <1>2, <1>3 DEF ReaderStates
<1>5. UNCHANGED <<pc, db, feedbackVars>>
  BY DEF ReaderWritesBit
<1>6. pc = "waiting" /\ reader' # Gone
  BY <1>1, <1>2 DEF IInv, TypeOK, Gone, Started
<1>7. TypeOK'
  BY <1>2, <1>3, <1>5, <1>6, FeedbackUntouched DEF IInv, TypeOK
<1>8. MapInv'
  BY <1>2, <1>3, <1>4, <1>5, <1>6 DEF IInv, MapInv
<1> QED  BY <1>5, <1>7, <1>8, FeedbackUntouched DEF IInv

\* The child ends, with the count or without, or waits for good.
LEMMA ReaderInv ==
    ASSUME IInv, ReaderEnds \/ ReaderGivesUp \/ ReaderBlocks
    PROVE  IInv'
<1>1. /\ reader \in ReaderStates /\ reader.pc = "writing" /\ reader.written \in Nat
      /\ map \in [bits : SUBSET Nat, coverable : Nat]
      /\ map.coverable = 0 /\ \A b \in map.bits : b < reader.written
  BY DEF ReaderEnds, ReaderGivesUp, ReaderBlocks, Started, IInv, TypeOK, MapInv,
         ReaderStates
<1>2. /\ reader' \in ReaderStates /\ reader'.written = reader.written
      /\ reader'.pc \in {"exited", "blocked"}
  BY <1>1 DEF ReaderEnds, ReaderGivesUp, ReaderBlocks, ReaderStates
<1>3. /\ map' \in [bits : SUBSET Nat, coverable : Nat] /\ map'.bits = map.bits
      /\ map'.coverable \in {0, reader.written}
      /\ reader'.pc = "blocked" => map'.coverable = 0
  BY <1>1 DEF ReaderEnds, ReaderGivesUp, ReaderBlocks, ReaderStates
<1>4. UNCHANGED <<pc, db, feedbackVars>>
  BY DEF ReaderEnds, ReaderGivesUp, ReaderBlocks
<1>5. pc = "waiting" /\ reader' # Gone
  BY <1>1, <1>2 DEF IInv, TypeOK, Gone, Started
<1>6. TypeOK'
  BY <1>2, <1>3, <1>4, <1>5, FeedbackUntouched DEF IInv, TypeOK
<1>7. MapInv'
  BY <1>1, <1>2, <1>3, <1>4, <1>5 DEF IInv, MapInv
<1> QED  BY <1>4, <1>6, <1>7, FeedbackUntouched DEF IInv

\* The parent's own steps up to the evaluation.
LEMMA ParentInv ==
    ASSUME IInv, \/ \E d \in Databases : Execute(d)
                 \/ Fork \/ ForkFails \/ SeesExit \/ TimesOut
    PROVE  IInv'
<1>1. UNCHANGED feedbackVars
  BY DEF Execute, Fork, ForkFails, SeesExit, TimesOut
<1>2. TypeOK'
  <2>1. TypeOK
    BY DEF IInv
  <2>7. Gone \in ReaderStates /\ Started \in ReaderStates /\ Started # Gone
    BY DEF Gone, Started, ReaderStates
  <2>2. CASE \E d \in Databases : Execute(d)
    BY <1>1, <2>1, <2>2, FeedbackUntouched DEF Execute, Zeroed, TypeOK
  <2>3. CASE Fork
    BY <1>1, <2>1, <2>3, <2>7, FeedbackUntouched DEF Fork, TypeOK
  <2>4. CASE ForkFails
    BY <1>1, <2>1, <2>4, FeedbackUntouched DEF ForkFails, TypeOK
  <2>5. CASE SeesExit
    BY <1>1, <2>1, <2>5, <2>7, FeedbackUntouched DEF SeesExit, TypeOK
  <2>6. CASE TimesOut
    BY <1>1, <2>1, <2>6, <2>7, FeedbackUntouched DEF TimesOut, TypeOK
  <2> QED  BY <2>2, <2>3, <2>4, <2>5, <2>6
<1>3. MapInv'
  BY DEF Execute, Fork, ForkFails, SeesExit, TimesOut, Gone, Started, Zeroed,
         IInv, TypeOK, MapInv
<1> QED  BY <1>1, <1>2, <1>3, FeedbackUntouched DEF IInv

-----------------------------------------------------------------------------
\* All bits of a map with its count are merged, and of the others perhaps one.
LEMMA MergedWhole ==
    ASSUME IInv
    PROVE  /\ map.coverable # 0 => MergedBits = map.bits
           /\ MergedBits \subseteq map.bits
BY DEF IInv, MapInv, MergedBits, Traversed

\* What is fired is a number of bits.
LEMMA RatioCounts == ASSUME IInv, Merge PROVE ratio' \in Nat \X Nat
<1> DEFINE counted == {b \in history \cup map.bits : Traversed(b)}
<1>1. map.coverable \in Nat /\ history \cup map.bits \in SUBSET Nat
  BY DEF IInv, TypeOK
<1>2. counted \in SUBSET (0..map.coverable)
  BY <1>1 DEF Traversed
<1>3. IsFiniteSet(0..map.coverable)
  <2>1. \A n \in Nat : IsFiniteSet(0..n)
    BY FS_Interval
  <2> QED  BY <1>1, <2>1
<1>4. Cardinality(counted) \in Nat
  BY <1>2, <1>3, FS_Subset, FS_CardinalityType
<1>5. room \in Nat
  BY ShMapAssumption DEF IInv, TypeOK
<1> QED  BY <1>1, <1>4, <1>5 DEF Merge, Counted, Walked, Lesser

\* The testcase comes behind the others with what the history had not.
LEMMA MergeInv ==
    ASSUME IInv, Interesting, Merge
    PROVE  /\ history' \in SUBSET Nat
           /\ HistoryIsTheReads' /\ OnlyNewBitsAreKept'
<1> DEFINE e == [db |-> db, bits |-> map.bits, whole |-> map.coverable # 0]
           n == Len(corpus)
<1>1. corpus \in Seq(Testcases) /\ n \in Nat /\ map.bits \in SUBSET Nat
  BY DEF IInv, TypeOK
<1>2. corpus' = Append(corpus, e) /\ history' = history \cup MergedBits
  BY DEF Merge
<1>3. e.bits = map.bits /\ e.whole = (map.coverable # 0)
  OBVIOUS
<1> HIDE DEF e
<1>4. /\ Len(corpus') = n + 1 /\ corpus'[n + 1] = e
      /\ \A k \in 1..n : corpus'[k] = corpus[k]
  BY <1>1, <1>2
<1>5. /\ 1..Len(corpus') = (1..n) \cup {n + 1}
      /\ \A k \in 1..n : 1..(k - 1) \subseteq 1..n
      /\ 1..((n + 1) - 1) = 1..n
  BY <1>1, <1>4
<1>6. MergedBits \subseteq map.bits /\ (e.whole => MergedBits = map.bits)
  BY <1>3, MergedWhole
<1>7. HistoryIsTheReads'
  <2>1. UNION {corpus[k].bits : k \in {j \in 1..n : corpus[j].whole}} \subseteq history
    BY DEF IInv, HistoryIsTheReads
  <2>2. history \subseteq UNION {corpus[k].bits : k \in 1..n}
    BY DEF IInv, HistoryIsTheReads
  <2>3. UNION {corpus'[k].bits : k \in {j \in 1..Len(corpus') : corpus'[j].whole}}
           \subseteq history'
    <3> SUFFICES ASSUME NEW k \in 1..Len(corpus'), corpus'[k].whole
                 PROVE  corpus'[k].bits \subseteq history'
      OBVIOUS
    <3>1. CASE k = n + 1
      BY <1>2, <1>3, <1>4, <1>6, <3>1
    <3>2. CASE k \in 1..n
      BY <1>2, <1>4, <2>1, <3>2
    <3> QED  BY <1>5, <3>1, <3>2
  <2>4. UNION {corpus'[k].bits : k \in 1..Len(corpus')}
          = (UNION {corpus[k].bits : k \in 1..n}) \cup map.bits
    BY <1>3, <1>4, <1>5
  <2>5. history' \subseteq UNION {corpus'[k].bits : k \in 1..Len(corpus')}
    BY <1>2, <1>6, <2>2, <2>4
  <2> QED  BY <2>3, <2>5 DEF HistoryIsTheReads
<1>8. OnlyNewBitsAreKept'
  <2> SUFFICES ASSUME NEW k \in 1..Len(corpus')
               PROVE  ~(corpus'[k].bits \subseteq UNION {corpus'[j].bits :
                          j \in {i \in 1..(k - 1) : corpus'[i].whole}})
    BY DEF OnlyNewBitsAreKept
  <2>1. CASE k \in 1..n
    <3>1. {i \in 1..(k - 1) : corpus'[i].whole} = {i \in 1..(k - 1) : corpus[i].whole}
      BY <1>4, <1>5, <2>1
    <3>2. {corpus'[j].bits : j \in {i \in 1..(k - 1) : corpus'[i].whole}}
            = {corpus[j].bits : j \in {i \in 1..(k - 1) : corpus[i].whole}}
      BY <1>4, <1>5, <2>1, <3>1
    <3>3. corpus'[k].bits = corpus[k].bits
      BY <1>4, <2>1
    <3> QED  BY <2>1, <3>2, <3>3 DEF IInv, OnlyNewBitsAreKept
  <2>2. CASE k = n + 1
    <3>1. {i \in 1..(k - 1) : corpus'[i].whole} = {i \in 1..n : corpus[i].whole}
      BY <1>4, <1>5, <2>2
    <3>2. {corpus'[j].bits : j \in {i \in 1..(k - 1) : corpus'[i].whole}}
            = {corpus[j].bits : j \in {i \in 1..n : corpus[i].whole}}
      BY <1>4, <3>1
    <3>3. UNION {corpus[j].bits : j \in {i \in 1..n : corpus[i].whole}} \subseteq history
      BY DEF IInv, HistoryIsTheReads
    <3> QED  BY <1>3, <1>4, <2>2, <3>2, <3>3 DEF Interesting
  <2> QED  BY <1>5, <2>1, <2>2
<1> QED  BY <1>1, <1>2, <1>6, <1>7, <1>8 DEF IInv, TypeOK

\* Every step keeps the invariant.
LEMMA NextInv == ASSUME IInv, [Next]_vars PROVE IInv'
<1>1. CASE Evaluate
  <2>1. /\ db \in Databases /\ pc' = "idle"
        /\ UNCHANGED <<db, reader, map>> /\ pc # "waiting"
    BY <1>1 DEF Evaluate, IInv, MapInv
  <2>2. /\ history' \in SUBSET Nat /\ ratio' \in Nat \X Nat
        /\ corpus' \in Seq(Testcases) /\ room' \in Rooms
        /\ HistoryIsTheReads' /\ OnlyNewBitsAreKept'
    <3>1. CASE Interesting
      <4>1. Merge
        BY <1>1, <3>1 DEF Evaluate
      <4>2. corpus' \in Seq(Testcases)
        <5>1. [db |-> db, bits |-> map.bits, whole |-> map.coverable # 0] \in Testcases
          BY <2>1 DEF IInv, TypeOK, Testcases
        <5> QED  BY <4>1, <5>1 DEF Merge, IInv, TypeOK
      <4> QED  BY <3>1, <4>1, <4>2, MergeInv, RatioCounts DEF Merge, IInv, TypeOK
    <3>2. CASE ~Interesting
      <4>1. UNCHANGED feedbackVars
        BY <1>1, <3>2 DEF Evaluate
      <4> QED  BY <4>1, FeedbackUntouched
    <3> QED  BY <3>1, <3>2
  <2>3. TypeOK'
    BY <2>1, <2>2 DEF IInv, TypeOK
  <2>4. MapInv'
    BY <2>1 DEF IInv, MapInv
  <2> QED  BY <2>2, <2>3, <2>4 DEF IInv
<1>2. CASE UNCHANGED vars
  <2>1. UNCHANGED feedbackVars
    BY <1>2 DEF vars
  <2> QED  BY <1>2, <2>1, FeedbackUntouched DEF vars, IInv, TypeOK, MapInv
<1> QED  BY <1>1, <1>2, ParentInv, WriteInv, ReaderInv DEF Next, Parent, Reader

\* The invariant holds in every reachable state.
THEOREM Invariance == Spec => []IInv
<1> QED  BY InitInv, NextInv, PTL DEF Spec

\* No reader is left over, and the map, the history and the corpus keep their shape.
THEOREM TypeCorrect == Spec => []TypeOK
<1>1. IInv => TypeOK
  BY DEF IInv
<1> QED  BY <1>1, Invariance, PTL

\* The merge up to the count in word 1 misses no bit of a whole map.
THEOREM HistoryAlwaysTheReads == Spec => []HistoryIsTheReads
<1>1. IInv => HistoryIsTheReads
  BY DEF IInv
<1> QED  BY <1>1, Invariance, PTL

\* A testcase that is kept has a bit that no whole map before it had.
THEOREM OnlyNewBitsKept == Spec => []OnlyNewBitsAreKept
<1>1. IInv => OnlyNewBitsAreKept
  BY DEF IInv
<1> QED  BY <1>1, Invariance, PTL

-----------------------------------------------------------------------------
(* What the recursive definitions compute.  The induction is over a set of numbers,  *)
(* whose complement would have a least one.                                   *)

Less == {p \in Nat \X Nat : p[1] < p[2]}

\* The natural numbers have no infinite descent.
LEMMA LessIsWellFounded == IsWellFoundedOn(Less, Nat)
BY NatLessThanWellFounded, Zenon DEF Less, OpToRel

\* A set that has 0, and with a number the next, has all of them.
LEMMA SetInduction ==
    ASSUME NEW S, 0 \in S, \A n \in Nat : n \in S => n + 1 \in S
    PROVE  Nat \subseteq S
<1> DEFINE T == Nat \ S
<1>1. SUFFICES ASSUME T # {} PROVE FALSE
  OBVIOUS
<1>2. T \subseteq Nat
  OBVIOUS
<1> HIDE DEF T
<1>3. PICK x \in T : \A y \in T : <<y, x>> \notin Less
  BY LessIsWellFounded, <1>1, <1>2, WFMin
<1>4. x # 0 /\ x \in Nat /\ x \notin S
  BY DEF T
<1>5. x - 1 \in Nat /\ <<x - 1, x>> \in Less
  BY <1>4 DEF Less
<1>6. x - 1 \in S
  BY <1>3, <1>5 DEF T
<1> QED  BY <1>4, <1>5, <1>6

\* The equation of FirstBit, for the first blocks.
NextFirstBit(f, b) == IF b = 1 THEN 0 ELSE f[b - 1] + Coverable[b - 1]
AreFirstBits(f, n) == f = [b \in 1..n |-> NextFirstBit(f, b)]

\* The equation has a solution for any number of blocks, by induction on it.
LEMMA FirstBitsExist == \A n \in Nat : \E f : AreFirstBits(f, n)
<1> DEFINE T == {n \in Nat : \E f : AreFirstBits(f, n)}
<1>1. 0 \in T
  <2>1. AreFirstBits([b \in 1..0 |-> 0], 0)
    BY DEF AreFirstBits, NextFirstBit
  <2> QED  BY <2>1
<1>2. ASSUME NEW n \in Nat, n \in T PROVE n + 1 \in T
  <2>1. PICK f : AreFirstBits(f, n)
    BY <1>2
  <2> DEFINE g == [b \in 1..(n + 1) |-> IF b = n + 1 THEN NextFirstBit(f, b) ELSE f[b]]
  <2>2. ASSUME NEW b \in 1..(n + 1) PROVE g[b] = NextFirstBit(g, b)
    <3>1. NextFirstBit(g, b) = NextFirstBit(f, b)
      <4>1. b # 1 => g[b - 1] = f[b - 1]
        OBVIOUS
      <4> HIDE DEF g
      <4> QED  BY <4>1 DEF NextFirstBit
    <3>2. b # n + 1 => f[b] = NextFirstBit(f, b)
      BY <2>1 DEF AreFirstBits
    <3>3. g[b] = IF b = n + 1 THEN NextFirstBit(f, b) ELSE f[b]
      OBVIOUS
    <3> HIDE DEF g
    <3> QED  BY <3>1, <3>2, <3>3
  <2>3. g = [b \in 1..(n + 1) |-> NextFirstBit(g, b)]
    BY <2>2, Zenon
  <2>4. AreFirstBits(g, n + 1)
    BY <2>3 DEF AreFirstBits
  <2> QED  BY <2>4
<1> HIDE DEF T
<1>3. Nat \subseteq T
  BY <1>1, <1>2, SetInduction
<1> QED  BY <1>3 DEF T

\* So FirstBit, which chooses a solution, solves it.
LEMMA FirstBitDef == \A b \in Blocks : FirstBit[b] = NextFirstBit(FirstBit, b)
<1>1. FirstBit = CHOOSE f : AreFirstBits(f, Len(Coverable))
  BY Zenon DEF FirstBit, AreFirstBits, NextFirstBit, Blocks
<1>2. Len(Coverable) \in Nat
  BY ShMapAssumption
<1>3. \E f : AreFirstBits(f, Len(Coverable))
  BY <1>2, FirstBitsExist
<1>4. AreFirstBits(FirstBit, Len(Coverable))
  BY <1>1, <1>3, Zenon
<1> QED  BY <1>4 DEF AreFirstBits, Blocks

\* The databases have a number of blocks, none of which is empty.
LEMMA CoverableType == Len(Coverable) \in Nat /\ \A b \in Blocks : Coverable[b] \in Nat \ {0}
BY ShMapAssumption DEF Blocks

\* The bits of a block come behind those of all blocks before it.
LEMMA FirstBitAscends ==
    \A b \in Blocks :
        /\ FirstBit[b] \in Nat
        /\ \A c \in 1..(b - 1) : FirstBit[c] + Coverable[c] <= FirstBit[b]
<1> DEFINE P(b) == /\ FirstBit[b] \in Nat
                   /\ \A c \in 1..(b - 1) : FirstBit[c] + Coverable[c] <= FirstBit[b]
           T == {n \in Nat : \A b \in Blocks : b <= n => P(b)}
<1>1. 0 \in T
  BY DEF Blocks
<1>2. ASSUME NEW n \in Nat, n \in T PROVE n + 1 \in T
  <2> SUFFICES ASSUME n + 1 \in Blocks PROVE P(n + 1)
    BY <1>2 DEF Blocks
  <2>1. FirstBit[n + 1] = IF n = 0 THEN 0 ELSE FirstBit[n] + Coverable[n]
    BY FirstBitDef DEF NextFirstBit
  <2>2. CASE n = 0
    BY <2>1, <2>2
  <2>3. CASE n # 0
    <3>1. n \in Blocks /\ n <= n
      BY <2>3, CoverableType DEF Blocks
    <3>2. P(n)
      BY <1>2, <3>1
    <3>3. \A c \in 1..((n + 1) - 1) : c \in 1..(n - 1) \/ c = n
      OBVIOUS
    <3>4. \A c \in 1..n : c \in Blocks /\ (c < n => FirstBit[c] \in Nat)
      <4>1. \A c \in 1..n : c \in Blocks
        BY <3>1, CoverableType DEF Blocks
      <4>2. \A c \in Blocks : c <= n => P(c)
        BY <1>2
      <4> QED  BY <4>1, <4>2
    <3> HIDE DEF T
    <3>5. FirstBit[n + 1] = FirstBit[n] + Coverable[n] /\ Coverable[n] \in Nat
      BY <2>1, <2>3, <3>1, CoverableType
    <3>6. ASSUME NEW c \in 1..((n + 1) - 1) PROVE FirstBit[c] + Coverable[c] <= FirstBit[n + 1]
      <4>1. CASE c = n
        BY <3>2, <3>5, <4>1
      <4>2. CASE c # n
        <5>1. c \in 1..(n - 1) /\ c \in 1..n /\ c < n
          BY <3>3, <4>2
        <5>2. FirstBit[c] + Coverable[c] <= FirstBit[n] /\ FirstBit[n] \in Nat
          BY <3>2, <5>1
        <5>3. FirstBit[c] \in Nat /\ Coverable[c] \in Nat
          BY <3>4, <5>1, CoverableType
        <5> QED  BY <3>5, <5>2, <5>3
      <4> QED  BY <4>1, <4>2
    <3>7. FirstBit[n + 1] \in Nat
      BY <3>2, <3>5
    <3> QED  BY <3>6, <3>7
  <2> QED  BY <2>2, <2>3
<1> HIDE DEF T
<1>3. Nat \subseteq T
  BY <1>1, <1>2, SetInduction
<1>4. \A b \in Blocks : b \in Nat
  BY DEF Blocks
<1>5. \A b \in Blocks : b \in T /\ b <= b
  BY <1>3, <1>4
<1> QED  BY <1>5 DEF T

\* No more points of a block are covered than it has.
LEMMA CoveredBound ==
    ASSUME NEW d \in Databases, NEW b \in Blocks
    PROVE  CoveredIn(d, b) \in 0..Coverable[b]
<1> DEFINE S == {p \in d : p[1] = b}
           f == [p \in S |-> p[2]]
<1>1. S \subseteq d /\ IsFiniteSet(d)
  BY ShMapAssumption
<1>2. Cardinality(S) \in Nat
  BY <1>1, FS_Subset, FS_CardinalityType
<1>3. f \in Injection(S, 1..Coverable[b])
  <2>1. \A p \in S : p \in Points /\ p[1] = b
    BY ShMapAssumption
  <2>2. \A p \in S : p[2] \in 1..Coverable[b] /\ p = <<b, p[2]>>
    BY <2>1 DEF Points
  <2> QED  BY <2>2 DEF Injection, IsInjective
<1>4. IsFiniteSet(1..Coverable[b]) /\ Cardinality(1..Coverable[b]) = Coverable[b]
  <2>1. \A n \in Nat \ {0} : IsFiniteSet(1..n) /\ Cardinality(1..n) = n
    BY FS_Interval
  <2> QED  BY <2>1, CoverableType
<1> HIDE DEF S, f
<1>5. Cardinality(S) <= Coverable[b]
  BY <1>3, <1>4, FS_Injection
<1> QED  BY <1>2, <1>5, CoverableType DEF S, CoveredIn

\* The bit of a point is one of the database's if the block has so many covered.
LEMMA BitOfPoint ==
    ASSUME NEW d \in Databases, NEW b \in Blocks, NEW p \in 1..Coverable[b]
    PROVE  FirstBit[b] + p - 1 \in MapOf(d) <=> p <= CoveredIn(d, b)
<1>1. \A c \in Blocks : /\ FirstBit[c] \in Nat /\ Coverable[c] \in Nat \ {0} /\ c \in Nat
                        /\ CoveredIn(d, c) \in 0..Coverable[c]
  BY FirstBitAscends, CoverableType, CoveredBound DEF Blocks
<1>2. ASSUME NEW c \in Blocks, c # b
      PROVE  FirstBit[b] + p - 1 \notin FirstBit[c]..(FirstBit[c] + CoveredIn(d, c) - 1)
  <2>1. CASE c < b
    <3>1. FirstBit[c] + Coverable[c] <= FirstBit[b]
      BY <1>1, <2>1, FirstBitAscends DEF Blocks
    <3> QED  BY <1>1, <3>1
  <2>2. CASE b < c
    <3>1. FirstBit[b] + Coverable[b] <= FirstBit[c]
      BY <1>1, <2>2, FirstBitAscends DEF Blocks
    <3> QED  BY <1>1, <3>1
  <2> QED  BY <1>1, <1>2, <2>1, <2>2
<1>3. FirstBit[b] + p - 1 \in FirstBit[b]..(FirstBit[b] + CoveredIn(d, b) - 1)
        <=> p <= CoveredIn(d, b)
  BY <1>1
<1>4. FirstBit[b] + p - 1 \in MapOf(d) <=>
        \E c \in Blocks :
            FirstBit[b] + p - 1 \in FirstBit[c]..(FirstBit[c] + CoveredIn(d, c) - 1)
  BY DEF MapOf
<1> QED  BY <1>2, <1>3, <1>4

\* Beyond the last block no bit of the database is left.
LEMMA BitsEnd ==
    ASSUME NEW d \in Databases, NEW b \in Blocks, b + 1 \notin Blocks
    PROVE  \A w \in MapOf(d) : w \in Nat /\ w < FirstBit[b] + Coverable[b]
<1> SUFFICES ASSUME NEW c \in Blocks,
                    NEW w \in FirstBit[c]..(FirstBit[c] + CoveredIn(d, c) - 1)
             PROVE  w \in Nat /\ w < FirstBit[b] + Coverable[b]
  BY DEF MapOf
<1>1. /\ FirstBit[c] \in Nat /\ FirstBit[b] \in Nat
      /\ Coverable[c] \in Nat \ {0} /\ Coverable[b] \in Nat \ {0}
      /\ CoveredIn(d, c) \in 0..Coverable[c]
  BY FirstBitAscends, CoverableType, CoveredBound
<1>2. b = Len(Coverable) /\ (c = b \/ c \in 1..(b - 1))
  BY CoverableType DEF Blocks
<1>3. c # b => FirstBit[c] + Coverable[c] <= FirstBit[b]
  BY <1>2, FirstBitAscends
<1> QED  BY <1>1, <1>3

\* All points are there then.
LEMMA LastBlock ==
    ASSUME NEW b \in Blocks, b + 1 \notin Blocks
    PROVE  Total = FirstBit[b] + Coverable[b]
<1>1. b = Len(Coverable) /\ Len(Coverable) # 0
  BY CoverableType DEF Blocks
<1>2. Coverable # <<>>
  BY <1>1
<1> QED  BY <1>1, <1>2 DEF Total

\* Where the child is, and the bits of the points that it has come by.
PlaceInv ==
    /\ reader.block \in 1..(Len(Coverable) + 1)
    /\ reader.block \in Blocks =>
          /\ reader.point \in 1..Coverable[reader.block]
          /\ reader.written = FirstBit[reader.block] + reader.point - 1
    /\ reader.block \notin Blocks =>
          reader.written = Total /\ \A w \in MapOf(db) : w < reader.written
    /\ map.bits = {w \in MapOf(db) : w < reader.written /\ w < room}

ReadOfTheDatabase ==
    /\ map.bits \subseteq MapOf(db)
    /\ map.coverable # 0 => map.bits = MapOf(db) \cap (0..(room - 1))

ReadInv ==
    /\ pc = "waiting" => reader.pc # "gone"
    /\ reader.pc \in {"writing", "blocked"} => PlaceInv
    /\ reader.pc = "exited" \/ pc = "observed" => ReadOfTheDatabase

\* The child starts before the first bit.
LEMMA ForkPlaced == ASSUME IInv, Fork PROVE PlaceInv'
<1>1. /\ reader'.block = 1 /\ reader'.point = 1 /\ reader'.written = 0
      /\ map'.bits = {} /\ db' = db /\ room' = room
  BY DEF Fork, Started, IInv, MapInv, Zeroed, feedbackVars
<1>2. \A b \in Blocks : \A k \in FirstBit[b]..(FirstBit[b] + CoveredIn(db, b) - 1) : k >= 0
  <2>1. db \in Databases
    BY DEF Fork, IInv, MapInv
  <2> QED  BY <2>1, FirstBitAscends, CoveredBound, CoverableType
<1>3. \A w \in MapOf(db) : ~(w < 0)
  <2>1. \A b \in Blocks : FirstBit[b] \in Nat
    BY FirstBitAscends
  <2> QED  BY <1>2, <2>1 DEF MapOf
<1>4. 1 \notin Blocks => MapOf(db) = {} /\ Total = 0
  <2>1. 1 \notin Blocks => Blocks = {} /\ Len(Coverable) = 0
    BY CoverableType DEF Blocks
  <2>2. Len(Coverable) = 0 => Coverable = <<>>
    BY ShMapAssumption
  <2> QED  BY <2>1, <2>2 DEF MapOf, Total
<1>5. 1 \in Blocks => FirstBit[1] = 0 /\ 1 \in 1..Coverable[1]
  BY FirstBitDef, CoverableType DEF NextFirstBit
<1>6. 1 \in 1..(Len(Coverable) + 1)
  BY CoverableType
<1>7. MapOf(db)' = MapOf(db)
  BY <1>1 DEF MapOf, CoveredIn
<1> QED  BY <1>1, <1>3, <1>4, <1>5, <1>6, <1>7 DEF PlaceInv

\* The bit of the next point, and the place behind it.
LEMMA WritePlaced == ASSUME IInv, PlaceInv, ReaderWritesBit PROVE PlaceInv'
<1> DEFINE b == reader.block
           p == reader.point
           w == reader.written
<1>1. /\ db \in Databases /\ db' = db /\ b \in Blocks /\ room' = room
      /\ reader \in ReaderStates /\ map \in [bits : SUBSET Nat, coverable : Nat]
  <2>1. pc = "waiting"
    BY DEF ReaderWritesBit, IInv, TypeOK, Gone, Started
  <2> QED  BY <2>1 DEF ReaderWritesBit, IInv, TypeOK, MapInv, feedbackVars
<1>2. /\ p \in 1..Coverable[b] /\ w = FirstBit[b] + p - 1 /\ w \in Nat
      /\ b \in Nat /\ p \in Nat /\ FirstBit[b] \in Nat /\ Coverable[b] \in Nat
  BY <1>1, FirstBitAscends, CoverableType DEF PlaceInv, ReaderStates, Blocks
<1>3. /\ map'.bits = IF p <= CoveredIn(db, b) /\ w < room
                      THEN map.bits \cup {w} ELSE map.bits \ {w}
      /\ reader'.written = w + 1
      /\ p = Coverable[b] => reader'.block = b + 1 /\ reader'.point = 1
      /\ p # Coverable[b] => reader'.block = b /\ reader'.point = p + 1
  BY <1>1 DEF ReaderWritesBit, ReaderStates
<1>4. MapOf(db) \subseteq Int
  <2>1. \A c \in Blocks : FirstBit[c] \in Nat
    BY FirstBitAscends
  <2> QED  BY <2>1 DEF MapOf
<1>5. map'.bits = {v \in MapOf(db) : v < w + 1 /\ v < room}
  <2>1. w \in MapOf(db) <=> p <= CoveredIn(db, b)
    BY <1>1, <1>2, BitOfPoint
  <2>2. map.bits = {v \in MapOf(db) : v < w /\ v < room}
    BY DEF PlaceInv
  <2>3. \A v \in MapOf(db) : v < w + 1 <=> v < w \/ v = w
    BY <1>2, <1>4
  <2> HIDE DEF w, p, b
  <2>4. CASE p <= CoveredIn(db, b) /\ w < room
    BY <1>3, <2>1, <2>2, <2>3, <2>4
  <2>5. CASE ~(p <= CoveredIn(db, b) /\ w < room)
    BY <1>3, <2>1, <2>2, <2>3, <2>5
  <2> QED  BY <2>4, <2>5
<1>6. SUFFICES /\ reader'.block \in 1..(Len(Coverable) + 1)
               /\ reader'.block \in Blocks =>
                     /\ reader'.point \in 1..Coverable[reader'.block]
                     /\ reader'.written = FirstBit[reader'.block] + reader'.point - 1
               /\ reader'.block \notin Blocks =>
                     /\ reader'.written = Total
                     /\ \A v \in MapOf(db) : v < reader'.written
  <2>1. MapOf(db)' = MapOf(db)
    BY <1>1 DEF MapOf, CoveredIn
  <2> HIDE DEF w, p, b
  <2> QED  BY <1>1, <1>3, <1>5, <2>1 DEF PlaceInv
<1>7. b \in 1..(Len(Coverable) + 1) /\ b + 1 \in 1..(Len(Coverable) + 1)
  BY <1>1, <1>2, CoverableType DEF Blocks
<1>8. CASE p # Coverable[b]
  <2>1. p + 1 \in 1..Coverable[b] /\ w + 1 = FirstBit[b] + (p + 1) - 1
    BY <1>2, <1>8
  <2> HIDE DEF w, p, b
  <2> QED  BY <1>1, <1>3, <1>7, <1>8, <2>1
<1>9. CASE p = Coverable[b]
  <2>1. w + 1 = FirstBit[b] + Coverable[b]
    BY <1>2, <1>9
  <2>2. b + 1 \in Blocks =>
          /\ FirstBit[b + 1] = FirstBit[b] + Coverable[b]
          /\ Coverable[b + 1] \in Nat \ {0}
    <3> SUFFICES ASSUME b + 1 \in Blocks
                 PROVE  /\ FirstBit[b + 1] = FirstBit[b] + Coverable[b]
                        /\ Coverable[b + 1] \in Nat \ {0}
      OBVIOUS
    <3>1. FirstBit[b + 1] = NextFirstBit(FirstBit, b + 1)
      BY FirstBitDef
    <3>2. (b + 1) - 1 = b /\ b + 1 # 1
      BY <1>1, <1>2 DEF Blocks
    <3> HIDE DEF b
    <3> QED  BY <3>1, <3>2, CoverableType DEF NextFirstBit
  <2>3. b + 1 \notin Blocks => w + 1 = Total /\ \A v \in MapOf(db) : v < w + 1
    <3>1. b + 1 \notin Blocks => Total = FirstBit[b] + Coverable[b]
      BY <1>1, LastBlock
    <3> QED  BY <1>1, <2>1, <3>1, BitsEnd
  <2>4. b + 1 \in Blocks => 1 \in 1..Coverable[b + 1] /\ w + 1 = FirstBit[b + 1] + 1 - 1
    BY <1>2, <2>1, <2>2
  <2> HIDE DEF w, p, b
  <2> QED  BY <1>3, <1>7, <1>9, <2>3, <2>4
<1> QED  BY <1>8, <1>9

\* The map does not get other words.
LEMMA RoomStays == ASSUME [Next]_vars PROVE room' = room
BY DEF Next, Parent, Reader, Execute, Fork, ForkFails, ReaderWritesBit, ReaderEnds,
       ReaderGivesUp, ReaderBlocks, SeesExit, TimesOut, Evaluate, Merge, feedbackVars, vars

\* Every step keeps it.
LEMMA ReadInvStep == ASSUME IInv, ReadInv, [Next]_vars PROVE ReadInv'
<1>1. pc \in {"idle", "executed", "waiting", "observed"} /\ (pc # "waiting" <=> reader = Gone)
  BY DEF IInv, TypeOK
<1>2. /\ db' = db /\ map' = map /\ reader' = reader => (PlaceInv' <=> PlaceInv)
      /\ db' = db /\ map' = map => (ReadOfTheDatabase' <=> ReadOfTheDatabase)
  <2>1. db' = db => MapOf(db)' = MapOf(db)
    BY DEF MapOf, CoveredIn
  <2>2. room' = room
    BY RoomStays
  <2> QED  BY <2>1, <2>2 DEF PlaceInv, ReadOfTheDatabase
<1>3. CASE \E d \in Databases : Execute(d)
  BY <1>1, <1>3 DEF Execute, Gone, Started, ReadInv
<1>4. CASE Fork
  BY <1>4, ForkPlaced DEF Fork, Started, ReadInv
<1>5. CASE ForkFails
  <2>1. map' = Zeroed /\ reader' = Gone /\ pc' = "observed"
    BY <1>1, <1>5 DEF ForkFails, IInv, MapInv
  <2> QED  BY <2>1 DEF Zeroed, Gone, Started, ReadInv, ReadOfTheDatabase
<1>6. CASE SeesExit
  BY <1>2, <1>6 DEF SeesExit, Gone, Started, ReadInv
<1>7. CASE TimesOut
  <2>1. reader.pc \in {"writing", "blocked"} /\ map.coverable = 0
    BY <1>7 DEF TimesOut, ReadInv, IInv, TypeOK, ReaderStates, MapInv
  <2>2. ReadOfTheDatabase
    BY <2>1 DEF ReadInv, PlaceInv, ReadOfTheDatabase
  <2> QED  BY <1>2, <1>7, <2>2 DEF TimesOut, Gone, Started, ReadInv
<1>8. CASE Evaluate
  BY <1>1, <1>8 DEF Evaluate, Gone, Started, ReadInv
<1>9. CASE ReaderWritesBit
  <2>1. reader'.pc = "writing" /\ pc' = pc /\ pc = "waiting" /\ reader.pc = "writing"
    BY <1>1, <1>9 DEF ReaderWritesBit, Gone, Started, IInv, TypeOK, ReaderStates
  <2> QED  BY <1>9, <2>1, WritePlaced DEF ReadInv
<1>10. CASE ReaderEnds
  <2>1. /\ reader'.pc = "exited" /\ pc' = "waiting" /\ db' = db /\ PlaceInv
        /\ reader.block \notin Blocks /\ map'.bits = map.bits
    BY <1>1, <1>10 DEF ReaderEnds, Gone, Started, IInv, TypeOK, ReaderStates, ReadInv
  <2>2. map.bits \subseteq MapOf(db) /\ map.bits = MapOf(db) \cap (0..(room - 1))
    <3>1. map.bits = {w \in MapOf(db) : w < room}
      BY <2>1 DEF PlaceInv
    <3>2. room \in Nat /\ map.bits \in SUBSET Nat
      BY ShMapAssumption DEF IInv, TypeOK
    <3> QED  BY <3>1, <3>2
  <2>3. MapOf(db)' = MapOf(db) /\ room' = room
    BY <2>1, RoomStays DEF MapOf, CoveredIn
  <2> QED  BY <2>1, <2>2, <2>3 DEF ReadInv, ReadOfTheDatabase
<1>11. CASE ReaderGivesUp
  <2>1. /\ reader'.pc = "exited" /\ pc' = "waiting" /\ PlaceInv /\ map.coverable = 0
    BY <1>1, <1>11 DEF ReaderGivesUp, Gone, Started, IInv, TypeOK, MapInv, ReaderStates, ReadInv
  <2>2. ReadOfTheDatabase
    BY <2>1 DEF PlaceInv, ReadOfTheDatabase
  <2> QED  BY <1>2, <1>11, <2>1, <2>2 DEF ReaderGivesUp, ReadInv
<1>12. CASE ReaderBlocks
  <2>1. reader'.pc = "blocked" /\ pc' = pc /\ pc = "waiting" /\ PlaceInv
    BY <1>1, <1>12 DEF ReaderBlocks, Gone, Started, IInv, TypeOK, ReaderStates, ReadInv
  <2>2. PlaceInv'
    <3>1. reader'.block = reader.block /\ reader'.point = reader.point
          /\ reader'.written = reader.written /\ map' = map /\ db' = db
      BY <1>12 DEF ReaderBlocks, IInv, TypeOK, ReaderStates
    <3>2. MapOf(db)' = MapOf(db)
      BY <3>1 DEF MapOf, CoveredIn
    <3> QED  BY <2>1, <3>1, <3>2, RoomStays DEF PlaceInv
  <2> QED  BY <2>1, <2>2 DEF ReadInv
<1>13. CASE UNCHANGED vars
  BY <1>2, <1>13 DEF vars, ReadInv
<1> QED
  BY <1>3, <1>4, <1>5, <1>6, <1>7, <1>8, <1>9, <1>10, <1>11, <1>12, <1>13
     DEF Next, Parent, Reader

\* The map that is evaluated has no bits but the database's, and with its count all of
\* them that it has room for: blocks of any number of points, maps of any size, and a
\* reader that is killed anywhere.
THEOREM ObservedAlwaysTheDatabase == Spec => []ObservedIsTheDatabase
<1>1. Init => ReadInv
  BY DEF Init, Gone, Started, ReadInv
<1>2. IInv /\ ReadInv /\ [Next]_vars => ReadInv'
  BY ReadInvStep
<1>3. ReadInv => ObservedIsTheDatabase
  BY DEF ReadInv, ReadOfTheDatabase, ObservedIsTheDatabase
<1> QED  BY <1>1, <1>2, <1>3, Invariance, PTL DEF Spec

\* The count of the map and the bits of the history against the number of points.
CountInv ==
    /\ map.coverable \in {0, Total}
    /\ \A b \in history : b < Total
    /\ RatioIsOfTheHistory

\* No bit that is evaluated is beyond the last point.
LEMMA BitsBelowTotal ==
    ASSUME NEW d \in Databases
    PROVE  \A b \in MapOf(d) : b < Total
<1> SUFFICES ASSUME NEW b \in MapOf(d) PROVE b < Total
  OBVIOUS
<1>1. Blocks # {}
  BY DEF MapOf
<1>2. Len(Coverable) \in Blocks /\ Len(Coverable) + 1 \notin Blocks
  BY <1>1, CoverableType DEF Blocks
<1>3. Total = FirstBit[Len(Coverable)] + Coverable[Len(Coverable)]
  BY <1>2, LastBlock
<1> QED  BY <1>2, <1>3, BitsEnd

\* The score of a whole map counts the whole history.
LEMMA MergeCounts ==
    ASSUME IInv, ReadInv, CountInv, pc = "observed", Merge
    PROVE  RatioIsOfTheHistory' /\ \A b \in history' : b < Total
<1>1. db \in Databases /\ map.bits \subseteq MapOf(db)
  BY DEF IInv, MapInv, ReadInv, ReadOfTheDatabase
<1>2. \A b \in history \cup map.bits : b < Total
  BY <1>1, BitsBelowTotal DEF CountInv
<1>3. history' = history \cup MergedBits /\ MergedBits \subseteq map.bits
  BY MergedWhole DEF Merge
<1>4. ASSUME map.coverable # 0 PROVE ratio' = <<Cardinality(history'), Lesser(Total, room)>>
  <2>1. map.coverable = Total /\ MergedBits = map.bits
    BY <1>4, MergedWhole DEF CountInv
  <2>2. {b \in history \cup map.bits : Traversed(b)} = history'
    BY <1>2, <1>3, <2>1 DEF Traversed
  <2>3. Counted(history \cup map.bits) = Cardinality(history')
    BY <2>2 DEF Counted
  <2>4. Walked = Lesser(Total, room)
    BY <1>4, <2>1 DEF Walked
  <2> QED  BY <2>3, <2>4 DEF Merge
<1>5. corpus' # <<>> /\ corpus'[Len(corpus')].whole = (map.coverable # 0)
  <2>1. corpus \in Seq(Testcases)
    BY DEF IInv, TypeOK
  <2> QED  BY <2>1 DEF Merge
<1>6. room' = room
  BY DEF Merge
<1>7. RatioIsOfTheHistory'
  BY <1>4, <1>5, <1>6 DEF RatioIsOfTheHistory
<1> QED  BY <1>2, <1>3, <1>7

\* Every step keeps it.
LEMMA CountInvStep == ASSUME IInv, ReadInv, CountInv, [Next]_vars PROVE CountInv'
<1>1. map'.coverable \in {0, Total}
  <2>1. CASE ReaderWritesBit
    BY <2>1 DEF ReaderWritesBit, IInv, TypeOK, CountInv
  <2>2. CASE ReaderEnds
    <3>1. PlaceInv /\ reader.block \notin Blocks
      BY <2>2 DEF ReaderEnds, ReadInv
    <3>2. map'.coverable = reader.written
      BY <2>2 DEF ReaderEnds, IInv, TypeOK
    <3> QED  BY <3>1, <3>2 DEF PlaceInv
  <2>3. CASE \/ \E d \in Databases : Execute(d)
             \/ UNCHANGED map
    BY <2>3 DEF Execute, Zeroed, CountInv
  <2> QED
    BY <2>1, <2>2, <2>3 DEF Next, Parent, Reader, Fork, ForkFails, ReaderGivesUp,
       ReaderBlocks, SeesExit, TimesOut, Evaluate, vars
<1>2. (\A b \in history' : b < Total) /\ RatioIsOfTheHistory'
  <2>1. CASE UNCHANGED feedbackVars
    BY <2>1 DEF feedbackVars, CountInv, RatioIsOfTheHistory
  <2>2. CASE Evaluate
    <3>1. CASE Interesting
      BY <2>2, <3>1, MergeCounts DEF Evaluate
    <3>2. CASE ~Interesting
      BY <2>1, <2>2, <3>2 DEF Evaluate
    <3> QED  BY <3>1, <3>2
  <2> QED
    BY <2>1, <2>2 DEF Next, Parent, Reader, Execute, Fork, ForkFails, ReaderWritesBit,
       ReaderEnds, ReaderGivesUp, ReaderBlocks, SeesExit, TimesOut, vars
<1> QED  BY <1>1, <1>2 DEF CountInv

\* Whatever torn maps were merged before, and with more points than the map has room
\* for, the score of a whole map is that of the history.
THEOREM RatioAlwaysOfTheHistory == Spec => []RatioIsOfTheHistory
<1>1. Init => ReadInv /\ CountInv
  BY DEF Init, Gone, Started, Zeroed, ReadInv, CountInv, RatioIsOfTheHistory
<1>2. IInv /\ ReadInv /\ [Next]_vars => ReadInv'
  BY ReadInvStep
<1>3. IInv /\ ReadInv /\ CountInv /\ [Next]_vars => CountInv'
  BY CountInvStep
<1>4. CountInv => RatioIsOfTheHistory
  BY DEF CountInv
<1> QED  BY <1>1, <1>2, <1>3, <1>4, Invariance, PTL DEF Spec

-----------------------------------------------------------------------------
(* The execution of the chipyard fuzzer.  Its steps are steps of VerdiShMap, or   *)
(* leave the variables of that alone, so that it keeps what VerdiShMap keeps.     *)

\* Also a simulation that is killed leaves a database of those there can be.
DatabaseInv == db \in Databases /\ program.db \in Databases

\* A step of the chipyard fuzzer is one of the observer and the feedback, or none.
LEMMA ChipyardStep ==
    ASSUME DatabaseInv, [ChipyardNext]_chipyardVars
    PROVE  [Next]_vars /\ DatabaseInv'
<1> USE DEF DatabaseInv
<1>1. CASE \E p \in Programs : Begin(p)
  BY <1>1, ChipyardAssumption DEF Begin, vars
<1>2. CASE NoSpike \/ SpikeExits \/ SpikeKilled
  BY <1>2 DEF NoSpike, SpikeExits, SpikeKilled, StartSimv, vars
<1>3. CASE SimvEnds
  <2>1. UNCHANGED program /\ \E d \in Databases : Execute(d)
    BY <1>3 DEF SimvEnds
  <2> QED  BY <2>1 DEF Next, Execute
<1>4. CASE ObserveCoverage
  BY <1>4 DEF ObserveCoverage, executionVars, Next, Parent, Reader, Fork, ForkFails,
     SeesExit, TimesOut, ReaderWritesBit, ReaderEnds, ReaderGivesUp, ReaderBlocks
<1>5. CASE ObserveTraces
  BY <1>5 DEF ObserveTraces, vars
<1>6. CASE EvaluateAll
  BY <1>6 DEF EvaluateAll, Next, Parent, Evaluate
<1>7. CASE UNCHANGED chipyardVars
  BY <1>7 DEF chipyardVars, executionVars, vars
<1> QED
  BY <1>1, <1>2, <1>3, <1>4, <1>5, <1>6, <1>7 DEF ChipyardNext, Executor, Observed

\* The chipyard fuzzer's use of the shared maps is one that VerdiShMap allows.
THEOREM ChipyardImplementsShMap == ChipyardSpec => Spec
<1>1. ChipyardInit => Init /\ DatabaseInv
  BY ChipyardAssumption DEF ChipyardInit, Init, NoProgram, DatabaseInv
<1>2. DatabaseInv /\ [ChipyardNext]_chipyardVars => [Next]_vars /\ DatabaseInv'
  BY ChipyardStep
<1> QED  BY <1>1, <1>2, PTL DEF ChipyardSpec, Spec

\* So in the chipyard fuzzer, too, the map is that of the database as far as it has
\* room, the merge misses no bit of a whole map, scores are of the history and only new
\* bits are kept, whatever Spike, the simulator and the readers are cut short at.
THEOREM ChipyardCoverageHolds ==
    ChipyardSpec => [](/\ ObservedIsTheDatabase /\ HistoryIsTheReads
                      /\ RatioIsOfTheHistory /\ OnlyNewBitsAreKept)
<1> QED
  BY ChipyardImplementsShMap, ObservedAlwaysTheDatabase, HistoryAlwaysTheReads,
     RatioAlwaysOfTheHistory, OnlyNewBitsKept, PTL

-----------------------------------------------------------------------------
(* The lines of a log, and what the traces have of them.                       *)

\* The equation of LinesFor, for the first lines.
NextLines(g, k, S, log) ==
    IF k = 0 THEN <<>>
    ELSE IF log[k] \in S THEN Append(g[k - 1], log[k]) ELSE g[k - 1]
AreLines(g, n, S, log) == g = [k \in 0..n |-> NextLines(g, k, S, log)]

\* The equation has a solution for a log of any length, by induction on it.
LEMMA LinesExist ==
    ASSUME NEW S, NEW log
    PROVE  \A n \in Nat : \E g : AreLines(g, n, S, log)
<1> DEFINE T == {n \in Nat : \E g : AreLines(g, n, S, log)}
<1>1. 0 \in T
  <2>1. AreLines([k \in 0..0 |-> <<>>], 0, S, log)
    BY DEF AreLines, NextLines
  <2> QED  BY <2>1
<1>2. ASSUME NEW n \in Nat, n \in T PROVE n + 1 \in T
  <2>1. PICK g : AreLines(g, n, S, log)
    BY <1>2
  <2> DEFINE h == [k \in 0..(n + 1) |->
                      IF k = n + 1 THEN NextLines(g, k, S, log) ELSE g[k]]
  <2>2. ASSUME NEW k \in 0..(n + 1) PROVE h[k] = NextLines(h, k, S, log)
    <3>1. NextLines(h, k, S, log) = NextLines(g, k, S, log)
      <4>1. k # 0 => h[k - 1] = g[k - 1]
        OBVIOUS
      <4> HIDE DEF h
      <4> QED  BY <4>1 DEF NextLines
    <3>2. k # n + 1 => g[k] = NextLines(g, k, S, log)
      BY <2>1 DEF AreLines
    <3>3. h[k] = IF k = n + 1 THEN NextLines(g, k, S, log) ELSE g[k]
      OBVIOUS
    <3> HIDE DEF h
    <3> QED  BY <3>1, <3>2, <3>3
  <2>3. h = [k \in 0..(n + 1) |-> NextLines(h, k, S, log)]
    BY <2>2, Zenon
  <2>4. AreLines(h, n + 1, S, log)
    BY <2>3 DEF AreLines
  <2> QED  BY <2>4
<1> HIDE DEF T
<1>3. Nat \subseteq T
  BY <1>1, <1>2, SetInduction
<1> QED  BY <1>3 DEF T

\* A function that has the lines of every beginning of a log.
Steps(g, S, log) ==
    /\ g[0] = <<>>
    /\ \A k \in 1..Len(log) :
           g[k] = IF log[k] \in S THEN Append(g[k - 1], log[k]) ELSE g[k - 1]

\* So the lines of a log are found in steps, one for each line.
LEMMA LinesByStep ==
    ASSUME NEW S, NEW log \in Seq(Lines)
    PROVE  \E g : LinesFor(S, log) = g[Len(log)] /\ Steps(g, S, log)
<1> DEFINE g == CHOOSE h : AreLines(h, Len(log), S, log)
<1>1. LinesFor(S, log) = g[Len(log)]
  BY Zenon DEF LinesFor, AreLines, NextLines
<1>2. \E h : AreLines(h, Len(log), S, log)
  <2>1. Len(log) \in Nat
    OBVIOUS
  <2> HIDE DEF g
  <2> QED  BY <2>1, LinesExist
<1>3. AreLines(g, Len(log), S, log)
  BY <1>2, Zenon
<1> HIDE DEF g
<1>4. \A k \in 0..Len(log) : g[k] = NextLines(g, k, S, log)
  BY <1>3 DEF AreLines
<1>5. Steps(g, S, log)
  <2>1. Len(log) \in Nat
    OBVIOUS
  <2>2. g[0] = <<>>
    BY <1>4, <2>1 DEF NextLines
  <2>3. ASSUME NEW k \in 1..Len(log)
        PROVE  g[k] = IF log[k] \in S THEN Append(g[k - 1], log[k]) ELSE g[k - 1]
    <3>1. k \in 0..Len(log) /\ k # 0
      BY <2>1
    <3> QED  BY <1>4, <3>1, Zenon DEF NextLines
  <2> QED  BY <2>2, <2>3, Zenon DEF Steps
<1> QED  BY <1>1, <1>5

\* They are lines.
LEMMA LinesTyped ==
    ASSUME NEW S, NEW log \in Seq(Lines), NEW g, Steps(g, S, log)
    PROVE  \A k \in 0..Len(log) : g[k] \in Seq(Lines)
<1> DEFINE T == {n \in Nat : n <= Len(log) => g[n] \in Seq(Lines)}
<1>1. 0 \in T
  <2>1. g[0] = <<>>
    BY DEF Steps
  <2>2. g[0] \in Seq(Lines)
    BY <2>1
  <2> QED  BY <2>2
<1>2. ASSUME NEW n \in Nat, n \in T PROVE n + 1 \in T
  <2> SUFFICES ASSUME n + 1 <= Len(log) PROVE g[n + 1] \in Seq(Lines)
    OBVIOUS
  <2>1. /\ g[n] \in Seq(Lines) /\ n + 1 \in 1..Len(log) /\ (n + 1) - 1 = n
        /\ log[n + 1] \in Lines
    BY <1>2
  <2>2. g[n + 1] = IF log[n + 1] \in S THEN Append(g[n], log[n + 1]) ELSE g[n]
    BY <2>1 DEF Steps
  <2>3. Append(g[n], log[n + 1]) \in Seq(Lines)
    BY <2>1
  <2> QED  BY <2>1, <2>2, <2>3
<1> HIDE DEF T
<1>3. Nat \subseteq T
  BY <1>1, <1>2, SetInduction
<1>4. ASSUME NEW k \in 0..Len(log) PROVE g[k] \in Seq(Lines)
  <2>1. k \in T /\ k <= Len(log)
    BY <1>3
  <2> QED  BY <2>1 DEF T
<1> QED  BY <1>4

\* A sequence is a beginning of itself,
LEMMA PrefixReflexive == ASSUME NEW s \in Seq(Lines) PROVE IsPrefixOf(s, s)
BY DEF IsPrefixOf

\* and of whatever grows out of a sequence that it is a beginning of.
LEMMA PrefixOfAppend ==
    ASSUME NEW s \in Seq(Lines), NEW t \in Seq(Lines),
           NEW e \in Lines, IsPrefixOf(s, t)
    PROVE  IsPrefixOf(s, Append(t, e))
<1>1. /\ Len(s) \in Nat /\ Len(t) \in Nat /\ Len(s) <= Len(t)
      /\ \A i \in 1..Len(s) : s[i] = t[i]
  BY DEF IsPrefixOf
<1>2. Len(Append(t, e)) = Len(t) + 1 /\ \A i \in 1..Len(s) : Append(t, e)[i] = s[i]
  BY <1>1
<1>3. SubSeq(Append(t, e), 1, Len(s)) = s
  BY <1>1, <1>2
<1> QED  BY <1>1, <1>2, <1>3 DEF IsPrefixOf

\* The lines of a log that is cut are the first lines of the whole one.
LEMMA LinesOfCutLog ==
    ASSUME NEW S, NEW log \in Seq(Lines), NEW n \in 0..Len(log)
    PROVE  IsPrefixOf(LinesFor(S, SubSeq(log, 1, n)), LinesFor(S, log))
<1> DEFINE cut == SubSeq(log, 1, n)
<1>1. cut \in Seq(Lines) /\ Len(cut) = n /\ \A k \in 1..n : cut[k] = log[k]
  OBVIOUS
<1> HIDE DEF cut
<1>2. PICK g : LinesFor(S, log) = g[Len(log)] /\ Steps(g, S, log)
  BY LinesByStep
<1>3. PICK h : LinesFor(S, cut) = h[Len(cut)] /\ Steps(h, S, cut)
  BY <1>1, LinesByStep
<1>4. \A k \in 0..Len(log) : g[k] \in Seq(Lines)
  BY <1>2, LinesTyped
<1>5. h[n] = g[n]
  <2> DEFINE T == {k \in Nat : k <= n => h[k] = g[k]}
  <2>1. 0 \in T
    BY <1>2, <1>3 DEF Steps
  <2>2. ASSUME NEW k \in Nat, k \in T PROVE k + 1 \in T
    <3> SUFFICES ASSUME k + 1 <= n PROVE h[k + 1] = g[k + 1]
      OBVIOUS
    <3>1. /\ h[k] = g[k] /\ (k + 1) - 1 = k /\ cut[k + 1] = log[k + 1]
          /\ k + 1 \in 1..Len(cut) /\ k + 1 \in 1..Len(log)
      BY <1>1, <2>2
    <3> QED  BY <1>2, <1>3, <3>1 DEF Steps
  <2> HIDE DEF T
  <2>3. Nat \subseteq T
    BY <2>1, <2>2, SetInduction
  <2> QED  BY <2>3 DEF T
<1>6. IsPrefixOf(g[n], g[Len(log)])
  <2> DEFINE T == {k \in Nat : n + k <= Len(log) => IsPrefixOf(g[n], g[n + k])}
  <2>1. 0 \in T
    BY <1>4, PrefixReflexive
  <2>2. ASSUME NEW k \in Nat, k \in T PROVE k + 1 \in T
    <3> SUFFICES ASSUME n + (k + 1) <= Len(log) PROVE IsPrefixOf(g[n], g[n + (k + 1)])
      OBVIOUS
    <3> DEFINE j == n + (k + 1)
    <3>1. /\ IsPrefixOf(g[n], g[n + k]) /\ j - 1 = n + k /\ j \in 1..Len(log)
          /\ n + k \in 0..Len(log) /\ log[j] \in Lines
      BY <2>2
    <3>2. g[j] = IF log[j] \in S THEN Append(g[n + k], log[j]) ELSE g[n + k]
      BY <1>2, <3>1 DEF Steps
    <3> HIDE DEF j
    <3>3. IsPrefixOf(g[n], g[j])
      BY <1>4, <3>1, <3>2, PrefixOfAppend
    <3> QED  BY <3>3 DEF j
  <2> HIDE DEF T
  <2>3. Nat \subseteq T
    BY <2>1, <2>2, SetInduction
  <2>4. Len(log) - n \in T /\ n + (Len(log) - n) = Len(log)
    BY <2>3
  <2> QED  BY <2>4 DEF T
<1> QED  BY <1>1, <1>2, <1>3, <1>5, <1>6 DEF cut

-----------------------------------------------------------------------------
(* The logs are those of the program that is executed. *)

\* Of the files of Spike and the core, each is cut somewhere; and the traces are of them.
LogInv ==
    /\ program \in Programs \cup {NoProgram}
    /\ stage \in {"noSpike", "simv", "observing", "traced"} =>
          \E k \in 0..Len(program.model) : spike_err = SubSeq(program.model, 1, k)
    /\ stage \in {"observing", "traced"} =>
          \E k \in 0..Len(program.core) : terminal_err = SubSeq(program.core, 1, k)
    /\ stage = "traced" =>
          traces = [spike |-> SpikeParse(spike_err), rocket |-> RocketParse(terminal_err)]

\* The logs of a program are sequences of lines.
LEMMA ProgramLogs ==
    ASSUME NEW p \in Programs \cup {NoProgram}
    PROVE  p.model \in Seq(Lines) /\ p.core \in Seq(Lines)
<1>1. CASE p \in Programs
  BY <1>1, ChipyardAssumption
<1>2. CASE p = NoProgram
  <2>1. p.model = <<>> /\ p.core = <<>>
    BY <1>2 DEF NoProgram
  <2> QED  BY <2>1
<1> QED  BY <1>1, <1>2

\* A log that is empty, or whole, is one that is cut somewhere.
LEMMA EndsOfLogs ==
    ASSUME NEW s \in Seq(Lines)
    PROVE  /\ \E k \in 0..Len(s) : <<>> = SubSeq(s, 1, k)
           /\ \E k \in 0..Len(s) : s = SubSeq(s, 1, k)
<1>1. <<>> = SubSeq(s, 1, 0) /\ s = SubSeq(s, 1, Len(s))
  OBVIOUS
<1>2. 0 \in 0..Len(s) /\ Len(s) \in 0..Len(s)
  OBVIOUS
<1> QED  BY <1>1, <1>2, Zenon

\* Every step keeps what is said of the logs.
LEMMA LogInvStep == ASSUME LogInv, [ChipyardNext]_chipyardVars PROVE LogInv'
<1>1. program.model \in Seq(Lines) /\ program.core \in Seq(Lines)
  BY ProgramLogs DEF LogInv
<1>2. ASSUME NEW p \in Programs, Begin(p) PROVE LogInv'
  <2>1. \E k \in 0..Len(p.model) : <<>> = SubSeq(p.model, 1, k)
    BY ProgramLogs, EndsOfLogs
  <2> QED  BY <1>2, <2>1 DEF Begin, LogInv
<1>3. CASE NoSpike
  BY <1>3 DEF NoSpike, StartSimv, LogInv
<1>4. CASE SpikeExits
  <2>1. \E k \in 0..Len(program.model) : program.model = SubSeq(program.model, 1, k)
    BY <1>1, EndsOfLogs
  <2> QED  BY <1>4, <2>1 DEF SpikeExits, StartSimv, LogInv
<1>5. CASE SpikeKilled
  BY <1>5 DEF SpikeKilled, StartSimv, LogInv
<1>6. CASE SimvEnds
  <2>1. /\ stage = "simv" /\ stage' = "observing" /\ UNCHANGED <<program, spike_err>>
        /\ \E k \in 0..Len(program.core) : terminal_err' = SubSeq(program.core, 1, k)
    BY <1>6 DEF SimvEnds
  <2> QED  BY <2>1 DEF LogInv
<1>7. CASE ObserveCoverage \/ UNCHANGED chipyardVars
  <2>1. UNCHANGED executionVars
    BY <1>7 DEF ObserveCoverage, chipyardVars
  <2> QED  BY <2>1 DEF executionVars, LogInv, SpikeParse, RocketParse
<1>8. CASE ObserveTraces
  BY <1>8 DEF ObserveTraces, LogInv, SpikeParse, RocketParse
<1>9. CASE EvaluateAll
  BY <1>9 DEF EvaluateAll, LogInv
<1> QED
  BY <1>2, <1>3, <1>4, <1>5, <1>6, <1>7, <1>8, <1>9 DEF ChipyardNext, Executor, Observed

\* So it holds in every state.
LEMMA LogsHold == ChipyardSpec => []LogInv
<1>1. ChipyardInit => LogInv
  BY DEF ChipyardInit, LogInv
<1> QED  BY <1>1, LogInvStep, PTL DEF ChipyardSpec

\* What is compared are the beginnings of the program's own traces, of any length, no
\* matter where the logs are cut and what lay in the files before.
THEOREM TracesAlwaysOfTheProgram == ChipyardSpec => []TracesAreOfTheProgram
<1>1. LogInv => TracesAreOfTheProgram
  <2> SUFFICES ASSUME LogInv, stage = "traced"
               PROVE  /\ IsPrefixOf(traces.spike, SpikeParse(program.model))
                      /\ IsPrefixOf(traces.rocket, RocketParse(program.core))
    BY DEF TracesAreOfTheProgram
  <2>1. program.model \in Seq(Lines) /\ program.core \in Seq(Lines)
    BY ProgramLogs DEF LogInv
  <2>2. traces.spike = SpikeParse(spike_err) /\ traces.rocket = RocketParse(terminal_err)
    BY DEF LogInv
  <2>3. IsPrefixOf(SpikeParse(spike_err), SpikeParse(program.model))
    BY <2>1, LinesOfCutLog DEF LogInv, SpikeParse
  <2>4. IsPrefixOf(RocketParse(terminal_err), RocketParse(program.core))
    BY <2>1, LinesOfCutLog DEF LogInv, RocketParse
  <2> QED  BY <2>2, <2>3, <2>4
<1> QED  BY <1>1, LogsHold, PTL
=============================================================================
