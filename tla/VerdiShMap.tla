------------------------------ MODULE VerdiShMap ------------------------------
(***************************************************************************)
(* The coverage of one metric through libNPI.  After an execution             *)
(* VerdiShMapObserver forks: the child reads the coverage database and writes  *)
(* what is covered into a map in shared memory, bit by bit, the number of      *)
(* coverable points last; the parent polls it and kills it after 30 seconds.   *)
(* VerdiFeedback then takes the map for a whole one, with its count.          *)
(*                                                                         *)
(* A block is a child of the metric in the database, with one point or more;   *)
(* of those only the number that are covered goes into the map.  Bits are       *)
(* numbered from 0, from the third word of the map on.  The map is cut to whole *)
(* words when its size is divided, and then two of them are not for bits: in     *)
(* the chipyard fuzzer the last points of each metric have no room (10 of the    *)
(* 7297130 toggle points).  update_cov_map does not look at the size it is      *)
(* given, and writes on into the rest of the last page of the shared memory,     *)
(* where nobody reads.                                                        *)
(***************************************************************************)
EXTENDS Integers, Sequences, FiniteSets

CONSTANTS
    Coverable,  \* the number of points of each block, in the order of the database
    Databases,  \* what the database may hold after an execution: covered points
    Rooms,      \* for how many bits the words of a map have room
    MaxCorpus   \* bound: executions stop when the corpus has so many entries

Blocks == 1..Len(Coverable)
Points == {p \in Blocks \X Nat : p[2] \in 1..Coverable[p[1]]}

ASSUME ShMapAssumption ==
    /\ Coverable \in Seq(Nat \ {0})
    /\ Databases \subseteq SUBSET Points
    /\ \A db \in Databases : IsFiniteSet(db)
    /\ Rooms \subseteq Nat \ {0}
    /\ MaxCorpus \in Nat

VARIABLES
    pc,       \* of the parent
    db,       \* the points covered in ./Coverage.vdb
    reader,   \* the child
    map,      \* the shared memory: the bits that are set, and word 1
    room,     \* of the map, which its fuzzer has fixed
    history,  \* VerdiFeedback::history: the bits that are set
    ratio,    \* the covered and the coverable count last fired
    corpus    \* the testcases that were kept

feedbackVars == <<room, history, ratio, corpus>>
vars == <<pc, db, reader, map, feedbackVars>>

Zeroed == [bits |-> {}, coverable |-> 0]
NotFired == <<0, 0>>

\* The place of the child in the database, and the bits it has written.
Started == [pc |-> "writing", block |-> 1, point |-> 1, written |-> 0]
Gone == [Started EXCEPT !.pc = "gone"]

Init ==
    /\ pc = "idle"
    /\ db = {}
    /\ reader = Gone
    /\ map = Zeroed
    /\ room \in Rooms
    /\ history = {} /\ ratio = NotFired /\ corpus = <<>>

-----------------------------------------------------------------------------
(* The observer. *)

\* Mutated: the map is not cleared.
ExecuteUncleared(d) ==
    /\ pc = "idle" /\ Len(corpus) < MaxCorpus
    /\ pc' = "executed"
    /\ db' = d
    /\ UNCHANGED <<reader, map, feedbackVars>>

\* pre_exec, and the simulation, which leaves the database.
Execute(d) ==
    /\ pc = "idle" /\ Len(corpus) < MaxCorpus
    /\ pc' = "executed"
    /\ db' = d
    /\ map' = Zeroed
    /\ UNCHANGED <<reader, feedbackVars>>

Fork ==
    /\ pc = "executed"
    /\ pc' = "waiting"
    /\ reader' = Started
    /\ UNCHANGED <<db, map, feedbackVars>>

\* A message, and the map as it is.
ForkFails ==
    /\ pc = "executed"
    /\ pc' = "observed"
    /\ UNCHANGED <<db, reader, map, feedbackVars>>

CoveredIn(d, b) == Cardinality({p \in d : p[1] = b})

\* compute_score: of the bits of a block the first ones are set and the others
\* are cleared; what is beyond the map's words is in none of them.
ReaderWritesBit ==
    LET b == reader.block
        last == reader.point = Coverable[b]
    IN /\ reader.pc = "writing" /\ b \in Blocks
       /\ map' = [map EXCEPT !.bits =
                     IF reader.point <= CoveredIn(db, b) /\ reader.written < room
                     THEN @ \cup {reader.written} ELSE @ \ {reader.written}]
       /\ reader' = [reader EXCEPT !.written = @ + 1,
                                   !.block = IF last THEN b + 1 ELSE b,
                                   !.point = IF last THEN 1 ELSE @ + 1]
       /\ UNCHANGED <<pc, db, feedbackVars>>

\* The counts are written when the database is closed, and the child exits.
ReaderEnds ==
    /\ reader.pc = "writing" /\ reader.block \notin Blocks
    /\ reader' = [reader EXCEPT !.pc = "exited"]
    /\ map' = [map EXCEPT !.coverable = reader.written]
    /\ UNCHANGED <<pc, db, feedbackVars>>

\* The database does not open, or its tests do not merge.
ReaderGivesUp ==
    /\ reader = Started
    /\ reader' = [reader EXCEPT !.pc = "exited"]
    /\ UNCHANGED <<pc, db, map, feedbackVars>>

\* libNPI prints, the pipe is full, and nobody reads it.
ReaderBlocks ==
    /\ reader.pc = "writing"
    /\ reader' = [reader EXCEPT !.pc = "blocked"]
    /\ UNCHANGED <<pc, db, map, feedbackVars>>

SeesExit ==
    /\ pc = "waiting" /\ reader.pc = "exited"
    /\ pc' = "observed"
    /\ reader' = Gone
    /\ UNCHANGED <<db, map, feedbackVars>>

\* Mutated: a child that does not come on is waited for.
TimesOutWriting ==
    /\ pc = "waiting" /\ reader.pc = "writing"
    /\ pc' = "observed"
    /\ reader' = Gone
    /\ UNCHANGED <<db, map, feedbackVars>>

\* 30 seconds are over, and the child is killed where it is; or it has died of a
\* signal, which looks like running, and the next waitpid() fails.
TimesOut ==
    /\ pc = "waiting" /\ reader.pc # "exited"
    /\ pc' = "observed"
    /\ reader' = Gone
    /\ UNCHANGED <<db, map, feedbackVars>>

-----------------------------------------------------------------------------
(* The feedback. *)

\* Mutated: any difference between the map and the history is interesting.
AnyDifference == map.bits # history

\* A bit of the map that the history has not.
Interesting == ~(map.bits \subseteq history)

\* Mutated: one bit less than word 1 says.
MergedBitsShort == {b \in map.bits : b + 1 < map.coverable}

\* The bits that 'traverse_map comes to: it breaks when it has counted as many as
\* word 1 says, which it looks at after the first.
Traversed(b) == b = 0 \/ b < map.coverable
MergedBits == {b \in map.bits : Traversed(b)}

\* Mutated: the bits are counted before the merge.
CountedBefore(seen) == Cardinality({b \in history : Traversed(b)})

\* The bits that are counted on the way.
Counted(seen) == Cardinality({b \in seen : Traversed(b)})

\* The walk ends where word 1 says, or at the end of the map.
Lesser(m, n) == IF m <= n THEN m ELSE n
Walked == IF map.coverable = 0 THEN 1 ELSE Lesser(map.coverable, room)

Merge ==
    /\ history' = history \cup MergedBits
    /\ ratio' = <<Counted(history \cup map.bits), Walked>>
    /\ corpus' = Append(corpus, [db |-> db, bits |-> map.bits,
                                 whole |-> map.coverable # 0])
    /\ UNCHANGED room

Evaluate ==
    /\ pc = "observed"
    /\ pc' = "idle"
    /\ IF Interesting THEN Merge ELSE UNCHANGED feedbackVars
    /\ UNCHANGED <<db, reader, map>>

Parent == Fork \/ ForkFails \/ SeesExit \/ TimesOut \/ Evaluate
Reader == ReaderWritesBit \/ ReaderEnds \/ ReaderGivesUp \/ ReaderBlocks

Next == (\E d \in Databases : Execute(d)) \/ Parent \/ Reader

Spec == Init /\ [][Next]_vars

-----------------------------------------------------------------------------
(* Properties. *)

ReaderStates ==
    [pc : {"writing", "blocked", "exited", "gone"}, block : Nat \ {0},
     point : Nat \ {0}, written : Nat]

Testcases == [db : Databases, bits : SUBSET Nat, whole : BOOLEAN]

\* No child is left when the parent goes on, and the map is one of numbers.
TypeOK ==
    /\ pc \in {"idle", "executed", "waiting", "observed"}
    /\ db \in Databases \cup {{}}
    /\ reader \in ReaderStates
    /\ pc # "waiting" <=> reader = Gone
    /\ map \in [bits : SUBSET Nat, coverable : Nat]
    /\ room \in Rooms
    /\ history \in SUBSET Nat
    /\ ratio \in Nat \X Nat
    /\ corpus \in Seq(Testcases)

\* The first bit of each block.
FirstBit[b \in Blocks] == IF b = 1 THEN 0 ELSE FirstBit[b - 1] + Coverable[b - 1]

MapOf(d) == UNION {FirstBit[b]..(FirstBit[b] + CoveredIn(d, b) - 1) : b \in Blocks}

\* All points have a bit, with room or without.
Total == IF Coverable = <<>> THEN 0
         ELSE FirstBit[Len(Coverable)] + Coverable[Len(Coverable)]

\* The map that is evaluated has no bits but those of the database that was
\* read, wherever its reader was killed, and when it has its count all of those that
\* it has room for (update_cov_map clears as it goes, pre_exec before that); the
\* points without room are seen by nobody, whatever the execution covers.
ObservedIsTheDatabase ==
    pc = "observed" =>
        /\ map.bits \subseteq MapOf(db)
        /\ map.coverable # 0 => map.bits = MapOf(db) \cap (0..(room - 1))

\* The history has the bits of all testcases whose map was whole, although only
\* so many are merged as word 1 says, and no bits of its own making.
HistoryIsTheReads ==
    /\ UNION {corpus[k].bits : k \in {j \in 1..Len(corpus) : corpus[j].whole}}
          \subseteq history
    /\ history \subseteq UNION {corpus[k].bits : k \in 1..Len(corpus)}

\* What is fired for a whole map, covered of coverable, is the size of the history
\* and the number of points that have room, whatever torn maps were merged
\* before and although word 1 counts the points without room, too.
RatioIsOfTheHistory ==
    corpus # <<>> /\ corpus[Len(corpus)].whole =>
        ratio = <<Cardinality(history), Lesser(Total, room)>>

\* A testcase is kept for a bit that no whole map before it had: the same bits
\* come in twice only when the first reader was killed ("any new bit set to 1 is
\* interesting", verdi_feedback.rs:115).
OnlyNewBitsAreKept ==
    \A k \in 1..Len(corpus) :
        ~(corpus[k].bits \subseteq
            UNION {corpus[j].bits : j \in {i \in 1..(k - 1) : corpus[i].whole}})
=============================================================================
