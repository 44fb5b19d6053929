------------------------- MODULE HWMinimizerScheduler -------------------------
(***************************************************************************)
(* HWMinimizerScheduler over the corpus that CoverageFeedback fills.  Every   *)
(* so many testcases update_favored looks for a subset of the corpus with the *)
(* same coverage, in a random order, by the history maps that the feedback    *)
(* left in the testcases.  A map is a vector of words of WordBits bits, and    *)
(* bit i of word k is the number k * WordBits + i; words 0 and 1 are taken for *)
(* counters, word 1 for the number of coverable points.                       *)
(***************************************************************************)
EXTENDS CoverageFeedback, FiniteSetsExt

CONSTANTS
    WordBits,  \* the width of a word of the map: 32
    Period,    \* the favored testcases are updated after so many: 10
    Replaces   \* entries of the corpus are replaced; no fuzzer here does so

ASSUME SchedulerAssumption ==
    /\ WordBits \in Nat \ {0}
    /\ Period \in Nat \ {0}
    /\ Replaces \in BOOLEAN
    /\ Bits \subseteq Nat

VARIABLES
    counter,   \* self.counter
    favored,   \* self.favored
    next,      \* self.next, an index into favored from 0
    phase,     \* "idle", in the loop of update_favored, or "panicked"
    left,      \* left_to_evaluate: the ids the loop has not come to
    known,     \* the bits of the local `history` in the words from 2 on
    evaluated  \* history: the ids the last update_favored looked at

schedulerVars == <<counter, favored, next, phase, left, known, evaluated>>
vars == <<feedbackVars, schedulerVars>>

Init ==
    /\ FeedbackInit
    /\ counter = 0
    /\ favored = <<>>
    /\ next = 0
    /\ phase = "idle"
    /\ left = {}
    /\ known = {}
    /\ evaluated = {}

-----------------------------------------------------------------------------
Word(map, k) == {b \in 0..(WordBits - 1) : k * WordBits + b \in map}

\* history_map[1] as a number.
Coverable(map) == MapThenSumSet(LAMBDA b : 2^b, Word(map, 1))

\* The bits that are looked at: those of the words from 2 on.
Points(map) == {p \in map : p >= 2 * WordBits}

\* 'copy_map stops after the first bit whose number is above the count.
Copied(map) ==
    {p \in Points(map) : p = 2 * WordBits \/ p - 1 <= Coverable(map)}

\* Mutated: the bits known from the last time are kept.
StartUpdateKnowing ==
    /\ phase' = "updating"
    /\ favored' = <<>>
    /\ left' = 1..Len(corpus')
    /\ evaluated' = 1..Len(corpus')
    /\ UNCHANGED known

StartUpdate ==
    /\ phase' = "updating"
    /\ favored' = <<>>
    /\ left' = 1..Len(corpus')
    /\ known' = {}
    /\ evaluated' = 1..Len(corpus')

\* Mutated: the counter goes on after the update.
AddWithoutReset(i) ==
    /\ phase = "idle" /\ Len(corpus) < MaxCorpus
    /\ Process(i, i)
    /\ UNCHANGED next
    /\ IF NewIn(i) = {} THEN UNCHANGED <<counter, favored, phase, left, known, evaluated>>
       ELSE /\ counter' = counter + 1
            /\ IF counter = Period THEN StartUpdate
               ELSE UNCHANGED <<favored, phase, left, known, evaluated>>

\* A testcase is evaluated; on_add is called when it goes into the corpus.
Add(i) ==
    /\ phase = "idle" /\ Len(corpus) < MaxCorpus
    /\ Process(i, i)
    /\ UNCHANGED next
    /\ IF NewIn(i) = {} THEN UNCHANGED <<counter, favored, phase, left, known, evaluated>>
       ELSE IF counter = Period THEN counter' = 1 /\ StartUpdate
       ELSE /\ counter' = counter + 1
            /\ UNCHANGED <<favored, phase, left, known, evaluated>>

\* on_replace, by an entry with the same map.
OnReplace ==
    /\ Replaces
    /\ phase = "idle" /\ corpus # <<>>
    /\ UNCHANGED <<feedbackVars, counter, next>>
    /\ StartUpdate

\* One round of the loop; the shuffle makes any id the next one.
EvaluateTestcase(id) ==
    /\ phase = "updating" /\ id \in left
    /\ LET map == corpus[id].history_map IN
       IF Points(map) \subseteq known
       THEN UNCHANGED <<favored, known>>
       ELSE /\ favored' = Append(favored, id)
            /\ known' = known \cup Copied(map)
    /\ left' = left \ {id}
    /\ phase' = IF left = {id} THEN "idle" ELSE "updating"
    /\ UNCHANGED <<feedbackVars, counter, next, evaluated>>

\* next(), 95 times of 100.
NextFavored ==
    /\ phase = "idle" /\ favored # <<>>
    /\ next < Len(favored)
    /\ next' = (next + 1) % Len(favored)
    /\ UNCHANGED <<feedbackVars, counter, favored, phase, left, known, evaluated>>

\* self.favored[self.next] is out of bounds.
NextPanics ==
    /\ phase = "idle" /\ favored # <<>>
    /\ next >= Len(favored)
    /\ phase' = "panicked"
    /\ UNCHANGED <<feedbackVars, counter, favored, next, left, known, evaluated>>

\* base.next(): the base is asked, and nothing here changes.
NextOfBase == phase = "idle" /\ corpus # <<>> /\ UNCHANGED vars

Next ==
    \/ \E i \in Inputs : Add(i)
    \/ OnReplace
    \/ \E id \in left : EvaluateTestcase(id)
    \/ NextFavored \/ NextPanics \/ NextOfBase

Spec == Init /\ [][Next]_vars

-----------------------------------------------------------------------------
(* Properties. *)

FavoredIds == {favored[k] : k \in 1..Len(favored)}

\* The counter keeps below its period, the favored testcases are in the corpus,
\* and next() is an index into some favored list of the past.
TypeOK ==
    /\ FeedbackTypeOK
    /\ counter \in 0..Period
    /\ favored \in Seq(1..Len(corpus))
    /\ next \in 0..Len(corpus)
    /\ phase \in {"idle", "updating", "panicked"}
    /\ left \subseteq evaluated
    /\ known \subseteq Bits
    /\ evaluated \subseteq 1..Len(corpus)

\* When update_favored is through, what the history maps of the testcases it
\* looked at contain is also in the history maps of the favored ones, whatever
\* the order they were shuffled into and the count in word 1.
FavoredCoverTheMaps ==
    phase = "idle" =>
        \A id \in evaluated :
            Points(corpus[id].history_map) \subseteq
                UNION {corpus[f].history_map : f \in FavoredIds}

\* A testcase is favored at most once, so that next() gives every one its turn.
FavoredOnce == Cardinality(FavoredIds) = Len(favored)
=============================================================================
