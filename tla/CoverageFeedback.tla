--------------------------- MODULE CoverageFeedback ---------------------------
(***************************************************************************)
(* What one client makes of the coverage of an execution: the VerdiFeedback  *)
(* of every metric compares the observer's map with its history, merges it    *)
(* when a bit is new, and the input is then kept in the corpus.               *)
(*                                                                         *)
(* An input stands for the coverage it has, since nothing else of it matters  *)
(* here.  The reports of one design all have the same length, so that the     *)
(* history has it too after the first one.                                    *)
(***************************************************************************)
EXTENDS Integers, Sequences, FiniteSets

CONSTANTS
    Metrics,    \* the coverage metrics, each with an observer and a feedback
    Minimized,  \* the metric whose feedback was made with minimized = true
    Bits,       \* the coverage points of a metric's map
    Inputs,     \* the coverage of the inputs that are executed
    MaxCorpus   \* bound: executions stop when the corpus has so many entries

Maps == [Metrics -> SUBSET Bits]

ASSUME CoverageAssumption ==
    /\ Minimized \in Metrics
    /\ IsFiniteSet(Bits)
    /\ Inputs \subseteq Maps
    /\ MaxCorpus \in Nat

VARIABLES
    history,    \* VerdiFeedback::history, per metric
    corpus,     \* the corpus; an entry's CorpusId is its place
    reported    \* the covered count last fired as coverage_<metric>

feedbackVars == <<history, corpus, reported>>

NotReported == -1

\* input is what the input itself covers, seen what the observers had when it was
\* evaluated, and history_map the metadata of append_metadata.
Testcases == [input : Maps, seen : Maps, history_map : SUBSET Bits]

FeedbackInit ==
    /\ history = [m \in Metrics |-> {}]
    /\ corpus = <<>>
    /\ reported = [m \in Metrics |-> NotReported]

-----------------------------------------------------------------------------
\* Mutated: any difference between the map and the history counts.
AnyDifference(map, m) == map[m] # history[m]

\* compare_coverage_map: a bit of the map that the history has not.
IsNew(map, m) == ~(map[m] \subseteq history[m])

NewIn(map) == {m \in Metrics : IsNew(map, m)}

\* Mutated: feedback_or_fast stops at the first metric that is interesting.
MergedFast(map) ==
    IF NewIn(map) = {} THEN history
    ELSE LET first == CHOOSE m \in NewIn(map) : TRUE
         IN [history EXCEPT ![first] = @ \cup map[first]]

\* Mutated: the map takes the place of the history.
MergedOver(map) ==
    [m \in Metrics |-> IF m \in NewIn(map) THEN map[m] ELSE history[m]]

\* update_history_map.
Merged(map) ==
    [m \in Metrics |-> IF m \in NewIn(map) THEN history[m] \cup map[m] ELSE history[m]]

\* Mutated: the count of the map, not of the history.
ReportedOfMap(map) ==
    [m \in Metrics |-> IF m \in NewIn(map) THEN Cardinality(map[m]) ELSE reported[m]]

\* The count is taken before the map is merged.
Reported(map) ==
    [m \in Metrics |-> IF m \in NewIn(map) THEN Cardinality(history[m]) ELSE reported[m]]

\* process_execution: every metric is asked (feedback_or), and the input goes
\* into the corpus when one finds it interesting.
Process(i, map) ==
    /\ history' = Merged(map)
    /\ reported' = Reported(map)
    /\ corpus' = IF NewIn(map) = {} THEN corpus
                 ELSE Append(corpus, [input |-> i, seen |-> map,
                                      history_map |-> Merged(map)[Minimized]])

FeedbackTypeOK ==
    /\ history \in Maps
    /\ corpus \in Seq(Testcases)
    /\ reported \in [Metrics -> Nat \cup {NotReported}]

-----------------------------------------------------------------------------
(* Properties. *)

SeenBefore(k, m) == UNION {corpus[j].seen[m] : j \in 1..(k - 1)}
CoveredBefore(k, m) == UNION {corpus[j].input[m] : j \in 1..(k - 1)}

\* No coverage is lost or made up: the history of each metric (merged by
\* update_history_map) is what the entries of the corpus were seen to cover.
HistoryIsTheCorpus ==
    \A m \in Metrics : history[m] = SeenBefore(Len(corpus) + 1, m)

\* "only keep interesting ones in the corpus (i.e., coverage novelty)"
\* (fuzzers/cva6-vcs-fuzzer/README.md:70): each entry, run by itself, covers
\* something that the entries before it do not.
OnlyNovelInputsAreKept ==
    \A k \in 1..Len(corpus) :
        \E m \in Metrics : ~(corpus[k].input[m] \subseteq CoveredBefore(k, m))
=============================================================================
