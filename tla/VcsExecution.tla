----------------------------- MODULE VcsExecution -----------------------------
(***************************************************************************)
(* One execution after the other in the work directory of a client: the      *)
(* executor spawns the simulator, waits for it or kills it at the timeout,    *)
(* and the observers then read the coverage report that lies there.          *)
(*                                                                         *)
(* The cva6 fuzzer (executor "command") spawns a shell that runs the simulator, *)
(* so that the kill may reach the shell alone; the simulation then goes on, and *)
(* writes its report later. The secworks and opentitan fuzzers (executor       *)
(* "inProcess") spawn the simulator from a harness, with pipes nobody reads and  *)
(* a timeout of 20 seconds, under a TimeoutExecutor of 20 seconds: when the      *)
(* alarm of that comes first the client is gone, and the simulation is not.     *)
(* A client that is started again works in a directory of its own.            *)
(***************************************************************************)
EXTENDS CoverageFeedback

CONSTANTS
    Executors,    \* the executors that are looked at
    Imported,     \* the coverage of the testcases that other clients hand over
    MaxOrphans,   \* bound: simulations that run on at a time
    MaxStarts,    \* bound: how often the client is started
    NoReport,     \* the directory copied from the build holds none
    Torn          \* a simulation is writing it, or was killed then

ASSUME ExecutionAssumption ==
    /\ Executors \subseteq {"command", "inProcess"}
    /\ Imported \subseteq Maps
    /\ MaxOrphans \in Nat /\ MaxStarts \in Nat
    /\ NoReport \notin Maps /\ Torn \notin Maps

VARIABLES
    executor,
    starts,   \* how often the client was started
    pc,       \* where run_target and the evaluation are
    input,    \* the input that is executed
    testcase, \* the input that the file holds which the simulator reads
    phase,    \* of its simulation: "runs", "writes" its report, "blocked", "done"
    orphans,  \* the simulations that nobody waits for: their input and phase
    report,   \* the coverage report in the work directory
    map,      \* the observers' maps
    stray     \* history: a simulation was left running, or a testcase was not
              \*   written, here or at a client whose testcase was imported

clientVars == <<executor, starts>>
execVars == <<clientVars, pc, input, testcase, phase, orphans, report, map>>
vars == <<feedbackVars, execVars, stray>>

NoMap == [m \in Metrics |-> {}]

\* Without a testcase the simulator drives nothing into the design.
Init ==
    /\ FeedbackInit
    /\ executor \in Executors
    /\ starts = 1
    /\ pc = "idle"
    /\ input = NoMap /\ testcase = NoMap
    /\ phase = "done"
    /\ orphans = {}
    /\ report = NoReport
    /\ map = NoMap
    /\ stray = FALSE

-----------------------------------------------------------------------------
\* pre_exec clears the maps; the report of the execution before stays.
Spawn(i) ==
    /\ pc = "idle" /\ Len(corpus) < MaxCorpus
    /\ pc' = "running"
    /\ input' = i
    /\ phase' = "runs"
    /\ map' = NoMap
    /\ UNCHANGED <<feedbackVars, clientVars, orphans, report>>

Execute(i) ==
    /\ Spawn(i)
    /\ testcase' = i
    /\ UNCHANGED stray

\* simv_spawn_child prints a message when it cannot write the testcase, and goes on
\* with the file of the execution before.
ExecuteUnwritten(i) ==
    /\ executor = "inProcess"
    /\ Spawn(i)
    /\ stray' = (stray \/ testcase # i)
    /\ UNCHANGED testcase

\* A SyncFromDiskStage hands over what the observers of another client had seen,
\* which may be another input's report there too.
Import(i, seen) ==
    /\ pc = "idle" /\ Len(corpus) < MaxCorpus
    /\ Process(i, seen)
    /\ stray' = (stray \/ seen # i)
    /\ UNCHANGED execVars

SimulatorBeginsReport ==
    /\ pc = "running" /\ phase = "runs"
    /\ phase' = "writes"
    /\ report' = Torn
    /\ UNCHANGED <<feedbackVars, clientVars, pc, input, testcase, orphans, map, stray>>

\* Standard output and error are pipes that the harness does not read.
SimulatorBlocks ==
    /\ executor = "inProcess"
    /\ pc = "running" /\ phase \in {"runs", "writes"}
    /\ phase' = "blocked"
    /\ UNCHANGED <<feedbackVars, clientVars, pc, input, testcase, orphans, report, map, stray>>

SimulatorEnds ==
    /\ pc = "running" /\ phase = "writes"
    /\ phase' = "done"
    /\ report' = testcase
    /\ UNCHANGED <<feedbackVars, clientVars, pc, input, testcase, orphans, map, stray>>

Exits ==
    /\ pc = "running" /\ phase = "done"
    /\ pc' = "ended"
    /\ UNCHANGED <<feedbackVars, clientVars, input, testcase, phase, orphans, report, map, stray>>

\* Mutated: a simulation that has not come to its report is waited for.
TimesOutLate ==
    /\ pc = "running" /\ phase = "writes"
    /\ pc' = "ended"
    /\ phase' = "done"
    /\ UNCHANGED <<feedbackVars, clientVars, input, testcase, orphans, report, map, stray>>

LeavesOrphan ==
    /\ Cardinality(orphans) < MaxOrphans
    /\ orphans' = orphans \cup {[input |-> testcase, phase |-> phase]}

\* The timeout is over: the child is killed, with its simulation or without; that
\* of a harness is the simulation.
TimesOut ==
    /\ pc = "running" /\ phase # "done"
    /\ pc' = "ended"
    /\ phase' = "done"
    /\ \/ UNCHANGED <<orphans, stray>>
       \/ executor = "command" /\ LeavesOrphan /\ stray' = TRUE
    /\ UNCHANGED <<feedbackVars, clientVars, input, testcase, report, map>>

\* The alarm of the TimeoutExecutor, which is set before the harness starts to
\* wait: the client ends, and its simulation goes on in the directory.
AlarmFires ==
    /\ executor = "inProcess"
    /\ pc = "running"
    /\ pc' = "dead"
    /\ phase' = "done"
    /\ IF phase = "done" THEN UNCHANGED orphans ELSE LeavesOrphan
    /\ UNCHANGED <<feedbackVars, clientVars, input, testcase, report, map, stray>>

OrphanBeginsReport(o) ==
    /\ o.phase = "runs"
    /\ orphans' = (orphans \ {o}) \cup {[o EXCEPT !.phase = "writes"]}
    /\ report' = Torn
    /\ UNCHANGED <<feedbackVars, clientVars, pc, input, testcase, phase, map, stray>>

OrphanEnds(o) ==
    /\ o.phase = "writes"
    /\ orphans' = orphans \ {o}
    /\ report' = o.input
    /\ UNCHANGED <<feedbackVars, clientVars, pc, input, testcase, phase, map, stray>>

Orphan == \E o \in orphans : OrphanBeginsReport(o) \/ OrphanEnds(o)

\* Mutated: the report is taken as it is.
ObserveAnything ==
    /\ pc = "ended"
    /\ pc' = "observed"
    /\ map' = report
    /\ UNCHANGED <<feedbackVars, clientVars, input, testcase, phase, orphans, report, stray>>

\* post_exec, whatever the exit kind.
Observe ==
    /\ pc = "ended" /\ report \in Maps
    /\ pc' = "observed"
    /\ map' = report
    /\ UNCHANGED <<feedbackVars, clientVars, input, testcase, phase, orphans, report, stray>>

\* The expect()s of post_exec: no report, or one that does not unzip.
ObserverPanics ==
    /\ pc = "ended" /\ report \notin Maps
    /\ pc' = "dead"
    /\ UNCHANGED <<feedbackVars, clientVars, input, testcase, phase, orphans, report, map, stray>>

Evaluate ==
    /\ pc = "observed"
    /\ pc' = "idle"
    /\ Process(input, map)
    /\ UNCHANGED <<clientVars, input, testcase, phase, orphans, report, map, stray>>

\* Mutated: in the directory that is there.
RestartInPlace ==
    /\ pc = "dead" /\ starts < MaxStarts
    /\ starts' = starts + 1
    /\ history' = NoMap /\ corpus' = <<>>
    /\ reported' = [m \in Metrics |-> NotReported]
    /\ pc' = "idle" /\ map' = NoMap /\ stray' = FALSE
    /\ UNCHANGED <<executor, input, testcase, phase, orphans, report>>

\* Someone starts the client again; nothing in the repository does. The state that
\* run_client is handed is not looked at, and the work directory is a new copy of
\* the build: what still runs in the old one does no harm.
Restart ==
    /\ pc = "dead" /\ starts < MaxStarts
    /\ starts' = starts + 1
    /\ history' = NoMap /\ corpus' = <<>>
    /\ reported' = [m \in Metrics |-> NotReported]
    /\ pc' = "idle"
    /\ input' = NoMap /\ testcase' = NoMap
    /\ phase' = "done" /\ orphans' = {}
    /\ report' = NoReport
    /\ map' = NoMap
    /\ stray' = FALSE
    /\ UNCHANGED executor

Executing ==
    \/ Exits \/ TimesOut \/ AlarmFires \/ Observe \/ ObserverPanics \/ Evaluate

Next ==
    \/ \E i \in Inputs : Execute(i) \/ ExecuteUnwritten(i)
    \/ \E i, seen \in Imported : Import(i, seen)
    \/ SimulatorBeginsReport \/ SimulatorBlocks \/ SimulatorEnds
    \/ Executing
    \/ Orphan
    \/ Restart

Spec == Init /\ [][Next]_vars

\* The executor's own steps; a simulation may take as long as it likes.
FairSpec == Spec /\ WF_vars(Executing)

-----------------------------------------------------------------------------
(* Properties. *)

Phases == {"runs", "writes", "blocked", "done"}

\* The history, the corpus and the maps keep their shape, and a map that is
\* evaluated is a report that was whole when post_exec read it.
TypeOK ==
    /\ FeedbackTypeOK
    /\ pc \in {"idle", "running", "ended", "observed", "dead"}
    /\ executor \in Executors /\ starts \in Nat
    /\ input \in Maps /\ testcase \in Maps
    /\ phase \in Phases
    /\ orphans \subseteq [input : Maps, phase : Phases]
    /\ report \in Maps \cup {NoReport, Torn}
    /\ map \in Maps
    /\ stray \in BOOLEAN

\* As long as the kill reaches the simulations and the testcases are written, what
\* the observers had of an entry of the corpus is what its input covers, not the
\* report that an execution before it left behind in the directory (post_exec reads
\* it after a timeout as well), nor that of a simulation whose client is gone.
SeenIsTheInputs ==
    ~stray => \A k \in 1..Len(corpus) : corpus[k].seen = corpus[k].input

\* Under the same conditions, each entry of the corpus covers
\* something that the entries before it do not, so that the corpus has no
\* superfluous ones (is_interesting of every metric, under feedback_or).
OnlyNovelIsKept == ~stray => OnlyNovelInputsAreKept

\* The coverage score that is plotted over time does not go down
\* (coverage_<metric>, fired with the covered count of the history), as long as the
\* client is not started again.
ReportsNeverShrink ==
    [][starts' = starts => \A m \in Metrics : reported'[m] >= reported[m]]_vars

\* Every execution ends in an evaluation or the end of the client, also when the
\* simulation hangs (exec_timeout) or waits for a pipe to be read.
ExecutionsEnd == (pc = "running") ~> (pc \in {"idle", "dead"})
=============================================================================
