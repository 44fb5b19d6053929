-------------------------- MODULE ChipyardExecution --------------------------
(***************************************************************************)
(* An execution of the chipyard fuzzer.  SimvCommandConfigurator writes the    *)
(* testcase into an ELF file, runs it on Spike for 100 ms and then on the      *)
(* simulated Rocket core; both write what they commit into log files of the    *)
(* work directory.  The observers read the coverage database, as in            *)
(* VerdiShMap, and then the logs; DifferentialFeedback compares the lengths of  *)
(* the two traces, next to the coverage feedback.                            *)
(*                                                                         *)
(* One metric stands for the four of the fuzzer.  A line of a log is the       *)
(* instruction that it is for, or a message of the process; the last one of a   *)
(* killed process may be half a line, which the expressions of the parsers take *)
(* for a line or for none.                                                    *)
(***************************************************************************)
EXTENDS VerdiShMap

CONSTANTS
    Instructions,
    Messages,   \* the lines that are of no instruction
    Programs,   \* [model, core: what Spike and the core would log; ends; db]
    Writers     \* the instructions that write a register or memory

Lines == Instructions \cup Messages

ASSUME ChipyardAssumption ==
    /\ {} \in Databases
    /\ Writers \subseteq Instructions
    /\ \A p \in Programs :
           /\ DOMAIN p = {"model", "core", "ends", "db"}
           /\ p.model \in Seq(Lines) /\ p.core \in Seq(Lines)
           /\ p.ends \in BOOLEAN /\ p.db \in Databases

VARIABLES
    stage,          \* of the execution
    program,        \* testcase.elf
    spike_err,      \* the file of Spike's commits
    terminal_err,   \* the file of the core's
    traces,         \* the traces of the two observers
    kept            \* the corpus of the fuzzer: all feedbacks

executionVars == <<stage, program, spike_err, terminal_err, traces, kept>>
chipyardVars == <<vars, executionVars>>

NoProgram == [model |-> <<>>, core |-> <<>>, ends |-> TRUE, db |-> {}]
NoTraces == [spike |-> <<>>, rocket |-> <<>>]

ChipyardInit ==
    /\ Init
    /\ stage = "free" /\ program = NoProgram
    /\ spike_err = <<>> /\ terminal_err = <<>>
    /\ traces = NoTraces
    /\ kept = <<>>

-----------------------------------------------------------------------------
(* The executor. *)

\* Mutated: the file is not created anew.
BeginAppending(p) ==
    /\ stage = "free" /\ pc = "idle" /\ Len(kept) < MaxCorpus
    /\ stage' \in {"spike", "noSpike"}
    /\ program' = p
    /\ UNCHANGED <<vars, spike_err, terminal_err, traces, kept>>

\* generate_testcase; exec_spike creates its files and starts Spike, or fails to,
\* with a message.
Begin(p) ==
    /\ stage = "free" /\ pc = "idle" /\ Len(kept) < MaxCorpus
    /\ stage' \in {"spike", "noSpike"}
    /\ program' = p
    /\ spike_err' = <<>>
    /\ UNCHANGED <<vars, terminal_err, traces, kept>>

\* The files of the simulator are created, and it is started.
StartSimv ==
    /\ stage' = "simv"
    /\ terminal_err' = <<>>
    /\ UNCHANGED <<vars, program, traces, kept>>

NoSpike ==
    /\ stage = "noSpike"
    /\ UNCHANGED spike_err
    /\ StartSimv

SpikeExits ==
    /\ stage = "spike" /\ program.ends
    /\ spike_err' = program.model
    /\ StartSimv

\* Mutated: Spike is waited for.
SpikeIsLeft ==
    /\ stage = "spike" /\ program.ends
    /\ spike_err' = program.model
    /\ StartSimv

\* The 100 ms are over; whoever has not come to its end is cut short, and whoever
\* runs on may have committed all that is looked at.
SpikeKilled ==
    /\ stage = "spike"
    /\ \E k \in 0..Len(program.model) : spike_err' = SubSeq(program.model, 1, k)
    /\ StartSimv

\* +vcs+finish, the end of the program, or the timeout of the executor, which
\* may leave the database of the execution before.
SimvEnds ==
    /\ stage = "simv"
    /\ stage' = "observing"
    /\ \E k \in 0..Len(program.core) :
           /\ terminal_err' = SubSeq(program.core, 1, k)
           /\ Execute(program.db) \/ (k < Len(program.core) /\ Execute(db))
    /\ UNCHANGED <<program, spike_err, traces, kept>>

-----------------------------------------------------------------------------
(* The observers and the feedbacks. *)

ObserveCoverage ==
    /\ Fork \/ ForkFails \/ SeesExit \/ TimesOut \/ Reader
    /\ UNCHANGED executionVars

\* What is left of a log when all lines but those for these instructions are out.
LinesFor(instructions, log) ==
    LET lines[k \in 0..Len(log)] ==
            IF k = 0 THEN <<>>
            ELSE IF log[k] \in instructions
                 THEN Append(lines[k - 1], log[k]) ELSE lines[k - 1]
    IN  lines[Len(log)]

\* Spike has a name and a value behind the instruction where something is written,
\* which the second expression asks for; those of a store, which has "mem" for a
\* name, the first has taken before.  A branch that writes nothing has no match.
SpikeParse(log) == LinesFor(Writers, log)

\* The core has the registers of every instruction, with x0 where it has none.
RocketParse(log) == LinesFor(Instructions, log)

ObserveTraces ==
    /\ stage = "observing" /\ pc = "observed"
    /\ stage' = "traced"
    /\ traces' = [spike |-> SpikeParse(spike_err), rocket |-> RocketParse(terminal_err)]
    /\ UNCHANGED <<vars, program, spike_err, terminal_err, kept>>

Differs == Len(traces.rocket) # Len(traces.spike)

\* feedback_or: all are asked.
EvaluateAll ==
    /\ stage = "traced"
    /\ stage' = "free"
    /\ Evaluate
    /\ kept' = IF Interesting \/ Differs THEN Append(kept, program) ELSE kept
    /\ UNCHANGED <<program, spike_err, terminal_err, traces>>

Executor == NoSpike \/ SpikeExits \/ SpikeKilled \/ SimvEnds
Observed == ObserveTraces \/ EvaluateAll
CoverageParent == (Fork \/ ForkFails \/ SeesExit \/ TimesOut) /\ UNCHANGED executionVars

ChipyardNext ==
    \/ \E p \in Programs : Begin(p)
    \/ Executor
    \/ ObserveCoverage
    \/ Observed

\* Both timeouts come, and the fuzzer goes on; what runs below it may take as
\* long as it likes.
ChipyardSpec ==
    /\ ChipyardInit /\ [][ChipyardNext]_chipyardVars
    /\ WF_chipyardVars(Executor)
    /\ WF_chipyardVars(CoverageParent)
    /\ WF_chipyardVars(Observed)

-----------------------------------------------------------------------------
(* Properties. *)

IsPrefixOf(s, t) == Len(s) <= Len(t) /\ s = SubSeq(t, 1, Len(s))

\* The traces that are compared are of the program that was executed, each from its
\* beginning: no line of an execution before it, although Spike may not start and
\* either log may be cut short at any line (simv.rs:66, trace_observer.rs:143).
TracesAreOfTheProgram ==
    stage = "traced" =>
        /\ IsPrefixOf(traces.spike, SpikeParse(program.model))
        /\ IsPrefixOf(traces.rocket, RocketParse(program.core))

\* Every execution comes to its end, although a program may run on for ever and
\* the reader of the coverage may wait for a pipe that nobody reads.
ExecutionsEnd == (stage \in {"spike", "noSpike"}) ~> (stage = "free")
=============================================================================
