-------------------------- MODULE VerilatorExecution --------------------------
(***************************************************************************)
(* The hardware coverage fuzzer for Verilator: a testbench that takes the       *)
(* testcase from a pipe and writes its coverage counts to logs/coverage.dat      *)
(* when it ends, the observer that reads the counts into its map, and the        *)
(* feedback that compares the map with the history.                             *)
(*                                                                         *)
(* A testcase is represented by the counts that it gives, one for each line of    *)
(* the report; a report is the sequence of its counts.                          *)
(***************************************************************************)
EXTENDS Integers, Sequences

CONSTANTS
    Size,      \* the capacity of the map
    Designs,   \* the numbers of lines that the reports of the designs have
    MaxCount,  \* bound: the counts of a line
    MaxKept,   \* bound: testcases that are kept
    NoReport,  \* logs/ holds none
    Unreadable \* the last field of a line that was cut off

ASSUME VerilatorAssumption ==
    /\ Size \in Nat \ {0} /\ MaxCount \in Nat /\ MaxKept \in Nat
    /\ Designs \subseteq Nat

VARIABLES
    lines,   \* of the reports of the design
    pc,      \* where run_target and the evaluation are
    input, long, \* the testcase, and whether it is longer than the pipe holds
    phase,   \* of the simulation: "runs", "writes" its report, "done"
    report,  \* logs/coverage.dat
    mapped,  \* set_len was called: the map has elements
    map,     \* of the observer
    unset,   \* the map that is evaluated was the first one
    history, \* of the feedback
    kept     \* the corpus: the testcases with what was seen of them

simulationVars == <<lines, input, long, phase, report>>
feedbackVars == <<history, kept>>
vars == <<simulationVars, feedbackVars, pc, mapped, map, unset>>

Counts == 0..MaxCount
Maps == [1..Size -> Counts]
Inputs == [1..lines -> Counts]
Zeros == [k \in 1..Size |-> 0]

\* A report that lies there may be that of a fuzzer that ran before.
Init ==
    /\ lines \in Designs
    /\ pc = "idle"
    /\ input = [k \in 1..lines |-> 0] /\ long = FALSE
    /\ phase = "done"
    /\ report \in Inputs \cup {NoReport}
    /\ mapped = FALSE /\ map = Zeros /\ unset = FALSE
    /\ history = Zeros /\ kept = <<>>

-----------------------------------------------------------------------------
(* The testbench (tb/src/main.cpp): SimulateDUT comes to its end with the testcase, *)
(* at a $finish or at an opcode it does not know; the report is written after it,   *)
(* when the testbench is deleted.                                              *)

\* What a report may be when the writing of it has come to some point: the lines
\* so far, and one whose count lacks digits or is not there yet.
Shortened(n) == {c \in 0..n : c = 0 => n = 0} \cup {Unreadable}
PartsOf(i) ==
    {SubSeq(i, 1, k) : k \in 0..lines}
      \cup UNION {{Append(SubSeq(i, 1, k), c) : c \in Shortened(i[k + 1])} :
                      k \in 0..(lines - 1)}

BeginsReport ==
    /\ pc \in {"writing", "running"} /\ phase = "runs"
    /\ phase' = "writes"
    /\ report' \in PartsOf(input)
    /\ UNCHANGED <<feedbackVars, lines, pc, input, long, mapped, map, unset>>

EndsReport ==
    /\ pc \in {"writing", "running"} /\ phase = "writes"
    /\ phase' = "done"
    /\ report' = input
    /\ UNCHANGED <<feedbackVars, lines, pc, input, long, mapped, map, unset>>

\* A testbench that is aborted, by an assertion of the design or by a signal, is
\* never deleted: it leaves what it has written, which may be nothing.
Aborts ==
    /\ pc \in {"writing", "running"} /\ phase # "done"
    /\ phase' = "done"
    /\ UNCHANGED <<feedbackVars, lines, pc, input, long, report, mapped, map, unset>>

-----------------------------------------------------------------------------
(* The executor. *)

\* Mutated: pre_exec leaves the map of the execution before.
SpawnUncleared(i, l) ==
    /\ pc = "idle" /\ Len(kept) < MaxKept
    /\ pc' = "writing"
    /\ input' = i /\ long' = l
    /\ phase' = "runs"
    /\ UNCHANGED <<feedbackVars, lines, report, mapped, map, unset>>

\* pre_exec sets the elements that the map has, and the testbench is started. The
\* report of the execution before stays.
Spawn(i, l) ==
    /\ pc = "idle" /\ Len(kept) < MaxKept
    /\ pc' = "writing"
    /\ input' = i /\ long' = l
    /\ phase' = "runs"
    /\ map' = Zeros
    /\ UNCHANGED <<feedbackVars, lines, report, mapped, unset>>

\* What the pipe does not hold, the testbench has to read.
Written ==
    /\ pc = "writing"
    /\ long => phase = "runs"
    /\ pc' = "running"
    /\ UNCHANGED <<simulationVars, feedbackVars, mapped, map, unset>>

\* The testbench has ended, at an opcode it does not know or at $finish, and its
\* end of the pipe is closed: the error goes up to the fuzz_loop and ends it.
WriteFails ==
    /\ pc = "writing" /\ phase = "done"
    /\ pc' = "exited"
    /\ UNCHANGED <<simulationVars, feedbackVars, mapped, map, unset>>

Exits ==
    /\ pc = "running" /\ phase = "done"
    /\ pc' = "ended"
    /\ UNCHANGED <<simulationVars, feedbackVars, mapped, map, unset>>

\* Mutated: only a testbench that has come to its report is killed.
TimesOutWriting ==
    /\ pc = "running" /\ phase = "writes"
    /\ pc' = "ended"
    /\ phase' = "done"
    /\ UNCHANGED <<feedbackVars, lines, input, long, report, mapped, map, unset>>

\* The executor's timeout, which begins when the testcase is written.
TimesOut ==
    /\ pc = "running" /\ phase # "done"
    /\ pc' = "ended"
    /\ phase' = "done"
    /\ UNCHANGED <<feedbackVars, lines, input, long, report, mapped, map, unset>>

-----------------------------------------------------------------------------
(* The observer and the feedback. *)

Readable ==
    /\ report # NoReport
    /\ Len(report) <= Size
    /\ \A k \in 1..Len(report) : report[k] # Unreadable

\* post_exec, whatever the exit kind. The elements that set_len exposes the first
\* time are whatever lies in memory, unless the report has a line for them.
Observe ==
    /\ pc = "ended" /\ Readable
    /\ pc' = "observed"
    /\ mapped' = TRUE /\ unset' = ~mapped
    /\ \E memory \in IF mapped THEN {map} ELSE Maps :
         map' = [k \in 1..Size |-> IF k <= Len(report) THEN report[k] ELSE memory[k]]
    /\ UNCHANGED <<simulationVars, feedbackVars>>

\* The expect() for the report, the error for a count that does not parse, and the
\* index of a line that the map has no element for all end the fuzzer.
ObserverFails ==
    /\ pc = "ended" /\ ~Readable
    /\ pc' = "exited"
    /\ UNCHANGED <<simulationVars, feedbackVars, mapped, map, unset>>

\* Mutated: as much as before is enough.
AsMany(m) == \E k \in 1..Size : history[k] <= m[k] /\ m[k] > 0

Interesting(m) == \E k \in 1..Size : history[k] < m[k]

\* is_interesting: the whole map replaces the history, also where it is smaller.
Evaluate ==
    /\ pc = "observed"
    /\ pc' = "idle"
    /\ IF Interesting(map)
       THEN /\ history' = map
            /\ kept' = Append(kept, [input |-> input, seen |-> map, unset |-> unset])
       ELSE UNCHANGED feedbackVars
    /\ UNCHANGED <<simulationVars, mapped, map, unset>>

Executing ==
    \/ Written /\ ~long
    \/ WriteFails \/ Exits \/ TimesOut
    \/ Observe \/ ObserverFails \/ Evaluate

Next ==
    \/ \E i \in Inputs, l \in BOOLEAN : Spawn(i, l)
    \/ BeginsReport \/ EndsReport \/ Aborts
    \/ Written
    \/ WriteFails \/ Exits \/ TimesOut
    \/ Observe \/ ObserverFails \/ Evaluate

Spec == Init /\ [][Next]_vars

\* The steps of the fuzzer that do not wait for the testbench.
FairSpec == Spec /\ WF_vars(Executing)

-----------------------------------------------------------------------------
(* Properties. *)

\* The counts that a testcase is kept for are its own, or less where its report was
\* cut off, but for the first map that is evaluated: a report that an execution
\* before it left behind (post_exec reads it after a timeout as well) shows nothing
\* that the history does not have, and pre_exec leaves nothing in the elements for
\* which a report that was cut off has no line.
KeptForItsOwnCounts ==
    \A n \in 1..Len(kept) : ~kept[n].unset =>
      \A k \in 1..Size :
        kept[n].seen[k] <= IF k <= lines THEN kept[n].input[k] ELSE 0

\* The testcase after one that is kept, and was seen as a whole, is not the same
\* one again. (It may be the one before that: the history is replaced, and what
\* it had is new again.)
NotTheSameAgain ==
    \A n \in 1..(Len(kept) - 1) :
      (\A k \in 1..lines : k <= Size /\ kept[n].seen[k] = kept[n].input[k])
        => kept[n + 1].input # kept[n].input

\* Every execution comes to its evaluation or ends the fuzzer, also when the
\* testbench hangs, once the testcase is written; one that the pipe holds
\* is written without the testbench.
ExecutionsEnd ==
    (pc = "running" \/ (pc = "writing" /\ ~long)) ~> (pc \in {"idle", "exited"})
=============================================================================
