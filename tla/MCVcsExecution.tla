--------------------------- MODULE MCVcsExecution ---------------------------
(***************************************************************************)
(* Small instances of VcsExecution for TLC.                                *)
(***************************************************************************)
EXTENDS VcsExecution, TLC

CONSTANTS line, tgl

LineAndToggle == {line, tgl}
OneMetric     == {line}

\* Inputs of which some cover what others do, in one metric or in both.
Covering(l, t) == [m \in LineAndToggle |-> IF m = line THEN l ELSE t]
SomeInputs == {Covering({1, 2}, {}), Covering({3}, {1}), Covering({1}, {1, 2}),
               Covering({}, {3})}
=============================================================================
