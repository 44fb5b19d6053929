----------------------- MODULE MCHWMinimizerScheduler -----------------------
(***************************************************************************)
(* Small instances of HWMinimizerScheduler for TLC.                        *)
(***************************************************************************)
EXTENDS HWMinimizerScheduler, TLC

CONSTANT cond

Condition == {cond}
=============================================================================
