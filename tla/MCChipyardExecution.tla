------------------------- MODULE MCChipyardExecution -------------------------
(***************************************************************************)
(* A small instance of ChipyardExecution for TLC: three blocks of coverage,    *)
(* one of two points, maps with room for all of them and for all but one, and     *)
(* four programs: one on which the core agrees with Spike, a loop with a branch    *)
(* and messages in its logs, one that stores, and one on which they differ.      *)
(***************************************************************************)
EXTENDS ChipyardExecution, TLC

OneTwoOne == <<1, 2, 1>>

SomeDatabases ==
    { {<<1, 1>>, <<2, 1>>}, {<<2, 2>>}, {<<2, 1>>, <<2, 2>>, <<3, 1>>},
      {<<1, 1>>, <<3, 1>>}, {} }

Program(model, core, ends, covers) ==
    [model |-> model, core |-> core, ends |-> ends, db |-> covers]

SomePrograms ==
    { Program(<<"addi">>, <<"addi">>, TRUE, {<<1, 1>>, <<2, 1>>}),
      Program(<<"warning", "lw", "beq">>, <<"lw", "beq", "finish">>, FALSE, {<<2, 2>>}),
      Program(<<"sw">>, <<"sw">>, TRUE, {<<2, 1>>, <<2, 2>>, <<3, 1>>}),
      Program(<<"addi">>, <<"addi", "addi">>, TRUE, {<<1, 1>>, <<3, 1>>}) }
=============================================================================
