------------------------ MODULE MCVerilatorExecution ------------------------
(* Two elements in the map; designs with fewer lines, as many, and more. *)
EXTENDS VerilatorExecution

MCDesigns == 1..3
=============================================================================
