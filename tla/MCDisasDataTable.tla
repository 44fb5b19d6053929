--------------------------- MODULE MCDisasDataTable ---------------------------
(***************************************************************************)
(* A small instance of DisasDataTable for TLC: a compressed branch that reaches  *)
(* four bytes back and two ahead, and a jump that reaches further. HalfI16 is   *)
(* small enough for a distance to be cut to one that the branch reaches.       *)
(***************************************************************************)
EXTENDS DisasDataTable, TLC

Sizes == "c.li" :> 2 @@ "addi" :> 4 @@ "c.beqz" :> 2 @@ "jal" :> 4
Reaches == "c.beqz" :> 4 @@ "jal" :> 8

I(kind, offset) == [kind |-> kind, offset |-> offset]

SomePrograms ==
    { <<I("c.beqz", 2), I("addi", 0)>>,
      <<I("addi", 0), I("c.beqz", -4)>>,
      <<I("addi", 0), I("c.beqz", -2)>>,
      <<I("jal", 6), I("c.li", 0), I("addi", 0)>>,
      <<I("c.li", 0), I("jal", -4)>>,
      <<I("c.beqz", 2), I("jal", -2)>>,
      <<I("jal", 0), I("c.beqz", 2)>>,
      <<>> }
=============================================================================
