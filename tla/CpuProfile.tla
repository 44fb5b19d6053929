------------------------------ MODULE CpuProfile ------------------------------
(***************************************************************************)
(* The instructions the mutators know (cpu_profile.rs, generated from            *)
(* riscv-opcodes): of each the length in bytes, the bits that are fixed (mmatch), *)
(* those of them that are one (mask), and the fields its operands go to. The     *)
(* order counts: a word is taken for the first entry it matches.                *)
(*                                                                         *)
(* A word is the set of the bits of it that are one.                           *)
(***************************************************************************)
EXTENDS Integers, Sequences, TLC

\* Two halves of sixteen bits, the upper one first.
Bits(v) == {b \in 0..15 : (v \div 2^b) % 2 = 1}
Word(halves) == Bits(halves[2]) \cup {b + 16 : b \in Bits(halves[1])}

\* The operands, by the names riscv-opcodes gives them: their lowest and highest bit.
At(lsb, msb, names) == [name \in names |-> <<lsb, msb>>]
FieldsOfHalves ==
    At(2, 4, {"rd_p", "rs2_p"}) @@
    At(2, 6, {"c_bimm9lo", "c_imm6lo", "c_nzimm10lo", "c_nzimm18lo",
                  "c_nzimm6lo", "c_nzuimm5", "c_nzuimm6lo", "c_rs2", "c_rs2_n0",
                  "c_uimm8splo", "c_uimm9splo"}) @@
    At(2, 12, {"c_imm12"}) @@
    At(5, 6, {"c_uimm7lo", "c_uimm8lo"}) @@
    At(5, 12, {"c_nzuimm10"}) @@
    At(7, 9, {"rd_rs1_p", "rs1_p"}) @@
    At(7, 11, {"bimm12lo", "c_rs1_n0", "imm12lo", "rd", "rd_n0", "rd_n2",
                  "rd_rs1_n0", "rs1_n0"}) @@
    At(7, 12, {"c_uimm8sp_s", "c_uimm9sp_s"}) @@
    At(10, 12, {"c_bimm9hi", "c_uimm7hi", "c_uimm8hi"}) @@
    At(12, 12, {"c_imm6hi", "c_nzimm10hi", "c_nzimm18hi", "c_nzimm6hi",
                  "c_nzuimm6hi", "c_uimm8sphi", "c_uimm9sphi"})
FieldsOfWords ==
    At(12, 31, {"imm20", "jimm20"}) @@
    At(15, 19, {"rs1"}) @@
    At(20, 23, {"succ"}) @@
    At(20, 24, {"rs2", "shamtw"}) @@
    At(20, 25, {"shamtd"}) @@
    At(20, 31, {"imm12"}) @@
    At(24, 27, {"pred"}) @@
    At(25, 31, {"bimm12hi", "imm12hi"}) @@
    At(28, 31, {"fm"})

Fields == FieldsOfHalves @@ FieldsOfWords

I(mnemonic, length, mask, mmatch, operands) ==
    [ mnemonic |-> mnemonic, length |-> length, mask |-> Word(mask),
      mmatch |-> Word(mmatch), operands |-> [i \in DOMAIN operands |-> Fields[operands[i]]] ]

-----------------------------------------------------------------------------
(* INSTRUCTIONS, in its order. *)

AddToCAddi16Sp == <<
  I("ADD", 4, <<0, \h33>>, <<\hfe00, \h707f>>, <<"rd", "rs1", "rs2">>),
  I("ADDI", 4, <<0, \h13>>, <<0, \h707f>>, <<"rd", "rs1", "imm12">>),
  I("ADDIW", 4, <<0, \h1b>>, <<0, \h707f>>, <<"rd", "rs1", "imm12">>),
  I("ADDW", 4, <<0, \h3b>>, <<\hfe00, \h707f>>, <<"rd", "rs1", "rs2">>),
  I("AND", 4, <<0, \h7033>>, <<\hfe00, \h707f>>, <<"rd", "rs1", "rs2">>),
  I("ANDI", 4, <<0, \h7013>>, <<0, \h707f>>, <<"rd", "rs1", "imm12">>),
  I("AUIPC", 4, <<0, \h17>>, <<0, \h7f>>, <<"rd", "imm20">>),
  I("BEQ", 4, <<0, \h63>>, <<0, \h707f>>, <<"bimm12hi", "rs1", "rs2", "bimm12lo">>),
  I("BGE", 4, <<0, \h5063>>, <<0, \h707f>>, <<"bimm12hi", "rs1", "rs2", "bimm12lo">>),
  I("BGEU", 4, <<0, \h7063>>, <<0, \h707f>>, <<"bimm12hi", "rs1", "rs2", "bimm12lo">>),
  I("BLT", 4, <<0, \h4063>>, <<0, \h707f>>, <<"bimm12hi", "rs1", "rs2", "bimm12lo">>),
  I("BLTU", 4, <<0, \h6063>>, <<0, \h707f>>, <<"bimm12hi", "rs1", "rs2", "bimm12lo">>),
  I("BNE", 4, <<0, \h1063>>, <<0, \h707f>>, <<"bimm12hi", "rs1", "rs2", "bimm12lo">>),
  I("C_ADD", 2, <<0, \h9002>>, <<0, \hf003>>, <<"rd_rs1_n0", "c_rs2_n0">>),
  I("C_ADDI", 2, <<0, \h1>>, <<0, \he003>>, <<"rd_rs1_n0", "c_nzimm6lo", "c_nzimm6hi">>),
  I("C_ADDI16SP", 2, <<0, \h6101>>, <<0, \hef83>>, <<"c_nzimm10hi", "c_nzimm10lo">>) >>

CAddi4SpnToCLui == <<
  I("C_ADDI4SPN", 2, <<0, 0>>, <<0, \he003>>, <<"rd_p", "c_nzuimm10">>),
  I("C_ADDIW", 2, <<0, \h2001>>, <<0, \he003>>, <<"rd_rs1_n0", "c_imm6lo", "c_imm6hi">>),
  I("C_ADDW", 2, <<0, \h9c21>>, <<0, \hfc63>>, <<"rd_rs1_p", "rs2_p">>),
  I("C_AND", 2, <<0, \h8c61>>, <<0, \hfc63>>, <<"rd_rs1_p", "rs2_p">>),
  I("C_ANDI", 2, <<0, \h8801>>, <<0, \hec03>>, <<"rd_rs1_p", "c_imm6hi", "c_imm6lo">>),
  I("C_BEQZ", 2, <<0, \hc001>>, <<0, \he003>>, <<"rs1_p", "c_bimm9lo", "c_bimm9hi">>),
  I("C_BNEZ", 2, <<0, \he001>>, <<0, \he003>>, <<"rs1_p", "c_bimm9lo", "c_bimm9hi">>),
  I("C_EBREAK", 2, <<0, \h9002>>, <<0, \hffff>>, <<>>),
  I("C_J", 2, <<0, \ha001>>, <<0, \he003>>, <<"c_imm12">>),
  I("C_JAL", 2, <<0, \h2001>>, <<0, \he003>>, <<"c_imm12">>),
  I("C_JALR", 2, <<0, \h9002>>, <<0, \hf07f>>, <<"c_rs1_n0">>),
  I("C_JR", 2, <<0, \h8002>>, <<0, \hf07f>>, <<"rs1_n0">>),
  I("C_LD", 2, <<0, \h6000>>, <<0, \he003>>, <<"rd_p", "rs1_p", "c_uimm8lo", "c_uimm8hi">>),
  I("C_LDSP", 2, <<0, \h6002>>, <<0, \he003>>, <<"rd_n0", "c_uimm9sphi", "c_uimm9splo">>),
  I("C_LI", 2, <<0, \h4001>>, <<0, \he003>>, <<"rd_n0", "c_imm6lo", "c_imm6hi">>),
  I("C_LUI", 2, <<0, \h6001>>, <<0, \he003>>, <<"rd_n2", "c_nzimm18hi", "c_nzimm18lo">>) >>

CLwToCSw == <<
  I("C_LW", 2, <<0, \h4000>>, <<0, \he003>>, <<"rd_p", "rs1_p", "c_uimm7lo", "c_uimm7hi">>),
  I("C_LWSP", 2, <<0, \h4002>>, <<0, \he003>>, <<"rd_n0", "c_uimm8sphi", "c_uimm8splo">>),
  I("C_MV", 2, <<0, \h8002>>, <<0, \hf003>>, <<"rd_n0", "c_rs2_n0">>),
  I("C_NOP", 2, <<0, \h1>>, <<0, \hef83>>, <<"c_nzimm6hi", "c_nzimm6lo">>),
  I("C_OR", 2, <<0, \h8c41>>, <<0, \hfc63>>, <<"rd_rs1_p", "rs2_p">>),
  I("C_SD", 2, <<0, \he000>>, <<0, \he003>>, <<"rs1_p", "rs2_p", "c_uimm8hi", "c_uimm8lo">>),
  I("C_SDSP", 2, <<0, \he002>>, <<0, \he003>>, <<"c_rs2", "c_uimm9sp_s">>),
  I("C_SLLI", 2, <<0, \h2>>, <<0, \he003>>, <<"rd_rs1_n0", "c_nzuimm6hi", "c_nzuimm6lo">>),
  I("C_SLLI_RV32", 2, <<0, \h2>>, <<0, \hf003>>, <<"rd_rs1_n0", "c_nzuimm6lo">>),
  I("C_SRAI", 2, <<0, \h8401>>, <<0, \hec03>>, <<"rd_rs1_p", "c_nzuimm6lo", "c_nzuimm6hi">>),
  I("C_SRAI_RV32", 2, <<0, \h8401>>, <<0, \hfc03>>, <<"rd_rs1_p", "c_nzuimm5">>),
  I("C_SRLI", 2, <<0, \h8001>>, <<0, \hec03>>, <<"rd_rs1_p", "c_nzuimm6lo", "c_nzuimm6hi">>),
  I("C_SRLI_RV32", 2, <<0, \h8001>>, <<0, \hfc03>>, <<"rd_rs1_p", "c_nzuimm5">>),
  I("C_SUB", 2, <<0, \h8c01>>, <<0, \hfc63>>, <<"rd_rs1_p", "rs2_p">>),
  I("C_SUBW", 2, <<0, \h9c01>>, <<0, \hfc63>>, <<"rd_rs1_p", "rs2_p">>),
  I("C_SW", 2, <<0, \hc000>>, <<0, \he003>>, <<"rs1_p", "rs2_p", "c_uimm7lo", "c_uimm7hi">>) >>

CSwspToLh == <<
  I("C_SWSP", 2, <<0, \hc002>>, <<0, \he003>>, <<"c_rs2", "c_uimm8sp_s">>),
  I("C_XOR", 2, <<0, \h8c21>>, <<0, \hfc63>>, <<"rd_rs1_p", "rs2_p">>),
  I("DIV", 4, <<\h200, \h4033>>, <<\hfe00, \h707f>>, <<"rd", "rs1", "rs2">>),
  I("DIVU", 4, <<\h200, \h5033>>, <<\hfe00, \h707f>>, <<"rd", "rs1", "rs2">>),
  I("DIVUW", 4, <<\h200, \h503b>>, <<\hfe00, \h707f>>, <<"rd", "rs1", "rs2">>),
  I("DIVW", 4, <<\h200, \h403b>>, <<\hfe00, \h707f>>, <<"rd", "rs1", "rs2">>),
  I("EBREAK", 4, <<\h10, \h73>>, <<\hffff, \hffff>>, <<>>),
  I("ECALL", 4, <<0, \h73>>, <<\hffff, \hffff>>, <<>>),
  I("FENCE", 4, <<0, \hf>>, <<0, \h707f>>, <<"fm", "pred", "succ", "rs1", "rd">>),
  I("FENCE_TSO", 4, <<\h8330, \hf>>, <<\hfff0, \h707f>>, <<"rs1", "rd">>),
  I("JAL", 4, <<0, \h6f>>, <<0, \h7f>>, <<"rd", "jimm20">>),
  I("JALR", 4, <<0, \h67>>, <<0, \h707f>>, <<"rd", "rs1", "imm12">>),
  I("LB", 4, <<0, \h3>>, <<0, \h707f>>, <<"rd", "rs1", "imm12">>),
  I("LBU", 4, <<0, \h4003>>, <<0, \h707f>>, <<"rd", "rs1", "imm12">>),
  I("LD", 4, <<0, \h3003>>, <<0, \h707f>>, <<"rd", "rs1", "imm12">>),
  I("LH", 4, <<0, \h1003>>, <<0, \h707f>>, <<"rd", "rs1", "imm12">>) >>

LhuToRemw == <<
  I("LHU", 4, <<0, \h5003>>, <<0, \h707f>>, <<"rd", "rs1", "imm12">>),
  I("LUI", 4, <<0, \h37>>, <<0, \h7f>>, <<"rd", "imm20">>),
  I("LW", 4, <<0, \h2003>>, <<0, \h707f>>, <<"rd", "rs1", "imm12">>),
  I("LWU", 4, <<0, \h6003>>, <<0, \h707f>>, <<"rd", "rs1", "imm12">>),
  I("MUL", 4, <<\h200, \h33>>, <<\hfe00, \h707f>>, <<"rd", "rs1", "rs2">>),
  I("MULH", 4, <<\h200, \h1033>>, <<\hfe00, \h707f>>, <<"rd", "rs1", "rs2">>),
  I("MULHSU", 4, <<\h200, \h2033>>, <<\hfe00, \h707f>>, <<"rd", "rs1", "rs2">>),
  I("MULHU", 4, <<\h200, \h3033>>, <<\hfe00, \h707f>>, <<"rd", "rs1", "rs2">>),
  I("MULW", 4, <<\h200, \h3b>>, <<\hfe00, \h707f>>, <<"rd", "rs1", "rs2">>),
  I("OR", 4, <<0, \h6033>>, <<\hfe00, \h707f>>, <<"rd", "rs1", "rs2">>),
  I("ORI", 4, <<0, \h6013>>, <<0, \h707f>>, <<"rd", "rs1", "imm12">>),
  I("PAUSE", 4, <<\h100, \hf>>, <<\hffff, \hffff>>, <<>>),
  I("REM", 4, <<\h200, \h6033>>, <<\hfe00, \h707f>>, <<"rd", "rs1", "rs2">>),
  I("REMU", 4, <<\h200, \h7033>>, <<\hfe00, \h707f>>, <<"rd", "rs1", "rs2">>),
  I("REMUW", 4, <<\h200, \h703b>>, <<\hfe00, \h707f>>, <<"rd", "rs1", "rs2">>),
  I("REMW", 4, <<\h200, \h603b>>, <<\hfe00, \h707f>>, <<"rd", "rs1", "rs2">>) >>

SbToSrai == <<
  I("SB", 4, <<0, \h23>>, <<0, \h707f>>, <<"imm12hi", "rs1", "rs2", "imm12lo">>),
  I("SBREAK", 4, <<\h10, \h73>>, <<\hffff, \hffff>>, <<>>),
  I("SCALL", 4, <<0, \h73>>, <<\hffff, \hffff>>, <<>>),
  I("SD", 4, <<0, \h3023>>, <<0, \h707f>>, <<"imm12hi", "rs1", "rs2", "imm12lo">>),
  I("SH", 4, <<0, \h1023>>, <<0, \h707f>>, <<"imm12hi", "rs1", "rs2", "imm12lo">>),
  I("SLL", 4, <<0, \h1033>>, <<\hfe00, \h707f>>, <<"rd", "rs1", "rs2">>),
  I("SLLI", 4, <<0, \h1013>>, <<\hfc00, \h707f>>, <<"rd", "rs1", "shamtd">>),
  I("SLLI_RV32", 4, <<0, \h1013>>, <<\hfe00, \h707f>>, <<"rd", "rs1", "shamtw">>),
  I("SLLIW", 4, <<0, \h101b>>, <<\hfe00, \h707f>>, <<"rd", "rs1", "shamtw">>),
  I("SLLW", 4, <<0, \h103b>>, <<\hfe00, \h707f>>, <<"rd", "rs1", "rs2">>),
  I("SLT", 4, <<0, \h2033>>, <<\hfe00, \h707f>>, <<"rd", "rs1", "rs2">>),
  I("SLTI", 4, <<0, \h2013>>, <<0, \h707f>>, <<"rd", "rs1", "imm12">>),
  I("SLTIU", 4, <<0, \h3013>>, <<0, \h707f>>, <<"rd", "rs1", "imm12">>),
  I("SLTU", 4, <<0, \h3033>>, <<\hfe00, \h707f>>, <<"rd", "rs1", "rs2">>),
  I("SRA", 4, <<\h4000, \h5033>>, <<\hfe00, \h707f>>, <<"rd", "rs1", "rs2">>),
  I("SRAI", 4, <<\h4000, \h5013>>, <<\hfc00, \h707f>>, <<"rd", "rs1", "shamtd">>) >>

SraiRv32ToXori == <<
  I("SRAI_RV32", 4, <<\h4000, \h5013>>, <<\hfe00, \h707f>>, <<"rd", "rs1", "shamtw">>),
  I("SRAIW", 4, <<\h4000, \h501b>>, <<\hfe00, \h707f>>, <<"rd", "rs1", "shamtw">>),
  I("SRAW", 4, <<\h4000, \h503b>>, <<\hfe00, \h707f>>, <<"rd", "rs1", "rs2">>),
  I("SRL", 4, <<0, \h5033>>, <<\hfe00, \h707f>>, <<"rd", "rs1", "rs2">>),
  I("SRLI", 4, <<0, \h5013>>, <<\hfc00, \h707f>>, <<"rd", "rs1", "shamtd">>),
  I("SRLI_RV32", 4, <<0, \h5013>>, <<\hfe00, \h707f>>, <<"rd", "rs1", "shamtw">>),
  I("SRLIW", 4, <<0, \h501b>>, <<\hfe00, \h707f>>, <<"rd", "rs1", "shamtw">>),
  I("SRLW", 4, <<0, \h503b>>, <<\hfe00, \h707f>>, <<"rd", "rs1", "rs2">>),
  I("SUB", 4, <<\h4000, \h33>>, <<\hfe00, \h707f>>, <<"rd", "rs1", "rs2">>),
  I("SUBW", 4, <<\h4000, \h3b>>, <<\hfe00, \h707f>>, <<"rd", "rs1", "rs2">>),
  I("SW", 4, <<0, \h2023>>, <<0, \h707f>>, <<"imm12hi", "rs1", "rs2", "imm12lo">>),
  I("XOR", 4, <<0, \h4033>>, <<\hfe00, \h707f>>, <<"rd", "rs1", "rs2">>),
  I("XORI", 4, <<0, \h4013>>, <<0, \h707f>>, <<"rd", "rs1", "imm12">>) >>

INSTRUCTIONS ==
    AddToCAddi16Sp \o CAddi4SpnToCLui \o CLwToCSw \o
    CSwspToLh \o LhuToRemw \o SbToSrai \o
    SraiRv32ToXori
InstructionSet == {INSTRUCTIONS[i] : i \in DOMAIN INSTRUCTIONS}

\* An entry says by its two lowest bits how long it is; its operands have the bits
\* that it has not fixed.
IsEntry(entry) ==
    LET places == 0..(8 * entry.length - 1)
    IN /\ entry.length \in {2, 4} /\ (entry.length = 4 <=> {0, 1} \subseteq entry.mask)
       /\ {0, 1} \subseteq entry.mmatch
       /\ entry.mask \subseteq entry.mmatch /\ entry.mmatch \subseteq places
       /\ \A i \in DOMAIN entry.operands :
             LET field == entry.operands[i]
             IN /\ field[1] \in places /\ field[2] \in places
                /\ field[1]..field[2] \cap entry.mmatch = {}
ASSUME ProfileAssumption ==
    INSTRUCTIONS \in Seq(InstructionSet) /\ \A entry \in InstructionSet : IsEntry(entry)

-----------------------------------------------------------------------------
(* Building a word, and reading one. *)

\* A number, cut to the width of a field, at the field's place. Of a negative one
\* the low bits count, as in two's complement.
Placed(value, from, width, to) ==
    {to + b : b \in {n \in 0..(width - 1) : (value \div 2^(from + n)) % 2 = 1}}
build_operand(value, lsb, msb) == Placed(value, 0, msb - lsb + 1, lsb)

\* Operands are drawn below the largest number of their field, so that it is never
\* drawn; a field of one bit stays zero. Of a field the model takes one value by
\* one: the smallest, the next, the one with the top bit only, and the largest.
OpMax(field) == 2^(field[2] - field[1] + 1) - 1
DrawnOperands(field) ==
    {v \in {0, 1, 2^(field[2] - field[1]), OpMax(field) - 1} : v < OpMax(field)}

WordOf(entry, values) ==
    entry.mask \cup
        UNION {build_operand(values[i], entry.operands[i][1], entry.operands[i][2]) :
               i \in DOMAIN entry.operands}

BuiltOf(entry) ==
    {WordOf(entry, values) :
        values \in {f \in [DOMAIN entry.operands -> UNION {DrawnOperands(entry.operands[i]) :
                                                       i \in DOMAIN entry.operands}] :
                    \A i \in DOMAIN f : f[i] \in DrawnOperands(entry.operands[i])}}

Matching(word) == {i \in DOMAIN INSTRUCTIONS :
                     word \cap INSTRUCTIONS[i].mmatch = INSTRUCTIONS[i].mask}
IsKnown(word) == Matching(word) # {}
Decoded(word) == INSTRUCTIONS[CHOOSE i \in Matching(word) : \A j \in Matching(word) : i <= j]

\* Mutated: one of the two bits is looked at.
LengthOfOneBit(word) == IF 0 \in word THEN 4 ELSE 2
\* By the two lowest bits.
LengthOf(word) == IF {0, 1} \subseteq word THEN 4 ELSE 2
=============================================================================
