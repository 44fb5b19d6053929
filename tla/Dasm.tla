--------------------------------- MODULE Dasm ---------------------------------
(***************************************************************************)
(* Instructions as bytes, and as what a disassembler says of them               *)
(* (libpresifuzz_riscv/src/dasm): how a string of bytes is divided into           *)
(* instructions of two and of four bytes, how branches are encoded, and how the   *)
(* text of spike-dasm is read back.                                            *)
(*                                                                         *)
(* A byte is the set of its bits that are one, a word that of an instruction, an  *)
(* instruction the sequence of its bytes in memory (RiscvInstruction keeps them   *)
(* as a number whose first byte is the highest).                               *)
(***************************************************************************)
EXTENDS CpuProfile, SequencesExt

\* What is no word, and no program.
Err == {-1}
ErrBytes == <<<<Err>>>>

\* The two bits that say that an instruction has four bytes.
Long(byte) == {0, 1} \subseteq byte

ByteOf(word, k) == {b - 8 * k : b \in {n \in word : n \div 8 = k}}
BytesOf(word, length) == [k \in 1..length |-> ByteOf(word, k - 1)]
WordOfBytes(bytes) == UNION {{b + 8 * (k - 1) : b \in bytes[k]} : k \in DOMAIN bytes}

-----------------------------------------------------------------------------
(* Dividing a string of bytes. All readers have the same loop: a cursor takes    *)
(* what is read where it is, and moves on, as long as there are two bytes.        *)

Cursors(bytes) == 1..(Len(bytes) - 1)

\* What is read from each place on, with what is read and the step taken there.
ReadFrom(n, read, step) ==
    LET from[k \in 1..(n + 3)] == IF k >= n THEN <<>> ELSE read[k] \o from[k + step[k]]
    IN from

Divided(bytes, read, step) == ReadFrom(Len(bytes), read, step)[1]

Chunk(bytes, k, n) == SubSeq(bytes, k, k + n - 1)

\* Whether four bytes are there, of which the one that is looked at has both bits.
HasFour(bytes, k, at) == k + 3 <= Len(bytes) /\ Long(bytes[at])

\* A byte that is left over is dropped, and two are an instruction whatever they say.
LeStep(bytes) == [k \in Cursors(bytes) |-> IF HasFour(bytes, k, k) THEN 4 ELSE 2]
from_le(bytes) ==
    LET step == LeStep(bytes)
    IN Divided(bytes, [k \in Cursors(bytes) |-> <<Chunk(bytes, k, step[k])>>], step)

\* Whether there are four bytes is looked up in the fourth, which is the first of
\* an instruction of four bytes.
BeStep(bytes) == [k \in Cursors(bytes) |-> IF HasFour(bytes, k, k + 3) THEN 4 ELSE 2]
DividedBe(bytes) ==
    LET step == BeStep(bytes)
    IN Divided(bytes, [k \in Cursors(bytes) |-> <<Reverse(Chunk(bytes, k, step[k]))>>], step)

IsSane(ins) == \A i \in DOMAIN ins : Long(ins[i][1]) <=> Len(ins[i]) = 4

from_be(bytes) == IF IsSane(DividedBe(bytes)) THEN DividedBe(bytes) ELSE ErrBytes

\* Mutated: as from_be, without the check.
from_be_lossyUnchecked(bytes) == DividedBe(bytes)

\* Halves that are each in the other order are tried before two bytes are taken for
\* an instruction; two bytes at the end that are not are left out.
LossyStep(bytes) ==
    [k \in Cursors(bytes) |->
        IF HasFour(bytes, k, k + 3) \/ HasFour(bytes, k, k + 1) THEN 4 ELSE 2]
LossyRead(bytes) ==
    [k \in Cursors(bytes) |->
        CASE HasFour(bytes, k, k + 3) -> <<Reverse(Chunk(bytes, k, 4))>>
          [] ~HasFour(bytes, k, k + 3) /\ ~Long(bytes[k + 1]) -> <<Reverse(Chunk(bytes, k, 2))>>
          [] ~HasFour(bytes, k, k + 3) /\ HasFour(bytes, k, k + 1) ->
                <<Reverse(Chunk(bytes, k, 2)) \o Reverse(Chunk(bytes, k + 2, 2))>>
          [] OTHER -> <<>>]
from_be_lossy(bytes) == Divided(bytes, LossyRead(bytes), LossyStep(bytes))

serialize(ins) == FlattenSeq(ins)

\* ISAInput::new divides by itself: by the first byte too, but half an instruction
\* of four is a slice out of range, and what INSTRUCTIONS has not is dropped.
Parsed(bytes) ==
    LET step == [k \in Cursors(bytes) |-> IF Long(bytes[k]) THEN 4 ELSE 2]
        Ins(k) == Chunk(bytes, k, step[k])
    IN Divided(bytes, [k \in Cursors(bytes) |-> IF IsKnown(WordOfBytes(Ins(k)))
                                              THEN <<Ins(k)>> ELSE <<>>], step)
Panics(bytes) ==
    LET last == IF from_le(bytes) = <<>> THEN <<{}>> ELSE Last(from_le(bytes))
    IN Long(last[1]) /\ Len(last) = 2

-----------------------------------------------------------------------------
(* Branches. A generator answers a word, or Err: for a register it has no field    *)
(* for and, if it is to be safe, for an offset.                                 *)

Even(offset) == offset % 2 = 0
\* Mutated: the end of the range is taken for part of it.
WithinInclusive(offset, reach) == -reach <= offset /\ offset <= reach
Within(offset, reach) == -reach <= offset /\ offset < reach

Checked(regs, largest, offset, reach, safe, word) ==
    IF (\E r \in regs : r > largest) \/ (safe /\ ~(Even(offset) /\ Within(offset, reach)))
    THEN Err
    ELSE word

gen_jal(reg, offset, safe) ==
    Checked({reg}, 31, offset, 2^20, safe,
        Word(<<0, \h6f>>) \cup Placed(reg, 0, 5, 7)
            \cup Placed(offset, 12, 8, 12) \cup Placed(offset, 11, 1, 20)
            \cup Placed(offset, 1, 10, 21) \cup Placed(offset, 20, 1, 31))

gen_jalr(reg1, reg2, offset) ==
    Checked({reg1, reg2}, 31, offset, 2^20, FALSE,
        Word(<<0, \h67>>) \cup Placed(reg1, 0, 5, 7) \cup Placed(reg2, 0, 5, 15)
            \cup Placed(offset, 0, 12, 20))

gen_cj(offset, safe) ==
    Checked({}, 31, offset, 2048, safe,
        Word(<<0, \ha001>>)
            \cup Placed(offset, 5, 1, 2) \cup Placed(offset, 1, 3, 3)
            \cup Placed(offset, 7, 1, 6) \cup Placed(offset, 6, 1, 7)
            \cup Placed(offset, 10, 1, 8) \cup Placed(offset, 8, 2, 9)
            \cup Placed(offset, 4, 1, 11) \cup Placed(offset, 11, 1, 12))

gen_cjr(reg) == Checked({reg}, 31, 0, 2, FALSE, Word(<<0, \h8002>>) \cup Placed(reg, 0, 5, 7))
gen_cjalr(reg) == Checked({reg}, 31, 0, 2, FALSE, Word(<<0, \h9002>>) \cup Placed(reg, 0, 5, 7))

btypes == [beq |-> 0, bne |-> 1, blt |-> 4, bge |-> 5, bltu |-> 6, bgeu |-> 7]

gen_branch(reg1, reg2, offset, btype, safe) ==
    Checked({reg1, reg2}, 31, offset, 4096, safe,
        Word(<<0, \h63>>) \cup Placed(btype, 0, 3, 12)
            \cup Placed(reg1, 0, 5, 15) \cup Placed(reg2, 0, 5, 20)
            \cup Placed(offset, 1, 4, 8) \cup Placed(offset, 5, 6, 25)
            \cup Placed(offset, 11, 1, 7) \cup Placed(offset, 12, 1, 31))

CompressedBranch(opcode, reg, offset, safe) ==
    Checked({reg}, 7, offset, 256, safe,
        Word(<<0, opcode>>) \cup Placed(reg, 0, 3, 7)
            \cup Placed(offset, 5, 1, 2) \cup Placed(offset, 1, 2, 3)
            \cup Placed(offset, 6, 2, 5) \cup Placed(offset, 3, 2, 10)
            \cup Placed(offset, 8, 1, 12))
gen_cbeqz(reg, offset, safe) == CompressedBranch(\hc001, reg, offset, safe)
gen_cbnez(reg, offset, safe) == CompressedBranch(\he001, reg, offset, safe)

\* What a generator writes of a branch whatever its operands are is what the table
\* has fixed of it.
Fixes(mnemonic, length, places, opcode) ==
    \A entry \in InstructionSet :
        entry.mnemonic = mnemonic =>
            entry.length = length /\ entry.mmatch = places /\ entry.mask = opcode
FixesBranch(mnemonic, btype) ==
    Fixes(mnemonic, 4, 0..6 \cup 12..14, Word(<<0, \h63>>) \cup Placed(btype, 0, 3, 12))
ASSUME BranchAssumption ==
    /\ Fixes("JAL", 4, 0..6, Word(<<0, \h6f>>))
    /\ Fixes("C_J", 2, 0..1 \cup 13..15, Word(<<0, \ha001>>))
    /\ Fixes("C_BEQZ", 2, 0..1 \cup 13..15, Word(<<0, \hc001>>))
    /\ Fixes("C_BNEZ", 2, 0..1 \cup 13..15, Word(<<0, \he001>>))
    /\ FixesBranch("BEQ", btypes["beq"]) /\ FixesBranch("BNE", btypes["bne"])
    /\ FixesBranch("BLT", btypes["blt"]) /\ FixesBranch("BGE", btypes["bge"])
    /\ FixesBranch("BLTU", btypes["bltu"]) /\ FixesBranch("BGEU", btypes["bgeu"])

-----------------------------------------------------------------------------
(* The text of a disassembler (not of this repository). An argument is a register, *)
(* where a branch leads to, or an offset with or without a register.            *)

Bit(word, b) == IF b \in word THEN 1 ELSE 0

\* Some bits of a word as a number, from the highest one down.
Part(word, lsb, width) ==
    LET upto[n \in 0..width] ==
            IF n = 0 THEN 0 ELSE 2 * upto[n - 1] + Bit(word, lsb + width - n)
    IN upto[width]

BOffset(w) == 2 * Part(w, 8, 4) + 32 * Part(w, 25, 6) + 2048 * Part(w, 7, 1)
              - 4096 * Part(w, 31, 1)
JOffset(w) == 2 * Part(w, 21, 10) + 2048 * Part(w, 20, 1) + 4096 * Part(w, 12, 8)
              - 2^20 * Part(w, 31, 1)
IOffset(w) == Part(w, 20, 11) - 2048 * Part(w, 31, 1)
CBOffset(w) ==
    2 * Part(w, 3, 2) + 8 * Part(w, 10, 2) + 32 * Part(w, 2, 1) + 64 * Part(w, 5, 2)
        - 256 * Part(w, 12, 1)
CJOffset(w) ==
    2 * Part(w, 3, 3) + 16 * Part(w, 11, 1) + 32 * Part(w, 2, 1) + 64 * Part(w, 7, 1)
        + 128 * Part(w, 6, 1) + 256 * Part(w, 9, 2) + 1024 * Part(w, 8, 1) - 2048 * Part(w, 12, 1)

Text(mnemonic, args) == [mnemonic |-> mnemonic, args |-> args]

Shortened == [beq |-> "beqz", bne |-> "bnez", blt |-> "bltz", bge |-> "bgez"]

\* Disassemblers differ in the names of registers, in how they write a target, and
\* in whether they have short forms for what uses x0.
DisassembledAs(entry, w, Name(_), To(_), short) ==
    LET Reg(lsb) == <<"reg", Name(Part(w, lsb, 5))>>
        Near(lsb) == <<"reg", Name(Part(w, lsb, 3) + 8)>>
        B(mnemonic) ==
            IF short /\ Part(w, 20, 5) = 0 /\ mnemonic \in DOMAIN Shortened
            THEN Text(Shortened[mnemonic], <<Reg(15), To(BOffset(w))>>)
            ELSE Text(mnemonic, <<Reg(15), Reg(20), To(BOffset(w))>>)
        rd == Part(w, 7, 5)
        base == Part(w, 15, 5)
    IN CASE entry = "none" -> Text(IF short THEN "unknown" ELSE ".2byte", <<>>)
         [] entry = "BEQ" -> B("beq") [] entry = "BNE" -> B("bne")
         [] entry = "BLT" -> B("blt") [] entry = "BGE" -> B("bge")
         [] entry = "BLTU" -> B("bltu") [] entry = "BGEU" -> B("bgeu")
         [] entry = "JAL" ->
                IF short /\ rd \in {0, 1}
                THEN Text(IF rd = 0 THEN "j" ELSE "jal", <<To(JOffset(w))>>)
                ELSE Text("jal", <<Reg(7), To(JOffset(w))>>)
         [] entry = "JALR" /\ ~short -> Text("jalr", <<Reg(7), <<"at", IOffset(w), Name(base)>>>>)
         [] entry = "JALR" /\ short ->
                IF IOffset(w) # 0 \/ rd \notin {0, 1}
                THEN Text("jalr", <<Reg(7), Reg(15), <<"number", IOffset(w)>>>>)
                ELSE IF rd = 0 /\ base = 1 THEN Text("ret", <<>>)
                ELSE Text(IF rd = 0 THEN "jr" ELSE "jalr", <<Reg(15)>>)
         [] entry = "C_J" -> Text("c.j", <<To(CJOffset(w))>>)
         [] entry = "C_BEQZ" -> Text("c.beqz", <<Near(7), To(CBOffset(w))>>)
         [] entry = "C_BNEZ" -> Text("c.bnez", <<Near(7), To(CBOffset(w))>>)
         [] entry = "C_JR" -> IF short /\ Part(w, 7, 5) = 1
                              THEN Text("ret", <<>>) ELSE Text("c.jr", <<Reg(7)>>)
         [] entry = "C_ADD" /\ Part(w, 2, 5) = 0 ->
                IF Part(w, 7, 5) = 0 THEN Text("c.ebreak", <<>>) ELSE Text("c.jalr", <<Reg(7)>>)
         [] OTHER -> Text("other", <<Reg(7)>>)
Disassembled(w, Name(_), To(_), short) ==
    DisassembledAs(IF IsKnown(w) THEN Decoded(w).mnemonic ELSE "none", w, Name, To, short)

\* spike-dasm names four registers; objdump numbers them all (-Mnumeric -Mno-aliases).
reg_to_str_spike(reg) ==
    IF reg \in 1..4 THEN <<(<<"ra", "sp", "gp", "tp">>)[reg]>> ELSE <<"x", reg>>

SpikeText(w) == Disassembled(w, reg_to_str_spike, LAMBDA offset : <<"pc", offset>>, TRUE)
ObjdumpText(w, address) ==
    Disassembled(w, LAMBDA reg : <<"x", reg>>,
                 LAMBDA offset : <<"address", address + offset>>, FALSE)

-----------------------------------------------------------------------------
(* Reading that text. A type is its name and what it carries.                   *)

process_register(name) ==
    IF name[1] = "x"
    THEN name[2]
    ELSE [zero |-> 0, ra |-> 1, sp |-> 2, gp |-> 3, tp |-> 4, t0 |-> 5, t1 |-> 6, t2 |-> 7][name[1]]

\* The distance is that of two u32, taken for an i32: where both exist, and the
\* target is no further away than an i32 can tell, it is their difference.
process_address_format(arg, address) == IF arg[1] = "pc" THEN arg[2] ELSE arg[2] - address

\* A target that objdump writes is read as a u32, or not at all (unwrap): a branch
\* in front of the first address leads, in 64 bits, to one behind all those.
FitsU32(target) == 0 <= target /\ target \div 2^16 < 2^16
Beyond(text) ==
    \E i \in DOMAIN text.args : text.args[i][1] = "address" /\ ~FitsU32(text.args[i][2])

\* objdump: what spike-dasm has a short form for (the branches among it), and
\* x1 to x4 by their names.
translate_format(text) ==
    CASE text.mnemonic = ".2byte" -> Text("unknown", <<>>)
      [] text.mnemonic \in {"jal", "jalr"} /\ text.args[1] = <<"reg", <<"x", 0>>>> ->
             Text(IF text.mnemonic = "jal" THEN "j" ELSE "jr", Tail(text.args))
      [] OTHER -> text
format_args(text) ==
    [text EXCEPT !.args = [i \in DOMAIN text.args |->
        IF text.args[i][1] = "reg" /\ text.args[i][2][1] = "x"
        THEN <<"reg", reg_to_str_spike(text.args[i][2][2])>> ELSE text.args[i]]]

InstructionType(text, address) ==
    LET Reg(i) == process_register(text.args[i][2])
        To(i) == process_address_format(text.args[i], address)
        m == text.mnemonic
    IN CASE m \in {"c.beqz", "c.bnez", "beqz", "bgez", "bltz", "bnez"} ->
              <<"CondBranchRelative", Reg(1), To(2)>>
         [] m \in {"blt", "beq", "bge", "bgeu", "bne", "bltu"} ->
              IF Reg(2) = 0 THEN <<"CondBranchRelative", Reg(1), To(3)>>
                            ELSE <<"CondBranchRelativeCMP", Reg(1), Reg(2), To(3)>>
         [] m = "jal" -> IF Len(text.args) = 1 THEN <<"BranchRelativeStore", 1, To(1)>>
                                               ELSE <<"BranchRelativeStore", Reg(1), To(2)>>
         [] m \in {"c.j", "j"} -> <<"BranchRelativeStore", 0, To(1)>>
         [] m \in {"c.jr", "jr", "c.jalr"} ->
              IF text.args[1][1] = "at"
              THEN <<"BranchAbsoluteStore", 0, process_register(text.args[1][3]), text.args[1][2]>>
              ELSE <<"BranchAbsoluteStore", 0, Reg(1), 0>>
         [] m = "jalr" /\ Len(text.args) = 1 -> <<"BranchAbsoluteStore", 0, Reg(1), 0>>
         [] m = "jalr" /\ Len(text.args) = 2 ->
              <<"BranchAbsoluteStore", Reg(1), process_register(text.args[2][3]), text.args[2][2]>>
         [] m = "jalr" /\ Len(text.args) = 3 ->
              <<"BranchAbsoluteStore", Reg(1), Reg(2), text.args[3][2]>>
         [] m = "ret" -> <<"BranchAbsoluteStore", 0, 1, 0>>
         [] m = "c.ebreak" -> <<"BranchAbsoluteStore", 0, 0, 0>>
         [] OTHER -> <<"Normal">>

process_branch(text, address) ==
    IF Beyond(text) THEN <<"panic">> ELSE InstructionType(text, address)

\* CofiType::from_str: the short forms are the branches they stand for.
AsWritten == {"c.beqz", "c.bnez", "j", "c.j", "jal"} \cup DOMAIN btypes

\* Mutated: bgez is taken for its opposite.
CofiTypeMistaken(m) ==
    CASE m = "beqz" -> "beq" [] m = "bnez" -> "bne" [] m = "blez" -> "bge"
      [] m \in {"bgez", "bltz", "bgtz"} -> "blt" [] m \in AsWritten -> m

CofiType(m) ==
    CASE m = "beqz" -> "beq" [] m = "bnez" -> "bne" [] m \in {"blez", "bgez"} -> "bge"
      [] m \in {"bltz", "bgtz"} -> "blt" [] m \in AsWritten -> m

\* serialize_cofi: a branch is written from its type, its registers and the
\* distance to its target, of which those of two bytes are given an i16.
I16(n) == ((n + 2^15) % 2^16) - 2^15
serialize_cofi(cofi, reg1, reg2, distance, safe) ==
    CASE cofi = "c.beqz" -> gen_cbeqz(reg1 - 8, I16(distance), safe)
      [] cofi = "c.bnez" -> gen_cbnez(reg1 - 8, I16(distance), safe)
      [] cofi \in DOMAIN btypes -> gen_branch(reg1, reg2, distance, btypes[cofi], safe)
      [] cofi = "j" -> gen_jal(0, distance, safe)
      [] cofi = "jal" -> gen_jal(reg1, distance, safe)
      [] cofi = "c.j" -> gen_cj(I16(distance), safe)

\* fetch16 and fetch32: anything else is written as it was, and nothing after a panic.
RewrittenAs(type, word, text, safe) ==
    CASE type[1] = "CondBranchRelative" ->
            serialize_cofi(CofiType(text.mnemonic), type[2], 0, type[3], safe)
      [] type[1] = "CondBranchRelativeCMP" ->
            serialize_cofi(CofiType(text.mnemonic), type[2], type[3], type[4], safe)
      [] type[1] = "BranchRelativeStore" ->
            serialize_cofi(CofiType(text.mnemonic), type[2], 0, type[3], safe)
      [] type[1] = "panic" -> Err
      [] OTHER -> word
Rewritten(word, text, address, safe) ==
    RewrittenAs(process_branch(text, address), word, text, safe)
=============================================================================
