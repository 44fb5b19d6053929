------------------------------ MODULE Encodings ------------------------------
(***************************************************************************)
(* What has to hold between the parts that write instructions and those that     *)
(* read them, case by case over bounded sets of words, programs, byte strings and  *)
(* offsets. A case is a state, and nothing becomes of it.                       *)
(***************************************************************************)
EXTENDS Dasm

VARIABLE case

NoCase == [of |-> "none"]

\* Every entry of INSTRUCTIONS with the operands that may be drawn.
WordCases == UNION {{[of |-> "word", entry |-> entry, word |-> word] : word \in BuiltOf(entry)} :
                entry \in InstructionSet}

\* Instructions of two and four bytes; the third byte looks like a first one, or does not.
SomeInstructions ==
    { BytesOf(Word(<<0, 0>>), 2), BytesOf(Word(<<0, \h0301>>), 2),
      BytesOf(Word(<<0, \h33>>), 4), BytesOf(Word(<<\h0033, \h33>>), 4),
      BytesOf(Word(<<\h0300, \h0313>>), 4) }
ProgramCases == {[of |-> "program", program |-> p] : p \in SeqOf(SomeInstructions, 3)}
ByteCases == {[of |-> "bytes", bytes |-> b] : b \in SeqOf({{0}, {0, 1}}, 8)}

\* Branches as gen.rs makes them: registers and offsets that fill their fields.
BranchWords ==
    { gen_branch(r, s, o, t, FALSE) :
        r \in {1, 8}, s \in {0, 4, 31}, o \in {-4096, -2, 0, 30, 2048, 4094},
        t \in {btypes[m] : m \in DOMAIN btypes} }
    \cup { gen_jal(r, o, FALSE) : r \in {0, 1, 2, 9}, o \in {0, -2^20, 2^20 - 2, 4098} }
    \cup { gen_jalr(r, s, o) : r, s \in {0, 1, 31}, o \in {-2048, 0, 2047} }
    \cup { gen_cj(o, FALSE) : o \in {-2048, -2, 0, 1364, 682} }
    \cup { gen_cbeqz(r, o, FALSE) : r \in 0..7, o \in {-256, 0, 170, 84} }
    \cup { gen_cbnez(r, o, FALSE) : r \in 0..7, o \in {-256, 0, 170, 84} }
    \cup { gen_cjr(r) : r \in 0..31 } \cup { gen_cjalr(r) : r \in 0..31 }
BuiltBranches == {"BEQ", "BGE", "BLTU", "JAL", "JALR", "C_J", "C_BEQZ", "C_BNEZ", "C_JR"}
BranchCases ==
    {[of |-> "branch", word |-> w] :
        w \in BranchWords \cup UNION {BuiltOf(e) : e \in {f \in InstructionSet :
                                                          f.mnemonic \in BuiltBranches}}}

OffsetCases ==
    {[of |-> "offset", offset |-> o] :
        o \in -4200..4200 \cup {s * 2^k - d : s \in {-1, 1}, k \in 13..21, d \in 0..2}}

Cases ==
    {NoCase} \cup WordCases \cup ProgramCases \cup ByteCases \cup BranchCases \cup OffsetCases

-----------------------------------------------------------------------------
(* Properties. *)

\* Whatever operands a mutator draws for an entry of INSTRUCTIONS, the word has
\* the entry's fixed bits, and an input that is read again takes it for an entry
\* (that one, or another) of the same length: nothing a mutation has built is
\* dropped, or moves what comes after it.
EveryBuiltWordIsReadAgain ==
    case.of = "word" =>
        /\ case.word \cap case.entry.mmatch = case.entry.mask
        /\ IsKnown(case.word)
        /\ case.entry.length = LengthOf(case.word)
        /\ Decoded(case.word).length = LengthOf(case.word)

Reversed(program) == [i \in DOMAIN program |-> Reverse(program[i])]

\* The fourth byte is asked whether there are four: in front of an instruction of
\* four, one of two bytes is misread if the third byte of the next has both bits.
Misread(program) ==
    \E i \in 2..Len(program) :
        Len(program[i - 1]) = 2 /\ Len(program[i]) = 4 /\ Long(program[i][3])

\* What is divided differently by two readers would be another program to each:
\* ISAInput::new and from_le agree on whatever the mutators write; bytes that
\* from_be accepts are divided alike by from_be_lossy, which never makes an
\* instruction that contradicts its own length; and either gets a program back from
\* its reversed instructions, exactly if none of them is misread.
ReadersDivideAlike ==
    /\ case.of = "program" =>
           LET bytes == serialize(case.program)
               reversed == FlattenSeq(Reversed(case.program))
           IN /\ from_le(bytes) = case.program /\ Parsed(bytes) = case.program /\ ~Panics(bytes)
              /\ from_be_lossy(reversed) = case.program <=> ~Misread(case.program)
              /\ ~Misread(case.program) => from_be(reversed) = case.program
    /\ case.of = "bytes" =>
           /\ IsSane(from_be_lossy(case.bytes))
           /\ from_be(case.bytes) # ErrBytes => from_be(case.bytes) = from_be_lossy(case.bytes)

\* jalr rs, without an offset and to ra, has a form of one argument, which is read
\* as if it linked to x0.
LosesLink(text) == text.mnemonic = "jalr" /\ Len(text.args) = 1

\* A branch the table does not move is written as it was read: its text, from
\* either disassembler, comes back as a type from whose registers and offset the
\* generators make the same word, but for a target of objdump's that is none of
\* 32 bits, which is never read. Both come back as the same type, except for a
\* jalr that has lost the register it links to.
BranchesAreWrittenAsTheyWere ==
    case.of = "branch" =>
        LET address == 4096
            spike == SpikeText(case.word)
            objdump == format_args(translate_format(ObjdumpText(case.word, address)))
            spiked == process_branch(spike, address)
            dumped == process_branch(objdump, address)
        IN /\ IsKnown(case.word)
           /\ Rewritten(case.word, spike, address, TRUE) = case.word
           /\ ~Beyond(objdump) =>
                  /\ Rewritten(case.word, objdump, address, TRUE) = case.word
                  /\ spiked = dumped <=> ~LosesLink(spike)

\* A generator that is to be safe refuses an offset if and only if the branch
\* would lead elsewhere: what it does not refuse is read with the same offset, and
\* what it refuses is cut to another one.
SafeIfAndOnlyIfExact ==
    case.of = "offset" =>
        LET o == case.offset
        IN /\ gen_branch(1, 2, o, 0, TRUE) # Err <=> BOffset(gen_branch(1, 2, o, 0, FALSE)) = o
           /\ gen_cj(o, TRUE) # Err <=> CJOffset(gen_cj(o, FALSE)) = o
           /\ gen_cbeqz(1, o, TRUE) # Err <=> CBOffset(gen_cbeqz(1, o, FALSE)) = o
           /\ gen_cbnez(1, o, TRUE) # Err <=> CBOffset(gen_cbnez(1, o, FALSE)) = o
           /\ gen_jal(1, o, TRUE) # Err <=> JOffset(gen_jal(1, o, FALSE)) = o
=============================================================================
