-------------------------- MODULE ISAScheduledMutator --------------------------
(***************************************************************************)
(* How a testcase is mutated: the bytes are read as a list of instructions,    *)
(* some mutations are drawn, each changes the list or gives up ("Skipped"), the *)
(* branch mutator (where it is configured) puts the list into a               *)
(* DisasDataTable, adds branches and writes safe code, and the list becomes     *)
(* bytes again.                                                             *)
(*                                                                         *)
(* Bytes are words, and perhaps a rest that is no word: one byte, or half of an *)
(* instruction of four. Which word a meta, an entry of INSTRUCTIONS, is built   *)
(* into depends on the operands drawn; it may be read as another entry of the   *)
(* same length, the first one that matches.                                  *)
(***************************************************************************)
EXTENDS DisasDataTable

CONSTANTS
    Known,         \* the kinds in INSTRUCTIONS; others are dropped unread
    Built,         \* meta -> the words the mutators build of it
    Seeds,         \* the inputs before any mutation
    MaxSize,       \* state.max_size()
    Iterations,    \* what iterations() may return
    MaxBranches,   \* bound: branches that are added at once
    MaxRounds      \* bound: how often the input is mutated

Words == Encodable
Rests == {"none", "odd", "half"}

ASSUME MutatorAssumption ==
    /\ Known \subseteq Kinds /\ Branches \subseteq Known
    /\ Built \in [Known -> SUBSET {w \in Words : w.kind \in Known}]
    /\ \A m \in Known : \A w \in Built[m] : Size[w.kind] = Size[m]
    /\ \A s \in Seeds : s.code \in Seq(Words) /\ s.rest \in Rests
    /\ MaxSize \in Nat /\ MaxBranches \in Nat /\ MaxRounds \in Nat
    /\ Iterations \subseteq Nat

VARIABLES
    input,     \* the testcase, as bytes
    isa,       \* ISAInput: the metas and the words
    step,      \* of scheduled_mutate
    left,      \* the mutations, then the branches, that are to come
    result,    \* the MutationResult
    branch_mutator_conf,
    read,      \* history: the list as it was read
    rounds     \* history: how often the input was mutated

mutatorVars == <<input, isa, step, left, result, branch_mutator_conf, read, rounds>>
tableAll == <<tableVars, cacheVars, pc, out, historyVars>>
allVars == <<mutatorVars, tableAll>>

Code(list) == [i \in DOMAIN list |-> list[i].word]
SizeOf(code) == Addresses(code)[Len(code) + 1] - BaseAddress

\* ISAInput::new: what matches no entry is dropped.
Read(code) ==
    LET known == InOrder({i \in DOMAIN code : code[i].kind \in Known}, Len(code))
    IN [k \in DOMAIN known |-> [meta |-> code[known[k]].kind, word |-> code[known[k]]]]

Constructed ==
    /\ input \in Seeds
    /\ isa = <<>> /\ read = <<>>
    /\ step = "done" /\ left = 0 /\ result = "Skipped"
    /\ branch_mutator_conf \in BOOLEAN
    /\ rounds = 0

\* from_input, and the number of iterations. Half an instruction at the end is
\* a slice out of range.
Start(n) ==
    /\ step = "done" /\ rounds < MaxRounds
    /\ rounds' = rounds + 1
    /\ IF input.rest = "half"
       THEN step' = "panicked" /\ UNCHANGED <<isa, read, left, result>>
       ELSE /\ step' = "mutating"
            /\ isa' = Read(input.code) /\ read' = isa'
            /\ left' = n
            /\ result' = "Skipped"
    /\ UNCHANGED <<input, branch_mutator_conf, tableAll>>

-----------------------------------------------------------------------------
(* The mutations. *)

Iterate(outcome) ==
    /\ step = "mutating" /\ left > 0
    /\ left' = left - 1
    /\ result' = IF outcome = "Mutated" THEN "Mutated" ELSE result
    /\ UNCHANGED <<input, step, branch_mutator_conf, read, rounds, tableAll>>

Skip == Iterate("Skipped") /\ UNCHANGED isa

Bytes == SizeOf(Code(isa))
Replaced(i, entry) == [isa EXCEPT ![i] = entry]
BuiltEntries == {e \in [meta : Known, word : Words] : e.word \in Built[e.meta]}

InstDelete ==
    IF isa = <<>>
    THEN Skip
    ELSE \E i \in DOMAIN isa : Iterate("Mutated") /\ isa' = RemovedAt(isa, i)

Operand ==
    IF Bytes <= 4
    THEN Skip
    ELSE \E i \in DOMAIN isa : \E w \in Built[isa[i].meta] :
            Iterate("Mutated") /\ isa' = Replaced(i, [isa[i] EXCEPT !.word = w])

\* Mutated: the size before the insertion is looked at.
AppendInstUpToMax ==
    IF Bytes >= MaxSize
    THEN Skip
    ELSE \E entry \in BuiltEntries, i \in DOMAIN isa \cup {1} :
            Iterate("Mutated") /\ isa' = InsertedAt(isa, i, entry)

\* Anywhere but at the end, unless the list is empty.
AppendInst ==
    IF Bytes + 4 >= MaxSize
    THEN Skip
    ELSE \E entry \in BuiltEntries, i \in DOMAIN isa \cup {1} :
            Iterate("Mutated") /\ isa' = InsertedAt(isa, i, entry)

\* At the index that was drawn, or for want of the right length at the first that
\* has it.
SameLength(entry) == {i \in DOMAIN isa : Size[isa[i].meta] = Size[entry.meta]}
First(s) == CHOOSE i \in s : \A j \in s : i <= j

Opcode ==
    IF Bytes <= 4
    THEN Skip
    ELSE \E entry \in BuiltEntries, drawn \in DOMAIN isa :
            IF SameLength(entry) = {}
            THEN Skip
            ELSE /\ Iterate("Mutated")
                 /\ isa' = Replaced(IF drawn \in SameLength(entry)
                                    THEN drawn ELSE First(SameLength(entry)), entry)

-----------------------------------------------------------------------------
(* The branch mutator, and the end. *)

\* The list is disassembled, and a number of branches is drawn, of whatever rate.
StartBranches(n) ==
    /\ step = "mutating" /\ left = 0 /\ branch_mutator_conf
    /\ isa = <<>> => n = 0
    /\ FromRiscvIns(Code(isa))
    /\ step' = "branching"
    /\ left' = n
    /\ UNCHANGED <<input, isa, result, branch_mutator_conf, read, rounds>>

\* The indices are drawn below the length that the table should have: that of
\* the list and a branch for every round before. get_id_by_index is unwrapped, and
\* add_branch_instruction_by_index too.
Drawn == 1..(Len(isa) + edits)

AddBranch(target, i, kind) ==
    /\ step = "branching" /\ left > 0
    /\ {target, i} \subseteq Drawn
    /\ IF {target, i} \subseteq DOMAIN table
       THEN AddCofi(i, ToId(table[target].id), kind) /\ step' = step
       ELSE step' = "panicked" /\ UNCHANGED tableAll
    /\ left' = left - 1
    /\ UNCHANGED <<input, isa, result, branch_mutator_conf, read, rounds>>

\* Mutated: what the table writes, whether or not it reaches.
EndBranchesUnsafe ==
    /\ step = "branching" /\ left = 0
    /\ Serialize(FALSE)
    /\ step' = "writing"
    /\ isa' = Read([k \in DOMAIN out' |-> [kind |-> out'[k].kind, offset |-> out'[k].offset]])
    /\ UNCHANGED <<input, left, result, branch_mutator_conf, read, rounds>>

EndBranches ==
    /\ step = "branching" /\ left = 0
    /\ Serialize(TRUE)
    /\ step' = "writing"
    /\ isa' = Read([k \in DOMAIN out' |-> [kind |-> out'[k].kind, offset |-> out'[k].offset]])
    /\ UNCHANGED <<input, left, result, branch_mutator_conf, read, rounds>>

\* The table is dropped; unparse.
Write ==
    /\ step = "writing" \/ (step = "mutating" /\ left = 0 /\ ~branch_mutator_conf)
    /\ input' = [code |-> Code(isa), rest |-> "none"]
    /\ step' = "done"
    /\ Drop
    /\ UNCHANGED <<isa, left, result, branch_mutator_conf, read, rounds>>

-----------------------------------------------------------------------------
MutatorInit == Init /\ Constructed

MutatorNext ==
    \/ \E n \in Iterations : Start(n)
    \/ InstDelete \/ Operand \/ AppendInst \/ Opcode
    \/ \E n \in 0..MaxBranches : StartBranches(n)
    \/ \E target, i \in Drawn, kind \in Branches : AddBranch(target, i, kind)
    \/ EndBranches
    \/ Write

MutatorSpec == MutatorInit /\ [][MutatorNext]_allVars

-----------------------------------------------------------------------------
(* Properties. *)

\* Mutations stack up to no more than the size the state allows, whatever their
\* order: an input that is smaller stays so, and one that is not does not grow. The
\* branch mutator is not held to that.
SizeIsKept ==
    step = "mutating" => Bytes < MaxSize \/ Bytes <= SizeOf(Code(read))

\* The mutator panics on half an instruction of a seed and on nothing it has
\* written itself; the branch mutator never does, since every branch it
\* adds makes the table longer by one.
PanicsOnlyOnSeeds ==
    step = "panicked" \/ pc = "panicked" => input \in Seeds /\ input.rest = "half"

\* Where a branch of a program leads, if an instruction starts there.
LeadsTo(code, i) ==
    LET at == Addresses(code) IN {j \in DOMAIN code : at[j] = at[i] + code[i].offset}

WrittenBetween(i, j) ==
    \A k \in Between(IndexOf(table, i), IndexOf(table, j)) : table[k].id \in WrittenIds

\* A branch of the testcase leads to the same instruction of it after branches
\* were added before, behind and between them, unless safe code has left out a
\* branch on the way; and nothing that was written is dropped when it is read.
BranchesOfTheInputAreKept ==
    step = "writing" =>
        /\ Len(isa) = Len(out)
        /\ \A i \in DOMAIN loaded \cap WrittenIds :
               loaded[i].kind \in Branches =>
                   \A j \in LeadsTo(loaded, i) \cap WrittenIds :
                       WrittenBetween(i, j) =>
                           Position(j) \in LeadsTo(Code(isa), Position(i))
=============================================================================
