---------------------------- MODULE DisasDataTable ----------------------------
(***************************************************************************)
(* A program that is edited: DisasDataTable keeps the instructions in order,   *)
(* each under an id, and for each branch the id of the instruction it leads to  *)
(* (or an address, where no instruction of the program starts), so that its     *)
(* offset can be worked out again when instructions came or went.              *)
(*                                                                         *)
(* Of an instruction the model keeps the kind, which gives its size, and how    *)
(* far a branch of that kind can reach (the widths of the fields in gen.rs);     *)
(* registers, and the rest of its bytes, move with it. Indices start at 1.      *)
(***************************************************************************)
EXTENDS Integers, Sequences, FiniteSets

CONSTANTS
    Size,         \* of each kind of instruction, in bytes
    Reach,        \* of each kind of branch: offsets from -Reach to Reach - 2
    HalfI16,      \* distances of compressed branches are cut to -HalfI16..HalfI16 - 1
    BaseAddress,
    Programs,     \* what is loaded
    MaxEdits      \* bound: edits between two loads

Kinds == DOMAIN Size
Branches == DOMAIN Reach
Plain == Kinds \ Branches

Offsets(k) == IF k \in Branches THEN {d \in (-Reach[k])..(Reach[k] - 2) : d % 2 = 0} ELSE {0}
Instructions ==
    {[kind |-> k, offset |-> d] : k \in Kinds, d \in UNION {Offsets(b) : b \in Kinds}}
Encodable == {x \in Instructions : x.offset \in Offsets(x.kind)}

ASSUME DisasAssumption ==
    /\ Size \in [Kinds -> {2, 4}]
    /\ Branches \subseteq Kinds
    /\ \A k \in Branches : Reach[k] \in Nat /\ Reach[k] > 0 /\ Reach[k] % 2 = 0
    \* The fields of compressed branches are narrower than what they are made of.
    /\ HalfI16 \in Nat \ {0}
    /\ \A k \in Branches : Size[k] = 2 => Reach[k] <= HalfI16
    /\ BaseAddress \in Nat
    /\ Programs \subseteq Seq(Encodable)
    /\ MaxEdits \in Nat

VARIABLES
    table,       \* the entries in order
    cofi_table,  \* id of a branch -> where it leads
    cur_id,
    map,         \* address -> id, as of the last update
    map_updated,
    pc,          \* "ready", "written" after a serialize, or "panicked"
    out,         \* what the last serialize wrote
    origin,      \* history: how the table was made
    loaded,      \* history: the program it was made of
    removed,     \* history: the ids that were removed
    edits        \* history: how often it was edited

tableVars == <<table, cofi_table, cur_id>>
cacheVars == <<map, map_updated>>
historyVars == <<origin, loaded, removed, edits>>
vars == <<tableVars, cacheVars, pc, out, historyVars>>

Nothing == <<>>

-----------------------------------------------------------------------------
(* Addresses and ids. *)

\* The address of every position, and of the one after the last.
Addresses(code) ==
    LET at[i \in 1..(Len(code) + 1)] ==
            IF i = 1 THEN BaseAddress ELSE at[i - 1] + Size[code[i - 1].kind]
    IN at

\* The members of S up to n, in ascending order.
InOrder(S, n) ==
    LET upTo[i \in 0..n] ==
            IF i = 0 THEN <<>>
            ELSE IF i \in S THEN Append(upTo[i - 1], i) ELSE upTo[i - 1]
    IN upTo[n]

RemovedAt(s, i) == SubSeq(s, 1, i - 1) \o SubSeq(s, i + 1, Len(s))
InsertedAt(s, i, e) == SubSeq(s, 1, i - 1) \o <<e>> \o SubSeq(s, i, Len(s))

Ids(t) == {t[i].id : i \in DOMAIN t}
IndexOf(t, id) == CHOOSE i \in DOMAIN t : t[i].id = id

\* update_map: where each instruction starts.
Layout(t) ==
    LET at == Addresses(t)
    IN [a \in {at[i] : i \in DOMAIN t} |-> t[CHOOSE i \in DOMAIN t : at[i] = a].id]

\* get_lookup_map: made anew only if an edit has marked it.
LookupMap == IF map_updated THEN map ELSE Layout(table)

ToId(id) == <<"id", id>>
ToAddress(a) == <<"address", a>>

\* Mutated: the index, which starts at 0, is taken for the id.
ResolvedToIndex(t, program) ==
    LET at == Addresses(t)
        TargetOf(i) == at[i] + program[i].offset
    IN [id \in {t[i].id : i \in {j \in DOMAIN t : t[j].kind \in Branches}} |->
            LET a == TargetOf(IndexOf(t, id))
            IN IF a \in DOMAIN Layout(t) THEN ToId(Layout(t)[a] - 1) ELSE ToAddress(a)]

\* populate_cofi_map: the id of the instruction that starts at the target, or the
\* address (before, behind, or amid an instruction of the program).
Resolved(t, program) ==
    LET at == Addresses(t)
        TargetOf(i) == at[i] + program[i].offset
    IN [id \in {t[i].id : i \in {j \in DOMAIN t : t[j].kind \in Branches}} |->
            LET a == TargetOf(IndexOf(t, id))
            IN IF a \in DOMAIN Layout(t) THEN ToId(Layout(t)[a]) ELSE ToAddress(a)]

-----------------------------------------------------------------------------
(* Making a table. *)

Init ==
    /\ table = <<>> /\ cofi_table = <<>> /\ cur_id = 0
    /\ map = <<>> /\ map_updated = FALSE
    /\ pc = "ready" /\ out = Nothing
    /\ origin = "new" /\ loaded = <<>> /\ removed = {} /\ edits = 0

\* The end of a table's life, where it is a local variable.
Drop ==
    /\ table' = <<>> /\ cofi_table' = <<>> /\ cur_id' = 0
    /\ map' = <<>> /\ map_updated' = FALSE
    /\ pc' = "ready" /\ out' = Nothing
    /\ origin' = "new" /\ loaded' = <<>> /\ removed' = {} /\ edits' = 0

Load(program) ==
    /\ table' = [i \in DOMAIN program |-> [id |-> i, kind |-> program[i].kind]]
    /\ cofi_table' = Resolved(table', program)
    \* Only branches are looked up.
    /\ map_updated' = (DOMAIN cofi_table' # {})
    /\ map' = IF map_updated' THEN Layout(table') ELSE <<>>
    /\ loaded' = program
    /\ pc' = "ready" /\ out' = Nothing /\ removed' = {} /\ edits' = 0

\* Mutated: the number of the last id is left at 0.
FromRiscvInsUncounted(program) ==
    /\ Load(program)
    /\ cur_id' = 0
    /\ origin' = "instructions"

FromRiscvIns(program) ==
    /\ Load(program)
    /\ cur_id' = Len(program)
    /\ origin' = "instructions"

\* Where objdump lists instructions with a gap between them there is no table (it
\* panics), so that those in Programs have none; nor have they instructions of six or
\* eight bytes, which it lists and which cannot be written (unimplemented!).
FromElf(program) ==
    /\ Load(program)
    /\ cur_id' = 0
    /\ origin' = "elf"

-----------------------------------------------------------------------------
(* Editing. *)

Edit ==
    /\ pc \in {"ready", "written"}
    /\ edits' = edits + 1
    /\ out' = Nothing
    /\ UNCHANGED <<origin, loaded>>

Without(t, id) == IF id \in Ids(t) THEN RemovedAt(t, IndexOf(t, id)) ELSE t

\* IndexMap::shift_insert under the next id. An entry that has this id already
\* is replaced and moved, which is an error behind the last position (nothing is
\* read of a table that panicked).
ShiftInsert(i, kind) ==
    LET id == cur_id + 1
        rest == Without(table, id)
    IN /\ cur_id' = id
       /\ IF i <= Len(rest) + 1
          THEN /\ table' = InsertedAt(rest, i, [id |-> id, kind |-> kind])
               /\ pc' = "ready"
          ELSE /\ pc' = "panicked"
               /\ UNCHANGED table

\* add_instruction, which takes no branches. A lookup before it may have made
\* the map.
AddInstruction(i, kind) ==
    /\ Edit
    /\ kind \in Plain
    /\ ShiftInsert(i, kind)
    /\ map_updated' = FALSE
    /\ UNCHANGED <<cofi_table, removed>>

AddInstructionAtIndex(i, kind) ==
    /\ i \in 1..(Len(table) + 1)
    /\ AddInstruction(i, kind)
    /\ UNCHANGED map

AddInstructionByAddress(address, kind) ==
    /\ address \in DOMAIN LookupMap
    /\ LookupMap[address] \in Ids(table)
    /\ AddInstruction(IndexOf(table, LookupMap[address]), kind)
    /\ map' = LookupMap

\* Mutated: the map is not marked.
AddCofiUnmarked(i, target, kind) ==
    /\ Edit
    /\ i \in 1..(Len(table) + 1) /\ kind \in Branches
    /\ target[1] = "id" => target[2] \in Ids(table)
    /\ ShiftInsert(i, kind)
    /\ cofi_table' = [id \in DOMAIN cofi_table \cup {cur_id'} |->
                         IF id = cur_id' THEN target ELSE cofi_table[id]]
    /\ UNCHANGED <<map, map_updated, removed>>

\* add_cofi. The target must be there; gen_cofi writes whatever of the distance
\* fits, so that any distance will do.
AddCofi(i, target, kind) ==
    /\ Edit
    /\ i \in 1..(Len(table) + 1) /\ kind \in Branches
    /\ target[1] = "id" => target[2] \in Ids(table)
    /\ ShiftInsert(i, kind)
    /\ cofi_table' = [id \in DOMAIN cofi_table \cup {cur_id'} |->
                         IF id = cur_id' THEN target ELSE cofi_table[id]]
    /\ map_updated' = FALSE
    /\ UNCHANGED <<map, removed>>

\* remove_instruction. What leads to it is left as it is.
RemoveInstruction(id) ==
    /\ Edit
    /\ table' = Without(table, id)
    /\ cofi_table' = [b \in DOMAIN cofi_table \ {id} |-> cofi_table[b]]
    /\ removed' = removed \cup {id}
    /\ map_updated' = FALSE
    /\ pc' = "ready"
    /\ UNCHANGED cur_id

RemoveInstructionByIndex(i) ==
    /\ i \in DOMAIN table
    /\ RemoveInstruction(table[i].id)
    /\ UNCHANGED map

RemoveInstructionByAddress(address) ==
    /\ address \in DOMAIN LookupMap
    /\ RemoveInstruction(LookupMap[address])
    /\ map' = LookupMap

\* get_id_by_address, get_index_by_address.
Lookup ==
    /\ pc # "panicked" /\ ~map_updated
    /\ map' = Layout(table) /\ map_updated' = TRUE
    /\ UNCHANGED <<tableVars, pc, out, historyVars>>

-----------------------------------------------------------------------------
(* Writing. *)

Dangling(id) == cofi_table[id][1] = "id" /\ cofi_table[id][2] \notin Ids(table)

IsBranch(i) == table[i].kind \in Branches

\* Mutated: measured from the end of the instruction, as gen_cofi does.
DistanceFromEnd(i) ==
    LET at == Addresses(table)
        target == cofi_table[table[i].id]
        a == IF target[1] = "id" THEN at[IndexOf(table, target[2])] ELSE target[2]
    IN IF a >= at[i] THEN a + 4 - at[i] ELSE a - at[i]

Distance(i) ==
    LET at == Addresses(table)
        target == cofi_table[table[i].id]
    IN (IF target[1] = "id" THEN at[IndexOf(table, target[2])] ELSE target[2]) - at[i]

Wrapped(d, half) == ((d + half) % (2 * half)) - half

\* serialize_cofi: the generators of compressed branches are given an i16.
Given(i) == IF Size[table[i].kind] = 2 THEN Wrapped(Distance(i), HalfI16) ELSE Distance(i)

InReach(i) == Given(i) \in Offsets(table[i].kind)

\* gen_branch_instruction and the others: the field takes the low bits.
Field(i) == Wrapped(Given(i), Reach[table[i].kind])

\* A branch that does not reach its target is left out of safe code, unless the
\* distance that was cut is one it reaches.
IsWritten(i, safe) == ~(safe /\ IsBranch(i) /\ ~InReach(i))

WrittenAs(i) ==
    [id |-> table[i].id, kind |-> table[i].kind,
     offset |-> IF IsBranch(i) THEN Field(i) ELSE 0]

CodeOf(safe) ==
    LET kept == InOrder({i \in DOMAIN table : IsWritten(i, safe)}, Len(table))
    IN [k \in DOMAIN kept |-> WrittenAs(kept[k])]

\* serialize, serialize_safe: the first target that is gone ends it.
Serialize(safe) ==
    /\ pc = "ready"
    /\ IF \E i \in DOMAIN table : IsBranch(i) /\ Dangling(table[i].id)
       THEN pc' = "panicked" /\ UNCHANGED out
       ELSE pc' = "written" /\ out' = CodeOf(safe)
    /\ UNCHANGED <<tableVars, cacheVars, historyVars>>

-----------------------------------------------------------------------------
Places == 1..(Len(table) + 1)
Targets == {ToId(id) : id \in Ids(table)} \cup {ToAddress(BaseAddress)}

MakeTable ==
    /\ pc = "ready" /\ origin = "new" /\ edits = 0
    /\ \E program \in Programs : FromRiscvIns(program) \/ FromElf(program)

Insert ==
    \/ \E i \in Places, kind \in Plain : AddInstructionAtIndex(i, kind)
    \/ \E a \in DOMAIN LookupMap, kind \in Plain : AddInstructionByAddress(a, kind)
    \/ \E i \in Places, target \in Targets, kind \in Branches : AddCofi(i, target, kind)

RemoveAny ==
    \/ \E i \in DOMAIN table : RemoveInstructionByIndex(i)
    \/ \E a \in DOMAIN LookupMap : RemoveInstructionByAddress(a)

Next ==
    \/ MakeTable
    \/ edits < MaxEdits /\ (Insert \/ RemoveAny)
    \/ Lookup
    \/ \E safe \in BOOLEAN : Serialize(safe)

Spec == Init /\ [][Next]_vars

-----------------------------------------------------------------------------
(* Properties. *)

\* The map of addresses is never used stale: when it counts as updated it is
\* that of the table, after whatever edits and lookups.
LookupsAreCurrent == map_updated => map = Layout(table)

Position(id) == IndexOf(out, id)
Between(i, j) == IF i < j THEN i..(j - 1) ELSE j..(i - 1)
WrittenIds == Ids(out)

\* Nothing was left out from the branch at i to where it leads.
WholeWay(i) ==
    LET target == cofi_table[table[i].id]
    IN IF target[1] = "id"
       THEN /\ target[2] \in WrittenIds
            /\ \A k \in Between(i, IndexOf(table, target[2])) : table[k].id \in WrittenIds
       ELSE \A k \in 1..i : table[k].id \in WrittenIds

CanReach(i) == Distance(i) \in Offsets(table[i].kind)

\* What is written leads where it is meant to: the offset of every branch that can
\* reach its target is the way to it in the code that is written, after any edits,
\* unless safe code has left out another branch on the way; and no branch that can
\* reach its target is left out (populate_cofi_map, _serialize).
BranchesLeadToTheirTargets ==
    pc = "written" =>
        \A i \in {j \in DOMAIN table : IsBranch(j) /\ CanReach(j)} :
            /\ table[i].id \in WrittenIds
            /\ WholeWay(i) =>
                LET at == Addresses(out)
                    k == Position(table[i].id)
                    target == cofi_table[table[i].id]
                IN at[k] + out[k].offset =
                       IF target[1] = "id" THEN at[Position(target[2])] ELSE target[2]

\* Writing panics only when the target of a branch was removed before it.
PanicsOnlyForTheRemoved ==
    pc = "panicked" /\ origin # "elf" =>
        \E b \in DOMAIN cofi_table : Dangling(b) /\ cofi_table[b][2] \in removed
=============================================================================
