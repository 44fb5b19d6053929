------------------------- MODULE MCISAScheduledMutator -------------------------
(***************************************************************************)
(* A small instance of ISAScheduledMutator for TLC, and with it the encodings     *)
(* that it takes for granted. A C_JAL is built into a word that is read as       *)
(* C_ADDIW; a csrrw is an instruction that INSTRUCTIONS has not.                  *)
(***************************************************************************)
EXTENDS ISAScheduledMutator, Encodings

Sizes == "C_ADDIW" :> 2 @@ "C_JAL" :> 2 @@ "ADDI" :> 4 @@ "csrrw" :> 4 @@ "C_BEQZ" :> 2
Reaches == "C_BEQZ" :> 4

W(kind, offset) == [kind |-> kind, offset |-> offset]

KnownKinds == {"C_ADDIW", "C_JAL", "ADDI", "C_BEQZ"}
BuiltWords ==
    "C_ADDIW" :> {W("C_ADDIW", 0)} @@ "C_JAL" :> {W("C_ADDIW", 0)} @@
    "ADDI" :> {W("ADDI", 0)} @@ "C_BEQZ" :> {W("C_BEQZ", -4), W("C_BEQZ", 2)}

\* The instance is one of the real table: sizes, and what is read for what is built.
ASSUME \A kind \in KnownKinds : \E entry \in InstructionSet :
    /\ entry.mnemonic = kind /\ entry.length = Sizes[kind]
    /\ {Decoded(w).mnemonic : w \in BuiltOf(entry)} = {w.kind : w \in BuiltWords[kind]}
ASSUME \A entry \in InstructionSet : entry.mnemonic # "csrrw"

SomeSeeds ==
    { [code |-> <<W("csrrw", 0), W("ADDI", 0)>>, rest |-> "none"],
      [code |-> <<W("C_BEQZ", 2), W("ADDI", 0)>>, rest |-> "odd"],
      [code |-> <<W("C_ADDIW", 0)>>, rest |-> "half"],
      [code |-> <<>>, rest |-> "none"] }

\* Either the mutator runs, or a case of the encodings is looked at, with the mutator
\* at rest.
AnySeed == CHOOSE seed \in SomeSeeds : TRUE
EncodedInit ==
    /\ MutatorInit /\ case \in Cases
    /\ case # NoCase => input = AnySeed /\ branch_mutator_conf = FALSE
EncodedNext == case = NoCase /\ MutatorNext /\ UNCHANGED case
EncodedSpec == EncodedInit /\ [][EncodedNext]_<<allVars, case>>

\* One branch at most is added in the second round.
OneBranchLater == rounds = 2 /\ step = "branching" => left + edits <= 1
=============================================================================
