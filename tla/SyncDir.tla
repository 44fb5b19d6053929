------------------------------- MODULE SyncDir -------------------------------
(***************************************************************************)
(* The sync directory: the only thing the fuzzer clients and the broker    *)
(* share.  Files are named and moved the way SyncOnDiskEventManager::fire   *)
(* does, and stamped with the modification time that the readers compare.   *)
(*                                                                         *)
(* The file system itself is not in the repository: a rename is atomic and  *)
(* replaces its target, a write sets the modification time to the clock,    *)
(* File::create truncates, and the clock, which is coarser than the steps   *)
(* of the processes, is the same for everyone (no skew between NFS hosts).  *)
(***************************************************************************)
EXTENDS Integers, Sequences

CONSTANTS
    Clients,       \* the fuzzer clients, one per core id
    MaxTestcases,  \* bound: NewTestcase events one client ever fires
    MaxStats,      \* bound: UpdateUserStats events one client ever fires
    MaxClock,      \* bound: the clock stops here
    NoFile         \* the directory holds no file of that name

VARIABLES
    dir,           \* file name |-> file, or NoFile
    clock          \* SystemTime::now(), also the stamp of every write

dirVars == <<dir, clock>>

-----------------------------------------------------------------------------
(* The names of the files.  "lock" is the suffix .presifuzz_lock. *)

EventName(c, n) == [kind |-> "event", client |-> c, num |-> n]
EventLock(c, n) == [kind |-> "event_lock", client |-> c, num |-> n]
StatsName(c)    == [kind |-> "stats", client |-> c, num |-> 0]
StatsLock(c)    == [kind |-> "stats_lock", client |-> c, num |-> 0]

FileNames == [kind : {"event", "event_lock", "stats", "stats_lock"},
              client : Clients, num : 0..MaxTestcases]

EventFiles == {f \in FileNames : f.kind \in {"event", "event_lock"}}

\* Mutated: the name compared with the suffix of the published file only.
IsStatsSuffix(f) == f.kind = "stats"

\* The substring test of the stage: filename.contains(".stats").
IsStats(f) == f.kind \in {"stats", "stats_lock"}

(* An event is told apart by its kind, its sender and its serial number.    *)
(* A file is the sequence of the events that are whole in it, and a flag    *)
(* for a last one of which only a part has been written.                    *)
Events == [type : {"NewTestcase", "UpdateUserStats"},
           client : Clients, serial : Nat]

Files == [lines : Seq(Events), torn : BOOLEAN, mtime : Nat]

ASSUME SyncDirAssumption ==
    /\ MaxTestcases \in Nat
    /\ MaxStats \in Nat
    /\ MaxClock \in Nat
    /\ NoFile \notin Files

Exists(f)   == dir[f] # NoFile
NonEmpty(f) == Exists(f) /\ (dir[f].torn \/ dir[f].lines # <<>>)

\* serde_json::from_str reads one value and refuses anything after it.
Parses(file) == ~file.torn /\ Len(file.lines) = 1

\* The whole event e is the content of file f.
Holds(f, e) == Exists(f) /\ ~dir[f].torn /\ dir[f].lines = <<e>>

\* The events that are whole in file f.
EventsIn(f) == {dir[f].lines[i] : i \in DOMAIN dir[f].lines}

Listing == {f \in FileNames : Exists(f)}

-----------------------------------------------------------------------------
(* What the calls of std::fs make of the directory. *)

Put(f, lines, torn) ==
    [dir EXCEPT ![f] = [lines |-> lines, torn |-> torn, mtime |-> clock]]

Renamed(from, to) == [dir EXCEPT ![to] = dir[from], ![from] = NoFile]

Tick ==
    /\ clock < MaxClock
    /\ clock' = clock + 1
    /\ UNCHANGED dir

SyncDirInit ==
    /\ dir = [f \in FileNames |-> NoFile]
    /\ clock = 0

DirTypeOK ==
    /\ dir \in [FileNames -> Files \cup {NoFile}]
    /\ clock \in Nat
=============================================================================
