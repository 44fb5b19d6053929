------------------------------ MODULE SyncOnDisk ------------------------------
(***************************************************************************)
(* The fuzzer clients around the sync directory.  A client is one thread:    *)
(* its stages run in turn, so that it fires a testcase only outside a scan,  *)
(* and statistics outside a scan or from the feedbacks that                  *)
(* process_execution runs on an imported testcase.                           *)
(***************************************************************************)
EXTENDS SyncFromDiskStage

CONSTANTS
    Importers,   \* the clients whose fuzzer has a SyncFromDiskStage
    Finders,     \* the clients that find testcases worth firing
    MaxCrashes   \* bound: kills of one client, and launches after its death

ASSUME SyncOnDiskAssumption ==
    /\ Importers \subseteq Clients
    /\ Finders \subseteq Clients
    /\ MaxCrashes \in Nat

VARIABLE crashes  \* history: how often the client has died

vars == <<dirVars, managerVars, stageVars, crashes>>

Init ==
    /\ SyncDirInit
    /\ ManagerInit
    /\ StageInit
    /\ crashes = [c \in Clients |-> 0]

FireTestcase(c) ==
    /\ c \in Finders
    /\ scan[c].pc = "idle"
    /\ CreateLock(c)
    /\ UNCHANGED <<stageVars, crashes>>

FireStats(c) ==
    /\ scan[c].pc \in {"idle", "executing"}
    /\ CreateStats(c) \/ ReopenStats(c)
    /\ UNCHANGED <<stageVars, crashes>>

ContinueFire(c) ==
    /\ FireStep(c)
    /\ UNCHANGED <<stageVars, crashes>>

StartScan(c) ==
    /\ c \in Importers
    /\ ReadDir(c)
    /\ UNCHANGED crashes

ContinueScan(c) ==
    /\ StageStep(c)
    /\ UNCHANGED crashes

Dies(c) ==
    /\ ManagerCrash(c)
    /\ StageLost(c)
    /\ crashes' = [crashes EXCEPT ![c] = @ + 1]

Panic(c) == OpenPanics(c) /\ Dies(c)

\* A kill, a full disk, an error of process_execution: at any step.
Crash(c) == up[c] /\ crashes[c] < MaxCrashes /\ Dies(c)

Restart(c) ==
    /\ crashes[c] <= MaxCrashes
    /\ ManagerRestart(c)
    /\ UNCHANGED <<stageVars, crashes>>

\* The steps a live client takes by itself once a call has begun.
Running(c) == ContinueFire(c) \/ ContinueScan(c) \/ Panic(c)

Next ==
    \/ Tick /\ UNCHANGED <<managerVars, stageVars, crashes>>
    \/ \E c \in Clients :
         \/ FireTestcase(c) \/ FireStats(c) \/ StartScan(c)
         \/ Running(c)
         \/ Crash(c) \/ Restart(c)

Spec == Init /\ [][Next]_vars

\* A call that has begun goes on: nothing in it waits for another process.
FairSpec == Spec /\ \A c \in Clients : WF_vars(Running(c))

-----------------------------------------------------------------------------
(* Properties. *)

\* The bound of the counters, the shape of the files whoever wrote them last,
\* and the locals of a scan, whatever the other clients did between its steps.
TypeOK ==
    /\ DirTypeOK
    /\ ManagerTypeOK
    /\ StageTypeOK
    /\ crashes \in [Clients -> Nat]

\* The name of a published testcase is never taken away, and its file is
\* replaced only after its client was launched again, when the numbering
\* starts over (count in new()).
PublishedStays ==
    [][\A f \in FileNames :
         f.kind = "event" /\ Exists(f) /\ dir'[f] # dir[f] =>
             dir'[f] # NoFile /\ crashes[f.client] > 0]_vars

\* The expect() on File::open in perform() meets a vanished entry only if that
\* was the lock file of a testcase, renamed between its stat and its open: the
\* renames of the statistics file and the published names never kill a client.
PanicsOnlyOnEventLocks ==
    \A c \in Clients :
        OpenPanics(c) => scan[c].entry.kind = "event_lock"

\* A testcase that an earlier scan imported, from a file that did not change
\* between the stat and the read, is not imported again: last_time covers it.
NoReimport ==
    \A c \in Clients : Imported(c) \cap settled[c] = {}

\* What the testcases' files, names and times come to: the exchange that
\* TestcaseExchange promises, where no testcase is withdrawn while its finder
\* lives, none that a scan has to import is left out, and none is imported again
\* that is settled. A testcase is complete when a file holds it whole, under its
\* lock name too, and offered under its own.
WholeIn(kinds) ==
    {dir[f].lines[1] : f \in {g \in EventFiles :
                               g.kind \in kinds /\ Exists(g) /\ Parses(dir[g])}}

Exchange == INSTANCE TestcaseExchange WITH
    Testcases <- [type : {"NewTestcase"}, client : Clients, serial : 1..MaxTestcases],
    complete  <- WholeIn({"event", "event_lock"}),
    offered   <- WholeIn({"event"}),
    died      <- {c \in Clients : crashes[c] > 0},
    fresh     <- {c \in Clients : lastTime[c] = NoTime},
    importing <- {c \in Clients : scan[c].pc # "idle"},
    owed      <- due,
    taken     <- [c \in Clients |-> Imported(c)],
    settled   <- settled

ImplementsExchange == Exchange!Spec

\* Every statistics event of a client is in its statistics file, in the order
\* fired, unless a crash interrupted a write of that file.
StatsEvent(c, n) == [type |-> "UpdateUserStats", client |-> c, serial |-> n]

StatsWritten(c) ==
    statsFired[c] - (IF fire[c] \in {"st_line", "st_write", "st_rest"} THEN 1 ELSE 0)

StatsComplete ==
    \A c \in Clients :
        ~statsCut[c] /\ StatsWritten(c) > 0 =>
            LET f == IF Exists(StatsLock(c)) THEN StatsLock(c) ELSE StatsName(c)
            IN /\ Exists(f)
               /\ dir[f].lines = [n \in 1..StatsWritten(c) |-> StatsEvent(c, n)]

\* Every scan ends, also when the directory keeps changing under it.
ScansEnd == \A c \in Importers : (scan[c].pc # "idle") ~> (scan[c].pc = "idle")

\* "A stage that loads testcases from disk to sync with other fuzzers"
\* (libpresifuzz_stages/src/sync.rs:54): what another client published before
\* the end of the last scan has been imported.
NothingIsSkipped ==
    \A c \in Importers : \A f \in FileNames :
        /\ f.kind = "event" /\ Exists(f) /\ f.client # c
        /\ lastTime[c] # NoTime /\ dir[f].mtime <= lastTime[c]
        /\ scan[c].pc = "idle" /\ up[c]
        => dir[f].lines[1] \in settled[c]
=============================================================================
