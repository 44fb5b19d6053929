----------------------------- MODULE EventManager -----------------------------
(***************************************************************************)
(* SyncOnDiskEventManager: what one client does to the sync directory when  *)
(* it fires an event.  A NewTestcase goes to a file of its own, created     *)
(* under a lock name and renamed when it is written; every UpdateUserStats   *)
(* of the client is appended to one file, renamed to its lock name and back. *)
(* Every other event is ignored.  JSON is the encoding of the default build. *)
(***************************************************************************)
EXTENDS SyncDir

VARIABLES
    up,          \* the client's process runs
    count,       \* self.count, the number in the next event file's name
    fire,        \* where the client is in fire(); "idle" outside
    fired,       \* history: NewTestcase events ever fired by the client
    statsFired,  \* history: UpdateUserStats events ever fired by the client
    statsCut     \* history: a crash interrupted a write of the stats file

managerVars == <<up, count, fire, fired, statsFired, statsCut>>

FiringTestcase == {"tc_write", "tc_rest", "tc_rename"}
FiringStats    == {"st_line", "st_write", "st_rest", "st_rename"}

\* The events being fired are the last ones the histories count.
Testcase(c) == [type |-> "NewTestcase", client |-> c, serial |-> fired[c]]
Stats(c) == [type |-> "UpdateUserStats", client |-> c, serial |-> statsFired[c]]

LockName(c) == EventLock(c, count[c])

ManagerInit ==
    /\ up = [c \in Clients |-> TRUE]
    /\ count = [c \in Clients |-> 0]
    /\ fire = [c \in Clients |-> "idle"]
    /\ fired = [c \in Clients |-> 0]
    /\ statsFired = [c \in Clients |-> 0]
    /\ statsCut = [c \in Clients |-> FALSE]

-----------------------------------------------------------------------------
(* fire(NewTestcase) *)

\* File::create of the lock file, which truncates what a crash left there.
CreateLock(c) ==
    /\ up[c] /\ fire[c] = "idle" /\ fired[c] < MaxTestcases
    /\ fired' = [fired EXCEPT ![c] = @ + 1]
    /\ fire' = [fire EXCEPT ![c] = "tc_write"]
    /\ dir' = Put(LockName(c), <<>>, FALSE)
    /\ UNCHANGED <<clock, up, count, statsFired, statsCut>>

\* write_all may take several writes: the file is visible in between.
TearTestcase(c) ==
    /\ fire[c] = "tc_write"
    /\ fire' = [fire EXCEPT ![c] = "tc_rest"]
    /\ dir' = Put(LockName(c), <<>>, TRUE)
    /\ UNCHANGED <<clock, up, count, fired, statsFired, statsCut>>

WriteTestcase(c) ==
    /\ fire[c] \in {"tc_write", "tc_rest"}
    /\ fire' = [fire EXCEPT ![c] = "tc_rename"]
    /\ dir' = Put(LockName(c), <<Testcase(c)>>, FALSE)
    /\ UNCHANGED <<clock, up, count, fired, statsFired, statsCut>>

\* Mutated: renamed while a part of the event is still to be written.
PublishEarly(c) ==
    /\ fire[c] \in {"tc_rest", "tc_rename"}
    /\ fire' = [fire EXCEPT ![c] = "idle"]
    /\ dir' = Renamed(LockName(c), EventName(c, count[c]))
    /\ count' = [count EXCEPT ![c] = @ + 1]
    /\ UNCHANGED <<clock, up, fired, statsFired, statsCut>>

\* Mutated: the event is counted twice.
PublishCountedTwice(c) ==
    /\ fire[c] = "tc_rename"
    /\ fire' = [fire EXCEPT ![c] = "idle"]
    /\ dir' = Renamed(LockName(c), EventName(c, count[c]))
    /\ count' = [count EXCEPT ![c] = @ + 2]
    /\ UNCHANGED <<clock, up, fired, statsFired, statsCut>>

\* Mutated: the lock file is copied to its name, and left.
PublishCopy(c) ==
    /\ fire[c] = "tc_rename"
    /\ fire' = [fire EXCEPT ![c] = "idle"]
    /\ dir' = [dir EXCEPT ![EventName(c, count[c])] = dir[LockName(c)]]
    /\ count' = [count EXCEPT ![c] = @ + 1]
    /\ UNCHANGED <<clock, up, fired, statsFired, statsCut>>

Publish(c) ==
    /\ fire[c] = "tc_rename"
    /\ fire' = [fire EXCEPT ![c] = "idle"]
    /\ dir' = Renamed(LockName(c), EventName(c, count[c]))
    /\ count' = [count EXCEPT ![c] = @ + 1]
    /\ UNCHANGED <<clock, up, fired, statsFired, statsCut>>

-----------------------------------------------------------------------------
(* fire(UpdateUserStats) *)

BeginStats(c, next) ==
    /\ up[c] /\ fire[c] = "idle" /\ statsFired[c] < MaxStats
    /\ statsFired' = [statsFired EXCEPT ![c] = @ + 1]
    /\ fire' = [fire EXCEPT ![c] = next]
    /\ UNCHANGED <<clock, up, count, fired, statsCut>>

\* Mutated: the statistics file is made anew whether or not there is one.
CreateStatsAlways(c) ==
    /\ BeginStats(c, "st_write")
    /\ dir' = Put(StatsLock(c), <<>>, FALSE)

CreateStats(c) ==
    /\ BeginStats(c, "st_write")
    /\ ~Exists(StatsName(c))
    /\ dir' = Put(StatsLock(c), <<>>, FALSE)

ReopenStats(c) ==
    /\ BeginStats(c, "st_line")
    /\ Exists(StatsName(c))
    /\ dir' = Renamed(StatsName(c), StatsLock(c))

\* The newline between two events is a write of its own.  What was in the file
\* can be read as before, under a new time, until the event follows, and for
\* good when the client is killed here.
NewlineStats(c) ==
    /\ fire[c] = "st_line"
    /\ fire' = [fire EXCEPT ![c] = "st_write"]
    /\ dir' = Put(StatsLock(c), dir[StatsLock(c)].lines, FALSE)
    /\ UNCHANGED <<clock, up, count, fired, statsFired, statsCut>>

TearStats(c) ==
    /\ fire[c] = "st_write"
    /\ fire' = [fire EXCEPT ![c] = "st_rest"]
    /\ dir' = Put(StatsLock(c), dir[StatsLock(c)].lines, TRUE)
    /\ UNCHANGED <<clock, up, count, fired, statsFired, statsCut>>

WriteStats(c) ==
    /\ fire[c] \in {"st_write", "st_rest"}
    /\ fire' = [fire EXCEPT ![c] = "st_rename"]
    /\ dir' = Put(StatsLock(c), Append(dir[StatsLock(c)].lines, Stats(c)), FALSE)
    /\ UNCHANGED <<clock, up, count, fired, statsFired, statsCut>>

PublishStats(c) ==
    /\ fire[c] = "st_rename"
    /\ fire' = [fire EXCEPT ![c] = "idle"]
    /\ dir' = Renamed(StatsLock(c), StatsName(c))
    /\ UNCHANGED <<clock, up, count, fired, statsFired, statsCut>>

-----------------------------------------------------------------------------
(* Steps inside a fire() that has begun. *)
FireStep(c) ==
    \/ TearTestcase(c) \/ WriteTestcase(c) \/ Publish(c)
    \/ NewlineStats(c) \/ TearStats(c) \/ WriteStats(c) \/ PublishStats(c)

\* The process dies: a kill, or a panic or an error return of its own.
ManagerCrash(c) ==
    /\ up' = [up EXCEPT ![c] = FALSE]
    /\ fire' = [fire EXCEPT ![c] = "idle"]
    /\ statsCut' = [statsCut EXCEPT ![c] = @ \/ fire[c] \in FiringStats]
    /\ UNCHANGED <<dir, clock, count, fired, statsFired>>

\* A client launched again builds its manager with new(): the count is 0.
ManagerRestart(c) ==
    /\ ~up[c]
    /\ up' = [up EXCEPT ![c] = TRUE]
    /\ count' = [count EXCEPT ![c] = 0]
    /\ UNCHANGED <<dir, clock, fire, fired, statsFired, statsCut>>

ManagerTypeOK ==
    /\ up \in [Clients -> BOOLEAN]
    /\ count \in [Clients -> 0..MaxTestcases]
    /\ fire \in [Clients -> {"idle"} \cup FiringTestcase \cup FiringStats]
    /\ fired \in [Clients -> 0..MaxTestcases]
    /\ statsFired \in [Clients -> 0..MaxStats]
    /\ statsCut \in [Clients -> BOOLEAN]

\* A file under a published name is one whole testcase of its client, whatever
\* a crash left of the lock file it was renamed from (fire, NewTestcase).
PublishedWhole ==
    \A f \in FileNames :
        f.kind = "event" /\ Exists(f) =>
            /\ Parses(dir[f])
            /\ dir[f].lines[1].type = "NewTestcase"
            /\ dir[f].lines[1].client = f.client
=============================================================================
