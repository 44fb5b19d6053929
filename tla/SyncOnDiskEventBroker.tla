------------------------- MODULE SyncOnDiskEventBroker -------------------------
(***************************************************************************)
(* SyncOnDiskEventBroker::broker_loop next to the clients that fire events.  *)
(* The broker reads every file of the sync directory that is not older than  *)
(* the newest one of its previous scans, whatever its name, and hands its    *)
(* event to the monitor.  The clients' own scans change nothing here and are *)
(* left out.                                                                 *)
(***************************************************************************)
EXTENDS EventManager

CONSTANTS
    MaxCrashes,  \* bound: deaths of one client
    MaxEvents    \* bound: events one client ever fires, of both kinds

ASSUME BrokerAssumption == MaxCrashes \in Nat /\ MaxEvents \in Nat

VARIABLES
    broker,   \* the locals of broker_loop, and where it is
    monitor,  \* the client_stats of the monitor: of a client the execution
              \*   count and corpus size of the last NewTestcase (its serial
              \*   number stands for both), and the last user statistics
    due,      \* history: testcases the running scan has to handle
    handled,  \* history: events handled by the running scan, each with whether
              \*   its file was still as the stat had found it
    past,     \* history: [event, time] handled so by earlier scans
    crashes   \* history: how often the client has died

brokerVars == <<broker, monitor, due, handled, past>>
vars == <<dirVars, managerVars, brokerVars, crashes>>

NoTime == -1

\* The only client the broker knows of: events carry no forward_id.
client_id == 0

AtStart == [pc |-> "sleeping", listed |-> {}, pending |-> {}, entry |-> NoFile,
            time |-> 0, maxTime |-> NoTime, last |-> NoTime]

Init ==
    /\ SyncDirInit
    /\ ManagerInit
    /\ broker = AtStart
    /\ monitor = <<>>
    /\ due = {}
    /\ handled = {}
    /\ past = {}
    /\ crashes = [c \in Clients |-> 0]

-----------------------------------------------------------------------------
\* The 30 seconds are over and the loop begins again.
Wake ==
    /\ broker.pc = "sleeping"
    /\ broker' = [broker EXCEPT !.pc = "listing", !.listed = Listing,
                                !.pending = Listing]
    /\ due' = UNION {EventsIn(f) : f \in {g \in FileNames :
                  g.kind = "event" /\ Exists(g) /\ dir[g].mtime >= broker.last}}
    /\ UNCHANGED <<dirVars, managerVars, monitor, handled, past, crashes>>

ListLate ==
    /\ broker.pc = "listing"
    /\ \E f \in Listing \ broker.listed :
         broker' = [broker EXCEPT !.listed = @ \cup {f}, !.pending = @ \cup {f}]
    /\ UNCHANGED <<dirVars, managerVars, monitor, due, handled, past, crashes>>

\* Mutated: the newest file of the previous scans is skipped too.
SkippedNotNewer(f) == ~NonEmpty(f) \/ dir[f].mtime <= broker.last

\* Mutated: the age of the file is not looked at.
SkippedNever(f) == ~NonEmpty(f)

\* Mutated: compared with the newest file of this scan.
SkippedAgainstMax(f) == ~NonEmpty(f) \/ dir[f].mtime < broker.maxTime

\* metadata() fails, the file is empty, or it is older than last.
Skipped(f) == ~NonEmpty(f) \/ dir[f].mtime < broker.last

\* Mutated: an entry that cannot be taken yet is left for another look.
StatEntryAgain(f) ==
    /\ broker.pc = "listing" /\ f \in broker.pending
    /\ IF Skipped(f)
       THEN UNCHANGED broker
       ELSE broker' = [broker EXCEPT !.pending = @ \ {f},
                         !.pc = "opening", !.entry = f, !.time = dir[f].mtime,
                         !.maxTime = IF dir[f].mtime > @ THEN dir[f].mtime ELSE @]
    /\ UNCHANGED <<dirVars, managerVars, monitor, due, handled, past, crashes>>

StatEntry(f) ==
    /\ broker.pc = "listing" /\ f \in broker.pending
    /\ IF Skipped(f)
       THEN broker' = [broker EXCEPT !.pending = @ \ {f}]
       ELSE broker' = [broker EXCEPT !.pending = @ \ {f},
                         !.pc = "opening", !.entry = f, !.time = dir[f].mtime,
                         !.maxTime = IF dir[f].mtime > @ THEN dir[f].mtime ELSE @]
    /\ UNCHANGED <<dirVars, managerVars, monitor, due, handled, past, crashes>>

StatsOf(id) ==
    IF id \in DOMAIN monitor THEN monitor[id]
    ELSE [testcase |-> NoFile, user |-> NoFile]

\* client_stats_insert and the update of handle_in_broker.
Updated(e) ==
    LET stats == IF e.type = "NewTestcase"
                 THEN [StatsOf(client_id) EXCEPT !.testcase = e]
                 ELSE [StatsOf(client_id) EXCEPT !.user = e]
    IN [id \in DOMAIN monitor \cup {client_id} |->
          IF id = client_id THEN stats ELSE monitor[id]]

Handle ==
    /\ broker.pc = "opening" /\ Exists(broker.entry)
    /\ LET file == dir[broker.entry] IN
       /\ Parses(file)
       /\ monitor' = Updated(file.lines[1])
       /\ handled' = handled \cup {[event |-> file.lines[1], time |-> broker.time,
                                    unchanged |-> file.mtime = broker.time]}
    /\ broker' = [broker EXCEPT !.pc = "listing", !.entry = NoFile, !.time = 0]
    /\ UNCHANGED <<dirVars, managerVars, due, past, crashes>>

\* The expect()s: the file was renamed away, or is not exactly one event.
BrokerPanics ==
    /\ broker.pc = "opening"
    /\ ~(Exists(broker.entry) /\ Parses(dir[broker.entry]))

BrokerDies ==
    /\ BrokerPanics
    /\ broker' = [AtStart EXCEPT !.pc = "dead"]
    /\ monitor' = <<>> /\ due' = {} /\ handled' = {} /\ past' = {}
    /\ UNCHANGED <<dirVars, managerVars, crashes>>

FinishScan ==
    /\ broker.pc = "listing" /\ broker.pending = {}
    /\ broker' = [broker EXCEPT !.pc = "sleeping", !.last = broker.maxTime,
                                !.listed = {}]
    /\ past' = past \cup {[event |-> h.event, time |-> h.time] :
                             h \in {x \in handled : x.unchanged}}
    /\ handled' = {}
    /\ due' = {}
    /\ UNCHANGED <<dirVars, managerVars, monitor, crashes>>

BrokerStep ==
    \/ Wake \/ ListLate \/ Handle \/ BrokerDies \/ FinishScan
    \/ \E f \in FileNames : StatEntry(f)

-----------------------------------------------------------------------------
Fire(c) ==
    /\ fired[c] + statsFired[c] < MaxEvents
    /\ CreateLock(c) \/ CreateStats(c) \/ ReopenStats(c)
    /\ UNCHANGED <<brokerVars, crashes>>

ContinueFire(c) == FireStep(c) /\ UNCHANGED <<brokerVars, crashes>>

Crash(c) ==
    /\ up[c] /\ crashes[c] < MaxCrashes
    /\ ManagerCrash(c)
    /\ crashes' = [crashes EXCEPT ![c] = @ + 1]
    /\ UNCHANGED brokerVars

Restart(c) == ManagerRestart(c) /\ UNCHANGED <<brokerVars, crashes>>

Next ==
    \/ Tick /\ UNCHANGED <<managerVars, brokerVars, crashes>>
    \/ BrokerStep
    \/ \E c \in Clients : Fire(c) \/ ContinueFire(c) \/ Crash(c) \/ Restart(c)

Spec == Init /\ [][Next]_vars

\* The broker's thread runs until it panics, and a fire() that has begun goes on.
FairSpec ==
    /\ Spec
    /\ WF_vars(BrokerStep)
    /\ \A c \in Clients : WF_vars(ContinueFire(c))

-----------------------------------------------------------------------------
(* Properties. *)

\* Every testcase that is published and not older than `last` when a scan lists
\* the directory has been handled when the scan ends, unless it was replaced.
OnDisk(e) == \E f \in FileNames : f.kind = "event" /\ Holds(f, e)

BrokerHandlesWhatIsDue ==
    [][FinishScan => \A e \in due : (\E h \in handled : h.event = e) \/ ~OnDisk(e)]_vars

\* An event that was read from a file that did not change since its stat is
\* handled again by a later scan only while no newer file has been seen, or when
\* its client has begun to append the next one to its statistics: the newline
\* that fire() writes first leaves the file as readable as before, but newer.
IsAppendedTo(e) == e.type = "UpdateUserStats" /\ e.serial < statsFired[e.client]

OnlyTheNewestIsHandledAgain ==
    \A h \in handled, p \in past :
        h.event = p.event =>
            p.time = broker.last \/ (p.time < h.time /\ IsAppendedTo(h.event))

\* No published testcase makes the broker panic: only the lock files do, which
\* it does not tell apart, and the statistics files.
PublishedNeverKillsTheBroker == BrokerPanics => broker.entry.kind # "event"

\* As long as the broker lives, its scans end.
BrokerScansEnd == (broker.pc # "sleeping") ~> (broker.pc \in {"sleeping", "dead"})

\* A lock file does not stay: it is published, unless its client has died.
\* (The create, write and rename of fire.)
HasLock(c) ==
    \E f \in FileNames :
        f.client = c /\ f.kind \in {"event_lock", "stats_lock"} /\ Exists(f)

LocksAreReleased ==
    \A c \in Clients : HasLock(c) ~> (~HasLock(c) \/ crashes[c] > 0)

\* When the clients fire no more, the monitor comes to rest on an event with the
\* newest modification time: broker_loop reads the files of one directory in any
\* order, but hands the newest ones to the monitor again in every scan, the lock
\* files that a crash left behind among them.
Newest == {f \in FileNames : NonEmpty(f) /\
             \A g \in FileNames : NonEmpty(g) => dir[g].mtime <= dir[f].mtime}

MonitorSettlesOnNewest ==
    <>[](\/ broker.pc = "dead"
         \/ Newest = {}
         \/ /\ client_id \in DOMAIN monitor
            /\ \E f \in Newest : \/ Holds(f, monitor[client_id].testcase)
                                \/ Holds(f, monitor[client_id].user))

\* "Run in the broker until all clients exit"
\* (libpresifuzz_ec/src/manager.rs:69).
BrokerOutlivesClients == broker.pc = "dead" => \A c \in Clients : ~up[c]
=============================================================================
