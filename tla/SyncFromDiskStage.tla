-------------------------- MODULE SyncFromDiskStage --------------------------
(***************************************************************************)
(* SyncFromDiskStage::perform: a client lists the sync directory and imports *)
(* the testcases that are newer than the end of its previous scan.  The      *)
(* directory changes under the scan: between the listing, the stat of an     *)
(* entry and the read of its file other clients write and rename.            *)
(***************************************************************************)
EXTENDS EventManager

VARIABLES
    lastTime,   \* SyncFromDiskMetadata::last_time, NoTime when not inserted yet
    scan,       \* the locals of perform()
    due,        \* history: the testcases published and newer than last_time
                \*   when the running scan listed the directory
    round,      \* history: testcases imported by the scan that runs, each with
                \*   whether its file was still as the stat had found it
    settled     \* history: testcases earlier scans of this life imported so

stageVars == <<lastTime, scan, due, round, settled>>

NoTime == -1
Times  == Nat \cup {NoTime}

\* entry and time are the file between its stat and its read; listed and
\* pending what read_dir has returned and what of it is not visited; pc says where
\* the scan is: between two entries, before File::open, in process_execution.
ScanStates == [pc : {"idle", "listing", "opening", "executing"},
               listed : SUBSET FileNames,
               pending : SUBSET FileNames,
               entry : FileNames \cup {NoFile},
               time : Nat,
               maxTime : Times]

NoScan == [pc |-> "idle", listed |-> {}, pending |-> {}, entry |-> NoFile,
           time |-> 0, maxTime |-> NoTime]

Imported(c) == {r.testcase : r \in round[c]}

StageInit ==
    /\ lastTime = [c \in Clients |-> NoTime]
    /\ scan = [c \in Clients |-> NoScan]
    /\ due = [c \in Clients |-> {}]
    /\ round = [c \in Clients |-> {}]
    /\ settled = [c \in Clients |-> {}]

\* The testcases whose published file is newer than the time t.
NewerPublished(t) ==
    UNION {EventsIn(f) : f \in {g \in FileNames : /\ g.kind = "event"
                                                 /\ Exists(g)
                                                 /\ dir[g].mtime > t}}

-----------------------------------------------------------------------------
ReadDir(c) ==
    /\ up[c] /\ fire[c] = "idle" /\ scan[c].pc = "idle"
    /\ scan' = [scan EXCEPT ![c] = [NoScan EXCEPT !.pc = "listing",
                                                  !.listed = Listing,
                                                  !.pending = Listing]]
    /\ due' = [due EXCEPT ![c] = NewerPublished(lastTime[c])]
    /\ UNCHANGED <<dirVars, managerVars, lastTime, round, settled>>

\* The directory is read in several batches: a name that appears during the
\* scan is returned or not, one that was there is returned once.
ListLate(c) ==
    /\ scan[c].pc = "listing"
    /\ \E f \in Listing \ scan[c].listed :
         scan' = [scan EXCEPT ![c].listed = @ \cup {f},
                              ![c].pending = @ \cup {f}]
    /\ UNCHANGED <<dirVars, managerVars, lastTime, due, round, settled>>

\* What of the entry f makes the scan go on to the next one: metadata() fails,
\* the file is empty, it is a statistics file.
Skipped(f) == ~NonEmpty(f) \/ IsStats(f)

\* Mutated: an entry that cannot be taken yet is left for another look.
StatEntryAgain(c, f) ==
    /\ scan[c].pc = "listing" /\ f \in scan[c].pending
    /\ IF Skipped(f)
       THEN UNCHANGED scan
       ELSE scan' = [scan EXCEPT ![c].pending = @ \ {f},
                                 ![c].pc = "opening",
                                 ![c].entry = f,
                                 ![c].time = dir[f].mtime]
    /\ UNCHANGED <<dirVars, managerVars, lastTime, due, round, settled>>

StatEntry(c, f) ==
    /\ scan[c].pc = "listing" /\ f \in scan[c].pending
    /\ IF Skipped(f)
       THEN scan' = [scan EXCEPT ![c].pending = @ \ {f}]
       ELSE scan' = [scan EXCEPT ![c].pending = @ \ {f},
                                 ![c].pc = "opening",
                                 ![c].entry = f,
                                 ![c].time = dir[f].mtime]
    /\ UNCHANGED <<dirVars, managerVars, lastTime, due, round, settled>>

\* Mutated: an entry as old as last_time is taken.
StaleStrict(c) == lastTime[c] # NoTime /\ scan[c].time < lastTime[c]

\* Mutated: compared with the newest entry of this scan.
StaleAgainstMax(c) == lastTime[c] # NoTime /\ scan[c].time < scan[c].maxTime

\* The test against last_time: `continue` on a negative or a zero duration.
Stale(c) == lastTime[c] # NoTime /\ scan[c].time <= lastTime[c]

\* max_time follows the entries only once there is a last_time.
NextMaxTime(c) ==
    IF lastTime[c] = NoTime \/ scan[c].time <= scan[c].maxTime
    THEN scan[c].maxTime
    ELSE scan[c].time

\* The file is opened before the test: its name must still be there.
SkipStale(c) ==
    /\ scan[c].pc = "opening" /\ Exists(scan[c].entry) /\ Stale(c)
    /\ scan' = [scan EXCEPT ![c].pc = "listing", ![c].entry = NoFile,
                            ![c].time = 0]
    /\ UNCHANGED <<dirVars, managerVars, lastTime, due, round, settled>>

IsTestcase(file) == Parses(file) /\ file.lines[1].type = "NewTestcase"

\* "Skipping testcase loading as it might be corrupted", and the events that are
\* no testcase (`_ => {}`): nothing is executed, but max_time has moved.
SkipOther(c) ==
    /\ scan[c].pc = "opening" /\ Exists(scan[c].entry) /\ ~Stale(c)
    /\ ~IsTestcase(dir[scan[c].entry])
    /\ scan' = [scan EXCEPT ![c].pc = "listing", ![c].entry = NoFile,
                            ![c].time = 0, ![c].maxTime = NextMaxTime(c)]
    /\ UNCHANGED <<dirVars, managerVars, lastTime, due, round, settled>>

Import(c) ==
    /\ scan[c].pc = "opening" /\ Exists(scan[c].entry) /\ ~Stale(c)
    /\ LET file == dir[scan[c].entry] IN
       /\ IsTestcase(file)
       /\ round' = [round EXCEPT ![c] = @ \cup
                      {[testcase |-> file.lines[1],
                        unchanged |-> file.mtime = scan[c].time]}]
    /\ scan' = [scan EXCEPT ![c].pc = "executing", ![c].entry = NoFile,
                            ![c].time = 0, ![c].maxTime = NextMaxTime(c)]
    /\ UNCHANGED <<dirVars, managerVars, lastTime, due, settled>>

\* process_execution returns; the statistics it fired are fire()s of their own.
Executed(c) ==
    /\ scan[c].pc = "executing" /\ fire[c] = "idle"
    /\ scan' = [scan EXCEPT ![c].pc = "listing"]
    /\ UNCHANGED <<dirVars, managerVars, lastTime, due, round, settled>>

FinishScan(c) ==
    /\ scan[c].pc = "listing" /\ scan[c].pending = {}
    /\ lastTime' = [lastTime EXCEPT ![c] =
                      IF scan[c].maxTime = NoTime THEN clock ELSE scan[c].maxTime]
    /\ settled' = [settled EXCEPT ![c] = @ \cup
                      {r.testcase : r \in {x \in round[c] : x.unchanged}}]
    /\ due' = [due EXCEPT ![c] = {}]
    /\ round' = [round EXCEPT ![c] = {}]
    /\ scan' = [scan EXCEPT ![c] = NoScan]
    /\ UNCHANGED <<dirVars, managerVars>>

\* File::open(..).expect(): the entry was renamed away after its stat.
OpenPanics(c) == scan[c].pc = "opening" /\ ~Exists(scan[c].entry)

\* The metadata and the locals die with the process.
StageLost(c) ==
    /\ lastTime' = [lastTime EXCEPT ![c] = NoTime]
    /\ scan' = [scan EXCEPT ![c] = NoScan]
    /\ due' = [due EXCEPT ![c] = {}]
    /\ round' = [round EXCEPT ![c] = {}]
    /\ settled' = [settled EXCEPT ![c] = {}]

StageStep(c) ==
    \/ ListLate(c)
    \/ \E f \in FileNames : StatEntry(c, f)
    \/ SkipStale(c) \/ SkipOther(c) \/ Import(c)
    \/ Executed(c) \/ FinishScan(c)

StageTypeOK ==
    /\ lastTime \in [Clients -> Times]
    /\ scan \in [Clients -> ScanStates]
    /\ due \in [Clients -> SUBSET Events]
    /\ round \in [Clients -> SUBSET [testcase : Events, unchanged : BOOLEAN]]
    /\ settled \in [Clients -> SUBSET Events]
=============================================================================
