-------------------------- MODULE SyncOnDisk_proofs --------------------------
(***************************************************************************)
(* Safety of SyncOnDisk for any number of clients, files and crashes.       *)
(***************************************************************************)
EXTENDS SyncOnDisk, EventManager_proofs

(* The inductive invariant: that of the managers, the types of the scans, and *)
(* what relates a scan and the deaths of a client to the directory.          *)

\* A client that is dead has died.
DeadHasDied == \A c \in Clients : ~up[c] => crashes[c] > 0

\* The number of the next file is fresh until the client is launched again.
FreshNames ==
    \A c \in Clients : crashes[c] = 0 =>
        \A n \in 0..MaxTestcases : n >= count[c] => ~Exists(EventName(c, n))

\* What a scan is about to open is no statistics file, and if it is a published
\* testcase it is still there.
OpenedIsThere ==
    \A c \in Clients : scan[c].pc = "opening" =>
        /\ scan[c].entry \in FileNames
        /\ ~IsStats(scan[c].entry)
        /\ scan[c].entry.kind = "event" => Exists(scan[c].entry)

StageTypeInv == StageTypeOK /\ crashes \in [Clients -> Nat]

IInv == /\ ManagerInv /\ StageTypeInv
        /\ DeadHasDied /\ FreshNames /\ OpenedIsThere

-----------------------------------------------------------------------------
(* The types of the stage. *)

\* The fields of a scan.
LEMMA ScanTyped ==
    ASSUME NEW s \in ScanStates
    PROVE  /\ s.pc \in {"idle", "listing", "opening", "executing"}
           /\ s.listed \in SUBSET FileNames
           /\ s.pending \in SUBSET FileNames
           /\ s.entry \in FileNames \cup {NoFile}
           /\ s.time \in Nat
           /\ s.maxTime \in Times
BY DEF ScanStates

\* A client that does not scan has a scan state too.
LEMMA NoScanTyped == NoScan \in ScanStates
BY DEF NoScan, ScanStates, Times, NoTime

\* The events whole in a file are events.
LEMMA EventsInTyped ==
    ASSUME DirTypeOK, NEW f \in FileNames, Exists(f)
    PROVE  EventsIn(f) \subseteq Events
<1>1. dir[f].lines \in Seq(Events)
  BY ExistingIsFile DEF Files
<1> QED
  BY <1>1 DEF EventsIn

\* The testcases that are due to a scan are events.
LEMMA NewerPublishedTyped ==
    ASSUME DirTypeOK, NEW t
    PROVE  NewerPublished(t) \subseteq Events
BY EventsInTyped DEF NewerPublished

\* perform() starts a scan of the files in the directory.
LEMMA ReadDirTyped ==
    ASSUME DirTypeOK, StageTypeOK, NEW c \in Clients, ReadDir(c)
    PROVE  StageTypeOK'
<1> USE DEF ReadDir
<1>1. Listing \subseteq FileNames
  BY DEF Listing
<1>2. [NoScan EXCEPT !.pc = "listing", !.listed = Listing, !.pending = Listing]
        \in ScanStates
  BY <1>1 DEF NoScan, ScanStates, Times, NoTime
<1>3. scan' \in [Clients -> ScanStates]
  BY <1>2 DEF StageTypeOK
<1>4. due' \in [Clients -> SUBSET Events]
  BY NewerPublishedTyped DEF StageTypeOK
<1> QED
  BY <1>3, <1>4 DEF StageTypeOK

\* An entry that read_dir finds late joins the scan.
LEMMA ListLateTyped ==
    ASSUME StageTypeOK, NEW c \in Clients, ListLate(c)
    PROVE  StageTypeOK'
<1> USE DEF ListLate
<1>1. PICK f \in Listing \ scan[c].listed :
        scan' = [scan EXCEPT ![c].listed = @ \cup {f}, ![c].pending = @ \cup {f}]
  OBVIOUS
<1>2. f \in FileNames
  BY <1>1 DEF Listing
<1>3. scan[c] \in ScanStates
  BY DEF StageTypeOK
<1>4. [scan[c] EXCEPT !.listed = @ \cup {f}, !.pending = @ \cup {f}] \in ScanStates
  BY <1>2, <1>3 DEF ScanStates
<1>5. scan' \in [Clients -> ScanStates]
  BY <1>1, <1>4 DEF StageTypeOK
<1> QED
  BY <1>5 DEF StageTypeOK

\* The time of an entry is taken and it is opened, or passed over.
LEMMA StatEntryTyped ==
    ASSUME DirTypeOK, StageTypeOK, NEW c \in Clients, NEW f \in FileNames,
           StatEntry(c, f)
    PROVE  StageTypeOK'
<1> USE DEF StatEntry
<1>1. scan[c] \in ScanStates
  BY DEF StageTypeOK
<1>2. CASE Skipped(f)
  <2>1. [scan[c] EXCEPT !.pending = @ \ {f}] \in ScanStates
    BY <1>1 DEF ScanStates
  <2>2. scan' \in [Clients -> ScanStates]
    BY <1>2, <2>1 DEF StageTypeOK
  <2> QED
    BY <2>2 DEF StageTypeOK
<1>3. CASE ~Skipped(f)
  <2>1. dir[f].mtime \in Nat
    BY <1>3, ExistingIsFile DEF Skipped, NonEmpty, Files
  <2>2. [scan[c] EXCEPT !.pending = @ \ {f}, !.pc = "opening", !.entry = f,
                        !.time = dir[f].mtime] \in ScanStates
    BY <1>1, <2>1 DEF ScanStates
  <2>3. scan' \in [Clients -> ScanStates]
    BY <1>3, <2>2 DEF StageTypeOK
  <2> QED
    BY <2>3 DEF StageTypeOK
<1> QED
  BY <1>2, <1>3

\* An entry that is not newer than last_time is left.
LEMMA SkipStaleTyped ==
    ASSUME StageTypeOK, NEW c \in Clients, SkipStale(c)
    PROVE  StageTypeOK'
<1> USE DEF SkipStale
<1>1. scan[c] \in ScanStates
  BY DEF StageTypeOK
<1>2. [scan[c] EXCEPT !.pc = "listing", !.entry = NoFile, !.time = 0] \in ScanStates
  BY <1>1 DEF ScanStates, Times
<1>3. scan' \in [Clients -> ScanStates]
  BY <1>2 DEF StageTypeOK
<1> QED
  BY <1>3 DEF StageTypeOK

\* So is one that is no testcase.
LEMMA SkipOtherTyped ==
    ASSUME StageTypeOK, NEW c \in Clients, SkipOther(c)
    PROVE  StageTypeOK'
<1> USE DEF SkipOther
<1>1. scan[c] \in ScanStates
  BY DEF StageTypeOK
<1>2. [scan[c] EXCEPT !.pc = "listing", !.entry = NoFile, !.time = 0,
                    !.maxTime = NextMaxTime(c)] \in ScanStates
  BY <1>1 DEF ScanStates, Times, NextMaxTime
<1>3. scan' \in [Clients -> ScanStates]
  BY <1>2 DEF StageTypeOK
<1> QED
  BY <1>3 DEF StageTypeOK

\* An execution of an imported testcase ends.
LEMMA ExecutedTyped ==
    ASSUME StageTypeOK, NEW c \in Clients, Executed(c)
    PROVE  StageTypeOK'
<1> USE DEF Executed
<1>1. scan[c] \in ScanStates
  BY DEF StageTypeOK
<1>2. [scan[c] EXCEPT !.pc = "listing"] \in ScanStates
  BY <1>1 DEF ScanStates, Times
<1>3. scan' \in [Clients -> ScanStates]
  BY <1>2 DEF StageTypeOK
<1> QED
  BY <1>3 DEF StageTypeOK

\* A testcase is read from a file that is still there and executed.
LEMMA ImportTyped ==
    ASSUME DirTypeOK, StageTypeOK, OpenedIsThere, NEW c \in Clients, Import(c)
    PROVE  StageTypeOK'
<1> USE DEF Import
<1> DEFINE file == dir[scan[c].entry]
<1>1. scan[c] \in ScanStates
  BY DEF StageTypeOK
<1>2. [scan[c] EXCEPT !.pc = "executing", !.entry = NoFile, !.time = 0,
                    !.maxTime = NextMaxTime(c)] \in ScanStates
  BY <1>1 DEF ScanStates, Times, NextMaxTime
<1>3. scan' \in [Clients -> ScanStates]
  BY <1>2 DEF StageTypeOK
<1>4. file.lines[1] \in Events
  <2>1. scan[c].entry \in FileNames
    BY DEF OpenedIsThere
  <2>2. file \in Files
    BY <2>1, ExistingIsFile
  <2>3. file.lines \in Seq(Events) /\ Len(file.lines) = 1
    BY <2>2 DEF Files, IsTestcase, Parses
  <2> QED
    BY <2>3
<1>5. round' \in [Clients -> SUBSET [testcase : Events, unchanged : BOOLEAN]]
  <2> DEFINE r == [testcase |-> file.lines[1],
                   unchanged |-> file.mtime = scan[c].time]
  <2>1. r \in [testcase : Events, unchanged : BOOLEAN]
    BY <1>4
  <2>2. round' = [round EXCEPT ![c] = @ \cup {r}]
    OBVIOUS
  <2> HIDE DEF r
  <2> QED
    BY <2>1, <2>2 DEF StageTypeOK
<1> QED
  BY <1>3, <1>5 DEF StageTypeOK

\* The end of the scan takes over its times.
LEMMA FinishScanTyped ==
    ASSUME DirTypeOK, StageTypeOK, NEW c \in Clients, FinishScan(c)
    PROVE  StageTypeOK'
<1> USE DEF FinishScan
<1>1. scan[c] \in ScanStates
  BY DEF StageTypeOK
<1>2. scan' \in [Clients -> ScanStates]
  BY NoScanTyped DEF StageTypeOK
<1>3. lastTime' \in [Clients -> Times]
  BY <1>1 DEF ScanStates, StageTypeOK, DirTypeOK, Times
<1>4. settled' \in [Clients -> SUBSET Events]
  BY DEF StageTypeOK
<1> QED
  BY <1>2, <1>3, <1>4 DEF StageTypeOK

\* A client that dies loses its scan and its metadata.
LEMMA StageLostTyped ==
    ASSUME StageTypeOK, NEW c \in Clients, StageLost(c)
    PROVE  StageTypeOK'
BY NoScanTyped DEF StageTypeOK, StageLost, Times

-----------------------------------------------------------------------------
(* The names of the published testcases. *)

\* The steps of a manager that touch no published testcase.
LEMMA KeepsFreshNames ==
    ASSUME IInv, UNCHANGED crashes, \A c \in Clients : count'[c] = count[c],
           \A f \in FileNames : f.kind = "event" => dir'[f] = dir[f]
    PROVE  FreshNames'
<1> SUFFICES ASSUME NEW c \in Clients, crashes[c] = 0,
                    NEW n \in 0..MaxTestcases, n >= count[c]
             PROVE  ~Exists(EventName(c, n))'
  BY DEF FreshNames
<1>1. EventName(c, n) \in FileNames /\ EventName(c, n).kind = "event"
  BY NamesAreFileNames DEF EventName
<1>2. ~Exists(EventName(c, n))
  BY DEF IInv, FreshNames
<1> QED
  BY <1>1, <1>2 DEF Exists, EventName

\* Where no published testcase vanishes and no scan moves, the entry that is
\* about to be opened is still there.
LEMMA KeepsOpened ==
    ASSUME OpenedIsThere, UNCHANGED scan,
           \A f \in FileNames : f.kind = "event" /\ Exists(f) => Exists(f)'
    PROVE  OpenedIsThere'
BY DEF OpenedIsThere, Exists

-----------------------------------------------------------------------------
(* Every step keeps the invariant. *)

\* The initial states satisfy the invariant.
LEMMA InitInv == ASSUME Init PROVE IInv
<1> USE DEF Init
<1>1. ManagerInv
  BY ManagerInitInv
<1>2. StageTypeInv
  BY NoScanTyped DEF StageTypeInv, StageTypeOK, StageInit, Times
<1>3. DeadHasDied /\ OpenedIsThere
  BY DEF DeadHasDied, OpenedIsThere, ManagerInit, StageInit, NoScan
<1>4. FreshNames
  BY NamesAreFileNames DEF FreshNames, SyncDirInit, Exists
<1> QED
  BY <1>1, <1>2, <1>3, <1>4 DEF IInv

\* A step of a manager that publishes nothing.
LEMMA QuietFireInv ==
    ASSUME IInv, ManagerInv', UNCHANGED <<stageVars, crashes, up, count>>,
           \A f \in FileNames : f.kind = "event" => dir'[f] = dir[f]
    PROVE  IInv'
<1> USE DEF stageVars
<1>1. StageTypeInv'
  BY DEF IInv, StageTypeInv, StageTypeOK
<1>2. DeadHasDied'
  BY DEF IInv, DeadHasDied
<1>3. FreshNames'
  BY KeepsFreshNames
<1>4. OpenedIsThere'
  BY KeepsOpened DEF IInv, Exists
<1> QED
  BY <1>1, <1>2, <1>3, <1>4 DEF IInv

\* The rename that publishes a testcase uses up the count's name.
LEMMA PublishesInv ==
    ASSUME IInv, NEW c \in Clients, Publish(c), UNCHANGED <<stageVars, crashes>>
    PROVE  IInv'
<1> USE DEF stageVars
<1> DEFINE name == EventName(c, count[c])
<1>1. ManagerInv /\ ManagerInv'
  BY PublishInv DEF IInv
<1>2. /\ dir'[name] # NoFile
      /\ \A f \in FileNames : f.kind = "event" /\ f # name => dir'[f] = dir[f]
  BY <1>1, PublishPublishesOne
<1>3. StageTypeInv'
  BY DEF IInv, StageTypeInv, StageTypeOK
<1>4. DeadHasDied'
  BY DEF IInv, DeadHasDied, Publish
<1>5. FreshNames'
  <2> SUFFICES ASSUME NEW d \in Clients, crashes[d] = 0,
                      NEW n \in 0..MaxTestcases, n >= count'[d]
               PROVE  ~Exists(EventName(d, n))'
    BY DEF FreshNames
  <2>1. n >= count[d] /\ EventName(d, n) # name
    BY <1>1 DEF Publish, EventName, ManagerInv, ManagerTypeOK
  <2>2. ~Exists(EventName(d, n))
    BY <2>1 DEF IInv, FreshNames
  <2>3. EventName(d, n) \in FileNames /\ EventName(d, n).kind = "event"
    BY NamesAreFileNames DEF EventName
  <2> QED
    BY <1>2, <2>1, <2>2, <2>3 DEF Exists, EventName
<1>6. OpenedIsThere'
  BY <1>2, KeepsOpened DEF IInv, Exists
<1> QED
  BY <1>1, <1>3, <1>4, <1>5, <1>6 DEF IInv

\* A step of a stage.
LEMMA StageKeepsInv ==
    ASSUME IInv, UNCHANGED <<dirVars, managerVars, crashes>>,
           StageTypeOK', OpenedIsThere'
    PROVE  IInv'
<1>1. ManagerInv'
  BY OutsideInv DEF IInv
<1>2. StageTypeInv'
  BY DEF IInv, StageTypeInv
<1>3. DeadHasDied' /\ FreshNames'
  BY DEF IInv, DeadHasDied, FreshNames, dirVars, managerVars, Exists
<1> QED
  BY <1>1, <1>2, <1>3 DEF IInv

\* No step of a stage opens anything but StatEntry, which opens what is there.
LEMMA StatEntryOpens ==
    ASSUME IInv, NEW c \in Clients, NEW f \in FileNames, StatEntry(c, f)
    PROVE  OpenedIsThere'
<1> USE DEF StatEntry
<1>1. scan \in [Clients -> ScanStates] /\ scan[c] \in ScanStates
  BY DEF IInv, StageTypeInv, StageTypeOK
<1>2. OpenedIsThere /\ dir' = dir
  BY DEF IInv, dirVars
<1>3. \A d \in Clients \ {c} : scan'[d] = scan[d]
  BY <1>1
<1>4. scan'[c].pc = "opening" =>
        scan'[c].entry = f /\ Exists(f) /\ ~IsStats(f)
  <2>1. CASE Skipped(f)
    <3>1. scan'[c] = [scan[c] EXCEPT !.pending = @ \ {f}]
      BY <1>1, <2>1
    <3> QED
      BY <1>1, <3>1 DEF ScanStates
  <2>2. CASE ~Skipped(f)
    <3>1. scan'[c] = [scan[c] EXCEPT !.pending = @ \ {f}, !.pc = "opening",
                                     !.entry = f, !.time = dir[f].mtime]
      BY <1>1, <2>2
    <3> QED
      BY <1>1, <2>2, <3>1 DEF ScanStates, Skipped, NonEmpty
  <2> QED
    BY <2>1, <2>2
<1> QED
  BY <1>2, <1>3, <1>4 DEF OpenedIsThere, Exists

\* Only StatEntry opens an entry.
LEMMA OthersOpenNothing ==
    ASSUME IInv, NEW c \in Clients,
           \/ ReadDir(c) \/ ListLate(c) \/ SkipStale(c) \/ SkipOther(c)
           \/ Import(c) \/ Executed(c) \/ FinishScan(c)
    PROVE  OpenedIsThere'
<1>1. scan \in [Clients -> ScanStates] /\ scan[c] \in ScanStates
  BY DEF IInv, StageTypeInv, StageTypeOK
<1>2. dir' = dir
  BY DEF ReadDir, ListLate, SkipStale, SkipOther, Import, Executed, FinishScan,
     dirVars
<1>3. \A d \in Clients \ {c} : scan'[d] = scan[d]
  BY <1>1 DEF ReadDir, ListLate, SkipStale, SkipOther, Import, Executed,
     FinishScan
<1>4. scan'[c].pc # "opening"
  <2>1. CASE ReadDir(c)
    BY <1>1, <2>1 DEF ReadDir, NoScan
  <2>2. CASE ListLate(c)
    <3>1. PICK f \in Listing \ scan[c].listed :
            scan'[c] = [scan[c] EXCEPT !.listed = @ \cup {f},
                                       !.pending = @ \cup {f}]
      BY <1>1, <2>2 DEF ListLate
    <3> QED
      BY <1>1, <2>2, <3>1 DEF ListLate, ScanStates
  <2>3. CASE SkipStale(c)
    BY <1>1, <2>3 DEF SkipStale, ScanStates
  <2>4. CASE SkipOther(c)
    BY <1>1, <2>4 DEF SkipOther, ScanStates
  <2>5. CASE Import(c)
    BY <1>1, <2>5 DEF Import, ScanStates
  <2>6. CASE Executed(c)
    BY <1>1, <2>6 DEF Executed, ScanStates
  <2>7. CASE FinishScan(c)
    BY <1>1, <2>7 DEF FinishScan, NoScan
  <2> QED
    BY <2>1, <2>2, <2>3, <2>4, <2>5, <2>6, <2>7
<1> QED
  BY <1>2, <1>3, <1>4 DEF IInv, OpenedIsThere, Exists

\* Every step of a scan keeps the invariant.
LEMMA StageStepInv ==
    ASSUME IInv, NEW c \in Clients, ReadDir(c) \/ StageStep(c), UNCHANGED crashes
    PROVE  IInv'
<1>1. DirTypeOK /\ StageTypeOK /\ OpenedIsThere
  BY DEF IInv, ManagerInv, StageTypeInv
<1>2. UNCHANGED <<dirVars, managerVars>>
  BY DEF ReadDir, StageStep, ListLate, StatEntry, SkipStale, SkipOther, Import,
     Executed, FinishScan
<1>3. StageTypeOK'
  BY <1>1, ReadDirTyped, ListLateTyped, StatEntryTyped, SkipStaleTyped,
     SkipOtherTyped, ImportTyped, ExecutedTyped, FinishScanTyped DEF StageStep
<1>4. OpenedIsThere'
  BY StatEntryOpens, OthersOpenNothing DEF StageStep
<1> QED
  BY <1>2, <1>3, <1>4, StageKeepsInv

\* The end of a client, in the middle of fire() or of a scan, keeps it.
LEMMA DiesInv ==
    ASSUME IInv, NEW c \in Clients, Dies(c)
    PROVE  IInv'
<1> USE DEF Dies
<1>1. ManagerInv'
  BY ManagerCrashInv DEF IInv
<1>2. StageTypeOK'
  BY StageLostTyped DEF IInv, StageTypeInv
<1>3. crashes \in [Clients -> Nat] /\ crashes' \in [Clients -> Nat]
  BY DEF IInv, StageTypeInv
<1>4. DeadHasDied'
  BY <1>3 DEF IInv, DeadHasDied, ManagerCrash, ManagerInv, ManagerTypeOK
<1>5. FreshNames'
  BY <1>3 DEF IInv, FreshNames, ManagerCrash, Exists
<1>6. OpenedIsThere'
  BY DEF IInv, StageTypeInv, StageTypeOK, OpenedIsThere, ManagerCrash,
     StageLost, NoScan, Exists
<1> QED
  BY <1>1, <1>2, <1>3, <1>4, <1>5, <1>6 DEF IInv, StageTypeInv

\* So does its restart.
LEMMA RestartInv ==
    ASSUME IInv, NEW c \in Clients, Restart(c)
    PROVE  IInv'
<1> USE DEF Restart, stageVars
<1>1. ManagerInv'
  BY ManagerRestartInv DEF IInv
<1>2. StageTypeInv'
  BY DEF IInv, StageTypeInv, StageTypeOK
<1>3. DeadHasDied'
  BY DEF IInv, DeadHasDied, ManagerRestart, ManagerInv, ManagerTypeOK
<1>4. FreshNames'
  BY DEF IInv, FreshNames, ManagerRestart, DeadHasDied, Exists, ManagerInv,
     ManagerTypeOK
<1>5. OpenedIsThere'
  BY DEF IInv, OpenedIsThere, ManagerRestart, Exists
<1> QED
  BY <1>1, <1>2, <1>3, <1>4, <1>5 DEF IInv

\* Every step keeps the invariant.
LEMMA NextInv == ASSUME IInv, [Next]_vars PROVE IInv'
<1>1. CASE Tick /\ UNCHANGED <<managerVars, stageVars, crashes>>
  <2>1. ManagerInv'
    BY <1>1, TickInv DEF IInv
  <2> QED
    BY <1>1, <2>1, QuietFireInv DEF Tick, managerVars
<1>2. ASSUME NEW c \in Clients, FireTestcase(c) PROVE IInv'
  BY <1>2, CreateLockInv, WritesPublishNothing, QuietFireInv
     DEF FireTestcase, IInv, CreateLock
<1>3. ASSUME NEW c \in Clients, FireStats(c) PROVE IInv'
  BY <1>3, CreateStatsInv, ReopenStatsInv, StatsPublishNothing, QuietFireInv
     DEF FireStats, IInv, CreateStats, ReopenStats, BeginStats
<1>4. ASSUME NEW c \in Clients, StartScan(c) \/ ContinueScan(c) PROVE IInv'
  BY <1>4, StageStepInv DEF StartScan, ContinueScan
<1>5. ASSUME NEW c \in Clients, ContinueFire(c) PROVE IInv'
  <2>1. CASE Publish(c)
    BY <1>5, <2>1, PublishesInv DEF ContinueFire
  <2>2. CASE ~Publish(c)
    BY <1>5, <2>2, FireStepInv, WritesPublishNothing, StatsPublishNothing,
       QuietFireInv
       DEF ContinueFire, FireStep, IInv, TearTestcase, WriteTestcase,
           NewlineStats, TearStats, WriteStats, PublishStats
  <2> QED
    BY <2>1, <2>2
<1>6. ASSUME NEW c \in Clients, Panic(c) \/ Crash(c) PROVE IInv'
  BY <1>6, DiesInv DEF Panic, Crash
<1>7. ASSUME NEW c \in Clients, Restart(c) PROVE IInv'
  BY <1>7, RestartInv
<1>8. CASE UNCHANGED vars
  BY <1>8, OutsideInv, QuietFireInv DEF vars, dirVars, managerVars, IInv
<1> QED
  BY <1>1, <1>2, <1>3, <1>4, <1>5, <1>6, <1>7, <1>8 DEF Next, Running

-----------------------------------------------------------------------------
(* What follows. *)

\* IInv holds in every reachable state.
THEOREM Invariance == Spec => []IInv
<1>1. Init => IInv
  BY InitInv
<1>2. IInv /\ [Next]_vars => IInv'
  BY NextInv
<1> QED
  BY <1>1, <1>2, PTL DEF Spec

\* The counters stay within their bounds, and the files and the locals of the
\* scans keep their shape, for any clients and bounds.
THEOREM TypeCorrect == Spec => []TypeOK
<1>1. IInv => TypeOK
  BY DEF IInv, TypeOK, ManagerInv, StageTypeInv
<1> QED
  BY <1>1, Invariance, PTL

\* Whoever lists the directory finds every published testcase whole: write_all
\* and the rename of fire() come in that order, in whatever a crash leaves.
THEOREM PublishedAlwaysWhole == Spec => []PublishedWhole
<1>1. IInv => PublishedWhole
  BY ManagerInvPublishedWhole DEF IInv
<1> QED
  BY <1>1, Invariance, PTL

\* The expect() on File::open in perform() can fail on the lock file of a
\* testcase only.
THEOREM PanicsOnlyOnLocks == Spec => []PanicsOnlyOnEventLocks
<1>1. IInv => PanicsOnlyOnEventLocks
  BY DEF IInv, OpenedIsThere, PanicsOnlyOnEventLocks, OpenPanics, IsStats,
     FileNames
<1> QED
  BY <1>1, Invariance, PTL

\* Only a rename touches a published testcase, and only that of a client whose
\* numbers start over.
LEMMA ReplacedOnlyAfterCrash ==
    ASSUME IInv, [Next]_vars, NEW f \in FileNames, f.kind = "event", Exists(f),
           dir'[f] # dir[f]
    PROVE  dir'[f] # NoFile /\ crashes[f.client] > 0
<1>1. ManagerInv
  BY DEF IInv
<1>2. PICK c \in Clients : Publish(c)
  <2>1. dir' # dir
    OBVIOUS
  <2>2. PICK c \in Clients :
          CreateLock(c) \/ CreateStats(c) \/ ReopenStats(c) \/ FireStep(c)
    <3>1. CASE UNCHANGED vars
      BY <2>1, <3>1 DEF vars, dirVars
    <3>2. CASE Tick
      BY <2>1, <3>2 DEF Tick
    <3>3. ASSUME NEW c \in Clients,
                 \/ FireTestcase(c) \/ FireStats(c) \/ ContinueFire(c)
          PROVE  CreateLock(c) \/ CreateStats(c) \/ ReopenStats(c)
                 \/ FireStep(c)
      BY <2>1, <3>3 DEF FireTestcase, FireStats, ContinueFire
    <3>4. ASSUME NEW c \in Clients, StartScan(c) \/ ContinueScan(c)
          PROVE  FALSE
      BY <2>1, <3>4 DEF StartScan, ContinueScan, StageStep, ReadDir, ListLate,
         StatEntry, SkipStale, SkipOther, Import, Executed, FinishScan, dirVars
    <3>5. ASSUME NEW c \in Clients, Panic(c) \/ Crash(c) \/ Restart(c)
          PROVE  FALSE
      BY <2>1, <3>5 DEF Panic, Crash, Dies, ManagerCrash, Restart,
         ManagerRestart, dirVars
    <3> QED
      BY <3>1, <3>2, <3>3, <3>4, <3>5 DEF Next, Running
  <2>3. Publish(c)
    BY <1>1, <2>2, WritesPublishNothing, StatsPublishNothing DEF FireStep
  <2> QED
    BY <2>3
<1>3. f = EventName(c, count[c]) /\ dir'[f] # NoFile
  BY <1>1, <1>2, PublishPublishesOne
<1>4. crashes[c] # 0
  BY <1>1, <1>3 DEF IInv, FreshNames, ManagerInv, ManagerTypeOK
<1>5. f.client = c
  BY <1>3 DEF EventName
<1> QED
  BY <1>3, <1>4, <1>5 DEF IInv, StageTypeInv

\* What a reader has once found under a published name stays there, until its
\* client has died and starts its numbers over (count in new()).
THEOREM PublishedNamesStay == Spec => PublishedStays
<1> DEFINE Stays == \A f \in FileNames :
                      f.kind = "event" /\ Exists(f) /\ dir'[f] # dir[f] =>
                          dir'[f] # NoFile /\ crashes[f.client] > 0
<1>1. IInv /\ [Next]_vars => [Stays]_vars
  BY ReplacedOnlyAfterCrash
<1> QED
  BY <1>1, Invariance, PTL DEF Spec, PublishedStays

-----------------------------------------------------------------------------
(* The statistics file.  Outside fire(UpdateUserStats) it has its own name and *)
(* holds every event that was fired; inside, it has the name of the lock and   *)
(* lacks the one event that is being written.                                *)

StatsLines(c, n) == [k \in 1..n |-> StatsEvent(c, k)]

StatsAre(c, f) == Exists(f) /\ dir[f].lines = StatsLines(c, StatsWritten(c))

StatsInFiles(c) ==
    ~statsCut[c] =>
        IF fire[c] \in FiringStats
        THEN StatsAre(c, StatsLock(c))
        ELSE /\ ~Exists(StatsLock(c))
             /\ IF statsFired[c] = 0 THEN ~Exists(StatsName(c))
                                     ELSE StatsAre(c, StatsName(c))

StatsInv(c) ==
    /\ fire[c] \in FiringStats => statsFired[c] > 0
    /\ StatsInFiles(c)

\* What a step leaves alone when it concerns no statistics of the client.
StatsKept(c) ==
    /\ dir'[StatsLock(c)] = dir[StatsLock(c)]
    /\ dir'[StatsName(c)] = dir[StatsName(c)]
    /\ statsFired'[c] = statsFired[c] /\ statsCut'[c] = statsCut[c]
    /\ fire'[c] = fire[c] \/ (fire[c] \notin FiringStats /\ fire'[c] \notin FiringStats)

\* The append of the next event to the file that holds those before it.
LEMMA NextStatsLine ==
    ASSUME NEW c \in Clients, NEW n \in Nat
    PROVE  Append(StatsLines(c, n), StatsEvent(c, n + 1)) = StatsLines(c, n + 1)
<1>1. \A k \in 1..n : StatsEvent(c, k) \in Events
  BY DEF StatsEvent, Events
<1>2. StatsLines(c, n) \in Seq(Events) /\ Len(StatsLines(c, n)) = n
  BY <1>1 DEF StatsLines
<1>3. StatsEvent(c, n + 1) \in Events
  BY DEF StatsEvent, Events
<1> DEFINE s == Append(StatsLines(c, n), StatsEvent(c, n + 1))
<1>4. /\ s \in Seq(Events) /\ Len(s) = n + 1
      /\ \A k \in 1..n : s[k] = StatsLines(c, n)[k]
      /\ s[n + 1] = StatsEvent(c, n + 1)
  BY <1>2, <1>3
<1>5. \A k \in 1..(n + 1) : s[k] = StatsEvent(c, k)
  BY <1>4 DEF StatsLines
<1>6. s = [k \in 1..(n + 1) |-> s[k]]
  BY <1>4
<1> HIDE DEF s
<1>7. s = [k \in 1..(n + 1) |-> StatsEvent(c, k)]
  BY <1>5, <1>6
<1> QED
  BY <1>7 DEF s, StatsLines

\* A client's statistics are its own: what leaves them alone keeps them.
LEMMA KeptStatsInv ==
    ASSUME NEW c \in Clients, StatsInv(c), StatsKept(c)
    PROVE  StatsInv(c)'
<1>1. StatsLock(c)' = StatsLock(c) /\ StatsName(c)' = StatsName(c)
  BY DEF StatsLock, StatsName
<1>2. (fire'[c] \in FiringStats) = (fire[c] \in FiringStats)
      /\ StatsWritten(c)' = StatsWritten(c)
  BY DEF StatsKept, StatsWritten, FiringStats
<1>3. Exists(StatsLock(c))' = Exists(StatsLock(c))
      /\ Exists(StatsName(c))' = Exists(StatsName(c))
  BY <1>1 DEF StatsKept, Exists
<1>4. StatsAre(c, StatsLock(c))' = StatsAre(c, StatsLock(c))
      /\ StatsAre(c, StatsName(c))' = StatsAre(c, StatsName(c))
  BY <1>1, <1>2, <1>3 DEF StatsKept, StatsAre, StatsLines, StatsEvent
<1> QED
  BY <1>2, <1>3, <1>4 DEF StatsInv, StatsInFiles, StatsKept

\* fire(UpdateUserStats) from its first step to its last.
LEMMA FiresStatsInv ==
    ASSUME ManagerInv, NEW c \in Clients, StatsInv(c),
           \/ CreateStats(c) \/ ReopenStats(c)
           \/ NewlineStats(c) \/ TearStats(c) \/ WriteStats(c) \/ PublishStats(c)
    PROVE  StatsInv(c)'
<1>1. /\ dir \in [FileNames -> Files \cup {NoFile}]
      /\ StatsLock(c) \in FileNames /\ StatsName(c) \in FileNames
      /\ StatsLock(c) # StatsName(c)
  BY LockNames DEF ManagerInv, DirTypeOK
<1>2. /\ statsFired \in [Clients -> Nat] /\ statsCut \in [Clients -> BOOLEAN]
      /\ fire \in [Clients -> {"idle"} \cup FiringTestcase \cup FiringStats]
  BY SyncDirAssumption DEF ManagerInv, ManagerTypeOK
<1>3. StatsLock(c)' = StatsLock(c) /\ StatsName(c)' = StatsName(c)
  BY DEF StatsLock, StatsName
<1>4. statsCut' = statsCut
  BY DEF CreateStats, ReopenStats, BeginStats, NewlineStats, TearStats, WriteStats,
     PublishStats
<1>12. (fire[c] \in FiringStats => statsFired[c] > 0)'
  <2>1. CASE CreateStats(c) \/ ReopenStats(c)
    <3>1. statsFired' = [statsFired EXCEPT ![c] = @ + 1]
      BY <2>1 DEF CreateStats, ReopenStats, BeginStats
    <3>2. statsFired[c] \in Nat /\ statsFired'[c] = statsFired[c] + 1
      BY <1>2, <3>1
    <3> QED
      BY <3>2
  <2>2. CASE NewlineStats(c) \/ TearStats(c) \/ WriteStats(c) \/ PublishStats(c)
    BY <1>2, <2>2 DEF StatsInv, FiringStats, NewlineStats, TearStats, WriteStats,
       PublishStats
  <2> QED
    BY <2>1, <2>2
<1> SUFFICES ASSUME ~statsCut[c] PROVE StatsInFiles(c)'
  BY <1>4, <1>12 DEF StatsInv, StatsInFiles
<1>5. \A n : StatsLines(c, n)' = StatsLines(c, n)
  BY DEF StatsLines, StatsEvent
<1>7. CASE CreateStats(c)
  <2>2. <<>> \in Seq(Events)
    OBVIOUS
  <2>3. fire'[c] = "st_write" /\ fire[c] = "idle" /\ statsFired[c] = 0
        /\ statsFired'[c] = 1
    BY <1>2, <1>7 DEF CreateStats, BeginStats, StatsInv, StatsInFiles, FiringStats, StatsAre
  <2>4. StatsWritten(c)' = 0
    BY <2>3 DEF StatsWritten
  <2>5. StatsLines(c, 0) = <<>>
    BY DEF StatsLines
  <2>6. dir'[StatsLock(c)].lines = <<>> /\ dir'[StatsLock(c)] # NoFile
    BY <1>1, <1>7, <2>2, WriteStep DEF CreateStats, BeginStats, ManagerInv
  <2>7. StatsAre(c, StatsLock(c))'
    BY <1>3, <1>5, <2>4, <2>5, <2>6 DEF StatsAre, Exists
  <2> QED
    BY <2>3, <2>7 DEF StatsInv, StatsInFiles, FiringStats
<1>8. CASE ReopenStats(c)
  <2>1. dir'[StatsLock(c)] = dir[StatsName(c)] /\ Exists(StatsName(c))
    BY <1>1, <1>8 DEF ReopenStats, Renamed
  <2>2. /\ fire'[c] = "st_line" /\ fire[c] = "idle"
        /\ statsFired'[c] = statsFired[c] + 1
        /\ StatsAre(c, StatsName(c))
    BY <1>2, <1>8, <2>1 DEF ReopenStats, BeginStats, StatsInv, StatsInFiles, FiringStats
  <2>3. StatsWritten(c) = statsFired[c] /\ StatsWritten(c)' = statsFired[c]
    BY <1>2, <2>2 DEF StatsWritten
  <2>4. StatsAre(c, StatsLock(c))'
    BY <1>3, <1>5, <2>1, <2>2, <2>3 DEF StatsAre, Exists
  <2> QED
    BY <2>2, <2>4 DEF StatsInv, StatsInFiles, FiringStats
<1>9. CASE NewlineStats(c) \/ TearStats(c)
  <2>2. /\ fire'[c] \in {"st_write", "st_rest"}
        /\ fire[c] \in {"st_line", "st_write"}
        /\ statsFired' = statsFired /\ StatsAre(c, StatsLock(c))
    BY <1>2, <1>9 DEF NewlineStats, TearStats, StatsInv, StatsInFiles, FiringStats
  <2>3. StatsWritten(c)' = StatsWritten(c)
    BY <2>2 DEF StatsWritten
  <2>4. dir[StatsLock(c)] \in Files
    BY <1>1, <2>2 DEF StatsAre, Exists
  <2>5. dir[StatsLock(c)].lines \in Seq(Events)
    BY <2>4 DEF Files
  <2>6. /\ dir'[StatsLock(c)].lines = dir[StatsLock(c)].lines
        /\ dir'[StatsLock(c)] # NoFile
    BY <1>1, <1>9, <2>5, WriteStep DEF NewlineStats, TearStats, ManagerInv
  <2>7. StatsAre(c, StatsLock(c))'
    BY <1>3, <1>5, <2>2, <2>3, <2>6 DEF StatsAre, Exists
  <2> QED
    BY <2>2, <2>7 DEF StatsInv, StatsInFiles, FiringStats
<1>10. CASE WriteStats(c)
  <2> DEFINE n == statsFired[c] - 1
  <2>1. dir'[StatsLock(c)] =
          [lines |-> Append(dir[StatsLock(c)].lines, Stats(c)),
           torn |-> FALSE, mtime |-> clock]
    BY <1>1, <1>10 DEF WriteStats, Put
  <2>2. /\ fire'[c] = "st_rename" /\ fire[c] \in {"st_write", "st_rest"}
        /\ statsFired' = statsFired /\ StatsAre(c, StatsLock(c))
    BY <1>2, <1>10 DEF WriteStats, StatsInv, StatsInFiles, FiringStats
  <2>3. StatsWritten(c) = n /\ StatsWritten(c)' = n + 1
    BY <1>2, <2>2 DEF StatsWritten
  <2>4. n \in Nat
    <3>1. statsFired[c] > 0
      BY <2>2 DEF StatsInv, FiringStats
    <3> QED
      BY <1>2, <3>1
  <2>5. dir'[StatsLock(c)].lines = StatsLines(c, n + 1)
    <3>1. Stats(c) = StatsEvent(c, n + 1)
      BY <1>2 DEF Stats, StatsEvent
    <3>2. dir[StatsLock(c)].lines = StatsLines(c, n)
      BY <2>2, <2>3 DEF StatsAre
    <3>3. dir'[StatsLock(c)].lines = Append(dir[StatsLock(c)].lines, Stats(c))
      BY <2>1
    <3> HIDE DEF n
    <3>4. Append(StatsLines(c, n), StatsEvent(c, n + 1)) = StatsLines(c, n + 1)
      BY <2>4, NextStatsLine
    <3> QED
      BY <3>1, <3>2, <3>3, <3>4
  <2>6. Exists(StatsLock(c))'
    <3>1. ManagerInv'
      BY <1>10, WriteStatsInv
    <3> QED
      BY <2>2, <3>1 DEF ManagerInv, ClientInv, StatsLockHeld, FiringStats
  <2>7. StatsAre(c, StatsLock(c))'
    BY <1>3, <1>5, <2>3, <2>5, <2>6 DEF StatsAre
  <2> QED
    BY <2>2, <2>7 DEF StatsInv, StatsInFiles, FiringStats
<1>11. CASE PublishStats(c)
  <2>1. dir'[StatsName(c)] = dir[StatsLock(c)] /\ dir'[StatsLock(c)] = NoFile
    BY <1>1, <1>11 DEF PublishStats, Renamed
  <2>2. /\ fire'[c] = "idle" /\ fire[c] = "st_rename"
        /\ statsFired' = statsFired /\ StatsAre(c, StatsLock(c))
    BY <1>2, <1>11 DEF PublishStats, StatsInv, StatsInFiles, FiringStats
  <2>3. StatsWritten(c)' = StatsWritten(c)
    BY <2>2 DEF StatsWritten
  <2>4. StatsAre(c, StatsName(c))' /\ ~Exists(StatsLock(c))'
    BY <1>3, <1>5, <2>1, <2>2, <2>3 DEF StatsAre, Exists
  <2>5. statsFired[c] # 0
    BY <1>2, <2>2 DEF StatsInv, FiringStats
  <2> QED
    BY <2>2, <2>4, <2>5 DEF StatsInv, StatsInFiles, FiringStats
<1> QED
  BY <1>7, <1>8, <1>9, <1>10, <1>11

\* A step of one client, or of none, leaves the statistics of the others alone.
LEMMA OthersKeepStats ==
    ASSUME ManagerInv, NEW c \in Clients, NEW d \in Clients \ {c},
           CreateLock(c) \/ CreateStats(c) \/ ReopenStats(c) \/ FireStep(c)
    PROVE  StatsKept(d)
<1>1. /\ dir \in [FileNames -> Files \cup {NoFile}]
      /\ LockName(c).client = c /\ EventName(c, count[c]).client = c
      /\ StatsLock(c).client = c /\ StatsName(c).client = c
      /\ StatsLock(d).client = d /\ StatsName(d).client = d
      /\ StatsLock(d) \in FileNames /\ StatsName(d) \in FileNames
  BY LockNames DEF ManagerInv, DirTypeOK
<1>2. \A f \in FileNames : f.client # c => dir'[f] = dir[f]
  BY <1>1 DEF CreateLock, CreateStats, ReopenStats, BeginStats, FireStep,
     TearTestcase, WriteTestcase, Publish, NewlineStats, TearStats, WriteStats,
     PublishStats,
     Put, Renamed
<1>3. statsFired'[d] = statsFired[d] /\ statsCut'[d] = statsCut[d]
      /\ fire'[d] = fire[d]
  BY DEF CreateLock, CreateStats, ReopenStats, BeginStats, FireStep,
     TearTestcase, WriteTestcase, Publish, NewlineStats, TearStats, WriteStats,
     PublishStats,
     ManagerInv, ManagerTypeOK
<1> QED
  BY <1>1, <1>2, <1>3 DEF StatsKept

\* The steps of fire(NewTestcase) leave the client's own statistics alone.
LEMMA TestcasesKeepStats ==
    ASSUME ManagerInv, NEW c \in Clients,
           CreateLock(c) \/ TearTestcase(c) \/ WriteTestcase(c) \/ Publish(c)
    PROVE  StatsKept(c)
<1>1. /\ dir \in [FileNames -> Files \cup {NoFile}]
      /\ LockName(c).kind = "event_lock" /\ EventName(c, count[c]).kind = "event"
      /\ StatsLock(c).kind = "stats_lock" /\ StatsName(c).kind = "stats"
      /\ StatsLock(c) \in FileNames /\ StatsName(c) \in FileNames
  BY LockNames DEF ManagerInv, DirTypeOK
<1>2. \A f \in FileNames : f.kind \in {"stats", "stats_lock"} => dir'[f] = dir[f]
  BY <1>1 DEF CreateLock, TearTestcase, WriteTestcase, Publish, Put, Renamed
<1>3. statsFired'[c] = statsFired[c] /\ statsCut'[c] = statsCut[c]
      /\ fire[c] \notin FiringStats /\ fire'[c] \notin FiringStats
  BY DEF CreateLock, TearTestcase, WriteTestcase, Publish, FiringStats,
     ManagerInv, ManagerTypeOK
<1> QED
  BY <1>1, <1>2, <1>3 DEF StatsKept

\* A death inside fire(UpdateUserStats) is what statsCut remembers; any other
\* leaves the statistics file under its name.
LEMMA DiesKeepsStats ==
    ASSUME ManagerInv, NEW c \in Clients, NEW d \in Clients, StatsInv(d),
           ManagerCrash(c)
    PROVE  StatsInv(d)'
<1>1. /\ statsCut \in [Clients -> BOOLEAN]
      /\ fire \in [Clients -> {"idle"} \cup FiringTestcase \cup FiringStats]
      /\ dir' = dir /\ statsFired' = statsFired
  BY DEF ManagerInv, ManagerTypeOK, ManagerCrash
<1>2. CASE d # c \/ fire[d] \notin FiringStats
  <2>1. statsCut'[d] = statsCut[d]
    BY <1>1, <1>2 DEF ManagerCrash
  <2>2. fire'[d] = fire[d] \/ (fire[d] \notin FiringStats
                               /\ fire'[d] \notin FiringStats)
    BY <1>1, <1>2 DEF ManagerCrash, FiringStats
  <2> QED
    BY <1>1, <2>1, <2>2, KeptStatsInv DEF StatsKept
<1>3. CASE d = c /\ fire[d] \in FiringStats
  <2>1. statsCut'[d] /\ fire'[d] = "idle"
    BY <1>1, <1>3 DEF ManagerCrash
  <2> QED
    BY <2>1 DEF StatsInv, StatsInFiles, FiringStats
<1> QED
  BY <1>2, <1>3

\* Every step keeps the statistics of every client.
LEMMA NextStatsInv ==
    ASSUME IInv, [Next]_vars, NEW d \in Clients, StatsInv(d)
    PROVE  StatsInv(d)'
<1>1. ManagerInv
  BY DEF IInv
<1>2. CASE UNCHANGED <<dir, managerVars>>
  BY <1>2, KeptStatsInv DEF StatsKept, managerVars
<1>3. ASSUME NEW c \in Clients,
             CreateLock(c) \/ CreateStats(c) \/ ReopenStats(c) \/ FireStep(c)
      PROVE  StatsInv(d)'
  <2>1. CASE d # c
    BY <1>1, <1>3, <2>1, OthersKeepStats, KeptStatsInv
  <2>2. CASE d = c
    BY <1>1, <1>3, <2>2, TestcasesKeepStats, FiresStatsInv, KeptStatsInv
       DEF FireStep
  <2> QED
    BY <2>1, <2>2
<1>4. ASSUME NEW c \in Clients, ManagerCrash(c) PROVE StatsInv(d)'
  BY <1>1, <1>4, DiesKeepsStats
<1>5. ASSUME NEW c \in Clients, ManagerRestart(c) PROVE StatsInv(d)'
  BY <1>5, KeptStatsInv DEF ManagerRestart, StatsKept
<1>6. ASSUME NEW c \in Clients, ReadDir(c) \/ StageStep(c) PROVE StatsInv(d)'
  <2>1. UNCHANGED <<dir, managerVars>>
    BY <1>6 DEF StageStep, ReadDir, ListLate, StatEntry, SkipStale, SkipOther,
       Import, Executed, FinishScan, dirVars
  <2> QED
    BY <1>2, <2>1
<1>7. CASE Tick /\ UNCHANGED <<managerVars, stageVars, crashes>>
  BY <1>2, <1>7 DEF Tick
<1>8. CASE UNCHANGED vars
  BY <1>2, <1>8 DEF vars, dirVars
<1> QED
  BY <1>3, <1>4, <1>5, <1>6, <1>7, <1>8
     DEF Next, Running, FireTestcase, FireStats, ContinueFire, StartScan,
         ContinueScan, Panic, Crash, Dies, Restart

\* No statistics event is lost and none is written twice or out of order: with
\* the newest still under the lock's name, the file of a client has all that it
\* fired, unless a crash came between the steps that write one.
THEOREM StatsAlwaysComplete == Spec => []StatsComplete
<1> DEFINE SInv == IInv /\ \A c \in Clients : StatsInv(c)
<1>1. Init => SInv
  <2> SUFFICES ASSUME Init, NEW c \in Clients PROVE StatsInv(c)
    BY InitInv
  <2>1. StatsLock(c) \in FileNames /\ StatsName(c) \in FileNames
    BY InitInv, LockNames DEF IInv, ManagerInv
  <2> QED
    BY <2>1 DEF Init, SyncDirInit, ManagerInit, StatsInv, StatsInFiles, Exists,
       FiringStats
<1>2. SInv /\ [Next]_vars => SInv'
  BY NextInv, NextStatsInv
<1>3. SInv => StatsComplete
  <2> SUFFICES ASSUME SInv, NEW c \in Clients, ~statsCut[c], StatsWritten(c) > 0
               PROVE  LET f == IF Exists(StatsLock(c)) THEN StatsLock(c)
                                                      ELSE StatsName(c)
                      IN StatsAre(c, f)
    BY DEF StatsComplete, StatsAre, StatsLines
  <2>1. StatsInv(c)
    OBVIOUS
  <2>2. CASE fire[c] \in FiringStats
    BY <2>1, <2>2 DEF StatsInv, StatsInFiles, StatsAre
  <2>3. CASE fire[c] \notin FiringStats
    <3>1. StatsWritten(c) = statsFired[c]
      BY <2>3, SyncDirAssumption
         DEF StatsWritten, FiringStats, IInv, ManagerInv, ManagerTypeOK
    <3> QED
      BY <2>1, <2>3, <3>1 DEF StatsInv, StatsInFiles
  <2> QED
    BY <2>2, <2>3
<1> QED
  BY <1>1, <1>2, <1>3, PTL DEF Spec

-----------------------------------------------------------------------------
(***************************************************************************)
(* The sync directory implements TestcaseExchange.  The argument: a testcase  *)
(* is written once, under a lock, and then keeps its modification time; the   *)
(* file under a name only gets younger; so last_time, which covers the time   *)
(* of what was imported, covers it for good (RInv, from which no testcase is  *)
(* imported twice), and what a scan owes lies ahead of it, under a name that  *)
(* is only taken from a client that has died (XInv, from which every step is  *)
(* one of the exchange).                                                      *)
(***************************************************************************)

\* The testcase e is whole in file f.
Has(f, e) == Exists(f) /\ e \in EventsIn(f)

\* The testcase has been written, by now.
Known(e) ==
    /\ e.serial <= fired[e.client]
    /\ fire[e.client] \in {"tc_write", "tc_rest"} => e.serial < fired[e.client]

(* The directory. *)

OnlyKnownOnDisk ==
    \A f \in EventFiles, e \in Events : Has(f, e) => Known(e)

InOneFile ==
    \A f, g \in EventFiles, e \in Events : Has(f, e) /\ Has(g, e) => f = g

NoneFromTheFuture ==
    \A f \in FileNames : Exists(f) => dir[f].mtime <= clock

\* The file about to be renamed is no older than the one it may replace.
LockIsNewer ==
    \A c \in Clients : fire[c] \in FiringTestcase =>
        /\ Exists(LockName(c))
        /\ Exists(EventName(c, count[c])) =>
             dir[EventName(c, count[c])].mtime <= dir[LockName(c)].mtime

DiskInv == OnlyKnownOnDisk /\ InOneFile /\ NoneFromTheFuture /\ LockIsNewer

(* The scans of a client. *)

RoundOfTheScan(c) == scan[c].pc = "idle" => round[c] = {}

TimesInOrder(c) ==
    /\ lastTime[c] <= clock /\ scan[c].maxTime <= clock
    /\ lastTime[c] = NoTime => scan[c].maxTime = NoTime /\ settled[c] = {}
    /\ scan[c].maxTime # NoTime => lastTime[c] < scan[c].maxTime

OpenedGetsYounger(c) ==
    scan[c].pc = "opening" =>
        /\ scan[c].time <= clock
        /\ Exists(scan[c].entry) => scan[c].time <= dir[scan[c].entry].mtime

SettledIsCovered(c) ==
    \A e \in settled[c] :
        /\ Known(e)
        /\ \A f \in EventFiles : Has(f, e) => dir[f].mtime <= lastTime[c]

RoundWillBeCovered(c) ==
    \A r \in round[c] :
        /\ Known(r.testcase)
        /\ r.unchanged /\ lastTime[c] # NoTime =>
             \A f \in EventFiles :
                 Has(f, r.testcase) => dir[f].mtime <= scan[c].maxTime

NotTwice(c) == Imported(c) \cap settled[c] = {}

ScanInv(c) ==
    /\ RoundOfTheScan(c) /\ TimesInOrder(c) /\ OpenedGetsYounger(c)
    /\ SettledIsCovered(c) /\ RoundWillBeCovered(c) /\ NotTwice(c)

RInv == IInv /\ DiskInv /\ \A c \in Clients : ScanInv(c)

(* What the scans rely on in every step of a manager.                        *)

DiskMoves ==
    /\ clock' \in Nat /\ clock <= clock'
    /\ \A e \in Events : Known(e) => Known(e)'
    /\ \A f \in EventFiles, e \in Events : Known(e) /\ Has(f, e)' =>
         \E g \in EventFiles : /\ Has(g, e) /\ dir'[f].mtime = dir[g].mtime
                               /\ g.kind = "event" => f = g
    /\ \A f \in EventFiles : Exists(f)' =>
         \/ dir'[f].mtime = clock
         \/ Exists(f) /\ dir[f].mtime <= dir'[f].mtime
         \/ ~Exists(f) /\ f.kind = "event"

-----------------------------------------------------------------------------
(* The steps of the managers. *)

\* The files that are not stats are those that may hold a testcase.
LEMMA EventFileNames ==
    /\ EventFiles \subseteq FileNames
    /\ \A f \in EventFiles : ~IsStats(f)
    /\ \A f \in FileNames : ~IsStats(f) => f \in EventFiles
BY DEF EventFiles, FileNames, IsStats

\* The files of a client that fires a testcase.
LEMMA OwnFiles ==
    ASSUME ManagerTypeOK, NEW c \in Clients
    PROVE  /\ LockName(c) \in EventFiles /\ LockName(c).client = c
           /\ LockName(c).kind = "event_lock"
           /\ EventName(c, count[c]) \in EventFiles
           /\ EventName(c, count[c]).kind = "event"
           /\ EventName(c, count[c]).client = c
           /\ LockName(c) # EventName(c, count[c])
BY LockNames DEF EventFiles

\* What is known stays known.
LEMMA KnownStays ==
    ASSUME ManagerInv, NEW e \in Events, Known(e),
           \/ UNCHANGED fired /\ \A c \in Clients :
                fire'[c] \in {"tc_write", "tc_rest"} =>
                    fire[c] \in {"tc_write", "tc_rest"}
           \/ \E c \in Clients : /\ fired' = [fired EXCEPT ![c] = @ + 1]
                                 /\ fire' = [fire EXCEPT ![c] = "tc_write"]
    PROVE  Known(e)'
<1>1. /\ e.client \in Clients /\ e.serial \in Nat
      /\ fired \in [Clients -> 0..MaxTestcases]
      /\ fire \in [Clients -> {"idle"} \cup FiringTestcase \cup FiringStats]
  BY DEF Events, ManagerInv, ManagerTypeOK
<1>2. CASE UNCHANGED fired /\ \A c \in Clients :
             fire'[c] \in {"tc_write", "tc_rest"} =>
                 fire[c] \in {"tc_write", "tc_rest"}
  BY <1>1, <1>2 DEF Known
<1>3. ASSUME NEW c \in Clients, fired' = [fired EXCEPT ![c] = @ + 1],
             fire' = [fire EXCEPT ![c] = "tc_write"]
      PROVE  Known(e)'
  <2>1. CASE e.client = c
    BY <1>1, <1>3, <2>1, SyncDirAssumption DEF Known
  <2>2. CASE e.client # c
    BY <1>1, <1>3, <2>2 DEF Known
  <2> QED
    BY <2>1, <2>2
<1> QED
  BY <1>2, <1>3

\* A step that touches no testcase and starts no firing of one.
LEMMA QuietDisk ==
    ASSUME ManagerInv, DiskInv, \A f \in EventFiles : dir'[f] = dir[f],
           clock' \in Nat, clock <= clock', UNCHANGED fired,
           NoneFromTheFuture',
           \A c \in Clients : fire'[c] \in FiringTestcase =>
               fire'[c] = fire[c] /\ count'[c] = count[c]
    PROVE  DiskInv' /\ DiskMoves
<1>1. \A f \in EventFiles, e \in Events : Has(f, e)' <=> Has(f, e)
  BY DEF Has, Exists, EventsIn
<1>2. \A e \in Events : Known(e) => Known(e)'
  BY KnownStays DEF FiringTestcase
<1>3. OnlyKnownOnDisk' /\ InOneFile'
  BY <1>1, <1>2 DEF DiskInv, OnlyKnownOnDisk, InOneFile
<1>4. LockIsNewer'
  <2> SUFFICES ASSUME NEW c \in Clients, fire'[c] \in FiringTestcase
               PROVE  /\ Exists(LockName(c))'
                      /\ Exists(EventName(c, count[c]))' =>
                           dir'[EventName(c, count'[c])].mtime
                             <= dir'[LockName(c)'].mtime
    BY DEF LockIsNewer
  <2>1. fire[c] \in FiringTestcase /\ count'[c] = count[c]
    BY DEF FiringTestcase
  <2>2. LockName(c) \in EventFiles /\ EventName(c, count[c]) \in EventFiles
    BY OwnFiles DEF ManagerInv
  <2>3. LockName(c)' = LockName(c)
    BY <2>1 DEF LockName
  <2> QED
    BY <2>1, <2>2, <2>3 DEF DiskInv, LockIsNewer, Exists
<1>5. DiskMoves
  <2>1. \A f \in EventFiles, e \in Events : Has(f, e)' =>
          Has(f, e) /\ dir'[f].mtime = dir[f].mtime
    BY <1>1
  <2>2. ASSUME NEW f \in EventFiles, Exists(f)'
        PROVE  Exists(f) /\ dir[f].mtime <= dir'[f].mtime
    <3>1. Exists(f) /\ f \in FileNames
      BY <2>2, EventFileNames DEF Exists
    <3>2. dir[f].mtime \in Nat
      BY <3>1, ExistingIsFile DEF ManagerInv, Files
    <3> QED
      BY <3>1, <3>2
  <2> QED
    BY <1>2, <2>1, <2>2 DEF DiskMoves
<1> QED
  BY <1>3, <1>4, <1>5 DEF DiskInv

\* A step that writes the lock file, and nothing that is known into it.
LEMMA LockWritten ==
    ASSUME ManagerInv, DiskInv, NEW c \in Clients, UNCHANGED <<clock, count>>,
           NEW L, L = LockName(c), dir'[L] # NoFile, dir'[L].mtime = clock,
           \A f \in FileNames \ {L} : dir'[f] = dir[f],
           \A d \in Clients \ {c} : fire'[d] = fire[d],
           \A e \in Events : Known(e) => Known(e)',
           \A e \in Events : Has(L, e)' => ~Known(e) /\ Known(e)'
    PROVE  DiskInv' /\ DiskMoves
<1>0. /\ L \in EventFiles /\ L.kind = "event_lock" /\ L.client = c
      /\ LockName(c)' = L /\ ManagerTypeOK /\ DirTypeOK
  BY OwnFiles DEF ManagerInv, LockName
<1>1. \A f \in EventFiles \ {L}, e \in Events : Has(f, e)' <=> Has(f, e)
  BY EventFileNames DEF Has, Exists, EventsIn
<1>2. \A e \in Events : Has(L, e)' => ~Known(e) /\ Known(e)'
  OBVIOUS
<1>3. OnlyKnownOnDisk'
  BY <1>1, <1>2 DEF DiskInv, OnlyKnownOnDisk
<1>4. InOneFile'
  BY <1>1, <1>2 DEF DiskInv, OnlyKnownOnDisk, InOneFile
<1>5. NoneFromTheFuture'
  BY <1>0 DEF DiskInv, NoneFromTheFuture, Exists, DirTypeOK
<1>6. LockIsNewer'
  <2> SUFFICES ASSUME NEW d \in Clients, fire'[d] \in FiringTestcase
               PROVE  /\ Exists(LockName(d))'
                      /\ Exists(EventName(d, count[d]))' =>
                           dir'[EventName(d, count'[d])].mtime
                             <= dir'[LockName(d)'].mtime
    BY DEF LockIsNewer
  <2> DEFINE N == EventName(d, count[d])
  <2>1. /\ LockName(d) \in EventFiles /\ LockName(d).client = d
        /\ N \in EventFiles /\ N.kind = "event" /\ LockName(d)' = LockName(d)
        /\ EventName(d, count'[d]) = N
    BY <1>0, OwnFiles DEF LockName
  <2> HIDE DEF N
  <2>2. N \in FileNames /\ dir'[N] = dir[N]
    BY <1>0, <2>1, EventFileNames
  <2>3. CASE d = c
    BY <2>1, <2>2, <2>3 DEF DiskInv, NoneFromTheFuture, Exists, N
  <2>4. CASE d # c
    <3>1. dir'[LockName(d)] = dir[LockName(d)]
      BY <1>0, <2>1, <2>4, EventFileNames
    <3> QED
      BY <2>1, <2>2, <2>4, <3>1 DEF DiskInv, LockIsNewer, Exists, N
  <2> QED
    BY <2>3, <2>4
<1>7. DiskMoves
  <2>1. clock' \in Nat /\ clock <= clock'
    BY <1>0 DEF DirTypeOK
  <2>2. ASSUME NEW f \in EventFiles, NEW e \in Events, Known(e), Has(f, e)'
        PROVE  Has(f, e) /\ dir'[f].mtime = dir[f].mtime
    BY <1>1, <1>2, <2>2, EventFileNames
  <2>3. ASSUME NEW f \in EventFiles, Exists(f)'
        PROVE  \/ dir'[f].mtime = clock
               \/ Exists(f) /\ dir[f].mtime <= dir'[f].mtime
    <3>1. CASE f = L
      BY <3>1
    <3>2. CASE f # L
      <4>1. f \in FileNames /\ dir'[f] = dir[f] /\ Exists(f)
        BY <2>3, <3>2, EventFileNames DEF Exists
      <4>2. dir[f].mtime \in Nat
        BY <1>0, <4>1, ExistingIsFile DEF Files
      <4> QED
        BY <4>1, <4>2
    <3> QED
      BY <3>1, <3>2
  <2> QED
    BY <2>1, <2>2, <2>3 DEF DiskMoves
<1> QED
  BY <1>3, <1>4, <1>5, <1>6, <1>7 DEF DiskInv

\* What a file holds once nothing, or one event, is written into it.
LEMMA NothingWritten ==
    ASSUME NEW f, dir'[f].lines = <<>>
    PROVE  \A e : ~Has(f, e)'
<1> DEFINE lines == dir'[f].lines
<1>1. DOMAIN lines = {}
  OBVIOUS
<1>2. EventsIn(f)' = {lines[i] : i \in DOMAIN lines}
  BY DEF EventsIn
<1> HIDE DEF lines
<1> QED
  BY <1>1, <1>2 DEF Has

\* A file of one line has the testcase of that line.
LEMMA OneWritten ==
    ASSUME NEW f, NEW t, dir'[f].lines = <<t>>
    PROVE  \A e : Has(f, e)' => e = t
<1> DEFINE lines == dir'[f].lines
<1>1. DOMAIN lines = {1} /\ lines[1] = t
  OBVIOUS
<1>2. EventsIn(f)' = {lines[i] : i \in DOMAIN lines}
  BY DEF EventsIn
<1> HIDE DEF lines
<1> QED
  BY <1>1, <1>2 DEF Has

\* The new lock file is empty and as young as can be.
LEMMA CreateLockDisk ==
    ASSUME ManagerInv, DiskInv, NEW c \in Clients, CreateLock(c)
    PROVE  DiskInv' /\ DiskMoves
<1> USE DEF CreateLock
<1>1. PICK L \in EventFiles : L = LockName(c)
  BY OwnFiles DEF ManagerInv
<1>2. L \in FileNames /\ <<>> \in Seq(Events) /\ DirTypeOK
  BY EventFileNames DEF ManagerInv
<1>3. /\ dir'[L] # NoFile /\ dir'[L].mtime = clock /\ dir'[L].lines = <<>>
      /\ \A f \in FileNames \ {L} : dir'[f] = dir[f]
  BY <1>1, <1>2, WriteStep
<1>4. \A e \in Events : Known(e) => Known(e)'
  BY KnownStays
<1>5. \A e \in Events : ~Has(L, e)'
  BY <1>3, NothingWritten
<1>6. \A d \in Clients \ {c} : fire'[d] = fire[d]
  BY DEF ManagerInv, ManagerTypeOK
<1> QED
  BY <1>1, <1>3, <1>4, <1>5, <1>6, LockWritten

\* A torn lock file holds no testcase.
LEMMA TearTestcaseDisk ==
    ASSUME ManagerInv, DiskInv, NEW c \in Clients, TearTestcase(c)
    PROVE  DiskInv' /\ DiskMoves
<1> USE DEF TearTestcase
<1>1. PICK L \in EventFiles : L = LockName(c)
  BY OwnFiles DEF ManagerInv
<1>2. L \in FileNames /\ <<>> \in Seq(Events) /\ DirTypeOK
  BY EventFileNames DEF ManagerInv
<1>3. /\ dir'[L] # NoFile /\ dir'[L].mtime = clock /\ dir'[L].lines = <<>>
      /\ \A f \in FileNames \ {L} : dir'[f] = dir[f]
  BY <1>1, <1>2, WriteStep
<1>4. fire \in [Clients -> {"idle"} \cup FiringTestcase \cup FiringStats]
  BY DEF ManagerInv, ManagerTypeOK
<1>5. \A e \in Events : Known(e) => Known(e)'
  BY <1>4, KnownStays
<1>6. \A e \in Events : ~Has(L, e)'
  BY <1>3, NothingWritten
<1> QED
  BY <1>1, <1>3, <1>4, <1>5, <1>6, LockWritten

\* The testcase that is written gets known, and is in the lock file only.
LEMMA WriteTestcaseDisk ==
    ASSUME ManagerInv, DiskInv, NEW c \in Clients, WriteTestcase(c)
    PROVE  DiskInv' /\ DiskMoves
<1> USE DEF WriteTestcase
<1>1. PICK L \in EventFiles : L = LockName(c)
  BY OwnFiles DEF ManagerInv
<1>2. L \in FileNames /\ <<Testcase(c)>> \in Seq(Events) /\ DirTypeOK
  BY EventFileNames, FiredIsEvent DEF ManagerInv
<1>3. /\ dir'[L] # NoFile /\ dir'[L].mtime = clock
      /\ dir'[L].lines = <<Testcase(c)>>
      /\ \A f \in FileNames \ {L} : dir'[f] = dir[f]
  BY <1>1, <1>2, WriteStep
<1>4. /\ fire \in [Clients -> {"idle"} \cup FiringTestcase \cup FiringStats]
      /\ fired \in [Clients -> 0..MaxTestcases]
  BY DEF ManagerInv, ManagerTypeOK
<1>5. \A e \in Events : Known(e) => Known(e)'
  BY <1>4, KnownStays
<1>6. ASSUME NEW e \in Events, Has(L, e)' PROVE ~Known(e) /\ Known(e)'
  <2>1. e = Testcase(c)
    BY <1>3, <1>6, OneWritten
  <2>2. e.client = c /\ e.serial = fired[c]
    BY <2>1 DEF Testcase
  <2> QED
    BY <1>4, <2>2, SyncDirAssumption DEF Known
<1> QED
  BY <1>1, <1>3, <1>4, <1>5, <1>6, LockWritten

\* The rename moves the testcase with its time, over a file that is no younger.
LEMMA PublishDisk ==
    ASSUME ManagerInv, DiskInv, NEW c \in Clients, Publish(c)
    PROVE  DiskInv' /\ DiskMoves
<1> USE DEF Publish
<1>1. PICK L \in EventFiles, N \in EventFiles :
        /\ L = LockName(c) /\ N = EventName(c, count[c]) /\ L # N
        /\ L.kind = "event_lock" /\ N.kind = "event"
        /\ L.client = c /\ N.client = c
  BY OwnFiles DEF ManagerInv
<1>2. L \in FileNames /\ N \in FileNames /\ DirTypeOK /\ ManagerTypeOK
  BY EventFileNames DEF ManagerInv
<1>3. /\ dir'[N] = dir[L] /\ dir'[L] = NoFile
      /\ \A f \in FileNames \ {L, N} : dir'[f] = dir[f]
  BY <1>1, <1>2, RenameStep
<1>4. /\ Exists(L)
      /\ Exists(N) => dir[N].mtime <= dir[L].mtime
  BY <1>1 DEF DiskInv, LockIsNewer, FiringTestcase
<1>5. \A e \in Events : Known(e) => Known(e)'
  BY <1>2, KnownStays DEF ManagerTypeOK
<1>6. /\ \A e \in Events : ~Has(L, e)'
      /\ \A e \in Events : Has(N, e)' <=> Has(L, e)
      /\ \A f \in EventFiles \ {L, N}, e \in Events : Has(f, e)' <=> Has(f, e)
  BY <1>3, <1>4, EventFileNames DEF Has, Exists, EventsIn
<1>7. OnlyKnownOnDisk'
  BY <1>5, <1>6 DEF DiskInv, OnlyKnownOnDisk
<1>8. InOneFile'
  BY <1>6 DEF DiskInv, InOneFile
<1>9. NoneFromTheFuture'
  BY <1>2, <1>3 DEF DiskInv, NoneFromTheFuture, Exists
<1>10. LockIsNewer'
  <2> SUFFICES ASSUME NEW d \in Clients, fire'[d] \in FiringTestcase
               PROVE  /\ Exists(LockName(d))'
                      /\ Exists(EventName(d, count[d]))' =>
                           dir'[EventName(d, count'[d])].mtime
                             <= dir'[LockName(d)'].mtime
    BY DEF LockIsNewer
  <2>1. d # c /\ fire[d] = fire'[d] /\ count'[d] = count[d]
    BY <1>2 DEF ManagerTypeOK, FiringTestcase
  <2>2. /\ LockName(d) \in FileNames /\ EventName(d, count[d]) \in FileNames
        /\ LockName(d).client = d /\ EventName(d, count[d]).client = d
    BY <1>2, OwnFiles, EventFileNames
  <2>3. /\ dir'[LockName(d)] = dir[LockName(d)]
        /\ dir'[EventName(d, count[d])] = dir[EventName(d, count[d])]
    BY <1>1, <1>3, <2>1, <2>2
  <2>4. LockName(d)' = LockName(d)
    BY <2>1 DEF LockName
  <2> QED
    BY <2>1, <2>3, <2>4 DEF DiskInv, LockIsNewer, Exists
<1>11. DiskMoves
  <2>1. clock' \in Nat /\ clock <= clock'
    BY <1>2 DEF DirTypeOK
  <2>2. ASSUME NEW f \in EventFiles, NEW e \in Events, Has(f, e)'
        PROVE  \E g \in EventFiles : /\ Has(g, e) /\ dir'[f].mtime = dir[g].mtime
                                     /\ g.kind = "event" => f = g
    <3>1. CASE f = N
      BY <1>1, <1>3, <1>6, <2>2, <3>1
    <3>2. CASE f # N
      <4>1. Has(f, e) /\ f # L
        BY <1>6, <2>2, <3>2
      <4>2. dir'[f] = dir[f]
        BY <1>3, <3>2, <4>1, EventFileNames
      <4> QED
        BY <4>1, <4>2
    <3> QED
      BY <3>1, <3>2
  <2>3. ASSUME NEW f \in EventFiles, Exists(f)'
        PROVE  \/ Exists(f) /\ dir[f].mtime <= dir'[f].mtime
               \/ ~Exists(f) /\ f.kind = "event"
    <3>1. CASE f = N
      BY <1>1, <1>3, <1>4, <3>1
    <3>2. CASE f # N
      <4>1. f \in FileNames /\ dir'[f] = dir[f] /\ Exists(f)
        BY <1>3, <2>3, <3>2, EventFileNames DEF Exists
      <4>2. dir[f].mtime \in Nat
        BY <1>2, <4>1, ExistingIsFile DEF Files
      <4> QED
        BY <4>1, <4>2
    <3> QED
      BY <3>1, <3>2
  <2> QED
    BY <1>5, <2>1, <2>2, <2>3 DEF DiskMoves
<1> QED
  BY <1>7, <1>8, <1>9, <1>10, <1>11 DEF DiskInv

\* The statistics touch no file of a testcase.
LEMMA StatsAside ==
    ASSUME ManagerInv, NEW c \in Clients,
           \/ CreateStats(c) \/ ReopenStats(c)
           \/ NewlineStats(c) \/ TearStats(c) \/ WriteStats(c) \/ PublishStats(c)
    PROVE  /\ \A f \in EventFiles : dir'[f] = dir[f]
           /\ UNCHANGED <<clock, count, fired>>
           /\ \A d \in Clients : fire'[d] \in FiringTestcase => fire'[d] = fire[d]
           /\ \A d \in Clients : fire[d] \in FiringTestcase => fire'[d] = fire[d]
<1>0. /\ StatsLock(c) \in FileNames /\ StatsName(c) \in FileNames
      /\ DirTypeOK /\ ManagerTypeOK
      /\ IsStats(StatsLock(c)) /\ IsStats(StatsName(c))
  BY LockNames DEF ManagerInv, IsStats
<1>1. \A f \in FileNames \ {StatsLock(c), StatsName(c)} : dir'[f] = dir[f]
  BY <1>0 DEF CreateStats, ReopenStats, NewlineStats, TearStats, WriteStats,
     PublishStats,
     Put, Renamed, DirTypeOK, BeginStats
<1>2. \A f \in EventFiles : dir'[f] = dir[f]
  BY <1>0, <1>1, EventFileNames
<1>3. /\ UNCHANGED <<clock, fired, count>>
      /\ \A d \in Clients : fire'[d] \in FiringTestcase => fire'[d] = fire[d]
      /\ \A d \in Clients : fire[d] \in FiringTestcase => fire'[d] = fire[d]
  BY <1>0 DEF CreateStats, ReopenStats, NewlineStats, TearStats, WriteStats,
     PublishStats,
     BeginStats, FiringTestcase, DirTypeOK, ManagerTypeOK
<1> QED
  BY <1>2, <1>3

\* Stats are in files of their own.
LEMMA StatsDisk ==
    ASSUME ManagerInv, DiskInv, NEW c \in Clients,
           \/ CreateStats(c) \/ ReopenStats(c)
           \/ NewlineStats(c) \/ TearStats(c) \/ WriteStats(c) \/ PublishStats(c)
    PROVE  DiskInv' /\ DiskMoves
<1>0. /\ StatsLock(c) \in FileNames /\ StatsName(c) \in FileNames
      /\ StatsLock(c) # StatsName(c) /\ DirTypeOK /\ ManagerTypeOK
      /\ IsStats(StatsLock(c)) /\ IsStats(StatsName(c))
  BY LockNames DEF ManagerInv, IsStats
<1>2. \A f \in EventFiles : dir'[f] = dir[f]
  BY StatsAside
<1>3. /\ UNCHANGED <<clock, fired, count>> /\ clock \in Nat
      /\ \A d \in Clients : fire'[d] \in FiringTestcase => fire'[d] = fire[d]
  BY <1>0, StatsAside DEF DirTypeOK
<1>4. NoneFromTheFuture'
  <2> SUFFICES ASSUME NEW f \in FileNames, Exists(f)'
               PROVE  dir'[f].mtime <= clock
    BY <1>3 DEF NoneFromTheFuture
  <2>1. \/ dir'[f].mtime = clock
        \/ \E g \in FileNames : Exists(g) /\ dir'[f] = dir[g]
    <3>1. CASE CreateStats(c) \/ NewlineStats(c) \/ TearStats(c) \/ WriteStats(c)
      BY <1>0, <3>1 DEF CreateStats, NewlineStats, TearStats, WriteStats, Put,
         DirTypeOK, Exists
    <3>2. CASE ReopenStats(c)
      BY <1>0, <3>2 DEF ReopenStats, Renamed, DirTypeOK, Exists
    <3>3. CASE PublishStats(c)
      BY <1>0, <3>3 DEF PublishStats, Renamed, DirTypeOK, Exists
    <3> QED
      BY <3>1, <3>2, <3>3
  <2> QED
    BY <1>3, <2>1 DEF DiskInv, NoneFromTheFuture
<1> QED
  BY <1>2, <1>3, <1>4, QuietDisk

\* Time passes, a client dies or is launched again, or nothing happens.
LEMMA OtherDisk ==
    ASSUME ManagerInv, DiskInv, UNCHANGED <<dir, fired>>,
           Tick \/ UNCHANGED clock,
           \/ UNCHANGED <<fire, count>>
           \/ \E c \in Clients : ManagerCrash(c) \/ ManagerRestart(c)
    PROVE  DiskInv' /\ DiskMoves
<1>1. clock \in Nat /\ clock' \in Nat /\ clock <= clock'
  BY DEF ManagerInv, DirTypeOK, Tick
<1>2. NoneFromTheFuture'
  <2> SUFFICES ASSUME NEW f \in FileNames, Exists(f)
               PROVE  dir[f].mtime <= clock'
    BY DEF NoneFromTheFuture, Exists
  <2>1. dir[f].mtime \in Nat
    BY ExistingIsFile DEF ManagerInv, Files
  <2> QED
    BY <1>1, <2>1 DEF DiskInv, NoneFromTheFuture
<1>3. \A c \in Clients : fire'[c] \in FiringTestcase =>
        fire'[c] = fire[c] /\ count'[c] = count[c]
  BY DEF ManagerCrash, ManagerRestart, ManagerInv, ManagerTypeOK, ClientInv,
     DeadIsIdle, FiringTestcase
<1> QED
  BY <1>1, <1>2, <1>3, QuietDisk

-----------------------------------------------------------------------------
(* The scans. *)

\* The types of a scan, taken from the invariant.
LEMMA ScanTypes ==
    ASSUME IInv, NEW c \in Clients
    PROVE  /\ clock \in Nat /\ lastTime[c] \in Nat \cup {-1}
           /\ scan[c] \in ScanStates
           /\ scan[c].time \in Nat /\ scan[c].maxTime \in Nat \cup {-1}
           /\ settled[c] \subseteq Events
           /\ round[c] \subseteq [testcase : Events, unchanged : BOOLEAN]
           /\ scan[c].pc = "opening" => scan[c].entry \in EventFiles
<1>1. /\ clock \in Nat /\ lastTime[c] \in Times /\ scan[c] \in ScanStates
      /\ settled[c] \subseteq Events
      /\ round[c] \subseteq [testcase : Events, unchanged : BOOLEAN]
  BY DEF IInv, ManagerInv, DirTypeOK, StageTypeInv, StageTypeOK
<1>2. scan[c].time \in Nat /\ scan[c].maxTime \in Times
  BY <1>1, ScanTyped
<1>3. scan[c].pc = "opening" => scan[c].entry \in EventFiles
  BY EventFileNames DEF IInv, OpenedIsThere
<1> QED
  BY <1>1, <1>2, <1>3 DEF Times, NoTime

\* A file that is there has a time.
LEMMA TimeOfFile ==
    ASSUME IInv, NEW f \in EventFiles, Exists(f)
    PROVE  dir[f].mtime \in Nat
BY EventFileNames, ExistingIsFile DEF IInv, ManagerInv, Files

\* The managers move the files under a scan, and keep what it relies on.
LEMMA MovesKeepScan ==
    ASSUME IInv, IInv', DiskMoves, NEW c \in Clients, ScanInv(c),
           scan'[c] = scan[c], lastTime'[c] = lastTime[c],
           round'[c] = round[c], settled'[c] = settled[c]
    PROVE  ScanInv(c)'
<1>1. /\ clock \in Nat /\ clock' \in Nat /\ clock <= clock'
      /\ lastTime[c] \in Nat \cup {-1}
      /\ scan[c].time \in Nat /\ scan[c].maxTime \in Nat \cup {-1}
      /\ settled[c] \subseteq Events
      /\ round[c] \subseteq [testcase : Events, unchanged : BOOLEAN]
      /\ scan[c].pc = "opening" => scan[c].entry \in EventFiles
  BY ScanTypes DEF DiskMoves
<1>2. RoundOfTheScan(c)' /\ NotTwice(c)'
  BY DEF ScanInv, RoundOfTheScan, NotTwice, Imported
<1>3. TimesInOrder(c)'
  BY <1>1 DEF ScanInv, TimesInOrder
<1>4. OpenedGetsYounger(c)'
  <2> SUFFICES ASSUME scan[c].pc = "opening"
               PROVE  /\ scan[c].time <= clock'
                      /\ Exists(scan[c].entry)' =>
                           scan[c].time <= dir'[scan[c].entry].mtime
    BY DEF OpenedGetsYounger, Exists
  <2>1. scan[c].time <= clock /\ scan[c].entry \in EventFiles
    BY <1>1 DEF ScanInv, OpenedGetsYounger
  <2>2. ASSUME Exists(scan[c].entry)'
        PROVE  scan[c].time <= dir'[scan[c].entry].mtime
    <3> DEFINE f == scan[c].entry
    <3>1. f \in FileNames /\ dir'[f] # NoFile
      BY <2>1, <2>2, EventFileNames DEF Exists
    <3>2. dir'[f].mtime \in Nat
      BY <3>1 DEF IInv, ManagerInv, DirTypeOK, Files
    <3>3. \/ dir'[f].mtime = clock
          \/ Exists(f) /\ dir[f].mtime <= dir'[f].mtime
          \/ ~Exists(f) /\ f.kind = "event"
      BY <2>1, <3>1 DEF DiskMoves, Exists
    <3>4. f.kind = "event" => Exists(f)
      BY DEF IInv, OpenedIsThere
    <3>5. Exists(f) => scan[c].time <= dir[f].mtime /\ dir[f].mtime \in Nat
      BY <2>1, TimeOfFile DEF ScanInv, OpenedGetsYounger
    <3> HIDE DEF f
    <3>6. scan[c].time <= dir'[f].mtime
      BY <1>1, <2>1, <3>2, <3>3, <3>4, <3>5
    <3> QED
      BY <3>6 DEF f
  <2> QED
    BY <1>1, <2>1, <2>2
<1>5. ASSUME NEW e \in Events, Known(e), NEW t,
             \A f \in EventFiles : Has(f, e) => dir[f].mtime <= t
      PROVE  Known(e)' /\ \A f \in EventFiles : Has(f, e)' => dir'[f].mtime <= t
  BY <1>5 DEF DiskMoves
<1>6. SettledIsCovered(c)'
  BY <1>1, <1>5 DEF ScanInv, SettledIsCovered
<1>7. RoundWillBeCovered(c)'
  <2> SUFFICES ASSUME NEW r \in round[c]
               PROVE  /\ Known(r.testcase)'
                      /\ r.unchanged /\ lastTime[c] # NoTime =>
                           \A f \in EventFiles : Has(f, r.testcase)' =>
                             dir'[f].mtime <= scan[c].maxTime
    BY DEF RoundWillBeCovered
  <2>1. r.testcase \in Events
    BY <1>1
  <2> QED
    BY <1>5, <2>1 DEF ScanInv, RoundWillBeCovered, DiskMoves
<1> QED
  BY <1>2, <1>3, <1>4, <1>6, <1>7 DEF ScanInv

\* A scan leaves the other clients as they are.
LEMMA OtherScansKeep ==
    ASSUME UNCHANGED <<dirVars, managerVars>>, NEW c \in Clients, ScanInv(c),
           scan'[c] = scan[c], lastTime'[c] = lastTime[c],
           round'[c] = round[c], settled'[c] = settled[c]
    PROVE  ScanInv(c)'
BY DEF ScanInv, RoundOfTheScan, TimesInOrder, OpenedGetsYounger,
   SettledIsCovered, RoundWillBeCovered, NotTwice, Imported, Known, Has, Exists,
   EventsIn, dirVars, managerVars

\* max_time only grows, past last_time.
LEMMA MaxTimeGrows ==
    ASSUME IInv, NEW c \in Clients, ScanInv(c), scan[c].pc = "opening", ~Stale(c)
    PROVE  /\ NextMaxTime(c) \in Nat \cup {-1}
           /\ scan[c].maxTime <= NextMaxTime(c) /\ NextMaxTime(c) <= clock
           /\ lastTime[c] = NoTime => NextMaxTime(c) = NoTime
           /\ lastTime[c] # NoTime => scan[c].time <= NextMaxTime(c)
           /\ NextMaxTime(c) # NoTime => lastTime[c] < NextMaxTime(c)
BY ScanTypes DEF ScanInv, TimesInOrder, OpenedGetsYounger, Stale, NextMaxTime,
   NoTime

\* A step inside a scan that imports nothing.
LEMMA QuietScan ==
    ASSUME IInv, UNCHANGED <<dirVars, managerVars>>, NEW c \in Clients, ScanInv(c),
           scan'[c].pc # "idle", scan'[c].maxTime \in Nat \cup {-1},
           round[c] # {} => scan[c].maxTime <= scan'[c].maxTime,
           lastTime'[c] = lastTime[c], round'[c] = round[c],
           settled'[c] = settled[c], TimesInOrder(c)', OpenedGetsYounger(c)'
    PROVE  ScanInv(c)'
<1>1. \A e : Known(e)' <=> Known(e)
  BY DEF Known, managerVars
<1>2. \A f, e : Has(f, e)' <=> Has(f, e)
  BY DEF Has, Exists, EventsIn, dirVars
<1>3. RoundOfTheScan(c)' /\ NotTwice(c)'
  BY DEF ScanInv, RoundOfTheScan, NotTwice, Imported
<1>4. SettledIsCovered(c)'
  BY <1>1, <1>2 DEF ScanInv, SettledIsCovered, dirVars
<1>5. RoundWillBeCovered(c)'
  <2> SUFFICES ASSUME NEW r \in round[c], r.unchanged, lastTime[c] # NoTime,
                      NEW f \in EventFiles, Has(f, r.testcase)
               PROVE  dir[f].mtime <= scan'[c].maxTime
    BY <1>1, <1>2 DEF ScanInv, RoundWillBeCovered, dirVars
  <2>1. dir[f].mtime <= scan[c].maxTime /\ dir[f].mtime \in Nat
    BY TimeOfFile DEF ScanInv, RoundWillBeCovered, Has
  <2> QED
    BY <2>1, ScanTypes
<1> QED
  BY <1>3, <1>4, <1>5 DEF ScanInv

\* A new scan has opened nothing.
LEMMA ReadDirScan ==
    ASSUME IInv, NEW c \in Clients, ScanInv(c), ReadDir(c)
    PROVE  ScanInv(c)'
<1> USE DEF ReadDir
<1>1. scan \in [Clients -> ScanStates]
  BY DEF IInv, StageTypeInv, StageTypeOK
<1>2. scan'[c].pc = "listing" /\ scan'[c].maxTime = NoTime
  BY <1>1 DEF NoScan
<1>3. round[c] = {}
  BY DEF ScanInv, RoundOfTheScan
<1>4. TimesInOrder(c)' /\ OpenedGetsYounger(c)'
  BY <1>2, ScanTypes DEF ScanInv, TimesInOrder, OpenedGetsYounger, NoTime,
     dirVars
<1> QED
  BY <1>2, <1>3, <1>4, QuietScan DEF NoTime

\* An entry that is listed late is not opened yet.
LEMMA ListLateScan ==
    ASSUME IInv, NEW c \in Clients, ScanInv(c), ListLate(c)
    PROVE  ScanInv(c)'
<1>1. scan \in [Clients -> ScanStates] /\ scan[c] \in ScanStates
  BY DEF IInv, StageTypeInv, StageTypeOK
<1>2. PICK f \in Listing \ scan[c].listed :
        scan'[c] = [scan[c] EXCEPT !.listed = @ \cup {f}, !.pending = @ \cup {f}]
  BY <1>1 DEF ListLate
<1>3. scan'[c].pc = "listing" /\ scan'[c].maxTime = scan[c].maxTime
  BY <1>1, <1>2 DEF ListLate, ScanStates
<1>4. UNCHANGED <<dirVars, managerVars, lastTime, round, settled>>
  BY DEF ListLate
<1>5. TimesInOrder(c)' /\ OpenedGetsYounger(c)'
  BY <1>3, <1>4 DEF ScanInv, TimesInOrder, OpenedGetsYounger, dirVars
<1> QED
  <2>1. scan[c].maxTime \in Nat \cup {-1}
    BY ScanTypes
  <2> QED
    BY <1>3, <1>4, <1>5, <2>1, QuietScan

\* The time that is taken is the file's, which only gets younger.
LEMMA StatEntryScan ==
    ASSUME IInv, DiskInv, NEW c \in Clients, ScanInv(c), NEW f \in FileNames,
           StatEntry(c, f)
    PROVE  ScanInv(c)'
<1> USE DEF StatEntry
<1>1. scan \in [Clients -> ScanStates] /\ scan[c] \in ScanStates
  BY DEF IInv, StageTypeInv, StageTypeOK
<1>2. /\ scan'[c].pc \in {"listing", "opening"}
      /\ scan'[c].maxTime = scan[c].maxTime
      /\ scan'[c].pc = "opening" => /\ scan'[c].entry = f
                                   /\ scan'[c].time = dir[f].mtime /\ Exists(f)
  <2>1. CASE Skipped(f)
    <3>1. scan'[c] = [scan[c] EXCEPT !.pending = @ \ {f}]
      BY <1>1, <2>1
    <3> QED
      BY <1>1, <3>1 DEF ScanStates
  <2>2. CASE ~Skipped(f)
    <3>1. scan'[c] = [scan[c] EXCEPT !.pending = @ \ {f}, !.pc = "opening",
                                     !.entry = f, !.time = dir[f].mtime]
      BY <1>1, <2>2
    <3> QED
      BY <1>1, <2>2, <3>1 DEF ScanStates, Skipped, NonEmpty
  <2> QED
    BY <2>1, <2>2
<1>3. TimesInOrder(c)'
  BY <1>2 DEF ScanInv, TimesInOrder, dirVars
<1>4. OpenedGetsYounger(c)'
  <2>1. ASSUME Exists(f) PROVE dir[f].mtime \in Nat /\ dir[f].mtime <= clock
    BY <2>1, ExistingIsFile
       DEF DiskInv, NoneFromTheFuture, IInv, ManagerInv, Files
  <2> QED
    BY <1>2, <2>1 DEF OpenedGetsYounger, dirVars
<1> QED
  BY <1>2, <1>3, <1>4, ScanTypes, QuietScan

\* Entries that are passed over change no times but the greatest one.
LEMMA SkipScan ==
    ASSUME IInv, NEW c \in Clients, ScanInv(c),
           SkipStale(c) \/ SkipOther(c) \/ Executed(c)
    PROVE  ScanInv(c)'
<1>1. scan \in [Clients -> ScanStates] /\ scan[c] \in ScanStates
  BY DEF IInv, StageTypeInv, StageTypeOK
<1>2. /\ UNCHANGED <<dirVars, managerVars, lastTime, round, settled>>
      /\ scan'[c].pc = "listing"
      /\ \/ scan'[c].maxTime = scan[c].maxTime
         \/ /\ scan[c].pc = "opening" /\ ~Stale(c)
            /\ scan'[c].maxTime = NextMaxTime(c)
  <2>1. CASE SkipStale(c)
    BY <1>1, <2>1 DEF SkipStale, ScanStates
  <2>2. CASE SkipOther(c)
    BY <1>1, <2>2 DEF SkipOther, ScanStates
  <2>3. CASE Executed(c)
    BY <1>1, <2>3 DEF Executed, ScanStates
  <2> QED
    BY <2>1, <2>2, <2>3
<1>3. /\ scan'[c].maxTime \in Nat \cup {-1}
      /\ scan[c].maxTime <= scan'[c].maxTime
  BY <1>2, ScanTypes, MaxTimeGrows
<1>4. TimesInOrder(c)'
  BY <1>2, MaxTimeGrows DEF ScanInv, TimesInOrder, dirVars
<1>5. OpenedGetsYounger(c)'
  BY <1>2 DEF OpenedGetsYounger
<1> QED
  BY <1>2, <1>3, <1>4, <1>5, QuietScan

\* What is imported has a time above last_time, and was not covered by it.
LEMMA ImportScan ==
    ASSUME IInv, DiskInv, NEW c \in Clients, ScanInv(c), Import(c)
    PROVE  ScanInv(c)'
<1> DEFINE f == scan[c].entry
           e == dir[f].lines[1]
           r == [testcase |-> e, unchanged |-> dir[f].mtime = scan[c].time]
<1>1. scan \in [Clients -> ScanStates] /\ scan[c] \in ScanStates
  BY DEF IInv, StageTypeInv, StageTypeOK
<1>2. /\ UNCHANGED <<dirVars, managerVars, lastTime, settled>>
      /\ scan[c].pc = "opening" /\ ~Stale(c) /\ Exists(f)
      /\ scan'[c].pc = "executing" /\ scan'[c].maxTime = NextMaxTime(c)
  BY <1>1 DEF Import, ScanStates
<1>3. round'[c] = round[c] \cup {r}
  BY DEF Import, IInv, StageTypeInv, StageTypeOK
<1>4. f \in EventFiles /\ dir[f].mtime \in Nat /\ scan[c].time <= dir[f].mtime
  BY <1>2, ScanTypes, TimeOfFile DEF ScanInv, OpenedGetsYounger
<1>5. e \in Events /\ Has(f, e)
  <2>1. dir[f] \in Files
    BY <1>2, <1>4, EventFileNames, ExistingIsFile DEF IInv, ManagerInv
  <2>2. dir[f].lines \in Seq(Events) /\ Len(dir[f].lines) = 1
    BY <2>1 DEF Files, Import, IsTestcase, Parses
  <2> QED
    BY <1>2, <2>2 DEF Has, EventsIn
<1>6. Known(e)
  BY <1>4, <1>5 DEF DiskInv, OnlyKnownOnDisk
<1>7. \A g \in EventFiles : Has(g, e) => g = f
  BY <1>4, <1>5 DEF DiskInv, InOneFile
<1>8. r.testcase = e /\ (r.unchanged => dir[f].mtime = scan[c].time)
  OBVIOUS
<1> HIDE DEF f, e, r
<1>9. /\ \A x : Known(x)' <=> Known(x)
      /\ \A g, x : Has(g, x)' <=> Has(g, x)
  BY <1>2 DEF Known, managerVars, Has, Exists, EventsIn, dirVars
<1>10. RoundOfTheScan(c)'
  BY <1>2 DEF RoundOfTheScan
<1>11. TimesInOrder(c)' /\ OpenedGetsYounger(c)'
  BY <1>2, MaxTimeGrows DEF ScanInv, TimesInOrder, OpenedGetsYounger, dirVars
<1>12. SettledIsCovered(c)'
  BY <1>2, <1>9 DEF ScanInv, SettledIsCovered, dirVars
<1>13. RoundWillBeCovered(c)'
  <2> SUFFICES ASSUME NEW q \in round'[c]
               PROVE  /\ Known(q.testcase)
                      /\ q.unchanged /\ lastTime[c] # NoTime =>
                           \A g \in EventFiles : Has(g, q.testcase) =>
                             dir[g].mtime <= scan'[c].maxTime
    BY <1>2, <1>9 DEF RoundWillBeCovered, dirVars
  <2>1. CASE q = r
    BY <1>2, <1>6, <1>7, <1>8, <2>1, MaxTimeGrows
  <2>2. CASE q \in round[c]
    <3>1. Known(q.testcase)
      BY <2>2 DEF ScanInv, RoundWillBeCovered
    <3>2. ASSUME q.unchanged, lastTime[c] # NoTime, NEW g \in EventFiles,
                 Has(g, q.testcase)
          PROVE  dir[g].mtime <= scan'[c].maxTime
      <4>1. dir[g].mtime <= scan[c].maxTime /\ dir[g].mtime \in Nat
        BY <2>2, <3>2, TimeOfFile DEF ScanInv, RoundWillBeCovered, Has
      <4>2. scan[c].maxTime <= scan'[c].maxTime
            /\ scan[c].maxTime \in Nat \cup {-1}
            /\ scan'[c].maxTime \in Nat \cup {-1}
        BY <1>2, MaxTimeGrows, ScanTypes
      <4> QED
        BY <4>1, <4>2
    <3> QED
      BY <3>1, <3>2
  <2> QED
    BY <1>3, <2>1, <2>2
<1>14. e \notin settled[c]
  <2> SUFFICES ASSUME e \in settled[c] PROVE FALSE
    OBVIOUS
  <2>1. dir[f].mtime <= lastTime[c]
    BY <1>4, <1>5 DEF ScanInv, SettledIsCovered
  <2>2. lastTime[c] # NoTime
    BY DEF ScanInv, TimesInOrder
  <2>3. lastTime[c] < scan[c].time
    BY <1>2, <2>2, ScanTypes DEF Stale, NoTime
  <2> QED
    BY <1>4, <2>1, <2>3, ScanTypes
<1>15. NotTwice(c)'
  BY <1>2, <1>3, <1>8, <1>14 DEF ScanInv, NotTwice, Imported
<1> QED
  BY <1>10, <1>11, <1>12, <1>13, <1>15 DEF ScanInv

\* The new last_time covers everything the scan has imported.
LEMMA FinishScanScan ==
    ASSUME IInv, DiskInv, NEW c \in Clients, ScanInv(c), FinishScan(c)
    PROVE  ScanInv(c)'
<1> USE DEF FinishScan
<1> DEFINE end == IF scan[c].maxTime = NoTime THEN clock ELSE scan[c].maxTime
<1>1. /\ round'[c] = {} /\ scan'[c] = NoScan /\ lastTime'[c] = end
      /\ settled'[c] = settled[c] \cup
           {q.testcase : q \in {x \in round[c] : x.unchanged}}
  BY DEF IInv, StageTypeInv, StageTypeOK
<1>2. end \in Nat /\ end <= clock /\ lastTime[c] <= end
  BY ScanTypes DEF ScanInv, TimesInOrder, NoTime
<1>3. /\ \A x : Known(x)' <=> Known(x)
      /\ \A g, x : Has(g, x)' <=> Has(g, x)
      /\ dir' = dir /\ clock' = clock
  BY DEF Known, managerVars, Has, Exists, EventsIn, dirVars
<1>4. RoundOfTheScan(c)' /\ RoundWillBeCovered(c)' /\ OpenedGetsYounger(c)'
      /\ NotTwice(c)'
  BY <1>1 DEF RoundOfTheScan, RoundWillBeCovered, OpenedGetsYounger, NotTwice,
     Imported, NoScan
<1>5. TimesInOrder(c)'
  BY <1>1, <1>2, <1>3, ScanTypes DEF TimesInOrder, NoScan, NoTime
<1>6. SettledIsCovered(c)'
  <2> SUFFICES ASSUME NEW e \in settled'[c]
               PROVE  /\ Known(e)
                      /\ \A g \in EventFiles : Has(g, e) => dir[g].mtime <= end
    BY <1>1, <1>3 DEF SettledIsCovered
  <2>1. CASE e \in settled[c]
    <3>1. ASSUME NEW g \in EventFiles, Has(g, e) PROVE dir[g].mtime <= end
      <4>1. dir[g].mtime <= lastTime[c] /\ dir[g].mtime \in Nat
        BY <2>1, <3>1, TimeOfFile DEF ScanInv, SettledIsCovered, Has
      <4> HIDE DEF end
      <4> QED
        BY <1>2, <4>1, ScanTypes
    <3> QED
      BY <2>1, <3>1 DEF ScanInv, SettledIsCovered
  <2>2. CASE e \notin settled[c]
    <3>1. PICK q \in round[c] : q.unchanged /\ q.testcase = e
      BY <1>1, <2>2
    <3>2. ASSUME NEW g \in EventFiles, Has(g, e) PROVE dir[g].mtime <= end
      <4>1. dir[g].mtime \in Nat /\ dir[g].mtime <= clock
        BY <3>2, TimeOfFile, EventFileNames DEF Has, DiskInv, NoneFromTheFuture
      <4>2. CASE lastTime[c] = NoTime
        BY <4>1, <4>2 DEF ScanInv, TimesInOrder
      <4>3. CASE lastTime[c] # NoTime
        <5>1. dir[g].mtime <= scan[c].maxTime
          BY <3>1, <3>2, <4>3 DEF ScanInv, RoundWillBeCovered
        <5> QED
          BY <4>1, <5>1, ScanTypes DEF NoTime
      <4> QED
        BY <4>2, <4>3
    <3> QED
      BY <3>1, <3>2 DEF ScanInv, RoundWillBeCovered
  <2> QED
    BY <2>1, <2>2
<1> QED
  BY <1>4, <1>5, <1>6 DEF ScanInv

\* A client that lost its metadata has nothing settled.
LEMMA LostScan ==
    ASSUME IInv, NEW c \in Clients, StageLost(c), UNCHANGED <<dir, clock>>
    PROVE  ScanInv(c)'
<1>1. /\ scan'[c] = NoScan /\ lastTime'[c] = NoTime
      /\ round'[c] = {} /\ settled'[c] = {}
  BY DEF StageLost, IInv, StageTypeInv, StageTypeOK
<1> QED
  BY <1>1, ScanTypes DEF ScanInv, RoundOfTheScan, TimesInOrder,
     OpenedGetsYounger, SettledIsCovered, RoundWillBeCovered, NotTwice, Imported,
     NoScan, NoTime

-----------------------------------------------------------------------------
(* Every step keeps the invariant. *)

\* In the initial states nothing is on disk or imported.
LEMMA InitR == ASSUME Init PROVE RInv
<1> USE DEF Init, SyncDirInit, ManagerInit, StageInit
<1>1. IInv
  BY InitInv
<1>2. \A f \in FileNames : ~Exists(f)
  BY DEF Exists
<1>3. DiskInv
  BY <1>2, EventFileNames DEF DiskInv, OnlyKnownOnDisk, InOneFile,
     NoneFromTheFuture, LockIsNewer, Has, FiringTestcase
<1>4. ASSUME NEW c \in Clients PROVE ScanInv(c)
  BY <1>4 DEF ScanInv, RoundOfTheScan, TimesInOrder, OpenedGetsYounger,
     SettledIsCovered, RoundWillBeCovered, NotTwice, Imported, NoScan, NoTime
<1> QED
  BY <1>1, <1>3, <1>4 DEF RInv

\* A step of a manager.
LEMMA ManagerStepR ==
    ASSUME RInv, IInv', DiskInv' /\ DiskMoves, UNCHANGED stageVars
    PROVE  RInv'
BY MovesKeepScan DEF RInv, stageVars

\* A step of the scan of c.
LEMMA StageStepR ==
    ASSUME RInv, IInv', NEW c \in Clients, ScanInv(c)',
           UNCHANGED <<dirVars, managerVars>>,
           \A d \in Clients \ {c} :
               /\ scan'[d] = scan[d] /\ lastTime'[d] = lastTime[d]
               /\ round'[d] = round[d] /\ settled'[d] = settled[d]
    PROVE  RInv'
<1>1. DiskInv'
  BY OtherDisk DEF RInv, IInv, dirVars, managerVars
<1>2. ASSUME NEW d \in Clients PROVE ScanInv(d)'
  BY <1>2, OtherScansKeep DEF RInv
<1> QED
  BY <1>1, <1>2 DEF RInv

\* A step of one client's scan keeps the whole invariant.
LEMMA ScanStepR ==
    ASSUME RInv, IInv', NEW c \in Clients, ReadDir(c) \/ StageStep(c)
    PROVE  RInv'
<1>1. ScanInv(c)'
  BY ReadDirScan, ListLateScan, StatEntryScan, SkipScan, ImportScan,
     FinishScanScan DEF StageStep, RInv
<1>2. UNCHANGED <<dirVars, managerVars>>
  BY DEF ReadDir, StageStep, ListLate, StatEntry, SkipStale, SkipOther, Import,
     Executed, FinishScan
<1>3. \A d \in Clients \ {c} :
        /\ scan'[d] = scan[d] /\ lastTime'[d] = lastTime[d]
        /\ round'[d] = round[d] /\ settled'[d] = settled[d]
  <2>1. StageTypeOK
    BY DEF RInv, IInv, StageTypeInv
  <2> QED
    BY <2>1 DEF StageTypeOK, ReadDir, StageStep, ListLate, StatEntry, SkipStale,
       SkipOther, Import, Executed, FinishScan
<1> QED
  BY <1>1, <1>2, <1>3, StageStepR

\* So does the end of a client.
LEMMA DiesR ==
    ASSUME RInv, IInv', NEW c \in Clients, Dies(c)
    PROVE  RInv'
<1> USE DEF Dies
<1>1. DiskInv' /\ DiskMoves
  BY OtherDisk DEF RInv, IInv, ManagerCrash
<1>2. ScanInv(c)'
  BY LostScan DEF RInv, ManagerCrash
<1>3. ASSUME NEW d \in Clients \ {c} PROVE ScanInv(d)'
  <2>1. /\ scan'[d] = scan[d] /\ lastTime'[d] = lastTime[d]
        /\ round'[d] = round[d] /\ settled'[d] = settled[d]
    BY DEF StageLost, RInv, IInv, StageTypeInv, StageTypeOK
  <2> QED
    BY <1>1, <2>1, MovesKeepScan DEF RInv
<1> QED
  BY <1>1, <1>2, <1>3 DEF RInv

\* Every step keeps the invariant.
LEMMA NextR == ASSUME RInv, [Next]_vars PROVE RInv'
<1>0. IInv' /\ ManagerInv /\ DiskInv
  BY NextInv DEF RInv, IInv
<1>1. CASE Tick /\ UNCHANGED <<managerVars, stageVars, crashes>>
  BY <1>0, <1>1, OtherDisk, ManagerStepR DEF Tick, managerVars
<1>2. ASSUME NEW c \in Clients, FireTestcase(c) PROVE RInv'
  BY <1>0, <1>2, CreateLockDisk, ManagerStepR DEF FireTestcase
<1>3. ASSUME NEW c \in Clients, FireStats(c) PROVE RInv'
  BY <1>0, <1>3, StatsDisk, ManagerStepR DEF FireStats
<1>4. ASSUME NEW c \in Clients, StartScan(c) \/ ContinueScan(c) PROVE RInv'
  BY <1>0, <1>4, ScanStepR DEF StartScan, ContinueScan
<1>5. ASSUME NEW c \in Clients, ContinueFire(c) PROVE RInv'
  BY <1>0, <1>5, TearTestcaseDisk, WriteTestcaseDisk, PublishDisk, StatsDisk,
     ManagerStepR DEF ContinueFire, FireStep
<1>6. ASSUME NEW c \in Clients, Panic(c) \/ Crash(c) PROVE RInv'
  BY <1>0, <1>6, DiesR DEF Panic, Crash
<1>7. ASSUME NEW c \in Clients, Restart(c) PROVE RInv'
  <2>1. UNCHANGED <<dir, clock, fired>> /\ ManagerRestart(c)
    BY <1>7 DEF Restart, ManagerRestart
  <2> QED
    BY <1>0, <1>7, <2>1, OtherDisk, ManagerStepR DEF Restart
<1>8. CASE UNCHANGED vars
  BY <1>0, <1>8, OtherDisk, ManagerStepR DEF vars, dirVars, managerVars
<1> QED
  BY <1>1, <1>2, <1>3, <1>4, <1>5, <1>6, <1>7, <1>8 DEF Next, Running

\* A testcase that an earlier scan imported, from a file that did not change
\* between the stat and the read, is not imported again while the client
\* lives: the strict test against last_time in perform() is enough for it.
THEOREM NeverReimported == Spec => []NoReimport
<1>1. Init => RInv
  BY InitR
<1>2. RInv /\ [Next]_vars => RInv'
  BY NextR
<1>3. RInv => NoReimport
  BY DEF RInv, ScanInv, NotTwice, NoReimport
<1> QED
  BY <1>1, <1>2, <1>3, PTL DEF Spec

-----------------------------------------------------------------------------
(* The exchange of the testcases.  What RInv does not say and the exchange     *)
(* needs: whose testcases the files hold, when a lock file is left behind, and *)
(* where in a scan the testcases are that it still owes.                      *)

Found == [type : {"NewTestcase"}, client : Clients, serial : 1..MaxTestcases]

\* A file holds testcases of its client.
HeldByFinder ==
    \A f \in EventFiles, e \in Events :
        Has(f, e) => e \in Found /\ e.client = f.client

\* Until it is written the lock file is no testcase.
LockNotWhole(c) ==
    fire[c] \in {"tc_write", "tc_rest"} => ~Parses(dir[LockName(c)])

\* A client that has not died yet has no lock file but the one it works on.
LockInUse(c) ==
    crashes[c] = 0 => \A f \in FileNames :
        f.kind = "event_lock" /\ f.client = c /\ Exists(f) =>
            fire[c] \in FiringTestcase /\ f = LockName(c)

\* A testcase that the scan owes is under its name or replaced, newer than
\* last_time, and imported or ahead of the scan.
Ahead(c, e, f) ==
    /\ f.kind = "event" /\ lastTime[c] < dir[f].mtime
    /\ scan[c].pc = "opening" /\ scan[c].entry = f => scan[c].time = dir[f].mtime
    /\ \/ f \in scan[c].pending
       \/ scan[c].pc = "opening" /\ scan[c].entry = f
       \/ e \in Imported(c)

OwedIsAhead(c) ==
    \A e \in due[c] :
        /\ Known(e)
        /\ \A f \in EventFiles : Has(f, e) => Ahead(c, e, f)

\* The file of what is owed does not change before it is read.
OwedIsUnchanged(c) == \A r \in round[c] : r.testcase \in due[c] => r.unchanged

DueInv(c) == OwedIsAhead(c) /\ OwedIsUnchanged(c)

LocksInv == HeldByFinder /\ \A c \in Clients : LockNotWhole(c) /\ LockInUse(c)

XInv == RInv /\ LocksInv /\ \A c \in Clients : DueInv(c)

Whole(f, t) == Exists(f) /\ Parses(dir[f]) /\ dir[f].lines[1] = t

\* The one event of a file that can be read.
LEMMA WholeIsHeld ==
    ASSUME DirTypeOK, NEW f \in EventFiles, NEW t, Whole(f, t)
    PROVE  t \in Events /\ Has(f, t)
<1>1. f \in FileNames /\ dir[f] \in Files
  BY EventFileNames, ExistingIsFile DEF Whole
<1>2. dir[f].lines \in Seq(Events) /\ Len(dir[f].lines) = 1
  BY <1>1 DEF Files, Whole, Parses
<1> QED
  BY <1>2 DEF Whole, Has, EventsIn

\* A published file has no other event.
LEMMA PublishedHoldsOne ==
    ASSUME ManagerInv, NEW f \in EventFiles, f.kind = "event", NEW e, Has(f, e)
    PROVE  Whole(f, e) /\ IsTestcase(dir[f]) /\ e = dir[f].lines[1] /\ e \in Events
<1>1. f \in FileNames /\ Exists(f)
  BY EventFileNames DEF Has
<1>2. Parses(dir[f]) /\ dir[f].lines[1].type = "NewTestcase"
  BY <1>1, ManagerInvPublishedWhole DEF PublishedWhole
<1>3. dir[f].lines \in Seq(Events) /\ Len(dir[f].lines) = 1
  BY <1>1, <1>2, ExistingIsFile DEF ManagerInv, Files, Parses
<1>4. e = dir[f].lines[1]
  BY <1>3 DEF Has, EventsIn
<1> QED
  BY <1>1, <1>2, <1>3, <1>4 DEF Whole, IsTestcase

\* The steps of a manager that leave the testcases' files alone keep them.
LEMMA QuietLocks ==
    ASSUME RInv, LocksInv, \A f \in EventFiles : dir'[f] = dir[f],
           \A c \in Clients : fire'[c] \in FiringTestcase =>
               fire'[c] = fire[c] /\ count'[c] = count[c],
           \A c \in Clients : crashes'[c] = 0 =>
               /\ crashes[c] = 0
               /\ fire[c] \in FiringTestcase =>
                    fire'[c] = fire[c] /\ count'[c] = count[c]
    PROVE  LocksInv'
<1>1. \A f \in EventFiles, e \in Events : Has(f, e)' <=> Has(f, e)
  BY DEF Has, Exists, EventsIn
<1>2. HeldByFinder'
  BY <1>1 DEF LocksInv, HeldByFinder
<1>3. ASSUME NEW c \in Clients PROVE LockNotWhole(c)'
  <2> SUFFICES ASSUME fire'[c] \in {"tc_write", "tc_rest"}
               PROVE  ~Parses(dir'[LockName(c)'])
    BY DEF LockNotWhole, Parses
  <2>1. fire'[c] = fire[c] /\ count'[c] = count[c]
    BY DEF FiringTestcase
  <2>2. LockName(c) \in EventFiles /\ LockName(c)' = LockName(c)
    BY <2>1, OwnFiles DEF RInv, IInv, ManagerInv, LockName
  <2>3. ~Parses(dir[LockName(c)])
    BY <2>1 DEF LocksInv, LockNotWhole
  <2> QED
    BY <2>2, <2>3
<1>4. ASSUME NEW c \in Clients PROVE LockInUse(c)'
  <2> SUFFICES ASSUME crashes'[c] = 0, NEW f \in FileNames,
                      f.kind = "event_lock", f.client = c, Exists(f)'
               PROVE  fire'[c] \in FiringTestcase /\ f = LockName(c)'
    BY DEF LockInUse
  <2>1. f \in EventFiles
    BY DEF EventFiles
  <2>2. fire[c] \in FiringTestcase /\ f = LockName(c)
    BY <2>1 DEF LocksInv, LockInUse, Exists
  <2> QED
    BY <2>2 DEF LockName
<1> QED
  BY <1>2, <1>3, <1>4 DEF LocksInv

\* The steps that write the lock file.
LEMMA WriteLocks ==
    ASSUME RInv, RInv', LocksInv, NEW c \in Clients,
           CreateLock(c) \/ TearTestcase(c) \/ WriteTestcase(c),
           UNCHANGED crashes
    PROVE  LocksInv'
<1> DEFINE L == LockName(c)
<1>1. /\ L \in EventFiles /\ L \in FileNames /\ L.client = c
      /\ L.kind = "event_lock" /\ L' = L
      /\ DirTypeOK /\ ManagerTypeOK
  BY OwnFiles, EventFileNames
     DEF RInv, IInv, ManagerInv, LockName, CreateLock, TearTestcase, WriteTestcase
<1>2. <<>> \in Seq(Events) /\ <<Testcase(c)>> \in Seq(Events)
  BY <1>1, FiredIsEvent
<1>3. \A f \in FileNames \ {L} : dir'[f] = dir[f]
  BY <1>1, <1>2, WriteStep DEF CreateLock, TearTestcase, WriteTestcase
<1>4. /\ fire \in [Clients -> {"idle"} \cup FiringTestcase \cup FiringStats]
      /\ fired \in [Clients -> 0..MaxTestcases]
      /\ \A d \in Clients \ {c} : fire'[d] = fire[d]
      /\ count' = count /\ fire'[c] \in FiringTestcase
  BY <1>1 DEF ManagerTypeOK, CreateLock, TearTestcase, WriteTestcase,
     FiringTestcase
<1>5. HeldByFinder'
  <2> SUFFICES ASSUME NEW f \in EventFiles, NEW e \in Events, Has(f, e)'
               PROVE  e \in Found /\ e.client = f.client
    BY DEF HeldByFinder
  <2>1. CASE f # L
    <3>1. Has(f, e)
      BY <1>3, <2>1, EventFileNames DEF Has, Exists, EventsIn
    <3> QED
      BY <3>1 DEF LocksInv, HeldByFinder
  <2>2. CASE f = L /\ ~WriteTestcase(c)
    <3>1. dir'[L].lines = <<>>
      BY <1>1, <1>2, <2>2, WriteStep DEF CreateLock, TearTestcase
    <3> QED
      BY <2>2, <3>1, NothingWritten
  <2>3. CASE f = L /\ WriteTestcase(c)
    <3>1. dir'[L].lines = <<Testcase(c)>>
      BY <1>1, <1>2, <2>3, WriteStep DEF WriteTestcase
    <3>2. e = Testcase(c)
      BY <2>3, <3>1, OneWritten
    <3>3. fired[c] \in 1..MaxTestcases
      BY <1>1, <1>4, <2>3, SyncDirAssumption
         DEF WriteTestcase, RInv, IInv, ManagerInv, ClientInv, CountsFired,
             FiringTestcase, ManagerTypeOK
    <3> QED
      BY <1>1, <2>3, <3>2, <3>3 DEF Testcase, Found
  <2> QED
    BY <2>1, <2>2, <2>3
<1>6. ASSUME NEW d \in Clients PROVE LockNotWhole(d)'
  <2>1. CASE d # c
    <3>1. LockName(d) \in FileNames /\ LockName(d).client = d
          /\ LockName(d)' = LockName(d)
      BY <1>1, <1>4, OwnFiles, EventFileNames DEF LockName
    <3> QED
      BY <1>1, <1>3, <1>4, <2>1, <3>1 DEF LocksInv, LockNotWhole
  <2>2. CASE d = c /\ CreateLock(c)
    <3>1. dir'[L].lines = <<>>
      BY <1>1, <1>2, <2>2, WriteStep DEF CreateLock
    <3>2. ~Parses(dir'[L])
      BY <3>1 DEF Parses
    <3> QED
      BY <1>1, <2>2, <3>2 DEF LockNotWhole
  <2>3. CASE d = c /\ TearTestcase(c)
    <3>1. dir'[L].torn
      BY <1>1, <1>2, <2>3, WriteStep DEF TearTestcase
    <3>2. ~Parses(dir'[L])
      BY <3>1 DEF Parses
    <3> QED
      BY <1>1, <2>3, <3>2 DEF LockNotWhole
  <2>4. CASE d = c /\ WriteTestcase(c)
    BY <1>4, <2>4 DEF LockNotWhole, WriteTestcase
  <2> QED
    BY <2>1, <2>2, <2>3, <2>4
<1>7. ASSUME NEW d \in Clients PROVE LockInUse(d)'
  <2> SUFFICES ASSUME crashes[d] = 0, NEW f \in FileNames,
                      f.kind = "event_lock", f.client = d, Exists(f)'
               PROVE  fire'[d] \in FiringTestcase /\ f = LockName(d)'
    BY DEF LockInUse
  <2>1. CASE f = L
    BY <1>1, <1>4, <2>1
  <2>2. CASE f # L
    <3>1. fire[d] \in FiringTestcase /\ f = LockName(d)
      BY <1>3, <2>2 DEF LocksInv, LockInUse, Exists
    <3> QED
      BY <1>4, <3>1 DEF LockName
  <2> QED
    BY <2>1, <2>2
<1> QED
  BY <1>5, <1>6, <1>7 DEF LocksInv

\* The rename, after which the client has no lock file.
LEMMA PublishLocks ==
    ASSUME RInv, LocksInv, NEW c \in Clients, Publish(c), UNCHANGED crashes
    PROVE  LocksInv'
<1> USE DEF Publish
<1> DEFINE L == LockName(c)
           N == EventName(c, count[c])
<1>1. /\ L \in EventFiles /\ N \in EventFiles /\ L # N
      /\ L.kind = "event_lock" /\ N.kind = "event"
      /\ L.client = c /\ N.client = c
      /\ L \in FileNames /\ N \in FileNames /\ DirTypeOK /\ ManagerTypeOK
  BY OwnFiles, EventFileNames DEF RInv, IInv, ManagerInv
<1>2. /\ dir'[N] = dir[L] /\ dir'[L] = NoFile
      /\ \A f \in FileNames \ {L, N} : dir'[f] = dir[f]
  BY <1>1, RenameStep
<1>3. /\ fire'[c] = "idle" /\ fire[c] \in FiringTestcase
      /\ \A d \in Clients \ {c} : fire'[d] = fire[d] /\ count'[d] = count[d]
  BY <1>1 DEF ManagerTypeOK, FiringTestcase
<1>4. HeldByFinder'
  <2> SUFFICES ASSUME NEW f \in EventFiles, NEW e \in Events, Has(f, e)'
               PROVE  e \in Found /\ e.client = f.client
    BY DEF HeldByFinder
  <2>1. CASE f = N
    <3>1. Has(L, e)
      BY <1>2, <2>1 DEF Has, Exists, EventsIn
    <3> QED
      BY <1>1, <2>1, <3>1 DEF LocksInv, HeldByFinder
  <2>2. CASE f # N
    <3>1. Has(f, e)
      BY <1>2, <2>2, EventFileNames DEF Has, Exists, EventsIn
    <3> QED
      BY <3>1 DEF LocksInv, HeldByFinder
  <2> QED
    BY <2>1, <2>2
<1>5. ASSUME NEW d \in Clients PROVE LockNotWhole(d)'
  <2>1. CASE d = c
    BY <1>3, <2>1 DEF LockNotWhole
  <2>2. CASE d # c
    <3>1. LockName(d) \in FileNames /\ LockName(d).client = d
          /\ LockName(d)' = LockName(d)
      BY <1>1, <1>3, <2>2, OwnFiles, EventFileNames DEF LockName
    <3>2. dir'[LockName(d)] = dir[LockName(d)]
      BY <1>1, <1>2, <2>2, <3>1
    <3> QED
      BY <1>3, <2>2, <3>1, <3>2 DEF LocksInv, LockNotWhole
  <2> QED
    BY <2>1, <2>2
<1>6. ASSUME NEW d \in Clients PROVE LockInUse(d)'
  <2> SUFFICES ASSUME crashes[d] = 0, NEW f \in FileNames,
                      f.kind = "event_lock", f.client = d, Exists(f)'
               PROVE  fire'[d] \in FiringTestcase /\ f = LockName(d)'
    BY DEF LockInUse
  <2>1. f # N /\ f # L /\ Exists(f)
    BY <1>1, <1>2 DEF Exists
  <2>2. fire[d] \in FiringTestcase /\ f = LockName(d)
    BY <2>1 DEF LocksInv, LockInUse
  <2>3. d # c
    BY <2>1, <2>2
  <2> QED
    BY <1>3, <2>2, <2>3 DEF LockName
<1> QED
  BY <1>4, <1>5, <1>6 DEF LocksInv

\* Every step keeps what is said of the lock files.
LEMMA NextLocks ==
    ASSUME RInv, RInv', LocksInv, [Next]_vars
    PROVE  LocksInv'
<1>0. ManagerInv
  BY DEF RInv, IInv
<1>1. CASE Tick /\ UNCHANGED <<managerVars, stageVars, crashes>>
  BY <1>1, QuietLocks DEF Tick, managerVars
<1>2. ASSUME NEW c \in Clients, FireTestcase(c) PROVE LocksInv'
  BY <1>2, WriteLocks DEF FireTestcase
<1>3. ASSUME NEW c \in Clients, FireStats(c) PROVE LocksInv'
  BY <1>0, <1>3, StatsAside, QuietLocks DEF FireStats
<1>4. ASSUME NEW c \in Clients, StartScan(c) \/ ContinueScan(c) PROVE LocksInv'
  <2>1. UNCHANGED <<dir, fire, count, crashes>>
    BY <1>4 DEF StartScan, ContinueScan, ReadDir, StageStep, ListLate, StatEntry,
       SkipStale, SkipOther, Import, Executed, FinishScan, dirVars, managerVars
  <2> QED
    BY <2>1, QuietLocks
<1>5. ASSUME NEW c \in Clients, ContinueFire(c) PROVE LocksInv'
  <2>1. CASE TearTestcase(c) \/ WriteTestcase(c)
    BY <1>5, <2>1, WriteLocks DEF ContinueFire
  <2>2. CASE Publish(c)
    BY <1>5, <2>2, PublishLocks DEF ContinueFire
  <2>3. CASE NewlineStats(c) \/ TearStats(c) \/ WriteStats(c) \/ PublishStats(c)
    BY <1>0, <1>5, <2>3, StatsAside, QuietLocks DEF ContinueFire
  <2> QED
    BY <1>5, <2>1, <2>2, <2>3 DEF ContinueFire, FireStep
<1>6. ASSUME NEW c \in Clients, Panic(c) \/ Crash(c) PROVE LocksInv'
  <2>1. ManagerCrash(c) /\ crashes' = [crashes EXCEPT ![c] = @ + 1]
    BY <1>6 DEF Panic, Crash, Dies
  <2>2. /\ crashes \in [Clients -> Nat]
        /\ fire \in [Clients -> {"idle"} \cup FiringTestcase \cup FiringStats]
    BY <1>0 DEF RInv, IInv, StageTypeInv, ManagerInv, ManagerTypeOK
  <2>3. /\ UNCHANGED <<dir, count>>
        /\ \A d \in Clients : fire'[d] = IF d = c THEN "idle" ELSE fire[d]
        /\ \A d \in Clients : crashes'[d] = IF d = c THEN crashes[d] + 1
                                            ELSE crashes[d]
    BY <2>1, <2>2 DEF ManagerCrash
  <2>4. \A d \in Clients : crashes'[d] = 0 => d # c /\ crashes[d] = 0
    BY <2>2, <2>3
  <2>5. \A d \in Clients : fire'[d] \in FiringTestcase => d # c
    BY <2>3 DEF FiringTestcase
  <2> QED
    BY <2>3, <2>4, <2>5, QuietLocks
<1>7. ASSUME NEW c \in Clients, Restart(c) PROVE LocksInv'
  <2>1. /\ UNCHANGED <<dir, fire, crashes>> /\ ~up[c]
        /\ count' = [count EXCEPT ![c] = 0]
    BY <1>7 DEF Restart, ManagerRestart
  <2>2. fire[c] = "idle" /\ crashes[c] # 0 /\ \A d \in Clients \ {c} : count'[d] = count[d]
    BY <1>0, <2>1 DEF ManagerInv, ManagerTypeOK, ClientInv, DeadIsIdle, RInv,
       IInv, DeadHasDied
  <2> QED
    BY <2>1, <2>2, QuietLocks DEF FiringTestcase
<1>8. CASE UNCHANGED vars
  BY <1>8, QuietLocks DEF vars, dirVars, managerVars
<1> QED
  BY <1>1, <1>2, <1>3, <1>4, <1>5, <1>6, <1>7, <1>8 DEF Next, Running

-----------------------------------------------------------------------------
(* What a scan owes. *)

\* The managers rename no published testcase and write into none.
LEMMA MovesKeepDue ==
    ASSUME IInv, DiskMoves, NEW c \in Clients, DueInv(c),
           scan'[c] = scan[c], lastTime'[c] = lastTime[c],
           round'[c] = round[c], due'[c] = due[c]
    PROVE  DueInv(c)'
<1>1. due[c] \subseteq Events
  BY DEF IInv, StageTypeInv, StageTypeOK
<1>2. OwedIsUnchanged(c)'
  BY DEF DueInv, OwedIsUnchanged
<1>3. OwedIsAhead(c)'
  <2> SUFFICES ASSUME NEW e \in due[c]
               PROVE  /\ Known(e)'
                      /\ \A f \in EventFiles : Has(f, e)' => Ahead(c, e, f)'
    BY DEF OwedIsAhead
  <2>1. e \in Events /\ Known(e)
    BY <1>1 DEF DueInv, OwedIsAhead
  <2>2. ASSUME NEW f \in EventFiles, Has(f, e)' PROVE Ahead(c, e, f)'
    <3>1. PICK g \in EventFiles : /\ Has(g, e) /\ dir'[f].mtime = dir[g].mtime
                                  /\ g.kind = "event" => f = g
      BY <2>1, <2>2 DEF DiskMoves
    <3>2. Ahead(c, e, g) /\ f = g
      BY <3>1 DEF DueInv, OwedIsAhead, Ahead
    <3> QED
      BY <3>1, <3>2 DEF Ahead, Imported
  <2> QED
    BY <2>1, <2>2 DEF DiskMoves
<1> QED
  BY <1>2, <1>3 DEF DueInv

\* A step of a scan that goes on to another entry, past none that it owes.
LEMMA ScanKeepsDue ==
    ASSUME UNCHANGED <<dirVars, managerVars>>, NEW c \in Clients, DueInv(c),
           lastTime'[c] = lastTime[c], round'[c] = round[c], due'[c] = due[c],
           \A e \in due[c], f \in EventFiles :
               Has(f, e) /\ Ahead(c, e, f) => Ahead(c, e, f)'
    PROVE  DueInv(c)'
<1>1. /\ \A e : Known(e)' <=> Known(e)
      /\ \A f, e : Has(f, e)' <=> Has(f, e)
  BY DEF Known, managerVars, Has, Exists, EventsIn, dirVars
<1> QED
  BY <1>1 DEF DueInv, OwedIsAhead, OwedIsUnchanged

\* The new scan owes what it has listed.
LEMMA ReadDirDue ==
    ASSUME IInv, DiskInv, NEW c \in Clients, ScanInv(c), ReadDir(c)
    PROVE  DueInv(c)'
<1>1. /\ UNCHANGED <<dirVars, managerVars, lastTime, round>>
      /\ due'[c] = NewerPublished(lastTime[c])
      /\ scan'[c].pc = "listing" /\ scan'[c].pending = Listing
  BY DEF ReadDir, NoScan, IInv, StageTypeInv, StageTypeOK
<1>2. /\ \A e : Known(e)' <=> Known(e)
      /\ \A f, e : Has(f, e)' <=> Has(f, e)
      /\ dir' = dir
  BY <1>1 DEF Known, managerVars, Has, Exists, EventsIn, dirVars
<1>3. round'[c] = {}
  BY <1>1 DEF ReadDir, ScanInv, RoundOfTheScan
<1>4. ASSUME NEW e \in due'[c]
      PROVE  Known(e) /\ \A f \in EventFiles : Has(f, e) => Ahead(c, e, f)'
  <2>1. PICK g \in FileNames : /\ g.kind = "event" /\ Exists(g)
                               /\ dir[g].mtime > lastTime[c] /\ e \in EventsIn(g)
    BY <1>1 DEF NewerPublished
  <2>2. g \in EventFiles /\ Has(g, e) /\ g \in Listing
    BY <2>1 DEF EventFiles, Has, Listing
  <2>3. e \in Events
    BY <2>1, EventsInTyped DEF IInv, ManagerInv
  <2>4. Known(e) /\ \A f \in EventFiles : Has(f, e) => f = g
    BY <2>2, <2>3 DEF DiskInv, OnlyKnownOnDisk, InOneFile
  <2>5. lastTime[c] < dir[g].mtime
    BY <2>1, <2>2, ScanTypes, TimeOfFile
  <2> QED
    BY <1>1, <1>2, <2>1, <2>2, <2>4, <2>5 DEF Ahead
<1> QED
  BY <1>2, <1>3, <1>4 DEF DueInv, OwedIsAhead, OwedIsUnchanged

\* Entries that are listed late are behind none that is owed.
LEMMA ListLateDue ==
    ASSUME IInv, NEW c \in Clients, DueInv(c), ListLate(c)
    PROVE  DueInv(c)'
<1>1. scan \in [Clients -> ScanStates] /\ scan[c] \in ScanStates
  BY DEF IInv, StageTypeInv, StageTypeOK
<1>2. PICK f \in Listing \ scan[c].listed :
        scan'[c] = [scan[c] EXCEPT !.listed = @ \cup {f}, !.pending = @ \cup {f}]
  BY <1>1 DEF ListLate
<1>3. /\ scan'[c].pc = scan[c].pc /\ scan[c].pc = "listing"
      /\ scan'[c].pending = scan[c].pending \cup {f}
  BY <1>1, <1>2 DEF ListLate, ScanStates
<1>4. UNCHANGED <<dirVars, managerVars, lastTime, due, round>>
  BY DEF ListLate
<1>5. \A e \in due[c], g \in EventFiles :
        Has(g, e) /\ Ahead(c, e, g) => Ahead(c, e, g)'
  BY <1>3, <1>4 DEF Ahead, Imported, dirVars
<1> QED
  BY <1>4, <1>5, ScanKeepsDue

\* The stat of an entry that is owed finds it whole, and its time.
LEMMA StatEntryDue ==
    ASSUME IInv, NEW c \in Clients, DueInv(c), NEW f \in FileNames, StatEntry(c, f)
    PROVE  DueInv(c)'
<1>1. scan \in [Clients -> ScanStates] /\ scan[c] \in ScanStates
  BY DEF IInv, StageTypeInv, StageTypeOK
<1>2. scan[c].pc = "listing"
  BY DEF StatEntry
<1>3. UNCHANGED <<dirVars, managerVars, lastTime, due, round>>
  BY DEF StatEntry
<1>4. ASSUME NEW e \in due[c], NEW g \in EventFiles, Has(g, e), Ahead(c, e, g)
      PROVE  Ahead(c, e, g)'
  <2>1. CASE Skipped(f)
    <3>1. scan'[c] = [scan[c] EXCEPT !.pending = @ \ {f}]
      BY <1>1, <2>1 DEF StatEntry
    <3>2. scan'[c].pc = "listing" /\ scan'[c].pending = scan[c].pending \ {f}
      BY <1>1, <1>2, <3>1 DEF ScanStates
    <3>3. g # f
      <4>1. Whole(g, e) /\ ~IsStats(g)
        BY <1>4, PublishedHoldsOne, EventFileNames DEF Ahead, IInv
      <4>2. dir[g].lines # <<>>
        BY <4>1 DEF Whole, Parses
      <4> QED
        BY <2>1, <4>1, <4>2 DEF Skipped, NonEmpty, Whole
    <3> QED
      BY <1>2, <1>3, <1>4, <3>2, <3>3 DEF Ahead, Imported, dirVars
  <2>2. CASE ~Skipped(f)
    <3>1. scan'[c] = [scan[c] EXCEPT !.pending = @ \ {f}, !.pc = "opening",
                                     !.entry = f, !.time = dir[f].mtime]
      BY <1>1, <2>2 DEF StatEntry
    <3>2. /\ scan'[c].pc = "opening" /\ scan'[c].pending = scan[c].pending \ {f}
          /\ scan'[c].entry = f /\ scan'[c].time = dir[f].mtime
      BY <1>1, <3>1 DEF ScanStates
    <3> QED
      BY <1>2, <1>3, <1>4, <3>2 DEF Ahead, Imported, dirVars
  <2> QED
    BY <2>1, <2>2
<1> QED
  BY <1>3, <1>4, ScanKeepsDue

\* What is passed over is not owed: that is newer than last_time, and a testcase.
LEMMA SkipDue ==
    ASSUME IInv, NEW c \in Clients, DueInv(c),
           SkipStale(c) \/ SkipOther(c) \/ Executed(c)
    PROVE  DueInv(c)'
<1>1. scan \in [Clients -> ScanStates] /\ scan[c] \in ScanStates
  BY DEF IInv, StageTypeInv, StageTypeOK
<1>2. UNCHANGED <<dirVars, managerVars, lastTime, due, round>>
  BY DEF SkipStale, SkipOther, Executed
<1>3. scan'[c].pc = "listing" /\ scan'[c].pending = scan[c].pending
  <2>1. CASE SkipStale(c)
    BY <1>1, <2>1 DEF SkipStale, ScanStates
  <2>2. CASE SkipOther(c)
    BY <1>1, <2>2 DEF SkipOther, ScanStates
  <2>3. CASE Executed(c)
    BY <1>1, <2>3 DEF Executed, ScanStates
  <2> QED
    BY <2>1, <2>2, <2>3
<1>4. ASSUME NEW e \in due[c], NEW g \in EventFiles, Has(g, e), Ahead(c, e, g)
      PROVE  ~(scan[c].pc = "opening" /\ scan[c].entry = g)
  <2> SUFFICES ASSUME scan[c].pc = "opening", scan[c].entry = g PROVE FALSE
    OBVIOUS
  <2>1. ~Stale(c)
    BY <1>4, TimeOfFile, ScanTypes DEF Ahead, Stale, Has
  <2>2. IsTestcase(dir[g])
    BY <1>4, PublishedHoldsOne DEF Ahead, IInv
  <2> QED
    BY <2>1, <2>2 DEF SkipStale, SkipOther, Executed
<1>5. \A e \in due[c], g \in EventFiles :
        Has(g, e) /\ Ahead(c, e, g) => Ahead(c, e, g)'
  BY <1>2, <1>3, <1>4 DEF Ahead, Imported, dirVars
<1> QED
  BY <1>2, <1>5, ScanKeepsDue

\* The testcase that is owed is imported from the file that was listed.
LEMMA ImportDue ==
    ASSUME IInv, NEW c \in Clients, DueInv(c), Import(c)
    PROVE  DueInv(c)'
<1> DEFINE f == scan[c].entry
           t == dir[f].lines[1]
           r == [testcase |-> t, unchanged |-> dir[f].mtime = scan[c].time]
<1>1. scan \in [Clients -> ScanStates] /\ scan[c] \in ScanStates
  BY DEF IInv, StageTypeInv, StageTypeOK
<1>2. /\ UNCHANGED <<dirVars, managerVars, lastTime, due>>
      /\ scan[c].pc = "opening" /\ Exists(f) /\ IsTestcase(dir[f])
      /\ scan'[c].pc = "executing" /\ scan'[c].pending = scan[c].pending
  BY <1>1 DEF Import, ScanStates
<1>3. round'[c] = round[c] \cup {r}
  BY DEF Import, IInv, StageTypeInv, StageTypeOK
<1>4. f \in EventFiles /\ Has(f, t)
  <2>1. f \in EventFiles
    BY <1>2, ScanTypes
  <2>2. Whole(f, t)
    BY <1>2 DEF Whole, IsTestcase
  <2> QED
    BY <2>1, <2>2, WholeIsHeld DEF IInv, ManagerInv
<1>5. r.testcase = t /\ (dir[f].mtime = scan[c].time => r.unchanged)
  OBVIOUS
<1>6. \A e, g : Ahead(c, e, g) /\ scan[c].entry = g => dir[f].mtime = scan[c].time
  BY <1>2 DEF Ahead
<1>7. \A g \in EventFiles : \A e : Ahead(c, e, g) /\ Has(g, e) /\ g = f => e = t
  BY PublishedHoldsOne DEF Ahead, IInv
<1>8. f = scan[c].entry
  OBVIOUS
<1> HIDE DEF f, t, r
<1>9. /\ \A e : Known(e)' <=> Known(e)
      /\ \A g, e : Has(g, e)' <=> Has(g, e)
  BY <1>2 DEF Known, managerVars, Has, Exists, EventsIn, dirVars
<1>10. Imported(c)' = Imported(c) \cup {t}
  BY <1>3, <1>5 DEF Imported
<1>11. OwedIsAhead(c)'
  <2> SUFFICES ASSUME NEW e \in due[c], NEW g \in EventFiles, Has(g, e),
                      Ahead(c, e, g)
               PROVE  Ahead(c, e, g)'
    BY <1>2, <1>9 DEF DueInv, OwedIsAhead
  <2> QED
    BY <1>2, <1>7, <1>8, <1>10 DEF Ahead, dirVars
<1>12. OwedIsUnchanged(c)'
  <2> SUFFICES ASSUME NEW q \in round'[c], q.testcase \in due[c]
               PROVE  q.unchanged
    BY <1>2 DEF OwedIsUnchanged
  <2>1. CASE q = r
    <3>1. Ahead(c, t, f)
      BY <1>4, <1>5, <2>1 DEF DueInv, OwedIsAhead
    <3> QED
      BY <1>5, <1>6, <1>8, <2>1, <3>1
  <2>2. CASE q \in round[c]
    BY <2>2 DEF DueInv, OwedIsUnchanged
  <2> QED
    BY <1>3, <2>1, <2>2
<1> QED
  BY <1>11, <1>12 DEF DueInv

\* No scan, nothing owed.
LEMMA NothingDue ==
    ASSUME NEW c \in Clients, due'[c] = {}
    PROVE  DueInv(c)'
BY DEF DueInv, OwedIsAhead, OwedIsUnchanged

\* Every step keeps what is said of a scan's debts.
LEMMA NextDue ==
    ASSUME RInv, [Next]_vars, NEW c \in Clients, DueInv(c)
    PROVE  DueInv(c)'
<1>0. ManagerInv /\ DiskInv /\ IInv /\ ScanInv(c)
  BY DEF RInv, IInv
<1>1. CASE Tick /\ UNCHANGED <<managerVars, stageVars, crashes>>
  <2>1. DiskMoves
    BY <1>0, <1>1, OtherDisk DEF Tick, managerVars
  <2> QED
    BY <1>0, <1>1, <2>1, MovesKeepDue DEF stageVars
<1>2. ASSUME NEW d \in Clients, FireTestcase(d) PROVE DueInv(c)'
  BY <1>0, <1>2, CreateLockDisk, MovesKeepDue DEF FireTestcase, stageVars
<1>3. ASSUME NEW d \in Clients, FireStats(d) PROVE DueInv(c)'
  BY <1>0, <1>3, StatsDisk, MovesKeepDue DEF FireStats, stageVars
<1>4. ASSUME NEW d \in Clients, StartScan(d) \/ ContinueScan(d) PROVE DueInv(c)'
  <2>0. ReadDir(d) \/ StageStep(d)
    BY <1>4 DEF StartScan, ContinueScan
  <2>1. CASE d = c
    <3>1. CASE FinishScan(c)
      <4>1. due'[c] = {}
        BY <1>0, <3>1 DEF FinishScan, IInv, StageTypeInv, StageTypeOK
      <4> QED
        BY <4>1, NothingDue
    <3> QED
      BY <1>0, <2>0, <2>1, <3>1, ReadDirDue, ListLateDue, StatEntryDue, SkipDue,
         ImportDue DEF StageStep
  <2>2. CASE d # c
    <3>1. /\ UNCHANGED <<dirVars, managerVars>>
          /\ scan'[c] = scan[c] /\ lastTime'[c] = lastTime[c]
          /\ round'[c] = round[c] /\ due'[c] = due[c]
      BY <1>0, <2>0, <2>2 DEF IInv, StageTypeInv, StageTypeOK, ReadDir,
         StageStep, ListLate, StatEntry, SkipStale, SkipOther, Import, Executed,
         FinishScan
    <3>2. \A e \in due[c], f \in EventFiles :
            Has(f, e) /\ Ahead(c, e, f) => Ahead(c, e, f)'
      BY <3>1 DEF Ahead, Imported, dirVars
    <3> QED
      BY <3>1, <3>2, ScanKeepsDue
  <2> QED
    BY <2>1, <2>2
<1>5. ASSUME NEW d \in Clients, ContinueFire(d) PROVE DueInv(c)'
  <2>1. DiskMoves
    BY <1>0, <1>5, TearTestcaseDisk, WriteTestcaseDisk, PublishDisk, StatsDisk
       DEF ContinueFire, FireStep
  <2> QED
    BY <1>0, <1>5, <2>1, MovesKeepDue DEF ContinueFire, stageVars
<1>6. ASSUME NEW d \in Clients, Panic(d) \/ Crash(d) PROVE DueInv(c)'
  <2>1. ManagerCrash(d) /\ StageLost(d)
    BY <1>6 DEF Panic, Crash, Dies
  <2>2. CASE d = c
    <3>1. due'[c] = {}
      BY <1>0, <2>1, <2>2 DEF StageLost, IInv, StageTypeInv, StageTypeOK
    <3> QED
      BY <3>1, NothingDue
  <2>3. CASE d # c
    <3>1. DiskMoves
      BY <1>0, <2>1, OtherDisk DEF ManagerCrash
    <3>2. /\ scan'[c] = scan[c] /\ lastTime'[c] = lastTime[c]
          /\ round'[c] = round[c] /\ due'[c] = due[c]
      BY <1>0, <2>1, <2>3 DEF StageLost, IInv, StageTypeInv, StageTypeOK
    <3> QED
      BY <1>0, <3>1, <3>2, MovesKeepDue
  <2> QED
    BY <2>2, <2>3
<1>7. ASSUME NEW d \in Clients, Restart(d) PROVE DueInv(c)'
  <2>1. UNCHANGED <<dir, clock, fired>> /\ ManagerRestart(d)
    BY <1>7 DEF Restart, ManagerRestart
  <2>2. DiskMoves
    BY <1>0, <2>1, OtherDisk
  <2> QED
    BY <1>0, <1>7, <2>2, MovesKeepDue DEF Restart, stageVars
<1>8. CASE UNCHANGED vars
  <2>1. DiskMoves
    BY <1>0, <1>8, OtherDisk DEF vars, dirVars, managerVars
  <2> QED
    BY <1>0, <1>8, <2>1, MovesKeepDue DEF vars, stageVars
<1> QED
  BY <1>1, <1>2, <1>3, <1>4, <1>5, <1>6, <1>7, <1>8 DEF Next, Running

\* The invariant of the exchange.
LEMMA ExchangeInvariance == Spec => []XInv
<1>1. Init => XInv
  <2> SUFFICES ASSUME Init PROVE XInv
    OBVIOUS
  <2>1. RInv
    BY InitR
  <2>2. \A f \in FileNames : ~Exists(f)
    BY DEF Init, SyncDirInit, Exists
  <2>3. LocksInv
    BY <2>2, EventFileNames DEF Init, ManagerInit, LocksInv, HeldByFinder, Has,
       LockNotWhole, LockInUse
  <2>4. \A c \in Clients : DueInv(c)
    BY DEF Init, StageInit, DueInv, OwedIsAhead, OwedIsUnchanged
  <2> QED
    BY <2>1, <2>3, <2>4 DEF XInv
<1>2. XInv /\ [Next]_vars => XInv'
  BY NextR, NextLocks, NextDue DEF XInv
<1> QED
  BY <1>1, <1>2, PTL DEF Spec

-----------------------------------------------------------------------------
(* The steps of the exchange.  Complete is what can be read under either name,  *)
(* Offer what is under its own.                                             *)

Completed == WholeIn({"event", "event_lock"})
Published == WholeIn({"event"})

\* The part of the exchange that the stage and the deaths make up.
Imports == <<{c \in Clients : crashes[c] > 0}, {c \in Clients : lastTime[c] = NoTime},
             {c \in Clients : scan[c].pc # "idle"}, due,
             [c \in Clients |-> Imported(c)], settled>>

\* What is complete and what is published.
LEMMA WholeFiles ==
    /\ \A t : t \in Completed <=> \E f \in EventFiles : Whole(f, t)
    /\ \A t : t \in Published <=>
         \E f \in EventFiles : f.kind = "event" /\ Whole(f, t)
    /\ \A t : t \in Completed' <=> \E f \in EventFiles : Whole(f, t)'
    /\ \A t : t \in Published' <=>
         \E f \in EventFiles : f.kind = "event" /\ Whole(f, t)'
<1>1. \A f \in EventFiles : f.kind \in {"event", "event_lock"}
  BY DEF EventFiles
<1> QED
  BY <1>1 DEF Completed, Published, WholeIn, Whole, Exists

\* Steps that change no testcase's file and no import are none of the exchange.
LEMMA Stutter ==
    ASSUME Completed' = Completed, Published' = Published, Imports' = Imports
    PROVE  [Exchange!Next]_(Exchange!vars)
BY DEF Exchange!vars, Completed, Published, Imports

\* What the files hold is complete and published as before if none is touched.
LEMMA SameFiles ==
    ASSUME \A f \in EventFiles : dir'[f] = dir[f]
    PROVE  Completed' = Completed /\ Published' = Published
<1>1. \A f \in EventFiles : \A t : Whole(f, t)' <=> Whole(f, t)
  BY DEF Whole, Exists, Parses
<1>2. \A t : t \in Completed' <=> t \in Completed
  BY <1>1, WholeFiles
<1>3. \A t : t \in Published' <=> t \in Published
  BY <1>1, WholeFiles
<1> QED
  BY <1>2, <1>3

\* The imports are those of the stages.
LEMMA SameImports ==
    ASSUME UNCHANGED <<stageVars, crashes>>
    PROVE  Imports' = Imports
BY DEF Imports, stageVars, Imported

\* The write of a lock file changes what is complete by what the file held, and
\* nothing that is published.
LEMMA WriteWhole ==
    ASSUME DirTypeOK, InOneFile, NEW L \in EventFiles, L.kind = "event_lock",
           \A f \in FileNames \ {L} : dir'[f] = dir[f]
    PROVE  /\ Published' = Published
           /\ \A t : Whole(L, t) =>
                t \in Completed \ Published /\ \A f \in EventFiles : Whole(f, t) => f = L
           /\ \A t : t \in Completed' <=>
                \/ t \in Completed /\ ~Whole(L, t)
                \/ Whole(L, t)'
<1>1. \A f \in EventFiles : \A t : f # L => (Whole(f, t)' <=> Whole(f, t))
  BY EventFileNames DEF Whole, Exists, Parses
<1>2. Published' = Published
  <2>1. \A t : t \in Published' <=> t \in Published
    BY <1>1, WholeFiles
  <2> QED
    BY <2>1
<1>3. ASSUME NEW t, Whole(L, t)
      PROVE  t \in Completed \ Published /\ \A f \in EventFiles : Whole(f, t) => f = L
  <2>1. \A f \in EventFiles : Whole(f, t) => f = L
    BY <1>3, WholeIsHeld DEF InOneFile
  <2> QED
    BY <1>3, <2>1, WholeFiles
<1>4. ASSUME NEW t
      PROVE  t \in Completed' <=> \/ t \in Completed /\ ~Whole(L, t)
                                  \/ Whole(L, t)'
  <2>1. t \in Completed /\ ~Whole(L, t) <=>
          \E f \in EventFiles : f # L /\ Whole(f, t)
    BY <1>3, WholeFiles
  <2>2. t \in Completed' <=> (\E f \in EventFiles : f # L /\ Whole(f, t)) \/ Whole(L, t)'
    BY <1>1, WholeFiles
  <2> QED
    BY <2>1, <2>2
<1> QED
  BY <1>2, <1>3, <1>4

\* What a file holds, its client has found.
LEMMA WholeByFinder ==
    ASSUME RInv, LocksInv, NEW f \in EventFiles, NEW t, Whole(f, t)
    PROVE  t \in Found /\ t.client = f.client
BY WholeIsHeld DEF RInv, IInv, ManagerInv, LocksInv, HeldByFinder

\* A new lock file loses the testcase that a client, killed before its rename,
\* left in a file of that name.
LEMMA CreateLockStep ==
    ASSUME RInv, LocksInv, NEW c \in Clients, CreateLock(c),
           UNCHANGED <<stageVars, crashes>>
    PROVE  [Exchange!Next]_(Exchange!vars)
<1>0. DirTypeOK /\ ManagerTypeOK /\ InOneFile
  BY DEF RInv, DiskInv, IInv, ManagerInv
<1>1. PICK L \in EventFiles :
        L = LockName(c) /\ L.kind = "event_lock" /\ L.client = c /\ L \in FileNames
  BY <1>0, OwnFiles, EventFileNames
<1>2. /\ clock' = clock /\ dir' = Put(L, <<>>, FALSE) /\ fire[c] = "idle"
      /\ <<>> \in Seq(Events)
  BY <1>1 DEF CreateLock
<1>3. /\ dir'[L].lines = <<>>
      /\ \A f \in FileNames \ {L} : dir'[f] = dir[f]
  BY <1>0, <1>1, <1>2, WriteStep
<1>4. ~Parses(dir'[L])
  BY <1>3 DEF Parses
<1>5. \A t : ~Whole(L, t)'
  BY <1>4 DEF Whole, Parses
<1>6. Published' = Published /\ \A t : t \in Completed' <=> t \in Completed /\ ~Whole(L, t)
  BY <1>0, <1>1, <1>3, <1>5, WriteWhole
<1>7. Imports' = Imports
  BY SameImports
<1>8. CASE \E t : Whole(L, t)
  <2>1. PICK t : Whole(L, t)
    BY <1>8
  <2>2. t \in Found /\ t.client = c /\ t \in Completed \ Published
    BY <1>0, <1>1, <1>3, <2>1, WholeByFinder, WriteWhole
  <2>3. crashes[c] > 0
    <3>1. Exists(L)
      BY <2>1 DEF Whole
    <3>2. crashes[c] # 0
      BY <1>1, <1>2, <3>1 DEF LocksInv, LockInUse, FiringTestcase
    <3> QED
      BY <3>2 DEF RInv, IInv, StageTypeInv
  <2>4. Completed' = Completed \ {t}
    <3>1. \A u : Whole(L, u) <=> u = t
      BY <2>1 DEF Whole
    <3>2. \A u : u \in Completed' <=> u \in Completed \ {t}
      BY <1>6, <3>1
    <3> QED
      BY <3>2
  <2>5. Exchange!Lose(t)
    BY <1>6, <1>7, <2>2, <2>3, <2>4
       DEF Exchange!Lose, Completed, Published, Imports
  <2> QED
    BY <2>2, <2>5 DEF Exchange!Next, Found
<1>9. CASE ~\E t : Whole(L, t)
  <2>1. \A t : t \in Completed' <=> t \in Completed
    BY <1>6, <1>9
  <2>2. Completed' = Completed
    BY <2>1
  <2> QED
    BY <1>6, <1>7, <2>2, Stutter
<1> QED
  BY <1>8, <1>9

\* Half a testcase is none.
LEMMA TearStep ==
    ASSUME RInv, LocksInv, NEW c \in Clients, TearTestcase(c),
           UNCHANGED <<stageVars, crashes>>
    PROVE  [Exchange!Next]_(Exchange!vars)
<1>0. DirTypeOK /\ ManagerTypeOK /\ InOneFile
  BY DEF RInv, DiskInv, IInv, ManagerInv
<1>1. PICK L \in EventFiles :
        L = LockName(c) /\ L.kind = "event_lock" /\ L.client = c /\ L \in FileNames
  BY <1>0, OwnFiles, EventFileNames
<1>2. /\ clock' = clock /\ dir' = Put(L, <<>>, TRUE) /\ ~Parses(dir[L])
      /\ <<>> \in Seq(Events)
  BY <1>1 DEF TearTestcase, LocksInv, LockNotWhole
<1>3. /\ dir'[L].torn
      /\ \A f \in FileNames \ {L} : dir'[f] = dir[f]
  BY <1>0, <1>1, <1>2, WriteStep
<1>4. \A t : ~Whole(L, t) /\ ~Whole(L, t)'
  BY <1>2, <1>3 DEF Whole, Parses
<1>5. Published' = Published /\ \A t : t \in Completed' <=> t \in Completed
  BY <1>0, <1>1, <1>3, <1>4, WriteWhole
<1>6. Completed' = Completed
  BY <1>5
<1> QED
  BY <1>5, <1>6, SameImports, Stutter

\* The write makes the testcase complete.
LEMMA WriteTestcaseStep ==
    ASSUME RInv, LocksInv, NEW c \in Clients, WriteTestcase(c),
           UNCHANGED <<stageVars, crashes>>
    PROVE  [Exchange!Next]_(Exchange!vars)
<1>0. DirTypeOK /\ ManagerTypeOK /\ InOneFile
  BY DEF RInv, DiskInv, IInv, ManagerInv
<1>1. PICK L \in EventFiles :
        L = LockName(c) /\ L.kind = "event_lock" /\ L.client = c /\ L \in FileNames
  BY <1>0, OwnFiles, EventFileNames
<1>2. PICK t \in Found : t = Testcase(c)
  <2>1. fired[c] \in 1..MaxTestcases
    BY <1>0, SyncDirAssumption
       DEF WriteTestcase, RInv, IInv, ManagerInv, ClientInv, CountsFired,
           FiringTestcase, ManagerTypeOK
  <2> QED
    BY <2>1 DEF Testcase, Found
<1>3. /\ clock' = clock /\ dir' = Put(L, <<t>>, FALSE) /\ ~Parses(dir[L])
      /\ <<t>> \in Seq(Events)
  BY <1>0, <1>1, <1>2, FiredIsEvent DEF WriteTestcase, LocksInv, LockNotWhole
<1>4. /\ dir'[L].lines = <<t>> /\ ~dir'[L].torn /\ dir'[L] # NoFile
      /\ \A f \in FileNames \ {L} : dir'[f] = dir[f]
  BY <1>0, <1>1, <1>3, WriteStep
<1>5. Len(dir'[L].lines) = 1 /\ dir'[L].lines[1] = t
  BY <1>4
<1>6. \A u : ~Whole(L, u) /\ (Whole(L, u)' <=> u = t)
  BY <1>3, <1>4, <1>5 DEF Whole, Parses, Exists
<1>7. Published' = Published /\ \A u : u \in Completed' <=> u \in Completed \cup {t}
  BY <1>0, <1>1, <1>4, <1>6, WriteWhole
<1>8. Completed' = Completed \cup {t}
  BY <1>7
<1>9. Exchange!Complete(t)
  BY <1>7, <1>8, SameImports DEF Exchange!Complete, Completed, Published, Imports
<1> QED
  BY <1>9 DEF Exchange!Next, Found

\* The rename offers the testcase; what it replaces a client offered that was
\* killed since, as a launch later the numbers start over.
LEMMA PublishStep ==
    ASSUME RInv, LocksInv, NEW c \in Clients, Publish(c),
           UNCHANGED <<stageVars, crashes>>
    PROVE  [Exchange!Next]_(Exchange!vars)
<1>0. /\ DirTypeOK /\ ManagerTypeOK /\ InOneFile /\ FreshNames
      /\ fire[c] = "tc_rename" /\ LockIsWhole(c)
  BY DEF RInv, DiskInv, IInv, ManagerInv, ClientInv, Publish
<1>1. PICK L \in EventFiles, N \in EventFiles :
        /\ L = LockName(c) /\ N = EventName(c, count[c]) /\ L # N
        /\ L.kind = "event_lock" /\ N.kind = "event" /\ N.client = c
        /\ L \in FileNames /\ N \in FileNames
  BY <1>0, OwnFiles, EventFileNames
<1>2. /\ dir'[N] = dir[L] /\ dir'[L] = NoFile
      /\ \A f \in FileNames \ {L, N} : dir'[f] = dir[f]
  BY <1>0, <1>1, RenameStep DEF Publish
<1>3. PICK t : Whole(L, t) /\ t.client = c /\ t \in Found
  <2>1. Holds(L, Testcase(c))
    BY <1>0, <1>1 DEF LockIsWhole
  <2>2. Whole(L, Testcase(c))
    BY <2>1 DEF Holds, Whole, Parses
  <2>3. L.client = c
    BY <1>0, <1>1, OwnFiles
  <2> QED
    BY <2>2, <2>3, WholeByFinder
<1>4. /\ \A u : Whole(L, u) <=> u = t
      /\ \A u : ~Whole(L, u)'
      /\ \A u : Whole(N, u)' <=> u = t
      /\ \A f \in EventFiles : \A u :
           f # L /\ f # N => (Whole(f, u)' <=> Whole(f, u))
  BY <1>2, <1>3, EventFileNames DEF Whole, Exists, Parses
<1>5. \A f, g \in EventFiles : \A u : Whole(f, u) /\ Whole(g, u) => f = g
  BY <1>0, WholeIsHeld DEF InOneFile
<1> DEFINE gone == {u \in Published : Whole(N, u)}
<1>6. gone \subseteq {u \in Published : u.client = t.client} /\ t \notin gone
  BY <1>1, <1>3, <1>5, WholeByFinder
<1>7. gone = {} \/ crashes[c] > 0
  <2>1. count[c] \in 0..MaxTestcases
    BY <1>0 DEF ManagerTypeOK
  <2>2. gone # {} => crashes[c] # 0
    BY <1>0, <1>1, <2>1 DEF FreshNames, Whole
  <2> QED
    BY <2>2 DEF RInv, IInv, StageTypeInv
<1>8. Published' = (Published \ gone) \cup {t}
  <2>1. ASSUME NEW u PROVE u \in Published' <=> u \in (Published \ gone) \cup {t}
    <3>1. CASE u = t
      BY <1>1, <1>4, <3>1, WholeFiles
    <3>2. CASE u # t
      BY <1>1, <1>4, <1>5, <3>2, WholeFiles
    <3> QED
      BY <3>1, <3>2
  <2> QED
    BY <2>1
<1>9. Completed' = Completed \ gone
  <2>1. ASSUME NEW u PROVE u \in Completed' <=> u \in Completed \ gone
    <3>1. CASE u = t
      BY <1>1, <1>3, <1>4, <1>6, <3>1, WholeFiles
    <3>2. CASE u # t
      <4>1. u \in Completed' <=> \E f \in EventFiles : f # N /\ Whole(f, u)
        BY <1>4, <3>2, WholeFiles
      <4>2. u \in Completed \ gone <=> \E f \in EventFiles : f # N /\ Whole(f, u)
        BY <1>1, <1>5, WholeFiles
      <4> QED
        BY <4>1, <4>2
    <3> QED
      BY <3>1, <3>2
  <2> QED
    BY <2>1
<1>10. t \in Completed
  BY <1>3, WholeFiles
<1>11. gone \ {t} = gone
  BY <1>6
<1> HIDE DEF gone
<1>12. Exchange!Offer(t)
  <2>1. gone \in SUBSET {u \in Published : u.client = t.client}
    BY <1>6
  <2>2. gone = {} \/ t.client \in {d \in Clients : crashes[d] > 0}
    BY <1>3, <1>7
  <2> QED
    BY <1>8, <1>9, <1>10, <1>11, <2>1, <2>2, SameImports
       DEF Exchange!Offer, Completed, Published, Imports
<1> QED
  BY <1>3, <1>12 DEF Exchange!Next, Found

\* A scan begins an import; what it owes is published and not settled.
LEMMA ReadDirStep ==
    ASSUME RInv, NEW c \in Clients, ReadDir(c), UNCHANGED crashes
    PROVE  [Exchange!Next]_(Exchange!vars)
<1>0. /\ StageTypeOK /\ DirTypeOK /\ ManagerInv /\ SettledIsCovered(c) /\ IInv
  BY DEF RInv, IInv, ManagerInv, StageTypeInv, ScanInv
<1>1. /\ UNCHANGED <<dir, lastTime, round, settled>>
      /\ due' = [due EXCEPT ![c] = NewerPublished(lastTime[c])]
      /\ scan'[c].pc = "listing" /\ scan[c].pc = "idle"
      /\ \A d \in Clients \ {c} : scan'[d] = scan[d]
  BY <1>0 DEF ReadDir, NoScan, StageTypeOK, dirVars
<1> DEFINE new == NewerPublished(lastTime[c])
<1>2. \A t : t \in new <=>
        \E f \in EventFiles : f.kind = "event" /\ Whole(f, t) /\ dir[f].mtime > lastTime[c]
  <2>1. ASSUME NEW f \in FileNames, f.kind = "event", NEW t,
               (Exists(f) /\ t \in EventsIn(f)) \/ Whole(f, t)
        PROVE  /\ f \in EventFiles /\ Whole(f, t)
               /\ Exists(f) /\ t \in EventsIn(f)
    <3>1. f \in EventFiles
      BY <2>1 DEF EventFiles
    <3>2. CASE Exists(f) /\ t \in EventsIn(f)
      BY <1>0, <2>1, <3>1, <3>2, PublishedHoldsOne DEF Has
    <3>3. CASE Whole(f, t)
      BY <1>0, <3>1, <3>3, WholeIsHeld DEF Has
    <3> QED
      BY <2>1, <3>1, <3>2, <3>3
  <2>2. \A t : t \in new <=>
          \E f \in FileNames : /\ f.kind = "event" /\ Exists(f)
                               /\ dir[f].mtime > lastTime[c] /\ t \in EventsIn(f)
    BY DEF NewerPublished
  <2> QED
    BY <2>1, <2>2, EventFileNames
<1>3. new \subseteq Published
  BY <1>2, WholeFiles
<1>4. lastTime[c] = NoTime => new = Published
  <2> SUFFICES ASSUME lastTime[c] = NoTime, NEW t \in Published PROVE t \in new
    BY <1>3
  <2>1. PICK f \in EventFiles : f.kind = "event" /\ Whole(f, t)
    BY WholeFiles
  <2>2. dir[f].mtime \in Nat
    BY <1>0, <2>1, TimeOfFile DEF Whole
  <2>3. dir[f].mtime > lastTime[c]
    BY <2>2 DEF NoTime
  <2> QED
    BY <1>2, <2>1, <2>3
<1>5. new \cap settled[c] = {}
  <2> SUFFICES ASSUME NEW t \in new, t \in settled[c] PROVE FALSE
    OBVIOUS
  <2>1. PICK f \in EventFiles : Whole(f, t) /\ dir[f].mtime > lastTime[c]
    BY <1>2
  <2>2. Has(f, t)
    BY <1>0, <2>1, WholeIsHeld
  <2>3. dir[f].mtime <= lastTime[c] /\ dir[f].mtime \in Nat
    BY <1>0, <2>2, TimeOfFile DEF SettledIsCovered, Has
  <2> QED
    BY <1>0, <2>1, <2>3, ScanTypes
<1> HIDE DEF new
<1>6. Completed' = Completed /\ Published' = Published
  BY <1>1, SameFiles
<1>7. {d \in Clients : scan[d].pc # "idle"}' = {d \in Clients : scan[d].pc # "idle"} \cup {c}
  BY <1>1
<1>8. [d \in Clients |-> Imported(d)]' = [d \in Clients |-> Imported(d)]
  BY <1>1 DEF Imported
<1>9. due' = [due EXCEPT ![c] = new]
  BY <1>1 DEF new
<1>10. \E n \in SUBSET Published :
         /\ IF c \in {d \in Clients : lastTime[d] = NoTime}
            THEN n = Published ELSE n \cap settled[c] = {}
         /\ due' = [due EXCEPT ![c] = n]
  BY <1>3, <1>4, <1>5, <1>9
<1>11. Exchange!Begin(c)
  BY <1>1, <1>6, <1>7, <1>8, <1>10
     DEF Exchange!Begin, Completed, Published
<1> QED
  BY <1>11 DEF Exchange!Next

\* A testcase that is read is complete, and not settled.
LEMMA ImportStep ==
    ASSUME RInv, RInv', LocksInv, NEW c \in Clients, Import(c), UNCHANGED crashes
    PROVE  [Exchange!Next]_(Exchange!vars)
<1>0. /\ StageTypeOK /\ IInv /\ NotTwice(c)'
  BY DEF RInv, IInv, StageTypeInv, ScanInv
<1>1. PICK f \in EventFiles : f = scan[c].entry /\ Whole(f, dir[f].lines[1])
  BY <1>0, ScanTypes DEF Import, IsTestcase, Whole
<1>2. PICK t \in Found : Whole(f, t) /\ t = dir[f].lines[1]
  BY <1>1, WholeByFinder
<1>3. /\ UNCHANGED <<dir, lastTime, due, settled>>
      /\ scan[c].pc # "idle" /\ scan'[c].pc # "idle"
      /\ \A d \in Clients \ {c} : scan'[d] = scan[d] /\ round'[d] = round[d]
  BY <1>0 DEF Import, StageTypeOK, ScanStates, dirVars
<1>4. Imported(c)' = Imported(c) \cup {t}
  <2> DEFINE r == [testcase |-> t, unchanged |-> dir[f].mtime = scan[c].time]
  <2>1. round'[c] = round[c] \cup {r}
    BY <1>0, <1>1, <1>2 DEF Import, StageTypeOK
  <2>2. r.testcase = t
    OBVIOUS
  <2> HIDE DEF r
  <2> QED
    BY <2>1, <2>2 DEF Imported
<1>5. t \in Completed \ settled[c]
  <2>1. t \in Completed
    BY <1>2, WholeFiles
  <2> QED
    BY <1>0, <1>3, <1>4, <2>1 DEF NotTwice
<1>6. Completed' = Completed /\ Published' = Published
  BY <1>3, SameFiles
<1>7. {d \in Clients : scan[d].pc # "idle"}' = {d \in Clients : scan[d].pc # "idle"}
  BY <1>3
<1>8. [d \in Clients |-> Imported(d)]' =
        [[d \in Clients |-> Imported(d)] EXCEPT ![c] = @ \cup {t}]
  BY <1>3, <1>4 DEF Imported
<1>9. Exchange!Take(c, t)
  BY <1>3, <1>5, <1>6, <1>7, <1>8 DEF Exchange!Take, Completed, Published
<1> QED
  BY <1>2, <1>9 DEF Exchange!Next, Found

\* A scan ends when it has visited every entry, so that it has imported what it
\* owes, from files that did not change.
LEMMA FinishScanStep ==
    ASSUME RInv, LocksInv, NEW c \in Clients, DueInv(c), FinishScan(c),
           UNCHANGED crashes
    PROVE  [Exchange!Next]_(Exchange!vars)
<1>0. /\ StageTypeOK /\ DirTypeOK /\ IInv
  BY DEF RInv, IInv, ManagerInv, StageTypeInv
<1> DEFINE kept == {r.testcase : r \in {x \in round[c] : x.unchanged}}
           end == IF scan[c].maxTime = NoTime THEN clock ELSE scan[c].maxTime
<1>1. /\ UNCHANGED <<dir, clock>>
      /\ scan[c].pc = "listing" /\ scan[c].pending = {}
      /\ scan'[c].pc = "idle"
      /\ \A d \in Clients \ {c} : scan'[d] = scan[d] /\ round'[d] = round[d]
      /\ round'[c] = {}
      /\ due' = [due EXCEPT ![c] = {}]
      /\ settled' = [settled EXCEPT ![c] = @ \cup kept]
      /\ lastTime' = [lastTime EXCEPT ![c] = end]
  BY <1>0 DEF FinishScan, StageTypeOK, NoScan, dirVars
<1>2. due[c] \cap Published \subseteq Imported(c)
  <2> SUFFICES ASSUME NEW t \in due[c], t \in Published PROVE t \in Imported(c)
    OBVIOUS
  <2>1. PICK f \in EventFiles : Whole(f, t)
    BY WholeFiles
  <2>2. Has(f, t)
    BY <1>0, <2>1, WholeIsHeld
  <2> QED
    BY <1>1, <2>2 DEF DueInv, OwedIsAhead, Ahead
<1>3. kept \subseteq Imported(c) /\ due[c] \cap Imported(c) \subseteq kept
  BY DEF DueInv, OwedIsUnchanged, Imported
<1>4. end # NoTime
  BY ScanTypes, <1>0 DEF NoTime
<1> HIDE DEF kept, end
<1>5. Completed' = Completed /\ Published' = Published
  BY <1>1, SameFiles
<1>6. {d \in Clients : scan[d].pc # "idle"}' = {d \in Clients : scan[d].pc # "idle"} \ {c}
  BY <1>1
<1>7. {d \in Clients : lastTime[d] = NoTime}' = {d \in Clients : lastTime[d] = NoTime} \ {c}
  BY <1>0, <1>1, <1>4 DEF StageTypeOK
<1>8. [d \in Clients |-> Imported(d)]' = [[d \in Clients |-> Imported(d)] EXCEPT ![c] = {}]
  BY <1>1 DEF Imported
<1>9. \E k \in SUBSET Imported(c) :
        /\ due[c] \cap Imported(c) \subseteq k
        /\ settled' = [settled EXCEPT ![c] = @ \cup k]
  BY <1>1, <1>3
<1>10. Exchange!End(c)
  BY <1>1, <1>2, <1>5, <1>6, <1>7, <1>8, <1>9
     DEF Exchange!End, Completed, Published
<1> QED
  BY <1>10 DEF Exchange!Next

\* The steps inside a scan that import nothing.
LEMMA InsideScanStep ==
    ASSUME RInv, NEW c \in Clients, UNCHANGED crashes,
           \/ ListLate(c) \/ (\E f \in FileNames : StatEntry(c, f))
           \/ SkipStale(c) \/ SkipOther(c) \/ Executed(c)
    PROVE  [Exchange!Next]_(Exchange!vars)
<1>0. scan \in [Clients -> ScanStates] /\ scan[c] \in ScanStates
  BY DEF RInv, IInv, StageTypeInv, StageTypeOK
<1>1. /\ UNCHANGED <<dir, lastTime, due, round, settled>>
      /\ \A d \in Clients \ {c} : scan'[d] = scan[d]
  BY <1>0 DEF ListLate, StatEntry, SkipStale, SkipOther, Executed, dirVars
<1>2. scan[c].pc # "idle" /\ scan'[c].pc # "idle"
  <2>1. CASE ListLate(c)
    BY <1>0, <2>1 DEF ListLate, ScanStates
  <2>2. ASSUME NEW f \in FileNames, StatEntry(c, f)
        PROVE  scan[c].pc # "idle" /\ scan'[c].pc # "idle"
    <3>1. CASE Skipped(f)
      <4>1. scan'[c] = [scan[c] EXCEPT !.pending = @ \ {f}]
        BY <1>0, <2>2, <3>1 DEF StatEntry
      <4> QED
        BY <1>0, <2>2, <4>1 DEF StatEntry, ScanStates
    <3>2. CASE ~Skipped(f)
      <4>1. scan'[c] = [scan[c] EXCEPT !.pending = @ \ {f}, !.pc = "opening",
                                       !.entry = f, !.time = dir[f].mtime]
        BY <1>0, <2>2, <3>2 DEF StatEntry
      <4> QED
        BY <1>0, <2>2, <4>1 DEF StatEntry, ScanStates
    <3> QED
      BY <3>1, <3>2
  <2>3. CASE SkipStale(c)
    BY <1>0, <2>3 DEF SkipStale, ScanStates
  <2>4. CASE SkipOther(c)
    BY <1>0, <2>4 DEF SkipOther, ScanStates
  <2>5. CASE Executed(c)
    BY <1>0, <2>5 DEF Executed, ScanStates
  <2> QED
    BY <2>1, <2>2, <2>3, <2>4, <2>5
<1>3. {d \in Clients : scan[d].pc # "idle"}' = {d \in Clients : scan[d].pc # "idle"}
  BY <1>1, <1>2
<1>4. Imports' = Imports
  BY <1>1, <1>3 DEF Imports, Imported
<1> QED
  BY <1>1, <1>4, SameFiles, Stutter

\* A client dies.
LEMMA DiesStep ==
    ASSUME RInv, NEW c \in Clients, Dies(c)
    PROVE  [Exchange!Next]_(Exchange!vars)
<1>0. StageTypeOK /\ crashes \in [Clients -> Nat]
  BY DEF RInv, IInv, StageTypeInv
<1>1. /\ dir' = dir
      /\ crashes' = [crashes EXCEPT ![c] = @ + 1]
      /\ lastTime' = [lastTime EXCEPT ![c] = NoTime]
      /\ due' = [due EXCEPT ![c] = {}]
      /\ settled' = [settled EXCEPT ![c] = {}]
      /\ \A d \in Clients \ {c} : scan'[d] = scan[d] /\ round'[d] = round[d]
      /\ scan'[c].pc = "idle" /\ round'[c] = {}
  BY <1>0 DEF Dies, ManagerCrash, StageLost, StageTypeOK, NoScan
<1>2. {d \in Clients : crashes[d] > 0}' = {d \in Clients : crashes[d] > 0} \cup {c}
  BY <1>0, <1>1
<1>3. {d \in Clients : lastTime[d] = NoTime}' = {d \in Clients : lastTime[d] = NoTime} \cup {c}
  BY <1>0, <1>1 DEF StageTypeOK
<1>4. {d \in Clients : scan[d].pc # "idle"}' = {d \in Clients : scan[d].pc # "idle"} \ {c}
  BY <1>1
<1>5. [d \in Clients |-> Imported(d)]' = [[d \in Clients |-> Imported(d)] EXCEPT ![c] = {}]
  BY <1>1 DEF Imported
<1>6. Completed' = Completed /\ Published' = Published
  BY <1>1, SameFiles
<1>7. Exchange!Die(c)
  BY <1>1, <1>2, <1>3, <1>4, <1>5, <1>6 DEF Exchange!Die, Completed, Published
<1> QED
  BY <1>7 DEF Exchange!Next

-----------------------------------------------------------------------------
(* The sync directory keeps what TestcaseExchange promises. *)

\* Every step is one of the exchange, or none.
LEMMA NextExchange ==
    ASSUME XInv, XInv', [Next]_vars
    PROVE  [Exchange!Next]_(Exchange!vars)
<1>0. RInv /\ RInv' /\ LocksInv /\ ManagerInv /\ \A c \in Clients : DueInv(c)
  BY DEF XInv, RInv, IInv
<1>1. CASE Tick /\ UNCHANGED <<managerVars, stageVars, crashes>>
  BY <1>1, SameFiles, SameImports, Stutter DEF Tick
<1>2. ASSUME NEW c \in Clients, FireTestcase(c)
      PROVE  [Exchange!Next]_(Exchange!vars)
  BY <1>0, <1>2, CreateLockStep DEF FireTestcase
<1>3. ASSUME NEW c \in Clients, FireStats(c)
      PROVE  [Exchange!Next]_(Exchange!vars)
  BY <1>0, <1>3, StatsAside, SameFiles, SameImports, Stutter DEF FireStats
<1>4. ASSUME NEW c \in Clients, StartScan(c) \/ ContinueScan(c)
      PROVE  [Exchange!Next]_(Exchange!vars)
  BY <1>0, <1>4, ReadDirStep, ImportStep, FinishScanStep, InsideScanStep
     DEF StartScan, ContinueScan, StageStep
<1>5. ASSUME NEW c \in Clients, ContinueFire(c)
      PROVE  [Exchange!Next]_(Exchange!vars)
  <2>1. CASE TearTestcase(c) \/ WriteTestcase(c) \/ Publish(c)
    BY <1>0, <1>5, <2>1, TearStep, WriteTestcaseStep, PublishStep
       DEF ContinueFire
  <2>2. CASE NewlineStats(c) \/ TearStats(c) \/ WriteStats(c) \/ PublishStats(c)
    BY <1>0, <1>5, <2>2, StatsAside, SameFiles, SameImports, Stutter
       DEF ContinueFire
  <2> QED
    BY <1>5, <2>1, <2>2 DEF ContinueFire, FireStep
<1>6. ASSUME NEW c \in Clients, Panic(c) \/ Crash(c)
      PROVE  [Exchange!Next]_(Exchange!vars)
  BY <1>0, <1>6, DiesStep DEF Panic, Crash
<1>7. ASSUME NEW c \in Clients, Restart(c)
      PROVE  [Exchange!Next]_(Exchange!vars)
  BY <1>7, SameFiles, SameImports, Stutter DEF Restart, ManagerRestart
<1>8. CASE UNCHANGED vars
  BY <1>8, SameFiles, SameImports, Stutter DEF vars, dirVars
<1> QED
  BY <1>1, <1>2, <1>3, <1>4, <1>5, <1>6, <1>7, <1>8 DEF Next, Running

\* In the empty directory nothing is complete, and no client imports.
LEMMA InitExchange == ASSUME Init PROVE Exchange!Init
<1>1. \A f \in FileNames : ~Exists(f)
  BY DEF Init, SyncDirInit, Exists
<1>2. WholeIn({"event", "event_lock"}) = {} /\ WholeIn({"event"}) = {}
  BY <1>1, EventFileNames DEF WholeIn
<1>3. /\ {c \in Clients : crashes[c] > 0} = {}
      /\ {c \in Clients : lastTime[c] = NoTime} = Clients
      /\ {c \in Clients : scan[c].pc # "idle"} = {}
      /\ due = [c \in Clients |-> {}] /\ settled = [c \in Clients |-> {}]
      /\ [c \in Clients |-> Imported(c)] = [c \in Clients |-> {}]
  BY DEF Init, StageInit, NoScan, Imported
<1> QED
  BY <1>2, <1>3 DEF Exchange!Init, Exchange!Nothing

\* Files that are written under a lock name and renamed, and scans that compare
\* times, exchange the testcases: none is withdrawn while its finder lives, a scan
\* that ends has imported every one that was published and newer than last_time
\* when it began, and none is imported again from a file that did not change.
THEOREM ExchangeImplemented == Spec => ImplementsExchange
<1>1. Init => Exchange!Init
  BY InitExchange
<1>2. XInv /\ XInv' /\ [Next]_vars => [Exchange!Next]_(Exchange!vars)
  BY NextExchange
<1> QED
  BY <1>1, <1>2, ExchangeInvariance, PTL DEF Spec, ImplementsExchange, Exchange!Spec
=============================================================================
