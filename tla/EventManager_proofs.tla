------------------------- MODULE EventManager_proofs -------------------------
(***************************************************************************)
(* What every step of a client's event manager preserves, whoever else works *)
(* on the sync directory.                                                  *)
(***************************************************************************)
EXTENDS EventManager, TLAPS

(* The inductive invariant.  The type invariant alone is not inductive: the   *)
(* count stays within its bound because every event it counts was fired, and *)
(* the append to a statistics file is typed because the lock file is there.  *)

CountsFired(c) ==
    /\ count[c] <= fired[c]
    /\ fire[c] \in FiringTestcase => count[c] < fired[c]

DeadIsIdle(c) == ~up[c] => fire[c] = "idle"

StatsLockHeld(c) == fire[c] \in FiringStats => Exists(StatsLock(c))

\* What is about to be renamed is the whole event.
LockIsWhole(c) == fire[c] = "tc_rename" => Holds(LockName(c), Testcase(c))

\* A published file of the client is one whole testcase of the client.
WholeTestcase(f) ==
    Exists(f) => /\ Parses(dir[f])
                 /\ dir[f].lines[1].type = "NewTestcase"
                 /\ dir[f].lines[1].client = f.client

PublishedByClient(c) ==
    \A f \in FileNames : f.kind = "event" /\ f.client = c => WholeTestcase(f)

ClientInv(c) ==
    /\ CountsFired(c) /\ DeadIsIdle(c) /\ StatsLockHeld(c) /\ LockIsWhole(c)
    /\ PublishedByClient(c)

ManagerInv ==
    /\ DirTypeOK /\ ManagerTypeOK
    /\ \A c \in Clients : ClientInv(c)

(* A client touches its own files and its own part of the state only.        *)
Own(c) ==
    /\ \A f \in FileNames : f.client # c => dir'[f] = dir[f]
    /\ \A d \in Clients \ {c} :
         /\ up'[d] = up[d] /\ count'[d] = count[d] /\ fire'[d] = fire[d]
         /\ fired'[d] = fired[d] /\ statsFired'[d] = statsFired[d]

-----------------------------------------------------------------------------
(* The names of the files, and what a write and a rename make of the          *)
(* directory.                                                              *)

\* A name is one of the directory's when its number is within the bound.
LEMMA NamesAreFileNames ==
    ASSUME NEW c \in Clients, NEW n \in 0..MaxTestcases
    PROVE  /\ EventName(c, n) \in FileNames
           /\ EventLock(c, n) \in FileNames
           /\ StatsName(c) \in FileNames
           /\ StatsLock(c) \in FileNames
BY SyncDirAssumption DEF EventName, EventLock, StatsName, StatsLock, FileNames

\* A write makes the file, and touches no other.
LEMMA WriteStep ==
    ASSUME DirTypeOK, NEW f \in FileNames, NEW lines, NEW torn,
           lines \in Seq(Events), torn \in BOOLEAN,
           clock' = clock, dir' = Put(f, lines, torn)
    PROVE  /\ DirTypeOK'
           /\ dir'[f].lines = lines
           /\ dir'[f].torn = torn
           /\ dir'[f].mtime = clock
           /\ dir'[f] # NoFile
           /\ \A g \in FileNames \ {f} : dir'[g] = dir[g]
<1>1. [lines |-> lines, torn |-> torn, mtime |-> clock] \in Files
  BY DEF DirTypeOK, Files
<1> QED
  BY <1>1, SyncDirAssumption DEF DirTypeOK, Put

\* A rename moves the file over its target, and touches no other.
LEMMA RenameStep ==
    ASSUME DirTypeOK, NEW f \in FileNames, NEW g \in FileNames, f # g,
           clock' = clock, dir' = Renamed(f, g)
    PROVE  /\ DirTypeOK'
           /\ dir'[g] = dir[f]
           /\ dir'[f] = NoFile
           /\ \A h \in FileNames \ {f, g} : dir'[h] = dir[h]
BY DEF DirTypeOK, Renamed

\* The event being fired is an event.
LEMMA FiredIsEvent ==
    ASSUME ManagerTypeOK, NEW c \in Clients
    PROVE  Testcase(c) \in Events /\ Stats(c) \in Events
BY SyncDirAssumption DEF ManagerTypeOK, Testcase, Stats, Events

\* A file that is there is a file, not NoFile.
LEMMA ExistingIsFile ==
    ASSUME DirTypeOK, NEW f \in FileNames, Exists(f)
    PROVE  dir[f] \in Files
BY DEF DirTypeOK, Exists

\* What a step of one client leaves alone keeps the invariant of the others.
LEMMA OthersKeep ==
    ASSUME ManagerTypeOK, NEW c \in Clients, NEW d \in Clients \ {c},
           Own(c), ClientInv(d)
    PROVE  ClientInv(d)'
<1>1. CountsFired(d)' /\ DeadIsIdle(d)'
  BY DEF Own, ClientInv, CountsFired, DeadIsIdle
<1>2. StatsLockHeld(d)'
  <2>1. StatsLock(d) \in FileNames /\ StatsLock(d).client = d
    BY SyncDirAssumption DEF StatsLock, FileNames
  <2> QED
    BY <2>1 DEF Own, ClientInv, StatsLockHeld, Exists, StatsLock
<1>3. LockIsWhole(d)'
  <2>1. LockName(d) \in FileNames /\ LockName(d).client = d
    BY NamesAreFileNames DEF LockName, EventLock, ManagerTypeOK
  <2>2. LockName(d)' = LockName(d) /\ Testcase(d)' = Testcase(d)
    BY DEF Own, LockName, EventLock, Testcase
  <2> QED
    BY <2>1, <2>2 DEF Own, ClientInv, LockIsWhole, Exists, Holds
<1>4. PublishedByClient(d)'
  BY DEF Own, ClientInv, PublishedByClient, WholeTestcase, Exists
<1> QED
  BY <1>1, <1>2, <1>3, <1>4 DEF ClientInv

\* A step of one client keeps the invariant when it keeps the client's part.
LEMMA OwnStep ==
    ASSUME ManagerInv, NEW c \in Clients,
           Own(c), DirTypeOK', ManagerTypeOK', ClientInv(c)'
    PROVE  ManagerInv'
BY OthersKeep DEF ManagerInv

-----------------------------------------------------------------------------
(* The steps of fire(NewTestcase). *)

\* The name of the lock file, and the name it is published under.
LEMMA LockNames ==
    ASSUME ManagerTypeOK, NEW c \in Clients
    PROVE  /\ LockName(c) \in FileNames
           /\ LockName(c).kind = "event_lock" /\ LockName(c).client = c
           /\ EventName(c, count[c]) \in FileNames
           /\ EventName(c, count[c]).kind = "event"
           /\ EventName(c, count[c]).client = c
           /\ LockName(c) # EventName(c, count[c])
           /\ StatsLock(c) \in FileNames
           /\ StatsLock(c).kind = "stats_lock" /\ StatsLock(c).client = c
           /\ StatsName(c) \in FileNames
           /\ StatsName(c).kind = "stats" /\ StatsName(c).client = c
           /\ StatsLock(c) # StatsName(c)
<1>1. count[c] \in 0..MaxTestcases
  BY DEF ManagerTypeOK
<1> QED
  BY <1>1, NamesAreFileNames
     DEF LockName, EventName, EventLock, StatsName, StatsLock

\* Creating the lock file of a testcase publishes nothing: it has the lock's name.
LEMMA CreateLockInv ==
    ASSUME ManagerInv, NEW c \in Clients, CreateLock(c)
    PROVE  ManagerInv'
<1> USE DEF CreateLock
<1>1. DirTypeOK /\ ManagerTypeOK /\ ClientInv(c)
  BY DEF ManagerInv
<1>2. LockName(c) \in FileNames /\ LockName(c).kind = "event_lock"
      /\ LockName(c).client = c
  BY <1>1, LockNames
<1>3. <<>> \in Seq(Events)
  OBVIOUS
<1>4. DirTypeOK' /\ \A f \in FileNames \ {LockName(c)} : dir'[f] = dir[f]
  BY <1>1, <1>2, <1>3, WriteStep
<1>5. Own(c)
  BY <1>1, <1>2, <1>4 DEF Own, ManagerTypeOK
<1>6. ManagerTypeOK'
  BY <1>1, SyncDirAssumption DEF ManagerTypeOK, FiringTestcase
<1>7. CountsFired(c)' /\ DeadIsIdle(c)' /\ StatsLockHeld(c)' /\ LockIsWhole(c)'
  BY <1>1 DEF ManagerTypeOK, ClientInv, CountsFired, DeadIsIdle,
     StatsLockHeld, LockIsWhole, FiringStats, FiringTestcase
<1>8. PublishedByClient(c)'
  BY <1>1, <1>2, <1>4 DEF ClientInv, PublishedByClient, WholeTestcase, Exists
<1> QED
  BY <1>4, <1>5, <1>6, <1>7, <1>8, OwnStep DEF ClientInv

\* A write that is only half done stays under the lock's name.
LEMMA TearTestcaseInv ==
    ASSUME ManagerInv, NEW c \in Clients, TearTestcase(c)
    PROVE  ManagerInv'
<1> USE DEF TearTestcase
<1>1. DirTypeOK /\ ManagerTypeOK /\ ClientInv(c)
  BY DEF ManagerInv
<1>2. LockName(c) \in FileNames /\ LockName(c).kind = "event_lock"
      /\ LockName(c).client = c
  BY <1>1, LockNames
<1>3. <<>> \in Seq(Events)
  OBVIOUS
<1>4. DirTypeOK' /\ \A f \in FileNames \ {LockName(c)} : dir'[f] = dir[f]
  BY <1>1, <1>2, <1>3, WriteStep
<1>5. Own(c)
  BY <1>1, <1>2, <1>4 DEF Own, ManagerTypeOK
<1>6. ManagerTypeOK'
  BY <1>1 DEF ManagerTypeOK, FiringTestcase
<1>7. CountsFired(c)' /\ DeadIsIdle(c)' /\ StatsLockHeld(c)' /\ LockIsWhole(c)'
  BY <1>1 DEF ManagerTypeOK, ClientInv, CountsFired, DeadIsIdle,
     StatsLockHeld, LockIsWhole, FiringStats, FiringTestcase
<1>8. PublishedByClient(c)'
  BY <1>1, <1>2, <1>4 DEF ClientInv, PublishedByClient, WholeTestcase, Exists
<1> QED
  BY <1>4, <1>5, <1>6, <1>7, <1>8, OwnStep DEF ClientInv

\* The whole write of a testcase stays under the lock's name too.
LEMMA WriteTestcaseInv ==
    ASSUME ManagerInv, NEW c \in Clients, WriteTestcase(c)
    PROVE  ManagerInv'
<1> USE DEF WriteTestcase
<1>1. DirTypeOK /\ ManagerTypeOK /\ ClientInv(c)
  BY DEF ManagerInv
<1>2. LockName(c) \in FileNames /\ LockName(c).kind = "event_lock"
      /\ LockName(c).client = c
  BY <1>1, LockNames
<1>3. <<Testcase(c)>> \in Seq(Events)
  BY <1>1, FiredIsEvent
<1>4. /\ DirTypeOK' /\ \A f \in FileNames \ {LockName(c)} : dir'[f] = dir[f]
      /\ dir'[LockName(c)] # NoFile
      /\ dir'[LockName(c)].lines = <<Testcase(c)>> /\ ~dir'[LockName(c)].torn
  BY <1>1, <1>2, <1>3, WriteStep
<1>5. Own(c)
  BY <1>1, <1>2, <1>4 DEF Own, ManagerTypeOK
<1>6. ManagerTypeOK'
  BY <1>1 DEF ManagerTypeOK, FiringTestcase
<1>7. CountsFired(c)' /\ DeadIsIdle(c)' /\ StatsLockHeld(c)'
  BY <1>1 DEF ManagerTypeOK, ClientInv, CountsFired, DeadIsIdle,
     StatsLockHeld, FiringStats, FiringTestcase
<1>8. LockIsWhole(c)'
  <2>1. LockName(c)' = LockName(c) /\ Testcase(c)' = Testcase(c)
    BY DEF LockName, Testcase
  <2> QED
    BY <1>4, <2>1 DEF LockIsWhole, Holds, Exists
<1>9. PublishedByClient(c)'
  BY <1>1, <1>2, <1>4 DEF ClientInv, PublishedByClient, WholeTestcase, Exists
<1> QED
  BY <1>4, <1>5, <1>6, <1>7, <1>8, <1>9, OwnStep DEF ClientInv

\* The rename publishes the lock file, which is whole by then.
LEMMA PublishInv ==
    ASSUME ManagerInv, NEW c \in Clients, Publish(c)
    PROVE  ManagerInv'
<1> USE DEF Publish
<1> DEFINE name == EventName(c, count[c])
<1>1. DirTypeOK /\ ManagerTypeOK /\ ClientInv(c)
  BY DEF ManagerInv
<1>2. /\ LockName(c) \in FileNames /\ LockName(c).kind = "event_lock"
      /\ LockName(c).client = c
      /\ name \in FileNames /\ name.kind = "event" /\ name.client = c
      /\ LockName(c) # name
  BY <1>1, LockNames
<1>3. /\ DirTypeOK' /\ dir'[name] = dir[LockName(c)]
      /\ dir'[LockName(c)] = NoFile
      /\ \A f \in FileNames \ {LockName(c), name} : dir'[f] = dir[f]
  BY <1>1, <1>2, RenameStep
<1>4. Own(c)
  BY <1>1, <1>2, <1>3 DEF Own, ManagerTypeOK
<1>5. count[c] < fired[c]
  BY <1>1 DEF ClientInv, CountsFired, FiringTestcase
<1>6. ManagerTypeOK'
  BY <1>1, <1>5, SyncDirAssumption DEF ManagerTypeOK
<1>7. CountsFired(c)' /\ DeadIsIdle(c)' /\ StatsLockHeld(c)' /\ LockIsWhole(c)'
  BY <1>1, <1>5, SyncDirAssumption DEF ManagerTypeOK, CountsFired, DeadIsIdle,
     StatsLockHeld, LockIsWhole, FiringStats, FiringTestcase
<1>8. PublishedByClient(c)'
  <2> SUFFICES ASSUME NEW f \in FileNames, f.kind = "event", f.client = c
               PROVE  WholeTestcase(f)'
    BY DEF PublishedByClient
  <2>1. CASE f = name
    <3>1. ~dir[LockName(c)].torn /\ dir[LockName(c)].lines = <<Testcase(c)>>
      BY <1>1 DEF ClientInv, LockIsWhole, Holds
    <3>2. ~dir'[f].torn /\ dir'[f].lines = <<Testcase(c)>>
      BY <1>3, <2>1, <3>1
    <3>3. Parses(dir'[f]) /\ dir'[f].lines[1] = Testcase(c)
      BY <3>2 DEF Parses
    <3> QED
      BY <3>3 DEF WholeTestcase, Testcase
  <2>2. CASE f # name
    BY <1>1, <1>2, <1>3, <2>2
       DEF ClientInv, PublishedByClient, WholeTestcase, Exists
  <2> QED
    BY <2>1, <2>2
<1> QED
  BY <1>3, <1>4, <1>6, <1>7, <1>8, OwnStep DEF ClientInv

-----------------------------------------------------------------------------
(* The steps of fire(UpdateUserStats). *)

\* The first stats of a client go into a new lock file.
LEMMA CreateStatsInv ==
    ASSUME ManagerInv, NEW c \in Clients, CreateStats(c)
    PROVE  ManagerInv'
<1> USE DEF CreateStats, BeginStats
<1>1. DirTypeOK /\ ManagerTypeOK /\ ClientInv(c)
  BY DEF ManagerInv
<1>2. /\ StatsLock(c) \in FileNames /\ StatsLock(c).kind = "stats_lock"
      /\ StatsLock(c).client = c
  BY <1>1, LockNames
<1>3. <<>> \in Seq(Events)
  OBVIOUS
<1>4. /\ DirTypeOK' /\ \A f \in FileNames \ {StatsLock(c)} : dir'[f] = dir[f]
      /\ dir'[StatsLock(c)] # NoFile
  BY <1>1, <1>2, <1>3, WriteStep
<1>5. Own(c)
  BY <1>1, <1>2, <1>4 DEF Own, ManagerTypeOK
<1>6. ManagerTypeOK'
  BY <1>1, SyncDirAssumption DEF ManagerTypeOK, FiringStats
<1>7. CountsFired(c)' /\ DeadIsIdle(c)' /\ LockIsWhole(c)'
  BY <1>1 DEF ManagerTypeOK, ClientInv, CountsFired, DeadIsIdle,
     LockIsWhole, FiringStats, FiringTestcase
<1>8. StatsLockHeld(c)'
  BY <1>4 DEF StatsLockHeld, Exists, StatsLock
<1>9. PublishedByClient(c)'
  BY <1>1, <1>2, <1>4 DEF ClientInv, PublishedByClient, WholeTestcase, Exists
<1> QED
  BY <1>4, <1>5, <1>6, <1>7, <1>8, <1>9, OwnStep DEF ClientInv

\* Later ones take the stats file back under the lock's name.
LEMMA ReopenStatsInv ==
    ASSUME ManagerInv, NEW c \in Clients, ReopenStats(c)
    PROVE  ManagerInv'
<1> USE DEF ReopenStats, BeginStats
<1>1. DirTypeOK /\ ManagerTypeOK /\ ClientInv(c)
  BY DEF ManagerInv
<1>2. /\ StatsLock(c) \in FileNames /\ StatsLock(c).kind = "stats_lock"
      /\ StatsLock(c).client = c
      /\ StatsName(c) \in FileNames /\ StatsName(c).kind = "stats"
      /\ StatsName(c).client = c /\ StatsLock(c) # StatsName(c)
  BY <1>1, LockNames
<1>3. /\ DirTypeOK' /\ dir'[StatsLock(c)] = dir[StatsName(c)]
      /\ \A f \in FileNames \ {StatsLock(c), StatsName(c)} : dir'[f] = dir[f]
  BY <1>1, <1>2, RenameStep
<1>4. Own(c)
  BY <1>1, <1>2, <1>3 DEF Own, ManagerTypeOK
<1>5. ManagerTypeOK'
  BY <1>1, SyncDirAssumption DEF ManagerTypeOK, FiringStats
<1>6. CountsFired(c)' /\ DeadIsIdle(c)' /\ LockIsWhole(c)'
  BY <1>1 DEF ManagerTypeOK, ClientInv, CountsFired, DeadIsIdle,
     LockIsWhole, FiringStats, FiringTestcase
<1>7. StatsLockHeld(c)'
  BY <1>3 DEF StatsLockHeld, Exists, StatsLock
<1>8. PublishedByClient(c)'
  BY <1>1, <1>2, <1>3 DEF ClientInv, PublishedByClient, WholeTestcase, Exists
<1> QED
  BY <1>3, <1>4, <1>5, <1>6, <1>7, <1>8, OwnStep DEF ClientInv

\* The newline before an append leaves the lock file's events.
LEMMA NewlineStatsInv ==
    ASSUME ManagerInv, NEW c \in Clients, NewlineStats(c)
    PROVE  ManagerInv'
<1> USE DEF NewlineStats
<1>1. DirTypeOK /\ ManagerTypeOK /\ ClientInv(c)
  BY DEF ManagerInv
<1>2. /\ StatsLock(c) \in FileNames /\ StatsLock(c).kind = "stats_lock"
      /\ StatsLock(c).client = c
  BY <1>1, LockNames
<1>3. dir[StatsLock(c)].lines \in Seq(Events)
  <2>1. Exists(StatsLock(c))
    BY <1>1 DEF ClientInv, StatsLockHeld, FiringStats
  <2>2. dir[StatsLock(c)] \in Files
    BY <1>1, <1>2, <2>1, ExistingIsFile
  <2> QED
    BY <2>2 DEF Files
<1>4. /\ DirTypeOK' /\ \A f \in FileNames \ {StatsLock(c)} : dir'[f] = dir[f]
      /\ dir'[StatsLock(c)] # NoFile
  BY <1>1, <1>2, <1>3, WriteStep
<1>5. Own(c)
  BY <1>1, <1>2, <1>4 DEF Own, ManagerTypeOK
<1>6. ManagerTypeOK'
  BY <1>1, SyncDirAssumption DEF ManagerTypeOK, FiringStats
<1>7. CountsFired(c)' /\ DeadIsIdle(c)' /\ LockIsWhole(c)'
  BY <1>1 DEF ManagerTypeOK, ClientInv, CountsFired, DeadIsIdle,
     LockIsWhole, FiringStats, FiringTestcase
<1>8. StatsLockHeld(c)'
  BY <1>4 DEF StatsLockHeld, Exists, StatsLock
<1>9. PublishedByClient(c)'
  BY <1>1, <1>2, <1>4 DEF ClientInv, PublishedByClient, WholeTestcase, Exists
<1> QED
  BY <1>4, <1>5, <1>6, <1>7, <1>8, <1>9, OwnStep DEF ClientInv

\* An append to the stats that is half done leaves a torn lock file.
LEMMA TearStatsInv ==
    ASSUME ManagerInv, NEW c \in Clients, TearStats(c)
    PROVE  ManagerInv'
<1> USE DEF TearStats
<1>1. DirTypeOK /\ ManagerTypeOK /\ ClientInv(c)
  BY DEF ManagerInv
<1>2. /\ StatsLock(c) \in FileNames /\ StatsLock(c).kind = "stats_lock"
      /\ StatsLock(c).client = c
  BY <1>1, LockNames
<1>3. dir[StatsLock(c)].lines \in Seq(Events)
  <2>1. Exists(StatsLock(c))
    BY <1>1 DEF ClientInv, StatsLockHeld, FiringStats
  <2>2. dir[StatsLock(c)] \in Files
    BY <1>1, <1>2, <2>1, ExistingIsFile
  <2> QED
    BY <2>2 DEF Files
<1>4. /\ DirTypeOK' /\ \A f \in FileNames \ {StatsLock(c)} : dir'[f] = dir[f]
      /\ dir'[StatsLock(c)] # NoFile
  BY <1>1, <1>2, <1>3, WriteStep
<1>5. Own(c)
  BY <1>1, <1>2, <1>4 DEF Own, ManagerTypeOK
<1>6. ManagerTypeOK'
  BY <1>1, SyncDirAssumption DEF ManagerTypeOK, FiringStats
<1>7. CountsFired(c)' /\ DeadIsIdle(c)' /\ LockIsWhole(c)'
  BY <1>1 DEF ManagerTypeOK, ClientInv, CountsFired, DeadIsIdle,
     LockIsWhole, FiringStats, FiringTestcase
<1>8. StatsLockHeld(c)'
  BY <1>4 DEF StatsLockHeld, Exists, StatsLock
<1>9. PublishedByClient(c)'
  BY <1>1, <1>2, <1>4 DEF ClientInv, PublishedByClient, WholeTestcase, Exists
<1> QED
  BY <1>4, <1>5, <1>6, <1>7, <1>8, <1>9, OwnStep DEF ClientInv

\* The append adds one whole line to the lock file.
LEMMA WriteStatsInv ==
    ASSUME ManagerInv, NEW c \in Clients, WriteStats(c)
    PROVE  ManagerInv'
<1> USE DEF WriteStats
<1>1. DirTypeOK /\ ManagerTypeOK /\ ClientInv(c)
  BY DEF ManagerInv
<1>2. /\ StatsLock(c) \in FileNames /\ StatsLock(c).kind = "stats_lock"
      /\ StatsLock(c).client = c
  BY <1>1, LockNames
<1>3. Append(dir[StatsLock(c)].lines, Stats(c)) \in Seq(Events)
  <2>1. Exists(StatsLock(c))
    BY <1>1 DEF ClientInv, StatsLockHeld, FiringStats
  <2>2. dir[StatsLock(c)].lines \in Seq(Events)
    BY <1>1, <1>2, <2>1, ExistingIsFile DEF Files
  <2> QED
    BY <1>1, <2>2, FiredIsEvent
<1>4. /\ DirTypeOK' /\ \A f \in FileNames \ {StatsLock(c)} : dir'[f] = dir[f]
      /\ dir'[StatsLock(c)] # NoFile
  BY <1>1, <1>2, <1>3, WriteStep
<1>5. Own(c)
  BY <1>1, <1>2, <1>4 DEF Own, ManagerTypeOK
<1>6. ManagerTypeOK'
  BY <1>1, SyncDirAssumption DEF ManagerTypeOK, FiringStats
<1>7. CountsFired(c)' /\ DeadIsIdle(c)' /\ LockIsWhole(c)'
  BY <1>1 DEF ManagerTypeOK, ClientInv, CountsFired, DeadIsIdle,
     LockIsWhole, FiringStats, FiringTestcase
<1>8. StatsLockHeld(c)'
  BY <1>4 DEF StatsLockHeld, Exists, StatsLock
<1>9. PublishedByClient(c)'
  BY <1>1, <1>2, <1>4 DEF ClientInv, PublishedByClient, WholeTestcase, Exists
<1> QED
  BY <1>4, <1>5, <1>6, <1>7, <1>8, <1>9, OwnStep DEF ClientInv

\* The rename gives the stats file its name again.
LEMMA PublishStatsInv ==
    ASSUME ManagerInv, NEW c \in Clients, PublishStats(c)
    PROVE  ManagerInv'
<1> USE DEF PublishStats
<1>1. DirTypeOK /\ ManagerTypeOK /\ ClientInv(c)
  BY DEF ManagerInv
<1>2. /\ StatsLock(c) \in FileNames /\ StatsLock(c).kind = "stats_lock"
      /\ StatsLock(c).client = c
      /\ StatsName(c) \in FileNames /\ StatsName(c).kind = "stats"
      /\ StatsName(c).client = c /\ StatsLock(c) # StatsName(c)
  BY <1>1, LockNames
<1>3. /\ DirTypeOK' /\ dir'[StatsName(c)] = dir[StatsLock(c)]
      /\ \A f \in FileNames \ {StatsLock(c), StatsName(c)} : dir'[f] = dir[f]
  BY <1>1, <1>2, RenameStep
<1>4. Own(c)
  BY <1>1, <1>2, <1>3 DEF Own, ManagerTypeOK
<1>5. ManagerTypeOK'
  BY <1>1, SyncDirAssumption DEF ManagerTypeOK, FiringStats
<1>6. CountsFired(c)' /\ DeadIsIdle(c)' /\ LockIsWhole(c)'
  BY <1>1 DEF ManagerTypeOK, ClientInv, CountsFired, DeadIsIdle,
     LockIsWhole, FiringStats, FiringTestcase
<1>7. StatsLockHeld(c)'
  BY <1>1 DEF StatsLockHeld, FiringStats, ManagerTypeOK
<1>8. PublishedByClient(c)'
  BY <1>1, <1>2, <1>3 DEF ClientInv, PublishedByClient, WholeTestcase, Exists
<1> QED
  BY <1>3, <1>4, <1>5, <1>6, <1>7, <1>8, OwnStep DEF ClientInv

-----------------------------------------------------------------------------
(* A client dies, and is launched again. *)

\* A client that dies leaves its files as they are, and its fire() half done.
LEMMA ManagerCrashInv ==
    ASSUME ManagerInv, NEW c \in Clients, ManagerCrash(c)
    PROVE  ManagerInv'
<1> USE DEF ManagerCrash
<1>1. DirTypeOK /\ ManagerTypeOK /\ ClientInv(c)
  BY DEF ManagerInv
<1>2. DirTypeOK'
  BY <1>1 DEF DirTypeOK
<1>3. ManagerTypeOK'
  BY <1>1, SyncDirAssumption DEF ManagerTypeOK
<1>4. Own(c)
  BY <1>1 DEF Own, ManagerTypeOK
<1>5. CountsFired(c)' /\ DeadIsIdle(c)' /\ StatsLockHeld(c)' /\ LockIsWhole(c)'
  BY <1>1, SyncDirAssumption DEF ManagerTypeOK, ClientInv, CountsFired,
     DeadIsIdle, StatsLockHeld, LockIsWhole, FiringStats, FiringTestcase
<1>6. PublishedByClient(c)'
  BY <1>1 DEF ClientInv, PublishedByClient, WholeTestcase, Exists
<1> QED
  BY <1>2, <1>3, <1>4, <1>5, <1>6, OwnStep DEF ClientInv

\* A client that is started again counts from 0 and fires nothing yet.
LEMMA ManagerRestartInv ==
    ASSUME ManagerInv, NEW c \in Clients, ManagerRestart(c)
    PROVE  ManagerInv'
<1> USE DEF ManagerRestart
<1>1. DirTypeOK /\ ManagerTypeOK /\ ClientInv(c)
  BY DEF ManagerInv
<1>2. DirTypeOK'
  BY <1>1 DEF DirTypeOK
<1>3. ManagerTypeOK'
  BY <1>1, SyncDirAssumption DEF ManagerTypeOK
<1>4. Own(c)
  BY <1>1 DEF Own, ManagerTypeOK
<1>5. CountsFired(c)' /\ DeadIsIdle(c)' /\ StatsLockHeld(c)' /\ LockIsWhole(c)'
  BY <1>1, SyncDirAssumption DEF ManagerTypeOK, ClientInv, CountsFired,
     DeadIsIdle, StatsLockHeld, LockIsWhole, FiringStats, FiringTestcase
<1>6. PublishedByClient(c)'
  BY <1>1 DEF ClientInv, PublishedByClient, WholeTestcase, Exists
<1> QED
  BY <1>2, <1>3, <1>4, <1>5, <1>6, OwnStep DEF ClientInv

-----------------------------------------------------------------------------
(* The invariant holds at the start, is kept by every step of a manager and   *)
(* by every step that leaves the directory and the managers alone, and makes  *)
(* what is published whole.                                                *)

\* The launcher's empty directory satisfies the invariant.
LEMMA ManagerInitInv ==
    ASSUME SyncDirInit, ManagerInit
    PROVE  ManagerInv
<1> USE DEF SyncDirInit, ManagerInit
<1>1. DirTypeOK
  BY DEF DirTypeOK
<1>2. ManagerTypeOK
  BY SyncDirAssumption DEF ManagerTypeOK
<1>3. ASSUME NEW c \in Clients PROVE ClientInv(c)
  BY <1>3 DEF ClientInv, CountsFired, DeadIsIdle, StatsLockHeld, LockIsWhole,
     PublishedByClient, WholeTestcase, FiringTestcase, FiringStats, Exists
<1> QED
  BY <1>1, <1>2, <1>3 DEF ManagerInv

\* The steps of fire() after its first keep the invariant.
LEMMA FireStepInv ==
    ASSUME ManagerInv, NEW c \in Clients, FireStep(c)
    PROVE  ManagerInv'
BY TearTestcaseInv, WriteTestcaseInv, PublishInv, NewlineStatsInv, TearStatsInv,
   WriteStatsInv, PublishStatsInv DEF FireStep

\* So does time.
LEMMA TickInv ==
    ASSUME ManagerInv, Tick, UNCHANGED managerVars
    PROVE  ManagerInv'
<1> USE DEF Tick, managerVars
<1>1. DirTypeOK'
  BY DEF ManagerInv, DirTypeOK
<1>2. ManagerTypeOK'
  BY DEF ManagerInv, ManagerTypeOK
<1>3. ASSUME NEW c \in Clients PROVE ClientInv(c)'
  BY <1>3 DEF ManagerInv, ClientInv, CountsFired, DeadIsIdle, StatsLockHeld,
     LockIsWhole, PublishedByClient, WholeTestcase, Exists, Holds, LockName,
     Testcase
<1> QED
  BY <1>1, <1>2, <1>3 DEF ManagerInv

\* So does every step that leaves files and managers alone.
LEMMA OutsideInv ==
    ASSUME ManagerInv, UNCHANGED <<dirVars, managerVars>>
    PROVE  ManagerInv'
<1> USE DEF dirVars, managerVars
<1>1. DirTypeOK'
  BY DEF ManagerInv, DirTypeOK
<1>2. ManagerTypeOK'
  BY DEF ManagerInv, ManagerTypeOK
<1>3. ASSUME NEW c \in Clients PROVE ClientInv(c)'
  BY <1>3 DEF ManagerInv, ClientInv, CountsFired, DeadIsIdle, StatsLockHeld,
     LockIsWhole, PublishedByClient, WholeTestcase, Exists, Holds, LockName,
     Testcase
<1> QED
  BY <1>1, <1>2, <1>3 DEF ManagerInv

\* What the invariant is for: an event file holds one whole testcase.
LEMMA ManagerInvPublishedWhole ==
    ASSUME ManagerInv
    PROVE  PublishedWhole
<1> SUFFICES ASSUME NEW f \in FileNames, f.kind = "event", Exists(f)
             PROVE  WholeTestcase(f)
  BY DEF PublishedWhole, WholeTestcase
<1>1. f.client \in Clients
  BY DEF FileNames
<1> QED
  BY <1>1 DEF ManagerInv, ClientInv, PublishedByClient

-----------------------------------------------------------------------------
(* What the steps of a manager do to the published testcases. *)

\* The steps before the rename leave them alone.
LEMMA WritesPublishNothing ==
    ASSUME ManagerInv, NEW c \in Clients,
           CreateLock(c) \/ TearTestcase(c) \/ WriteTestcase(c)
    PROVE  /\ UNCHANGED count
           /\ \A f \in FileNames : f.kind = "event" => dir'[f] = dir[f]
<1>1. LockName(c).kind = "event_lock"
  BY LockNames DEF ManagerInv
<1>2. \A f \in FileNames : f # LockName(c) => dir'[f] = dir[f]
  BY DEF CreateLock, TearTestcase, WriteTestcase, Put, ManagerInv, DirTypeOK
<1> QED
  BY <1>1, <1>2 DEF CreateLock, TearTestcase, WriteTestcase

\* So do the statistics.
LEMMA StatsPublishNothing ==
    ASSUME ManagerInv, NEW c \in Clients,
           \/ CreateStats(c) \/ ReopenStats(c)
           \/ NewlineStats(c) \/ TearStats(c) \/ WriteStats(c) \/ PublishStats(c)
    PROVE  /\ UNCHANGED count
           /\ \A f \in FileNames : f.kind = "event" => dir'[f] = dir[f]
<1>1. /\ StatsLock(c) \in FileNames /\ StatsName(c) \in FileNames
      /\ StatsLock(c).kind = "stats_lock" /\ StatsName(c).kind = "stats"
  BY LockNames DEF ManagerInv
<1>2. \A f \in FileNames \ {StatsLock(c), StatsName(c)} : dir'[f] = dir[f]
  BY <1>1 DEF CreateStats, ReopenStats, NewlineStats, TearStats, WriteStats,
     PublishStats, Put, Renamed, ManagerInv, DirTypeOK, BeginStats
<1> QED
  BY <1>1, <1>2 DEF CreateStats, ReopenStats, NewlineStats, TearStats, WriteStats,
     PublishStats, BeginStats

\* The rename puts the file under the next name, and touches no other.
LEMMA PublishPublishesOne ==
    ASSUME ManagerInv, NEW c \in Clients, Publish(c)
    PROVE  /\ dir'[EventName(c, count[c])] # NoFile
           /\ \A f \in FileNames :
                f.kind = "event" /\ f # EventName(c, count[c]) => dir'[f] = dir[f]
<1> USE DEF Publish
<1> DEFINE name == EventName(c, count[c])
<1>1. /\ LockName(c) \in FileNames /\ LockName(c).kind = "event_lock"
      /\ name \in FileNames /\ LockName(c) # name
  BY LockNames DEF ManagerInv
<1>2. /\ dir'[name] = dir[LockName(c)]
      /\ \A f \in FileNames \ {LockName(c), name} : dir'[f] = dir[f]
  BY <1>1, RenameStep DEF ManagerInv
<1>3. Exists(LockName(c))
  BY DEF ManagerInv, ClientInv, LockIsWhole, Holds
<1> QED
  BY <1>1, <1>2, <1>3 DEF Exists
=============================================================================
