--------------------- MODULE SyncOnDiskEventBroker_proofs ---------------------
(***************************************************************************)
(* Safety of the event broker for any number of clients, files and crashes.  *)
(* The argument: an event is written whole once, and keeps the modification  *)
(* time of that write in whatever file it is moved to, but for a statistics  *)
(* event, whose file gets younger before it is appended to; the broker's     *)
(* last only grows; and the file of an entry only gets younger until it is   *)
(* read.                                                                   *)
(***************************************************************************)
EXTENDS SyncOnDiskEventBroker, EventManager_proofs

(* The directory. *)

\* How many events of each kind the client has written, or given up.
WrittenTestcases(c) ==
    fired[c] - (IF fire[c] \in {"tc_write", "tc_rest"} THEN 1 ELSE 0)

WrittenStats(c) ==
    statsFired[c] - (IF fire[c] \in {"st_line", "st_write", "st_rest"} THEN 1 ELSE 0)

IsWritten(e) ==
    IF e.type = "NewTestcase" THEN e.serial <= WrittenTestcases(e.client)
                              ELSE e.serial <= WrittenStats(e.client)

HoldsWritten ==
    \A f \in FileNames, e \in Events : Holds(f, e) => IsWritten(e)

OneHolder ==
    \A f, g \in FileNames, e \in Events : Holds(f, e) /\ Holds(g, e) => f = g

NoneFromTheFuture ==
    \A f \in FileNames : Exists(f) => dir[f].mtime <= clock

\* The lock file is younger than all that its client has published.
LockIsNewest(c) ==
    fire[c] \in FiringTestcase =>
        /\ Exists(LockName(c))
        /\ \A f \in FileNames :
             f.kind = "event" /\ f.client = c /\ Exists(f) =>
                 dir[f].mtime <= dir[LockName(c)].mtime

\* The statistics have the one name or the other.
OneStatsFile(c) == ~(Exists(StatsName(c)) /\ Exists(StatsLock(c)))

StatsFilesNamed(c) ==
    \A f \in FileNames : IsStats(f) /\ f.client = c /\ Exists(f) =>
        f \in {StatsName(c), StatsLock(c)}

\* What can be read of the statistics is the client's own.
StatsAreStats(c) ==
    \A f \in FileNames, e \in Events : IsStats(f) /\ f.client = c /\ Holds(f, e) =>
        e.type = "UpdateUserStats" /\ e.client = c

\* The statistics are whole when they are taken back, and put back.
StatsNotTorn(c) ==
    /\ Exists(StatsName(c)) => ~dir[StatsName(c)].torn
    /\ fire[c] \in {"st_line", "st_rename"} => ~dir[StatsLock(c)].torn

ClientFiles(c) ==
    /\ LockIsNewest(c) /\ OneStatsFile(c) /\ StatsFilesNamed(c)
    /\ StatsAreStats(c) /\ StatsNotTorn(c)

FilesInv ==
    /\ HoldsWritten /\ OneHolder /\ NoneFromTheFuture
    /\ \A c \in Clients : ClientFiles(c)

(* What the broker relies on in every step of a manager. *)

ManagerStep(c) ==
    \/ CreateLock(c) \/ CreateStats(c) \/ ReopenStats(c) \/ FireStep(c)
    \/ ManagerCrash(c) \/ ManagerRestart(c)

\* The names a file of statistics goes back and forth between.
Alias(f, g) == f = g \/ (IsStats(f) /\ IsStats(g) /\ f.client = g.client)

\* An event is found where it was or has been published, with the time it had
\* unless its statistics are appended to; a name stays published.
EventsMove ==
    /\ \A e \in Events : IsWritten(e) => IsWritten(e)'
    /\ \A e \in Events : IsAppendedTo(e) => IsAppendedTo(e)'
    /\ \A f \in FileNames, e \in Events : IsWritten(e) /\ Holds(f, e)' =>
         \E g \in FileNames : /\ Holds(g, e)
                              /\ \/ dir'[f].mtime = dir[g].mtime
                                 \/ IsAppendedTo(e)'
                              /\ g.kind = "event" =>
                                   f = g /\ dir'[f].mtime = dir[g].mtime
    /\ \A f \in FileNames : f.kind = "event" /\ Exists(f) => Exists(f)'

\* The files only get younger.
TimesMove ==
    /\ clock' \in Nat /\ clock <= clock'
    /\ \A f \in FileNames : Exists(f)' =>
         \/ dir'[f].mtime = clock
         \/ \E g \in FileNames : /\ Alias(g, f) /\ Exists(g)
                                 /\ dir[g].mtime <= dir'[f].mtime
         \/ ~Exists(f) /\ f.kind = "event"

FilesMove == EventsMove /\ TimesMove

WholeFiles == HoldsWritten /\ OneHolder /\ NoneFromTheFuture

-----------------------------------------------------------------------------
(* The steps of the managers. *)

\* A file that can be read has one event, and nothing else has it.
LEMMA ReadIsHeld ==
    ASSUME DirTypeOK, NEW f \in FileNames, Exists(f), Parses(dir[f])
    PROVE  dir[f].lines[1] \in Events /\ Holds(f, dir[f].lines[1])
<1>1. dir[f].lines \in Seq(Events) /\ Len(dir[f].lines) = 1
  BY ExistingIsFile DEF Files, Parses
<1>2. dir[f].lines = <<dir[f].lines[1]>> /\ dir[f].lines[1] \in Events
  BY <1>1
<1> QED
  BY <1>2 DEF Holds, Parses

\* The times of the files and the clock are numbers.
LEMMA TimeOfFile ==
    ASSUME DirTypeOK
    PROVE  /\ clock \in Nat
           /\ \A f \in FileNames : Exists(f) => dir[f].mtime \in Nat
BY ExistingIsFile DEF DirTypeOK, Files

\* What is written once is written for good.
LEMMA WrittenStays ==
    ASSUME ManagerInv, NEW c \in Clients, ManagerStep(c), NEW e \in Events,
           IsWritten(e)
    PROVE  IsWritten(e)'
<1>1. /\ fired \in [Clients -> Nat] /\ statsFired \in [Clients -> Nat]
      /\ fire \in [Clients -> {"idle"} \cup FiringTestcase \cup FiringStats]
      /\ e.client \in Clients /\ e.serial \in Nat
  BY SyncDirAssumption DEF ManagerInv, ManagerTypeOK, Events
<1> DEFINE d == e.client
<1>2. /\ WrittenTestcases(d) \in Int /\ WrittenTestcases(d)' \in Int
      /\ WrittenTestcases(d) <= WrittenTestcases(d)'
  <2>1. CASE CreateLock(c)
    <3>1. fired' = [fired EXCEPT ![c] = @ + 1] /\ fire[c] = "idle"
          /\ fire' = [fire EXCEPT ![c] = "tc_write"]
      BY <2>1 DEF CreateLock
    <3> QED
      BY <1>1, <3>1 DEF WrittenTestcases
  <2>2. CASE CreateStats(c) \/ ReopenStats(c)
    <3>1. fired' = fired /\ fire[c] = "idle"
          /\ \/ fire' = [fire EXCEPT ![c] = "st_line"]
             \/ fire' = [fire EXCEPT ![c] = "st_write"]
      BY <2>2 DEF CreateStats, ReopenStats, BeginStats
    <3> QED
      BY <1>1, <3>1 DEF WrittenTestcases
  <2>3. CASE FireStep(c)
    <3>1. fired' = fired
      BY <2>3 DEF FireStep, TearTestcase, WriteTestcase, Publish,
         NewlineStats, TearStats, WriteStats, PublishStats
    <3>2. fire'[d] \in {"tc_write", "tc_rest"} => fire[d] \in {"tc_write", "tc_rest"}
      BY <1>1, <2>3 DEF FireStep, TearTestcase, WriteTestcase, Publish,
         NewlineStats, TearStats, WriteStats, PublishStats
    <3> QED
      BY <1>1, <3>1, <3>2 DEF WrittenTestcases
  <2>4. CASE ManagerCrash(c) \/ ManagerRestart(c)
    <3>1. fired' = fired
          /\ (fire'[d] \in {"tc_write", "tc_rest"} =>
                fire[d] \in {"tc_write", "tc_rest"})
      BY <1>1, <2>4 DEF ManagerCrash, ManagerRestart
    <3> QED
      BY <1>1, <3>1 DEF WrittenTestcases
  <2> QED
    BY <2>1, <2>2, <2>3, <2>4 DEF ManagerStep
<1>3. /\ WrittenStats(d) \in Int /\ WrittenStats(d)' \in Int
      /\ WrittenStats(d) <= WrittenStats(d)'
  <2>1. CASE CreateLock(c)
    <3>1. statsFired' = statsFired /\ fire[c] = "idle"
          /\ fire' = [fire EXCEPT ![c] = "tc_write"]
      BY <2>1 DEF CreateLock
    <3> QED
      BY <1>1, <3>1 DEF WrittenStats
  <2>2. CASE CreateStats(c) \/ ReopenStats(c)
    <3>1. statsFired' = [statsFired EXCEPT ![c] = @ + 1] /\ fire[c] = "idle"
          /\ \/ fire' = [fire EXCEPT ![c] = "st_line"]
             \/ fire' = [fire EXCEPT ![c] = "st_write"]
      BY <2>2 DEF CreateStats, ReopenStats, BeginStats
    <3> QED
      BY <1>1, <3>1 DEF WrittenStats
  <2>3. CASE FireStep(c)
    <3>1. statsFired' = statsFired
      BY <2>3 DEF FireStep, TearTestcase, WriteTestcase, Publish,
         NewlineStats, TearStats, WriteStats, PublishStats
    <3>2. fire'[d] \in {"st_line", "st_write", "st_rest"} =>
            fire[d] \in {"st_line", "st_write", "st_rest"}
      BY <1>1, <2>3 DEF FireStep, TearTestcase, WriteTestcase, Publish,
         NewlineStats, TearStats, WriteStats, PublishStats
    <3> QED
      BY <1>1, <3>1, <3>2 DEF WrittenStats
  <2>4. CASE ManagerCrash(c) \/ ManagerRestart(c)
    <3>1. statsFired' = statsFired
          /\ (fire'[d] \in {"st_line", "st_write", "st_rest"} =>
                fire[d] \in {"st_line", "st_write", "st_rest"})
      BY <1>1, <2>4 DEF ManagerCrash, ManagerRestart
    <3> QED
      BY <1>1, <3>1 DEF WrittenStats
  <2> QED
    BY <2>1, <2>2, <2>3, <2>4 DEF ManagerStep
<1> QED
  BY <1>1, <1>2, <1>3 DEF IsWritten

\* What a client has begun to append to stays so.
LEMMA AppendedStays ==
    ASSUME ManagerInv, NEW c \in Clients, ManagerStep(c), NEW e \in Events,
           IsAppendedTo(e)
    PROVE  IsAppendedTo(e)'
<1>1. /\ statsFired \in [Clients -> Nat]
      /\ e.client \in Clients /\ e.serial \in Nat
  BY SyncDirAssumption DEF ManagerInv, ManagerTypeOK, Events
<1>2. statsFired' = statsFired \/ statsFired' = [statsFired EXCEPT ![c] = @ + 1]
  BY DEF ManagerStep, CreateLock, CreateStats, ReopenStats, BeginStats,
     FireStep, TearTestcase, WriteTestcase, Publish, NewlineStats, TearStats,
     WriteStats, PublishStats, ManagerCrash, ManagerRestart
<1>3. statsFired[e.client] <= statsFired'[e.client]
      /\ statsFired[e.client] \in Nat /\ statsFired'[e.client] \in Nat
  BY <1>1, <1>2
<1> QED
  BY <1>1, <1>3 DEF IsAppendedTo

\* Files and clock as they were, or a later clock.
LEMMA NothingMoves ==
    ASSUME ManagerInv, WholeFiles, dir' = dir, clock' \in Nat, clock <= clock',
           \A e \in Events : IsWritten(e) => IsWritten(e)',
           \A e \in Events : IsAppendedTo(e) => IsAppendedTo(e)'
    PROVE  WholeFiles' /\ FilesMove
<1>1. /\ \A f : Exists(f)' <=> Exists(f)
      /\ \A f, e : Holds(f, e)' <=> Holds(f, e)
  BY DEF Exists, Holds
<1>2. HoldsWritten' /\ OneHolder'
  BY <1>1 DEF WholeFiles, HoldsWritten, OneHolder
<1>3. NoneFromTheFuture'
  BY <1>1, TimeOfFile DEF WholeFiles, NoneFromTheFuture, ManagerInv
<1>4. EventsMove
  BY <1>1 DEF EventsMove
<1>5. TimesMove
  BY <1>1, TimeOfFile DEF TimesMove, Alias, ManagerInv
<1> QED
  BY <1>2, <1>3, <1>4, <1>5 DEF WholeFiles, FilesMove

\* A write under a lock's name, of nothing whole or of an event not written yet.
LEMMA WriteMoves ==
    ASSUME ManagerInv, WholeFiles, NEW L \in FileNames, L.kind # "event",
           NEW lines, lines \in Seq(Events), NEW torn, torn \in BOOLEAN,
           dir' = Put(L, lines, torn), clock' = clock,
           \A e \in Events : IsWritten(e) => IsWritten(e)',
           \A e \in Events : IsAppendedTo(e) => IsAppendedTo(e)',
           \A e \in Events : ~torn /\ lines = <<e>> => ~IsWritten(e) /\ IsWritten(e)'
    PROVE  WholeFiles' /\ FilesMove
<1>1. /\ dir'[L].lines = lines /\ dir'[L].torn = torn /\ dir'[L].mtime = clock
      /\ \A f \in FileNames \ {L} : dir'[f] = dir[f]
  BY WriteStep DEF ManagerInv
<1>2. \A e \in Events : Holds(L, e)' => ~IsWritten(e) /\ IsWritten(e)'
  BY <1>1 DEF Holds
<1>3. /\ \A f \in FileNames \ {L} : Exists(f)' <=> Exists(f)
      /\ \A f \in FileNames \ {L}, e \in Events : Holds(f, e)' <=> Holds(f, e)
  BY <1>1 DEF Exists, Holds
<1>4. clock \in Nat /\ \A f \in FileNames : Exists(f) => dir[f].mtime \in Nat
  BY TimeOfFile DEF ManagerInv
<1>5. HoldsWritten' /\ OneHolder'
  BY <1>2, <1>3 DEF WholeFiles, HoldsWritten, OneHolder
<1>6. NoneFromTheFuture'
  BY <1>1, <1>3, <1>4 DEF WholeFiles, NoneFromTheFuture
<1>7. EventsMove
  <2>1. ASSUME NEW f \in FileNames, NEW e \in Events, IsWritten(e), Holds(f, e)'
        PROVE  Holds(f, e) /\ dir'[f].mtime = dir[f].mtime
    BY <1>1, <1>2, <1>3, <2>1
  <2>2. \A f \in FileNames : f.kind = "event" /\ Exists(f) => Exists(f)'
    BY <1>3
  <2> QED
    BY <2>1, <2>2 DEF EventsMove
<1>8. TimesMove
  <2>1. ASSUME NEW f \in FileNames, Exists(f)'
        PROVE  \/ dir'[f].mtime = clock
               \/ Alias(f, f) /\ Exists(f) /\ dir[f].mtime <= dir'[f].mtime
    BY <1>1, <1>3, <1>4, <2>1 DEF Alias
  <2> QED
    BY <1>4, <2>1 DEF TimesMove
<1> QED
  BY <1>5, <1>6, <1>7, <1>8 DEF WholeFiles, FilesMove

\* A write that leaves the events of the file, which are appended to.
LEMMA RestampMoves ==
    ASSUME ManagerInv, WholeFiles, NEW L \in FileNames, L.kind # "event",
           Exists(L), ~dir[L].torn,
           dir' = Put(L, dir[L].lines, FALSE), clock' = clock,
           \A e \in Events : IsWritten(e) => IsWritten(e)',
           \A e \in Events : IsAppendedTo(e) => IsAppendedTo(e)',
           \A e \in Events : Holds(L, e) => IsAppendedTo(e)'
    PROVE  WholeFiles' /\ FilesMove
<1>0. dir[L].lines \in Seq(Events)
  BY ExistingIsFile DEF ManagerInv, Files
<1>1. /\ dir'[L].lines = dir[L].lines /\ dir'[L].torn = FALSE
      /\ dir'[L].mtime = clock /\ dir'[L] # NoFile
      /\ \A f \in FileNames \ {L} : dir'[f] = dir[f]
  BY <1>0, WriteStep DEF ManagerInv
<1>2. /\ \A f \in FileNames : Exists(f)' <=> Exists(f)
      /\ \A f \in FileNames, e \in Events : Holds(f, e)' <=> Holds(f, e)
  BY <1>1 DEF Exists, Holds
<1>3. clock \in Nat /\ \A f \in FileNames : Exists(f) => dir[f].mtime \in Nat
  BY TimeOfFile DEF ManagerInv
<1>4. HoldsWritten' /\ OneHolder'
  BY <1>2 DEF WholeFiles, HoldsWritten, OneHolder
<1>5. \A t \in Nat : t <= t
  OBVIOUS
<1>6. ASSUME NEW f \in FileNames, Exists(f)'
      PROVE  /\ Exists(f) /\ dir[f].mtime <= dir'[f].mtime
             /\ dir'[f].mtime <= clock
  <2>1. Exists(f) /\ dir[f].mtime <= clock /\ dir[f].mtime \in Nat
    BY <1>2, <1>3, <1>6 DEF WholeFiles, NoneFromTheFuture
  <2>2. CASE f = L
    BY <1>1, <1>3, <1>5, <2>1, <2>2, Zenon
  <2>3. CASE f # L
    BY <1>1, <1>5, <2>1, <2>3, Zenon
  <2> QED
    BY <2>2, <2>3
<1>7. NoneFromTheFuture'
  BY <1>6, Zenon DEF NoneFromTheFuture
<1>8. EventsMove
  <2>1. ASSUME NEW f \in FileNames, NEW e \in Events, Holds(f, e)'
        PROVE  /\ Holds(f, e)
               /\ f.kind = "event" => dir'[f].mtime = dir[f].mtime
               /\ dir'[f].mtime = dir[f].mtime \/ IsAppendedTo(e)'
    BY <1>1, <1>2, <2>1
  <2> QED
    BY <1>2, <2>1 DEF EventsMove
<1>9. TimesMove
  <2>1. clock' \in Nat /\ clock <= clock'
    BY <1>3, <1>5, Zenon
  <2> QED
    BY <1>6, <2>1, Zenon DEF TimesMove, Alias
<1> QED
  BY <1>4, <1>7, <1>8, <1>9 DEF WholeFiles, FilesMove

\* A rename of a file that has not been published.
LEMMA RenameMoves ==
    ASSUME ManagerInv, WholeFiles, NEW F \in FileNames, NEW G \in FileNames,
           F # G, F.kind # "event", Exists(F),
           dir' = Renamed(F, G), clock' = clock,
           \A e \in Events : IsWritten(e) => IsWritten(e)',
           \A e \in Events : IsAppendedTo(e) => IsAppendedTo(e)',
           \/ G.kind = "event" /\ (Exists(G) => dir[G].mtime <= dir[F].mtime)
           \/ Alias(F, G)
    PROVE  WholeFiles' /\ FilesMove
<1>1. /\ dir'[G] = dir[F] /\ dir'[F] = NoFile
      /\ \A f \in FileNames \ {F, G} : dir'[f] = dir[f]
  BY RenameStep DEF ManagerInv
<1>2. /\ ~Exists(F)' /\ Exists(G)'
      /\ \A e \in Events : ~Holds(F, e)' /\ (Holds(G, e)' <=> Holds(F, e))
  BY <1>1 DEF Exists, Holds
<1>3. /\ \A f \in FileNames \ {F, G} : Exists(f)' <=> Exists(f)
      /\ \A f \in FileNames \ {F, G}, e \in Events : Holds(f, e)' <=> Holds(f, e)
  BY <1>1 DEF Exists, Holds
<1>4. clock \in Nat /\ \A f \in FileNames : Exists(f) => dir[f].mtime \in Nat
  BY TimeOfFile DEF ManagerInv
<1>5. HoldsWritten' /\ OneHolder'
  BY <1>2, <1>3 DEF WholeFiles, HoldsWritten, OneHolder
<1>6. NoneFromTheFuture'
  BY <1>1, <1>2, <1>3, <1>4 DEF WholeFiles, NoneFromTheFuture
<1>7. EventsMove
  <2>1. ASSUME NEW f \in FileNames, NEW e \in Events, Holds(f, e)'
        PROVE  \E g \in FileNames : /\ Holds(g, e) /\ dir'[f].mtime = dir[g].mtime
                                    /\ g.kind = "event" => f = g
    <3>1. CASE f = G
      BY <1>1, <1>2, <2>1, <3>1
    <3>2. CASE f # G
      BY <1>1, <1>2, <1>3, <2>1, <3>2
    <3> QED
      BY <3>1, <3>2
  <2>2. \A f \in FileNames : f.kind = "event" /\ Exists(f) => Exists(f)'
    BY <1>2, <1>3
  <2> QED
    BY <2>1, <2>2 DEF EventsMove
<1>8. TimesMove
  <2>1. ASSUME NEW f \in FileNames, Exists(f)'
        PROVE  \/ \E g \in FileNames : /\ Alias(g, f) /\ Exists(g)
                                       /\ dir[g].mtime <= dir'[f].mtime
               \/ ~Exists(f) /\ f.kind = "event"
    <3>1. CASE f = G /\ Alias(F, G)
      BY <1>1, <1>4, <3>1
    <3>2. CASE f = G /\ G.kind = "event"
                /\ (Exists(G) => dir[G].mtime <= dir[F].mtime)
      BY <1>1, <3>2 DEF Alias
    <3>3. CASE f # G
      BY <1>1, <1>2, <1>3, <1>4, <2>1, <3>3 DEF Alias
    <3> QED
      BY <3>1, <3>2, <3>3
  <2> QED
    BY <1>4, <2>1 DEF TimesMove
<1> QED
  BY <1>5, <1>6, <1>7, <1>8 DEF WholeFiles, FilesMove

\* A step of a client's manager is a step on its own files.
LEMMA StepIsOwn ==
    ASSUME ManagerInv, NEW c \in Clients, ManagerStep(c)
    PROVE  Own(c)
<1>1. /\ dir \in [FileNames -> Files \cup {NoFile}]
      /\ LockName(c).client = c /\ EventName(c, count[c]).client = c
      /\ StatsLock(c).client = c /\ StatsName(c).client = c
  BY LockNames DEF ManagerInv, DirTypeOK
<1>2. \A f \in FileNames : f.client # c => dir'[f] = dir[f]
  BY <1>1 DEF ManagerStep, CreateLock, CreateStats, ReopenStats, BeginStats,
     FireStep, TearTestcase, WriteTestcase, Publish, NewlineStats, TearStats,
     WriteStats, PublishStats, ManagerCrash, ManagerRestart, Put, Renamed
<1>3. \A d \in Clients \ {c} :
         /\ up'[d] = up[d] /\ count'[d] = count[d] /\ fire'[d] = fire[d]
         /\ fired'[d] = fired[d] /\ statsFired'[d] = statsFired[d]
  BY DEF ManagerStep, CreateLock, CreateStats, ReopenStats, BeginStats,
     FireStep, TearTestcase, WriteTestcase, Publish, NewlineStats, TearStats,
     WriteStats, PublishStats, ManagerCrash, ManagerRestart, ManagerInv,
     ManagerTypeOK
<1> QED
  BY <1>2, <1>3 DEF Own

\* The files of the others are as they were.
LEMMA OthersKeepFiles ==
    ASSUME ManagerInv, NEW c \in Clients, NEW d \in Clients \ {c}, Own(c),
           ClientFiles(d)
    PROVE  ClientFiles(d)'
<1>1. /\ LockName(d) \in FileNames /\ LockName(d).client = d
      /\ StatsLock(d) \in FileNames /\ StatsLock(d).client = d
      /\ StatsName(d) \in FileNames /\ StatsName(d).client = d
  BY LockNames DEF ManagerInv
<1>2. /\ LockName(d)' = LockName(d) /\ StatsLock(d)' = StatsLock(d)
      /\ StatsName(d)' = StatsName(d)
  BY DEF Own, LockName, StatsLock, StatsName
<1>3. \A f \in FileNames : f.client = d => dir'[f] = dir[f]
  BY DEF Own
<1>4. LockIsNewest(d)'
  BY <1>1, <1>2, <1>3 DEF Own, ClientFiles, LockIsNewest, Exists
<1>5. OneStatsFile(d)'
  BY <1>1, <1>2, <1>3 DEF ClientFiles, OneStatsFile, Exists
<1>6. StatsFilesNamed(d)'
  BY <1>2, <1>3 DEF ClientFiles, StatsFilesNamed, Exists
<1>7. StatsAreStats(d)'
  BY <1>3 DEF ClientFiles, StatsAreStats, Holds, Exists
<1>8. StatsNotTorn(d)'
  BY <1>1, <1>2, <1>3 DEF Own, ClientFiles, StatsNotTorn, Exists
<1> QED
  BY <1>4, <1>5, <1>6, <1>7, <1>8 DEF ClientFiles

\* The statistics of a client stay statistics, and are put back whole.
LEMMA OwnStatsKept ==
    ASSUME ManagerInv, FilesInv, NEW c \in Clients, ManagerStep(c)
    PROVE  StatsAreStats(c)' /\ StatsNotTorn(c)'
<1> DEFINE S == StatsName(c)
           K == StatsLock(c)
<1>1. /\ S \in FileNames /\ S.kind = "stats" /\ S.client = c
      /\ K \in FileNames /\ K.kind = "stats_lock" /\ K.client = c
      /\ S # K /\ S' = S /\ K' = K
  BY LockNames DEF ManagerInv, StatsName, StatsLock
<1>2. /\ fire \in [Clients -> {"idle"} \cup FiringTestcase \cup FiringStats]
      /\ DirTypeOK /\ Stats(c) \in Events
      /\ StatsAreStats(c) /\ StatsNotTorn(c)
      /\ fire[c] \in FiringStats => Exists(K)
  BY FiredIsEvent DEF ManagerInv, ManagerTypeOK, FilesInv, ClientFiles, ClientInv,
     StatsLockHeld
<1>3. Stats(c).type = "UpdateUserStats" /\ Stats(c).client = c
  BY DEF Stats
<1> HIDE DEF S, K
<1>4. ASSUME \A f \in FileNames : IsStats(f) => dir'[f] = dir[f],
             fire'[c] \in {"st_line", "st_rename"} => fire'[c] = fire[c]
      PROVE  StatsAreStats(c)' /\ StatsNotTorn(c)'
  <2>1. dir'[S] = dir[S] /\ dir'[K] = dir[K]
    BY <1>1, <1>4 DEF IsStats
  <2>2. StatsAreStats(c)'
    BY <1>2, <1>4 DEF StatsAreStats, Holds, Exists
  <2>3. StatsNotTorn(c)'
    BY <1>1, <1>2, <1>4, <2>1 DEF StatsNotTorn, Exists, S, K
  <2> QED
    BY <2>2, <2>3
<1>5. ASSUME NEW lines \in Seq(Events), NEW torn \in BOOLEAN,
             dir' = Put(K, lines, torn), clock' = clock,
             fire'[c] \in {"st_line", "st_rename"} => ~torn,
             \A e \in Events : ~torn /\ lines = <<e>> =>
                 Holds(K, e) \/ e = Stats(c)
      PROVE  StatsAreStats(c)' /\ StatsNotTorn(c)'
  <2>1. /\ dir'[K].lines = lines /\ dir'[K].torn = torn /\ dir'[K] # NoFile
        /\ \A f \in FileNames \ {K} : dir'[f] = dir[f]
    BY <1>1, <1>2, <1>5, WriteStep
  <2>2. \A f \in FileNames, e \in Events : Holds(f, e)' =>
            Holds(f, e) \/ e = Stats(c)
    BY <1>5, <2>1 DEF Holds, Exists
  <2>3. StatsAreStats(c)'
    BY <1>2, <1>3, <2>2 DEF StatsAreStats
  <2>4. StatsNotTorn(c)'
    BY <1>1, <1>2, <1>5, <2>1 DEF StatsNotTorn, Exists, S, K
  <2> QED
    BY <2>3, <2>4
<1>6. ASSUME NEW F \in {S, K}, NEW G \in {S, K}, F # G,
             dir' = Renamed(F, G), clock' = clock, ~dir[F].torn,
             fire'[c] # "st_rename", fire'[c] = "st_line" => G = K
      PROVE  StatsAreStats(c)' /\ StatsNotTorn(c)'
  <2>1. /\ dir'[G] = dir[F] /\ dir'[F] = NoFile
        /\ \A f \in FileNames \ {F, G} : dir'[f] = dir[f]
    BY <1>1, <1>2, <1>6, RenameStep
  <2>2. IsStats(F) /\ F.client = c
    BY <1>1 DEF IsStats
  <2>3. \A f \in FileNames, e \in Events : Holds(f, e)' =>
            Holds(f, e) \/ Holds(F, e)
    BY <1>6, <2>1 DEF Holds, Exists
  <2>4. StatsAreStats(c)'
    BY <1>1, <1>2, <2>2, <2>3 DEF StatsAreStats
  <2>5. StatsNotTorn(c)'
    <3>1. /\ StatsName(c)' = S /\ StatsLock(c)' = K
          /\ {F, G} = {S, K}
      BY <1>1, <1>6 DEF S, K
    <3>2. dir'[S] # NoFile => ~dir'[S].torn
      BY <1>6, <2>1, <3>1
    <3>3. fire'[c] = "st_line" => ~dir'[K].torn
      BY <1>6, <2>1, <3>1
    <3> QED
      BY <1>6, <3>1, <3>2, <3>3 DEF StatsNotTorn, Exists
  <2> QED
    BY <2>4, <2>5
<1>7. CASE CreateLock(c) \/ TearTestcase(c) \/ WriteTestcase(c) \/ Publish(c)
  <2>1. LockName(c).kind = "event_lock" /\ EventName(c, count[c]).kind = "event"
    BY LockNames DEF ManagerInv
  <2>2. \A f \in FileNames : IsStats(f) => dir'[f] = dir[f]
    BY <1>2, <1>7, <2>1 DEF CreateLock, TearTestcase, WriteTestcase, Publish,
       Put, Renamed, IsStats, DirTypeOK
  <2>3. fire'[c] \notin {"st_line", "st_rename"}
    BY <1>2, <1>7 DEF CreateLock, TearTestcase, WriteTestcase, Publish
  <2> QED
    BY <1>4, <2>2, <2>3
<1>8. CASE ManagerCrash(c) \/ ManagerRestart(c)
  BY <1>2, <1>4, <1>8 DEF ManagerCrash, ManagerRestart
<1>9. CASE CreateStats(c)
  <2>1. dir' = Put(K, <<>>, FALSE) /\ clock' = clock
    BY <1>9 DEF CreateStats, BeginStats, K
  <2>2. <<>> \in Seq(Events) /\ \A e : <<>> # <<e>>
    OBVIOUS
  <2> QED
    BY <1>5, <2>1, <2>2
<1>10. CASE NewlineStats(c) \/ TearStats(c) \/ WriteStats(c)
  <2> DEFINE lines == dir[K].lines
  <2>1. Exists(K) /\ lines \in Seq(Events)
    BY <1>1, <1>2, <1>10, ExistingIsFile
       DEF NewlineStats, TearStats, WriteStats, FiringStats, Files
  <2>2. CASE NewlineStats(c)
    <3>1. dir' = Put(K, lines, FALSE) /\ clock' = clock /\ ~dir[K].torn
      BY <1>2, <2>2 DEF NewlineStats, StatsNotTorn, K
    <3>2. \A e \in Events : lines = <<e>> => Holds(K, e)
      BY <2>1, <3>1 DEF Holds
    <3> QED
      BY <1>5, <2>1, <3>1, <3>2
  <2>3. CASE TearStats(c)
    <3>1. dir' = Put(K, lines, TRUE) /\ clock' = clock /\ fire'[c] = "st_rest"
      BY <1>2, <2>3 DEF TearStats, K
    <3> QED
      BY <1>5, <2>1, <3>1
  <2>4. CASE WriteStats(c)
    <3>1. dir' = Put(K, Append(lines, Stats(c)), FALSE) /\ clock' = clock
      BY <2>4 DEF WriteStats, K
    <3> HIDE DEF lines
    <3>2. Append(lines, Stats(c)) \in Seq(Events)
      BY <1>2, <2>1
    <3>3. ASSUME NEW e \in Events, Append(lines, Stats(c)) = <<e>>
          PROVE  e = Stats(c)
      <4>1. /\ Len(Append(lines, Stats(c))) = Len(lines) + 1
            /\ Append(lines, Stats(c))[Len(lines) + 1] = Stats(c)
        BY <1>2, <2>1, <3>2
      <4>2. Len(<<e>>) = 1 /\ <<e>>[1] = e
        OBVIOUS
      <4>3. Len(lines) + 1 = 1
        BY <3>3, <4>1, <4>2
      <4> QED
        BY <3>3, <4>1, <4>2, <4>3
    <3> QED
      BY <1>5, <3>1, <3>2, <3>3
  <2> QED
    BY <1>10, <2>2, <2>3, <2>4
<1>11. CASE ReopenStats(c)
  BY <1>1, <1>2, <1>6, <1>11 DEF ReopenStats, BeginStats, StatsNotTorn, S, K
<1>12. CASE PublishStats(c)
  BY <1>1, <1>2, <1>6, <1>12 DEF PublishStats, StatsNotTorn, S, K
<1> QED
  BY <1>7, <1>8, <1>9, <1>10, <1>11, <1>12 DEF ManagerStep, FireStep

\* A client's own step keeps its lock file the newest and its statistics under
\* one name.
LEMMA OwnFilesKept ==
    ASSUME ManagerInv, FilesInv, NEW c \in Clients, ManagerStep(c)
    PROVE  ClientFiles(c)'
<1> DEFINE L == LockName(c)
           N == EventName(c, count[c])
           S == StatsName(c)
           K == StatsLock(c)
<1>1. /\ L \in FileNames /\ L.kind = "event_lock" /\ L.client = c
      /\ N \in FileNames /\ N.kind = "event" /\ N.client = c
      /\ S \in FileNames /\ S.kind = "stats" /\ S.client = c
      /\ K \in FileNames /\ K.kind = "stats_lock" /\ K.client = c
  BY LockNames DEF ManagerInv
<1>2. S' = S /\ K' = K
  BY DEF StatsName, StatsLock
<1>3. /\ dir \in [FileNames -> Files \cup {NoFile}]
      /\ fire \in [Clients -> {"idle"} \cup FiringTestcase \cup FiringStats]
      /\ DirTypeOK
  BY DEF ManagerInv, DirTypeOK, ManagerTypeOK
<1>4. LockIsNewest(c) /\ OneStatsFile(c) /\ NoneFromTheFuture
  BY DEF FilesInv, ClientFiles
<1>5. <<>> \in Seq(Events) /\ <<Testcase(c)>> \in Seq(Events)
  BY FiredIsEvent DEF ManagerInv
<1>11. StatsFilesNamed(c)'
  <2>1. \A f \in FileNames : IsStats(f) /\ f \notin {S, K} => dir'[f] = dir[f]
    BY <1>1, <1>3 DEF ManagerStep, CreateLock, CreateStats, ReopenStats,
       FireStep, TearTestcase, WriteTestcase, Publish, NewlineStats, TearStats,
       WriteStats, PublishStats, ManagerCrash, ManagerRestart, Put, Renamed, IsStats
  <2> QED
    BY <1>2, <2>1 DEF FilesInv, ClientFiles, StatsFilesNamed, Exists
<1>12. SUFFICES LockIsNewest(c)' /\ OneStatsFile(c)'
  BY <1>11, OwnStatsKept DEF ClientFiles
<1>6. CASE CreateLock(c) \/ TearTestcase(c) \/ WriteTestcase(c)
  <2>1. /\ dir'[L] # NoFile /\ dir'[L].mtime = clock /\ clock' = clock
        /\ \A f \in FileNames \ {L} : dir'[f] = dir[f]
    BY <1>1, <1>3, <1>5, <1>6, WriteStep
       DEF CreateLock, TearTestcase, WriteTestcase
  <2>2. L' = L
    BY <1>6 DEF LockName, CreateLock, TearTestcase, WriteTestcase
  <2> HIDE DEF L, S, K
  <2>3. \A f \in FileNames : f.kind = "event" => dir'[f] = dir[f]
    BY <1>1, <2>1
  <2>4. LockIsNewest(c)'
    BY <1>4, <2>1, <2>2, <2>3 DEF LockIsNewest, NoneFromTheFuture, Exists, L
  <2>5. OneStatsFile(c)'
    BY <1>1, <1>2, <1>4, <2>1 DEF OneStatsFile, Exists, S, K
  <2> QED
    BY <2>4, <2>5
<1>7. CASE Publish(c)
  <2>1. \A f \in FileNames \ {L, N} : dir'[f] = dir[f]
    BY <1>1, <1>3, <1>7, RenameStep DEF Publish
  <2>2. fire'[c] = "idle"
    BY <1>3, <1>7 DEF Publish
  <2>3. dir'[S] = dir[S] /\ dir'[K] = dir[K]
    <3> HIDE DEF L, N, S, K
    <3> QED
      BY <1>1, <2>1
  <2> QED
    BY <1>2, <1>4, <2>2, <2>3
       DEF LockIsNewest, FiringTestcase, OneStatsFile, Exists
<1>8. CASE CreateStats(c) \/ NewlineStats(c) \/ TearStats(c) \/ WriteStats(c)
  <2>1. fire'[c] \notin FiringTestcase
    BY <1>3, <1>8 DEF CreateStats, BeginStats, NewlineStats, TearStats, WriteStats,
       FiringTestcase
  <2>2. ~Exists(S)
    <3>1. CASE CreateStats(c)
      BY <3>1 DEF CreateStats
    <3>2. CASE NewlineStats(c) \/ TearStats(c) \/ WriteStats(c)
      BY <1>4, <3>2 DEF NewlineStats, TearStats, WriteStats, OneStatsFile,
         ManagerInv, ClientInv, StatsLockHeld, FiringStats
    <3> QED
      BY <1>8, <3>1, <3>2
  <2>3. dir'[S] = dir[S]
    <3> HIDE DEF L, N, S
    <3> QED
      BY <1>1, <1>3, <1>8 DEF CreateStats, NewlineStats, TearStats, WriteStats, Put
  <2> QED
    BY <1>2, <2>1, <2>2, <2>3
       DEF LockIsNewest, OneStatsFile, Exists
<1>9. CASE ReopenStats(c) \/ PublishStats(c)
  <2>1. fire'[c] \notin FiringTestcase
    BY <1>3, <1>9 DEF ReopenStats, BeginStats, PublishStats, FiringTestcase
  <2>2. S # K
    BY <1>1
  <2>3. dir'[S] = NoFile \/ dir'[K] = NoFile
    BY <1>1, <1>3, <1>9, <2>2, RenameStep
       DEF ReopenStats, BeginStats, PublishStats
  <2> QED
    BY <1>2, <2>1, <2>3 DEF LockIsNewest, OneStatsFile, Exists
<1>10. CASE ManagerCrash(c) \/ ManagerRestart(c)
  <2>1. dir' = dir
    BY <1>10 DEF ManagerCrash, ManagerRestart
  <2>2. fire'[c] \notin FiringTestcase
    BY <1>3, <1>10 DEF ManagerCrash, ManagerRestart, FiringTestcase, ManagerInv,
       ClientInv, DeadIsIdle
  <2> QED
    BY <1>2, <1>4, <2>1, <2>2
       DEF LockIsNewest, OneStatsFile, Exists
<1> QED
  BY <1>6, <1>7, <1>8, <1>9, <1>10 DEF ManagerStep, FireStep

\* Every step of a manager keeps the invariant of the files and moves them so
\* that the broker can rely on it.
LEMMA ManagerStepFiles ==
    ASSUME ManagerInv, FilesInv, NEW c \in Clients, ManagerStep(c)
    PROVE  FilesInv' /\ FilesMove
<1>1. /\ \A e \in Events : IsWritten(e) => IsWritten(e)'
      /\ \A e \in Events : IsAppendedTo(e) => IsAppendedTo(e)'
  BY WrittenStays, AppendedStays
<1>2. /\ LockName(c) \in FileNames /\ LockName(c).kind = "event_lock"
      /\ LockName(c).client = c
      /\ EventName(c, count[c]) \in FileNames
      /\ EventName(c, count[c]).kind = "event"
      /\ EventName(c, count[c]).client = c
      /\ StatsName(c) \in FileNames /\ StatsName(c).kind = "stats"
      /\ StatsLock(c) \in FileNames /\ StatsLock(c).kind = "stats_lock"
      /\ StatsName(c).client = c /\ StatsLock(c).client = c
  BY LockNames DEF ManagerInv
<1>3. Alias(StatsName(c), StatsLock(c)) /\ Alias(StatsLock(c), StatsName(c))
  BY <1>2 DEF Alias, IsStats
<1>4. WholeFiles
  BY DEF FilesInv, WholeFiles
<1>5. WholeFiles' /\ FilesMove
  <2>1. CASE CreateLock(c) \/ TearTestcase(c)
    <3>1. clock' = clock
          /\ \E torn \in BOOLEAN : dir' = Put(LockName(c), <<>>, torn)
      BY <2>1 DEF CreateLock, TearTestcase
    <3>2. <<>> \in Seq(Events) /\ \A e : <<>> # <<e>>
      OBVIOUS
    <3> QED
      BY <1>1, <1>2, <1>4, <3>1, <3>2, WriteMoves
  <2>2. CASE WriteTestcase(c)
    <3>1. clock' = clock /\ dir' = Put(LockName(c), <<Testcase(c)>>, FALSE)
      BY <2>2 DEF WriteTestcase
    <3>2. <<Testcase(c)>> \in Seq(Events)
      BY FiredIsEvent DEF ManagerInv
    <3>3. ~IsWritten(Testcase(c)) /\ IsWritten(Testcase(c))'
      <4> DEFINE t == [type |-> "NewTestcase", client |-> c, serial |-> fired[c]]
      <4>1. /\ fired[c] \in Nat /\ fired' = fired
            /\ fire[c] \in {"tc_write", "tc_rest"} /\ fire'[c] = "tc_rename"
        BY <2>2, SyncDirAssumption DEF WriteTestcase, ManagerInv, ManagerTypeOK
      <4>2. Testcase(c) = t /\ Testcase(c)' = t
        BY <4>1 DEF Testcase
      <4>3. ~(fired[c] <= WrittenTestcases(c)) /\ fired[c] <= WrittenTestcases(c)'
        BY <4>1 DEF WrittenTestcases
      <4> QED
        BY <4>1, <4>2, <4>3 DEF IsWritten
    <3>4. Testcase(c)' = Testcase(c)
      BY <2>2 DEF WriteTestcase, Testcase
    <3>5. \A e \in Events : <<Testcase(c)>> = <<e>> => ~IsWritten(e) /\ IsWritten(e)'
      BY <3>3, <3>4
    <3> QED
      BY <1>1, <1>2, <1>4, <3>1, <3>2, <3>5, WriteMoves
  <2>3. CASE Publish(c)
    <3>1. clock' = clock /\ dir' = Renamed(LockName(c), EventName(c, count[c]))
      BY <2>3 DEF Publish
    <3>2. Exists(LockName(c)) /\ (Exists(EventName(c, count[c])) =>
            dir[EventName(c, count[c])].mtime <= dir[LockName(c)].mtime)
      BY <1>2, <2>3 DEF FilesInv, ClientFiles, LockIsNewest, FiringTestcase, Publish
    <3> QED
      BY <1>1, <1>2, <1>4, <3>1, <3>2, RenameMoves
  <2>4. CASE CreateStats(c)
    <3>1. clock' = clock /\ dir' = Put(StatsLock(c), <<>>, FALSE)
      BY <2>4 DEF CreateStats, BeginStats
    <3>2. <<>> \in Seq(Events) /\ \A e : <<>> # <<e>>
      OBVIOUS
    <3> QED
      BY <1>1, <1>2, <1>4, <3>1, <3>2, WriteMoves
  <2>5. CASE ReopenStats(c)
    <3>1. clock' = clock /\ dir' = Renamed(StatsName(c), StatsLock(c))
          /\ Exists(StatsName(c))
      BY <2>5 DEF ReopenStats, BeginStats
    <3> QED
      BY <1>1, <1>2, <1>3, <1>4, <3>1, RenameMoves
  <2>6. CASE NewlineStats(c) \/ TearStats(c) \/ WriteStats(c)
    <3> DEFINE lines == dir[StatsLock(c)].lines
    <3>1. lines \in Seq(Events)
      <4>1. Exists(StatsLock(c))
        BY <2>6 DEF NewlineStats, TearStats, WriteStats, ManagerInv, ClientInv,
           StatsLockHeld, FiringStats
      <4> QED
        BY <1>2, <4>1, ExistingIsFile DEF ManagerInv, Files
    <3>4. CASE NewlineStats(c)
      <4>1. /\ clock' = clock /\ dir' = Put(StatsLock(c), lines, FALSE)
            /\ fire[c] = "st_line" /\ statsFired' = statsFired
        BY <3>4 DEF NewlineStats
      <4>2. Exists(StatsLock(c)) /\ ~dir[StatsLock(c)].torn
        BY <4>1 DEF ManagerInv, ClientInv, StatsLockHeld, FiringStats, FilesInv,
           ClientFiles, StatsNotTorn
      <4>3. ASSUME NEW e \in Events, Holds(StatsLock(c), e)
            PROVE  IsAppendedTo(e)'
        <5>1. e.type = "UpdateUserStats" /\ e.client = c
          BY <1>2, <4>3 DEF FilesInv, ClientFiles, StatsAreStats, IsStats
        <5>2. e.serial <= WrittenStats(c)
          BY <1>2, <4>3, <5>1 DEF FilesInv, HoldsWritten, IsWritten
        <5>3. WrittenStats(c) = statsFired[c] - 1 /\ statsFired[c] \in Nat
          BY <4>1, SyncDirAssumption DEF WrittenStats, ManagerInv, ManagerTypeOK
        <5>4. e.serial \in Nat
          BY DEF Events
        <5> QED
          BY <4>1, <5>1, <5>2, <5>3, <5>4 DEF IsAppendedTo
      <4> QED
        BY <1>1, <1>2, <1>4, <4>1, <4>2, <4>3, RestampMoves
    <3>2. CASE TearStats(c)
      <4>1. clock' = clock /\ dir' = Put(StatsLock(c), lines, TRUE)
        BY <3>2 DEF TearStats
      <4> QED
        BY <1>1, <1>2, <1>4, <3>1, <4>1, WriteMoves
    <3>3. CASE WriteStats(c)
      <4>1. clock' = clock /\ dir' = Put(StatsLock(c), Append(lines, Stats(c)), FALSE)
        BY <3>3 DEF WriteStats
      <4>2. Stats(c) \in Events /\ Append(lines, Stats(c)) \in Seq(Events)
        BY <3>1, FiredIsEvent DEF ManagerInv
      <4>3. ASSUME NEW e \in Events, Append(lines, Stats(c)) = <<e>>
            PROVE  ~IsWritten(e) /\ IsWritten(e)'
        <5>1. e = Stats(c)
          <6> HIDE DEF lines
          <6>1. Len(Append(lines, Stats(c))) = Len(lines) + 1
                /\ Append(lines, Stats(c))[Len(lines) + 1] = Stats(c)
            BY <3>1, <4>2
          <6>2. Len(<<e>>) = 1 /\ <<e>>[1] = e
            OBVIOUS
          <6>3. Len(lines) + 1 = 1
            BY <4>3, <6>1, <6>2
          <6> QED
            BY <4>3, <6>1, <6>2, <6>3
        <5>2. /\ statsFired[c] \in Nat /\ statsFired' = statsFired
              /\ fire[c] \in {"st_write", "st_rest"} /\ fire'[c] = "st_rename"
          BY <3>3, SyncDirAssumption DEF WriteStats, ManagerInv, ManagerTypeOK
        <5>3. ~(statsFired[c] <= WrittenStats(c)) /\ statsFired[c] <= WrittenStats(c)'
          BY <5>2 DEF WrittenStats
        <5>4. e.type = "UpdateUserStats" /\ e.client = c /\ e.serial = statsFired[c]
          BY <5>1 DEF Stats
        <5> QED
          BY <5>3, <5>4 DEF IsWritten
      <4> HIDE DEF lines
      <4> QED
        BY <1>1, <1>2, <1>4, <4>1, <4>2, <4>3, WriteMoves
    <3> QED
      BY <2>6, <3>2, <3>3, <3>4
  <2>7. CASE PublishStats(c)
    <3>1. clock' = clock /\ dir' = Renamed(StatsLock(c), StatsName(c))
          /\ Exists(StatsLock(c))
      BY <2>7 DEF PublishStats, ManagerInv, ClientInv, StatsLockHeld, FiringStats
    <3> QED
      BY <1>1, <1>2, <1>3, <1>4, <3>1, RenameMoves
  <2>8. CASE ManagerCrash(c) \/ ManagerRestart(c)
    BY <1>1, <1>4, <2>8, TimeOfFile, NothingMoves
       DEF ManagerCrash, ManagerRestart, ManagerInv
  <2> QED
    BY <2>1, <2>2, <2>3, <2>4, <2>5, <2>6, <2>7, <2>8 DEF ManagerStep, FireStep
<1>6. \A d \in Clients : ClientFiles(d)'
  BY OwnFilesKept, OthersKeepFiles, StepIsOwn DEF FilesInv
<1> QED
  BY <1>5, <1>6 DEF FilesInv, WholeFiles

\* Neither does a step of anything else.
LEMMA OutsideFiles ==
    ASSUME ManagerInv, FilesInv, UNCHANGED <<dir, managerVars>>,
           clock' \in Nat, clock <= clock'
    PROVE  FilesInv' /\ FilesMove
<1> USE DEF managerVars
<1>1. /\ \A e \in Events : IsWritten(e) => IsWritten(e)'
      /\ \A e \in Events : IsAppendedTo(e) => IsAppendedTo(e)'
  BY DEF IsWritten, WrittenTestcases, WrittenStats, IsAppendedTo
<1>2. WholeFiles' /\ FilesMove
  BY <1>1, NothingMoves DEF FilesInv, WholeFiles
<1>3. \A d \in Clients : ClientFiles(d)'
  BY DEF FilesInv, ClientFiles, LockIsNewest, OneStatsFile, StatsFilesNamed,
     StatsAreStats, StatsNotTorn, Holds, Exists, LockName, StatsLock, StatsName
<1> QED
  BY <1>2, <1>3 DEF FilesInv, WholeFiles

-----------------------------------------------------------------------------
(* The broker. *)

Times == Nat \cup {NoTime}

BrokerStates == [pc : {"sleeping", "listing", "opening", "dead"},
                 listed : SUBSET FileNames,
                 pending : SUBSET FileNames,
                 entry : FileNames \cup {NoFile},
                 time : Nat, maxTime : Times, last : Times]

BrokerTypeOK ==
    /\ broker \in BrokerStates
    /\ due \subseteq Events
    /\ handled \subseteq [event : Events, time : Nat, unchanged : BOOLEAN]
    /\ past \subseteq [event : Events, time : Nat]

\* The file of an entry is at least as young as it was at its stat, whatever
\* name it has now, and a published one is there.
OpenedGetsYounger ==
    broker.pc = "opening" =>
        /\ broker.entry \in FileNames
        /\ broker.last <= broker.time /\ broker.time <= broker.maxTime
        /\ broker.time <= clock
        /\ broker.entry.kind = "event" => Exists(broker.entry)
        /\ \A f \in FileNames :
             Alias(f, broker.entry) /\ Exists(f) => broker.time <= dir[f].mtime

TimesCovered ==
    /\ broker.last <= broker.maxTime
    /\ \A h \in handled : h.time <= broker.maxTime
    /\ \A p \in past : p.time <= broker.last

\* An event that was read unchanged has the time it was read with, unless its
\* client has begun to append to it.
KeepsItsTime(e, t) ==
    /\ IsWritten(e)
    /\ \A f \in FileNames : Holds(f, e) => dir[f].mtime = t \/ IsAppendedTo(e)

RecordsKept ==
    /\ \A p \in past : KeepsItsTime(p.event, p.time)
    /\ \A h \in handled : h.unchanged => KeepsItsTime(h.event, h.time)

IsHandled(e) == \E h \in handled : h.event = e

\* What is due is handled, or ahead in the scan.
DueIsAhead ==
    \A e \in due :
        /\ IsWritten(e)
        /\ \A f \in FileNames : Holds(f, e) =>
             /\ f.kind = "event" /\ broker.last <= dir[f].mtime
             /\ \/ f \in broker.pending
                \/ broker.pc = "opening" /\ broker.entry = f
                \/ IsHandled(e)

BrokerInv ==
    /\ BrokerTypeOK /\ OpenedGetsYounger /\ TimesCovered /\ RecordsKept
    /\ DueIsAhead /\ OnlyTheNewestIsHandledAgain

IInv == ManagerInv /\ FilesInv /\ BrokerInv

\* The fields of the broker's state.
LEMMA BrokerTyped ==
    ASSUME BrokerTypeOK
    PROVE  /\ broker.pc \in {"sleeping", "listing", "opening", "dead"}
           /\ broker.listed \subseteq FileNames
           /\ broker.pending \subseteq FileNames
           /\ broker.entry \in FileNames \cup {NoFile}
           /\ broker.time \in Nat
           /\ broker.maxTime \in Nat \cup {-1}
           /\ broker.last \in Nat \cup {-1}
BY DEF BrokerTypeOK, BrokerStates, Times, NoTime

\* A step of the managers, or of time.
LEMMA FilesMoveBroker ==
    ASSUME ManagerInv, ManagerInv', BrokerInv, FilesMove, UNCHANGED brokerVars
    PROVE  BrokerInv'
<1> USE DEF brokerVars
<1>1. DirTypeOK /\ BrokerTypeOK
  BY DEF ManagerInv, BrokerInv
<1>2. BrokerTypeOK' /\ TimesCovered' /\ OnlyTheNewestIsHandledAgain'
  <2>1. \A h \in handled : h.event \in Events
    BY <1>1 DEF BrokerTypeOK
  <2>2. \A h \in handled : IsAppendedTo(h.event) => IsAppendedTo(h.event)'
    BY <2>1 DEF FilesMove, EventsMove
  <2>3. OnlyTheNewestIsHandledAgain'
    BY <2>2 DEF BrokerInv, OnlyTheNewestIsHandledAgain
  <2> QED
    BY <2>3 DEF BrokerInv, BrokerTypeOK, TimesCovered
<1>3. OpenedGetsYounger'
  <2> SUFFICES ASSUME broker.pc = "opening"
               PROVE  OpenedGetsYounger'
    BY DEF OpenedGetsYounger
  <2> DEFINE entry == broker.entry
             time == broker.time
  <2>1. /\ entry \in FileNames /\ time <= clock /\ time \in Nat
        /\ broker.last <= time /\ time <= broker.maxTime
        /\ entry.kind = "event" => Exists(entry)
        /\ \A f \in FileNames : Alias(f, entry) /\ Exists(f) => time <= dir[f].mtime
    BY <1>1, BrokerTyped DEF BrokerInv, OpenedGetsYounger
  <2>2. entry' = entry /\ time' = time
    OBVIOUS
  <2> HIDE DEF entry, time
  <2>3. clock \in Nat /\ clock' \in Nat /\ time <= clock'
    BY <1>1, <2>1, TimeOfFile DEF FilesMove, TimesMove
  <2>4. entry.kind = "event" => Exists(entry)'
    BY <2>1, <2>2 DEF FilesMove, EventsMove
  <2>5. ASSUME NEW f \in FileNames, Alias(f, entry), Exists(f)'
        PROVE  time <= dir'[f].mtime
    <3>1. CASE dir'[f].mtime = clock
      BY <2>1, <3>1
    <3>2. ASSUME NEW g \in FileNames, Alias(g, f), Exists(g),
                 dir[g].mtime <= dir'[f].mtime
          PROVE  time <= dir'[f].mtime
      <4>1. Alias(g, entry)
        BY <2>5, <3>2 DEF Alias
      <4>2. time <= dir[g].mtime /\ dir[g].mtime \in Nat
        BY <1>1, <2>1, <3>2, <4>1, TimeOfFile
      <4>3. dir'[f].mtime \in Nat
        BY <2>5, ExistingIsFile DEF ManagerInv, DirTypeOK, Exists, Files
      <4> QED
        BY <2>1, <3>2, <4>2, <4>3
    <3>3. CASE ~Exists(f) /\ f.kind = "event"
      <4>1. f = entry
        BY <2>5, <3>3 DEF Alias, IsStats
      <4> QED
        BY <2>1, <3>3, <4>1
    <3> QED
      BY <2>5, <3>1, <3>2, <3>3 DEF FilesMove, TimesMove
  <2> QED
    BY <2>1, <2>3, <2>4, <2>5 DEF OpenedGetsYounger, Alias, Exists, entry, time
<1>4. ASSUME NEW e \in Events, NEW t, KeepsItsTime(e, t)
      PROVE  KeepsItsTime(e, t)'
  <2>1. /\ IsWritten(e)
        /\ \A f \in FileNames : Holds(f, e) => dir[f].mtime = t \/ IsAppendedTo(e)
    BY <1>4 DEF KeepsItsTime
  <2>2. IsWritten(e)'
    BY <2>1 DEF FilesMove, EventsMove
  <2>3. \A f \in FileNames : Holds(f, e)' =>
            dir'[f].mtime = t \/ IsAppendedTo(e)'
    BY <2>1 DEF FilesMove, EventsMove
  <2> QED
    BY <2>2, <2>3 DEF KeepsItsTime
<1>5. RecordsKept'
  <2>1. /\ \A p \in past : p.event \in Events
        /\ \A h \in handled : h.event \in Events
    BY <1>1 DEF BrokerTypeOK
  <2> QED
    BY <1>4, <2>1 DEF BrokerInv, RecordsKept
<1>6. DueIsAhead'
  <2> SUFFICES ASSUME NEW e \in due
               PROVE  /\ IsWritten(e)'
                      /\ \A f \in FileNames : Holds(f, e)' =>
                           /\ f.kind = "event" /\ broker.last <= dir'[f].mtime
                           /\ \/ f \in broker.pending
                              \/ broker.pc = "opening" /\ broker.entry = f
                              \/ IsHandled(e)
    BY DEF DueIsAhead, IsHandled
  <2>1. e \in Events /\ IsWritten(e) /\ IsWritten(e)'
    BY <1>1 DEF BrokerTypeOK, BrokerInv, DueIsAhead, FilesMove, EventsMove
  <2>2. ASSUME NEW f \in FileNames, Holds(f, e)'
        PROVE  Holds(f, e) /\ dir'[f].mtime = dir[f].mtime
    <3>1. PICK g \in FileNames :
            /\ Holds(g, e)
            /\ g.kind = "event" => f = g /\ dir'[f].mtime = dir[g].mtime
      BY <2>1, <2>2 DEF FilesMove, EventsMove
    <3>2. g.kind = "event"
      BY <3>1 DEF BrokerInv, DueIsAhead
    <3> QED
      BY <3>1, <3>2
  <2> QED
    BY <2>1, <2>2 DEF BrokerInv, DueIsAhead
<1> QED
  BY <1>2, <1>3, <1>5, <1>6 DEF BrokerInv

\* What a step of the broker leaves of the files.
LEMMA FilesStay ==
    ASSUME UNCHANGED <<dirVars, managerVars>>
    PROVE  /\ \A f : Exists(f)' <=> Exists(f)
           /\ \A f, e : Holds(f, e)' <=> Holds(f, e)
           /\ \A e : IsWritten(e)' <=> IsWritten(e)
           /\ \A e : IsAppendedTo(e)' <=> IsAppendedTo(e)
           /\ \A e, t : KeepsItsTime(e, t)' <=> KeepsItsTime(e, t)
           /\ dir' = dir /\ clock' = clock
<1> USE DEF dirVars, managerVars
<1>1. /\ \A f : Exists(f)' <=> Exists(f)
      /\ \A f, e : Holds(f, e)' <=> Holds(f, e)
  BY DEF Exists, Holds
<1>2. /\ \A e : IsWritten(e)' <=> IsWritten(e)
      /\ \A e : IsAppendedTo(e)' <=> IsAppendedTo(e)
  BY DEF IsWritten, WrittenTestcases, WrittenStats, IsAppendedTo
<1>3. \A e, t : KeepsItsTime(e, t)' <=> KeepsItsTime(e, t)
  BY <1>1, <1>2 DEF KeepsItsTime
<1> QED
  BY <1>1, <1>2, <1>3

\* The scan begins with everything that is due ahead of it.
LEMMA WakeInv == ASSUME IInv, Wake PROVE BrokerInv'
<1>1. BrokerTypeOK /\ DirTypeOK /\ PublishedWhole
  BY ManagerInvPublishedWhole DEF IInv, BrokerInv, ManagerInv
<1>2. /\ broker' = [broker EXCEPT !.pc = "listing", !.listed = Listing,
                                  !.pending = Listing]
      /\ handled' = handled /\ past' = past
      /\ UNCHANGED <<dirVars, managerVars>>
  BY DEF Wake
<1>3. /\ broker' \in BrokerStates
      /\ broker'.pc = "listing" /\ broker'.pending = Listing
      /\ broker'.last = broker.last /\ broker'.maxTime = broker.maxTime
  BY <1>1, <1>2 DEF BrokerTypeOK, BrokerStates, Listing
<1>4. ASSUME NEW e \in due'
      PROVE  \E f \in FileNames : /\ f.kind = "event" /\ broker.last <= dir[f].mtime
                                  /\ Holds(f, e) /\ e \in Events
  <2>1. PICK f \in FileNames : /\ f.kind = "event" /\ Exists(f)
                               /\ dir[f].mtime >= broker.last /\ e \in EventsIn(f)
    BY <1>4 DEF Wake
  <2>2. Parses(dir[f])
    BY <1>1, <2>1 DEF PublishedWhole
  <2>3. dir[f].lines[1] \in Events /\ Holds(f, dir[f].lines[1])
    BY <1>1, <2>1, <2>2, ReadIsHeld
  <2>4. dir[f].lines = <<dir[f].lines[1]>>
    BY <2>3 DEF Holds
  <2>5. e = dir[f].lines[1]
    BY <2>1, <2>4 DEF EventsIn
  <2>6. dir[f].mtime \in Nat /\ broker.last \in Nat \cup {-1}
    BY <1>1, <2>1, TimeOfFile, BrokerTyped
  <2> QED
    BY <2>1, <2>3, <2>5, <2>6
<1>5. BrokerTypeOK'
  BY <1>1, <1>2, <1>3, <1>4 DEF BrokerTypeOK
<1>6. OpenedGetsYounger' /\ TimesCovered' /\ OnlyTheNewestIsHandledAgain'
  BY <1>2, <1>3, FilesStay DEF IInv, BrokerInv, OpenedGetsYounger, TimesCovered,
     OnlyTheNewestIsHandledAgain
<1>7. RecordsKept'
  BY <1>2, FilesStay DEF IInv, BrokerInv, RecordsKept
<1>8. DueIsAhead'
  <2> SUFFICES ASSUME NEW e \in due'
               PROVE  /\ IsWritten(e)
                      /\ \A f \in FileNames : Holds(f, e) =>
                           /\ f.kind = "event" /\ broker.last <= dir[f].mtime
                           /\ f \in Listing
    BY <1>2, <1>3, FilesStay DEF DueIsAhead
  <2>1. PICK g \in FileNames : /\ g.kind = "event" /\ broker.last <= dir[g].mtime
                               /\ Holds(g, e) /\ e \in Events
    BY <1>4
  <2>2. IsWritten(e)
    BY <2>1 DEF IInv, FilesInv, HoldsWritten
  <2>3. \A f \in FileNames : Holds(f, e) => f = g
    BY <2>1 DEF IInv, FilesInv, OneHolder
  <2>4. g \in Listing
    BY <2>1 DEF Listing, Holds
  <2> QED
    BY <2>1, <2>2, <2>3, <2>4
<1> QED
  BY <1>5, <1>6, <1>7, <1>8 DEF BrokerInv

\* A name that is returned late joins what is ahead.
LEMMA ListLateInv == ASSUME IInv, ListLate PROVE BrokerInv'
<1> USE DEF ListLate
<1>1. BrokerTypeOK
  BY DEF IInv, BrokerInv
<1>2. PICK f \in Listing : broker' = [broker EXCEPT !.listed = @ \cup {f},
                                                    !.pending = @ \cup {f}]
  OBVIOUS
<1>3. /\ broker' \in BrokerStates
      /\ broker'.pc = "listing" /\ broker'.pending = broker.pending \cup {f}
      /\ broker'.last = broker.last /\ broker'.maxTime = broker.maxTime
  BY <1>1, <1>2 DEF BrokerTypeOK, BrokerStates, Listing
<1>4. due' = due /\ handled' = handled /\ past' = past
  OBVIOUS
<1>5. BrokerTypeOK'
  BY <1>1, <1>3, <1>4 DEF BrokerTypeOK
<1>6. OpenedGetsYounger' /\ TimesCovered' /\ OnlyTheNewestIsHandledAgain'
  BY <1>3, <1>4, FilesStay DEF IInv, BrokerInv, OpenedGetsYounger, TimesCovered,
     OnlyTheNewestIsHandledAgain
<1>7. RecordsKept'
  BY <1>4, FilesStay DEF IInv, BrokerInv, RecordsKept
<1>8. DueIsAhead'
  BY <1>3, <1>4, FilesStay DEF IInv, BrokerInv, DueIsAhead, IsHandled
<1> QED
  BY <1>5, <1>6, <1>7, <1>8 DEF BrokerInv

\* What is passed over is not due, and what is opened is covered by maxTime.
LEMMA StatEntryInv ==
    ASSUME IInv, NEW f \in FileNames, StatEntry(f)
    PROVE  BrokerInv'
<1> USE DEF StatEntry
<1>1. BrokerTypeOK /\ DirTypeOK
  BY DEF IInv, BrokerInv, ManagerInv
<1>2. /\ due' = due /\ handled' = handled /\ past' = past
      /\ broker.pc = "listing"
  OBVIOUS
<1>3. RecordsKept'
  BY <1>2, FilesStay DEF IInv, BrokerInv, RecordsKept
<1>4. CASE Skipped(f)
  <2>1. broker' = [broker EXCEPT !.pending = @ \ {f}]
    BY <1>4
  <2>2. /\ broker' \in BrokerStates
        /\ broker'.pc = "listing" /\ broker'.pending = broker.pending \ {f}
        /\ broker'.last = broker.last /\ broker'.maxTime = broker.maxTime
    BY <1>1, <1>2, <2>1 DEF BrokerTypeOK, BrokerStates
  <2>3. BrokerTypeOK'
    BY <1>1, <1>2, <2>2 DEF BrokerTypeOK
  <2>4. OpenedGetsYounger' /\ TimesCovered' /\ OnlyTheNewestIsHandledAgain'
    BY <1>2, <2>2, FilesStay DEF IInv, BrokerInv, OpenedGetsYounger, TimesCovered,
       OnlyTheNewestIsHandledAgain
  <2>5. ASSUME NEW e \in due, Holds(f, e) PROVE FALSE
    <3>1. NonEmpty(f)
      BY <2>5 DEF Holds, NonEmpty
    <3>2. broker.last <= dir[f].mtime /\ Exists(f)
      BY <2>5 DEF IInv, BrokerInv, DueIsAhead, Holds
    <3>3. dir[f].mtime \in Nat /\ broker.last \in Nat \cup {-1}
      BY <1>1, <3>2, TimeOfFile, BrokerTyped
    <3> QED
      BY <1>4, <3>1, <3>2, <3>3 DEF Skipped
  <2>6. DueIsAhead'
    BY <1>2, <2>2, <2>5, FilesStay DEF IInv, BrokerInv, DueIsAhead, IsHandled
  <2> QED
    BY <1>3, <2>3, <2>4, <2>6 DEF BrokerInv
<1>5. CASE ~Skipped(f)
  <2> DEFINE t == dir[f].mtime
             m == IF t > broker.maxTime THEN t ELSE broker.maxTime
  <2>1. Exists(f) /\ t \in Nat /\ t <= clock /\ clock \in Nat
    BY <1>1, <1>5, TimeOfFile
       DEF Skipped, NonEmpty, IInv, FilesInv, NoneFromTheFuture
  <2>2. broker.last <= t
    BY <1>1, <1>5, <2>1, BrokerTyped DEF Skipped
  <2>3. m \in Times /\ t <= m /\ broker.maxTime <= m /\ broker.last <= m
    BY <1>1, <2>1, <2>2, BrokerTyped DEF Times, NoTime
  <2>4. broker' = [broker EXCEPT !.pending = @ \ {f}, !.pc = "opening",
                                 !.entry = f, !.time = t, !.maxTime = m]
    BY <1>5
  <2> HIDE DEF t, m
  <2>5. /\ broker' \in BrokerStates
        /\ broker'.pc = "opening" /\ broker'.pending = broker.pending \ {f}
        /\ broker'.entry = f /\ broker'.time = t
        /\ broker'.last = broker.last /\ broker'.maxTime = m
    BY <1>1, <2>1, <2>3, <2>4 DEF BrokerTypeOK, BrokerStates
  <2>6. BrokerTypeOK'
    BY <1>1, <1>2, <2>5 DEF BrokerTypeOK
  <2>7. OpenedGetsYounger'
    <3>1. ASSUME NEW g \in FileNames, Alias(g, f), Exists(g)
          PROVE  g = f
      <4>1. CASE g # f
        <5>1. /\ IsStats(f) /\ IsStats(g) /\ f.client = g.client
              /\ f.client \in Clients
          BY <3>1, <4>1 DEF Alias, FileNames
        <5>2. ~(Exists(StatsName(f.client)) /\ Exists(StatsLock(f.client)))
          BY <5>1 DEF IInv, FilesInv, ClientFiles, OneStatsFile
        <5>3. /\ f \in {StatsName(f.client), StatsLock(f.client)}
              /\ g \in {StatsName(f.client), StatsLock(f.client)}
          BY <2>1, <3>1, <5>1 DEF IInv, FilesInv, ClientFiles, StatsFilesNamed
        <5> QED
          BY <2>1, <3>1, <4>1, <5>2, <5>3
      <4> QED
        BY <4>1
    <3>2. t <= dir[f].mtime
      BY <2>1 DEF t
    <3> QED
      BY <2>1, <2>2, <2>3, <2>5, <3>1, <3>2, FilesStay
         DEF OpenedGetsYounger, Alias
  <2>8. TimesCovered'
    <3>1. ASSUME NEW h \in handled PROVE h.time <= m
      <4>1. h.time \in Nat /\ h.time <= broker.maxTime
        BY <1>1 DEF BrokerTypeOK, IInv, BrokerInv, TimesCovered
      <4> QED
        BY <1>1, <2>3, <4>1, BrokerTyped DEF Times, NoTime
    <3> QED
      BY <1>2, <2>3, <2>5, <3>1 DEF IInv, BrokerInv, TimesCovered
  <2>9. OnlyTheNewestIsHandledAgain'
    BY <1>2, <2>5, FilesStay DEF IInv, BrokerInv, OnlyTheNewestIsHandledAgain
  <2>10. DueIsAhead'
    BY <1>2, <2>5, FilesStay DEF IInv, BrokerInv, DueIsAhead, IsHandled
  <2> QED
    BY <1>3, <2>6, <2>7, <2>8, <2>9, <2>10 DEF BrokerInv
<1> QED
  BY <1>4, <1>5

\* What is read has the time of its last writing, and a time that is older than
\* the newest of the earlier scans cannot be read again.
LEMMA HandleInv == ASSUME IInv, Handle PROVE BrokerInv'
<1> DEFINE f == broker.entry
           e == dir[f].lines[1]
           h == [event |-> e, time |-> broker.time,
                 unchanged |-> dir[f].mtime = broker.time]
<1>1. BrokerTypeOK /\ DirTypeOK
  BY DEF IInv, BrokerInv, ManagerInv
<1>2. /\ due' = due /\ handled' = handled \cup {h} /\ past' = past
      /\ broker.pc = "opening" /\ Exists(f) /\ Parses(dir[f])
      /\ broker' = [broker EXCEPT !.pc = "listing", !.entry = NoFile, !.time = 0]
      /\ UNCHANGED <<dirVars, managerVars>>
  BY DEF Handle
<1>3. /\ f \in FileNames /\ broker.last <= broker.time
      /\ broker.time <= broker.maxTime /\ broker.time <= dir[f].mtime
  BY <1>2 DEF IInv, BrokerInv, OpenedGetsYounger, Alias
<1>4. e \in Events /\ Holds(f, e) /\ dir[f].mtime \in Nat /\ broker.time \in Nat
  BY <1>1, <1>2, <1>3, ReadIsHeld, TimeOfFile, BrokerTyped
<1>5. h \in [event : Events, time : Nat, unchanged : BOOLEAN]
  BY <1>4
<1>6. /\ h.event = e /\ h.time = broker.time
      /\ h.unchanged => dir[f].mtime = broker.time
  OBVIOUS
<1> HIDE DEF f, e, h
<1>7. /\ broker' \in BrokerStates
      /\ broker'.pc = "listing" /\ broker'.pending = broker.pending
      /\ broker'.last = broker.last /\ broker'.maxTime = broker.maxTime
  BY <1>1, <1>2 DEF BrokerTypeOK, BrokerStates, Times
<1>8. BrokerTypeOK'
  BY <1>1, <1>2, <1>5, <1>7 DEF BrokerTypeOK
<1>9. OpenedGetsYounger' /\ TimesCovered'
  BY <1>2, <1>3, <1>6, <1>7, FilesStay
     DEF IInv, BrokerInv, OpenedGetsYounger, TimesCovered
<1>10. IsWritten(e) /\ \A g \in FileNames : Holds(g, e) => g = f
  BY <1>3, <1>4 DEF IInv, FilesInv, HoldsWritten, OneHolder
<1>11. RecordsKept'
  <2>1. h.unchanged => KeepsItsTime(e, broker.time)
    BY <1>6, <1>10 DEF KeepsItsTime
  <2> QED
    BY <1>2, <1>6, <2>1, FilesStay DEF IInv, BrokerInv, RecordsKept
<1>12. DueIsAhead'
  <2> SUFFICES ASSUME NEW d \in due, NEW g \in FileNames, Holds(g, d)
               PROVE  g \in broker.pending \/ (\E x \in handled' : x.event = d)
    BY <1>2, <1>7, FilesStay DEF IInv, BrokerInv, DueIsAhead, IsHandled
  <2>1. CASE g = f
    <3>1. d = e
      BY <1>4, <2>1 DEF Holds
    <3> QED
      BY <1>2, <1>6, <3>1
  <2>2. CASE g # f
    <3>1. g \in broker.pending \/ IsHandled(d)
      BY <2>2 DEF IInv, BrokerInv, DueIsAhead, f
    <3> QED
      BY <1>2, <3>1 DEF IsHandled
  <2> QED
    BY <2>1, <2>2
<1>13. OnlyTheNewestIsHandledAgain'
  <2> SUFFICES ASSUME NEW p \in past, p.event = e
               PROVE  \/ p.time = broker.last
                      \/ p.time < broker.time /\ IsAppendedTo(e)
    BY <1>2, <1>6, <1>7, FilesStay DEF IInv, BrokerInv, OnlyTheNewestIsHandledAgain
  <2>1. dir[f].mtime = p.time \/ IsAppendedTo(e)
    BY <1>3, <1>4 DEF IInv, BrokerInv, RecordsKept, KeepsItsTime
  <2>2. p.time \in Nat /\ p.time <= broker.last
    BY <1>1 DEF BrokerTypeOK, IInv, BrokerInv, TimesCovered
  <2> QED
    BY <1>1, <1>3, <1>4, <2>1, <2>2, BrokerTyped
<1> QED
  BY <1>8, <1>9, <1>11, <1>12, <1>13 DEF BrokerInv

\* The new last covers what was handled.
LEMMA FinishScanInv == ASSUME IInv, FinishScan PROVE BrokerInv'
<1> USE DEF FinishScan
<1>1. BrokerTypeOK
  BY DEF IInv, BrokerInv
<1>2. /\ due' = {} /\ handled' = {}
      /\ past' = past \cup {[event |-> h.event, time |-> h.time] :
                               h \in {x \in handled : x.unchanged}}
      /\ broker' = [broker EXCEPT !.pc = "sleeping", !.last = broker.maxTime,
                                  !.listed = {}]
  OBVIOUS
<1>3. /\ broker' \in BrokerStates
      /\ broker'.pc = "sleeping" /\ broker'.last = broker.maxTime
      /\ broker'.maxTime = broker.maxTime
  BY <1>1, <1>2 DEF BrokerTypeOK, BrokerStates
<1>4. ASSUME NEW p \in past'
      PROVE  p \in past \/ \E h \in handled : /\ h.unchanged
                                              /\ p.event = h.event
                                              /\ p.time = h.time
                                              /\ p \in [event : Events, time : Nat]
  BY <1>1, <1>2 DEF BrokerTypeOK
<1>5. BrokerTypeOK'
  BY <1>1, <1>2, <1>3, <1>4 DEF BrokerTypeOK
<1>6. OpenedGetsYounger' /\ OnlyTheNewestIsHandledAgain' /\ DueIsAhead'
  BY <1>2, <1>3 DEF OpenedGetsYounger, OnlyTheNewestIsHandledAgain, DueIsAhead
<1>7. TimesCovered'
  <2>1. ASSUME NEW p \in past' PROVE p.time <= broker.maxTime
    <3>1. CASE p \in past
      <4>1. p.time \in Nat /\ p.time <= broker.last
        BY <1>1, <3>1 DEF BrokerTypeOK, IInv, BrokerInv, TimesCovered
      <4>2. broker.last <= broker.maxTime
        BY DEF IInv, BrokerInv, TimesCovered
      <4> QED
        BY <1>1, <4>1, <4>2, BrokerTyped
    <3>2. CASE p \notin past
      BY <1>4, <3>2 DEF IInv, BrokerInv, TimesCovered
    <3> QED
      BY <3>1, <3>2
  <2> QED
    BY <1>1, <1>2, <1>3, <2>1, BrokerTyped DEF TimesCovered
<1>8. RecordsKept'
  <2>1. ASSUME NEW p \in past' PROVE KeepsItsTime(p.event, p.time)
    BY <1>4 DEF IInv, BrokerInv, RecordsKept
  <2> QED
    BY <1>2, <2>1, FilesStay DEF RecordsKept
<1> QED
  BY <1>5, <1>6, <1>7, <1>8 DEF BrokerInv

\* A broker that has died remembers nothing.
LEMMA BrokerDiesInv == ASSUME IInv, BrokerDies PROVE BrokerInv'
<1> USE DEF BrokerDies
<1>1. /\ broker' \in BrokerStates
      /\ broker'.pc = "dead" /\ broker'.last <= broker'.maxTime
  BY DEF AtStart, BrokerStates, Times, NoTime
<1> QED
  BY <1>1 DEF BrokerInv, BrokerTypeOK, OpenedGetsYounger, TimesCovered,
     RecordsKept, DueIsAhead, OnlyTheNewestIsHandledAgain

\* Every step keeps the invariant.
LEMMA NextInv == ASSUME IInv, [Next]_vars PROVE IInv'
<1>1. ManagerInv /\ FilesInv /\ BrokerInv
  BY DEF IInv
<1>2. CASE BrokerStep
  <2>1. UNCHANGED <<dirVars, managerVars>>
    BY <1>2 DEF BrokerStep, Wake, ListLate, StatEntry, Handle, BrokerDies,
       FinishScan
  <2>2. ManagerInv'
    BY <1>1, <2>1, OutsideInv
  <2>3. FilesInv'
    BY <1>1, <2>1, OutsideFiles, TimeOfFile DEF dirVars, ManagerInv
  <2>4. BrokerInv'
    BY <1>2, WakeInv, ListLateInv, StatEntryInv, HandleInv, FinishScanInv,
       BrokerDiesInv DEF BrokerStep
  <2> QED
    BY <2>2, <2>3, <2>4 DEF IInv
<1>3. ASSUME NEW c \in Clients, ManagerStep(c), UNCHANGED brokerVars
      PROVE  IInv'
  <2>1. ManagerInv'
    BY <1>1, <1>3, CreateLockInv, CreateStatsInv, ReopenStatsInv, FireStepInv,
       ManagerCrashInv, ManagerRestartInv DEF ManagerStep
  <2>2. FilesInv' /\ FilesMove
    BY <1>1, <1>3, ManagerStepFiles
  <2>3. BrokerInv'
    BY <1>1, <1>3, <2>1, <2>2, FilesMoveBroker
  <2> QED
    BY <2>1, <2>2, <2>3 DEF IInv
<1>4. CASE Tick /\ UNCHANGED <<managerVars, brokerVars, crashes>>
  <2>1. ManagerInv'
    BY <1>1, <1>4, TickInv
  <2>2. FilesInv' /\ FilesMove
    BY <1>1, <1>4, OutsideFiles, TimeOfFile DEF Tick, ManagerInv
  <2>3. BrokerInv'
    BY <1>1, <1>4, <2>1, <2>2, FilesMoveBroker
  <2> QED
    BY <2>1, <2>2, <2>3 DEF IInv
<1>5. CASE UNCHANGED vars
  <2>1. ManagerInv'
    BY <1>1, <1>5, OutsideInv DEF vars
  <2>2. FilesInv' /\ FilesMove
    BY <1>1, <1>5, OutsideFiles, TimeOfFile DEF vars, dirVars, ManagerInv
  <2>3. BrokerInv'
    BY <1>1, <1>5, <2>1, <2>2, FilesMoveBroker DEF vars
  <2> QED
    BY <2>1, <2>2, <2>3 DEF IInv
<1> QED
  BY <1>2, <1>3, <1>4, <1>5
     DEF Next, Fire, ContinueFire, Crash, Restart, ManagerStep

\* Nothing is on disk and nothing handled at the start.
LEMMA InitInv == ASSUME Init PROVE IInv
<1> USE DEF Init, SyncDirInit, ManagerInit
<1>1. ManagerInv
  BY ManagerInitInv
<1>2. \A f \in FileNames : ~Exists(f)
  BY DEF Exists
<1>3. FilesInv
  <2>1. \A c \in Clients : StatsName(c) \in FileNames
    BY <1>1, LockNames DEF ManagerInv
  <2> QED
    BY <1>2, <2>1 DEF FilesInv, HoldsWritten, OneHolder, NoneFromTheFuture,
       ClientFiles, LockIsNewest, OneStatsFile, StatsFilesNamed, StatsAreStats,
       StatsNotTorn, Holds, FiringTestcase
<1>4. /\ broker \in BrokerStates
      /\ broker.pc = "sleeping" /\ broker.last <= broker.maxTime
  BY DEF AtStart, BrokerStates, Times, NoTime
<1>5. BrokerInv
  BY <1>4 DEF BrokerInv, BrokerTypeOK, OpenedGetsYounger, TimesCovered,
     RecordsKept, DueIsAhead, OnlyTheNewestIsHandledAgain
<1> QED
  BY <1>1, <1>3, <1>5 DEF IInv

-----------------------------------------------------------------------------
(* What follows. *)

\* IInv holds in every reachable state.
THEOREM BrokerInvariance == Spec => []IInv
<1>1. Init => IInv
  BY InitInv
<1>2. IInv /\ [Next]_vars => IInv'
  BY NextInv
<1> QED
  BY <1>1, <1>2, PTL DEF Spec

\* The expect()s of broker_loop never fail on a published testcase: it is there
\* when it is opened and holds exactly one event, whatever its client does next.
THEOREM PublishedNeverKills == Spec => []PublishedNeverKillsTheBroker
<1>1. IInv => PublishedNeverKillsTheBroker
  BY ManagerInvPublishedWhole
     DEF IInv, BrokerInv, OpenedGetsYounger, PublishedNeverKillsTheBroker,
         BrokerPanics, PublishedWhole
<1> QED
  BY <1>1, BrokerInvariance, PTL

\* The comparison with `last` in broker_loop lets an event through twice only
\* while its file is the newest that the broker has seen, or has got a new time
\* from the newline that its client writes before it appends to it.
THEOREM OnlyTheNewestAgain == Spec => []OnlyTheNewestIsHandledAgain
<1>1. IInv => OnlyTheNewestIsHandledAgain
  BY DEF IInv, BrokerInv
<1> QED
  BY <1>1, BrokerInvariance, PTL

\* When a scan of broker_loop ends, what was published and not older than `last`
\* when it listed the directory has been handed to the monitor, or is gone.
THEOREM HandlesWhatIsDue == Spec => BrokerHandlesWhatIsDue
<1> DEFINE Handles ==
      FinishScan => \A e \in due : (\E h \in handled : h.event = e) \/ ~OnDisk(e)
<1>1. IInv => Handles
  BY DEF IInv, BrokerInv, DueIsAhead, IsHandled, OnDisk, FinishScan
<1>2. IInv /\ [Next]_vars => [Handles]_vars
  BY <1>1
<1> QED
  BY <1>2, BrokerInvariance, PTL DEF Spec, BrokerHandlesWhatIsDue
=============================================================================
