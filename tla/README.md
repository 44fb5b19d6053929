# PreSiFuzz in TLA+

PreSiFuzz fuzzes RTL designs in simulation. Its crates extend LibAFL: several
fuzzer *clients* mutate RISC-V programs, run them on a simulator (VCS or
Verilator), take the simulator's coverage as feedback, and share what they find
through a *sync directory* on a common file system; a *broker* reads that
directory for the monitor. This directory holds TLA+ models of the parts of
that system where concurrency, failure and order matter, the TLC runs that check
them, and theorems about them that TLAPS checks. Every definition is translated
from the source; `PROJECT.json` maps each to its lines.

Contents: [inventory](#inventory), [modules](#the-modules),
[runs](#the-runs), [findings](#what-the-code-does-not-do),
[fairness](#fairness), [proofs](#the-proofs), [limits](#what-is-not-modelled),
[plan](#plan).

## Inventory

| part | code | state | operations | what is hard |
|---|---|---|---|---|
| event manager of a client | `libpresifuzz_ec/src/manager.rs:256-516` | `count`, the files | `fire` | writes and renames that others see half done; crashes; numbering restarts |
| event broker | `manager.rs:61-253` | `last`, the monitor's client statistics | `broker_loop`, `handle_in_broker` | reads files of every kind while they move; ties of modification times |
| launcher | `libpresifuzz_ec/src/llmp.rs` | the processes | `launch` | which process survives what |
| sync stage | `libpresifuzz_stages/src/sync.rs` | `last_time` metadata | `perform` | stat, open and read of a file are three looks at a directory that changes |
| Verdi XML observer | `libpresifuzz_observers/src/verdi_xml_observer.rs` | the map | `pre_exec`, `post_exec` | reads a report that may be another execution's, torn, or missing |
| Verdi XML feedback | `libpresifuzz_feedbacks/src/verdi_xml_feedback.rs` | `history` | `is_interesting`, `append_metadata` | four of them decide on one execution |
| VCS executor of cva6 | `fuzzers/cva6-vcs-fuzzer/src/simv.rs`, `run.sh` | the work directory | `spawn_child`, the timeout | the kill ends a shell, not the simulator under it |
| VCS harness of secworks and opentitan | `fuzzers/secworks-vcs/src/main.rs`, `fuzzers/opentitan-fuzzer-vcs/src/main.rs` | the work directory | the harness closure under a `TimeoutExecutor` | two timeouts of 20 s, pipes nobody reads, a testcase that is not written |
| chipyard executor | `fuzzers/chipyard-vcs-fuzzer/src/simv.rs` | the work directory, two logs | `generate_testcase`, `exec_spike`, `spawn_child` | two processes after each other, each cut short by a timeout of its own |
| execution trace observers, differential feedback | `libpresifuzz_observers/src/trace_observer.rs`, `libpresifuzz_feedbacks/src/differential_feedback.rs` | two traces | `post_exec`, `is_interesting` | logs of another execution, half lines, lines no expression takes |
| minimizing scheduler | `libpresifuzz_schedulers/src/hwminimizer.rs` | `favored`, `next`, `counter` | `on_add`, `on_replace`, `next` | an index into a list that is made anew |
| shared-memory observer, NPI library | `libpresifuzz_observers/src/verdi_observer.rs`, `npi_c.c` | a shared map | `post_exec` in a forked child | the child is killed while it writes |
| shared-memory feedback | `libpresifuzz_feedbacks/src/verdi_feedback.rs` | `history` | `is_interesting` | a map without its counts |
| cycle and transferred feedbacks | `libpresifuzz_feedbacks/src/` | counts, a flag | `is_interesting` | flag set across a call that fails |
| ISA input and mutators | `libpresifuzz_mutators/src/` | a list of instructions | the mutations, stacked, and the branch mutator | sizes and indices through any stack of mutations |
| CPU profile | `libpresifuzz_riscv/src/cpu_profile.rs` | none | the table `INSTRUCTIONS`, `build_operand` | 109 entries by hand, of which one may hide another |
| program table | `libpresifuzz_riscv/src/disas.rs` | instructions, branch targets, an address cache | insert, remove, look up, write | ids that are used again, targets that are gone, distances that grow |
| decoder and generator | `libpresifuzz_riscv/src/dasm/`, `dasm/gen.rs`, the front ends `elf.rs`, `spike_dasm.rs` | none | encode, decode, dividing bytes and text into instructions | bit fields, signs, ranges; several readers of the same bytes |
| Verilator executor, observer and feedback | `fuzzers/opentitan-fuzzer/`, `libpresifuzz_observers/src/verilator_observer.rs`, `libpresifuzz_feedbacks/src/verilator_feedback.rs` | a map, a history, the report | `spawn_child`, `post_exec`, `is_interesting` | a pipe without a reader, a stale or torn report, unset memory |
| fuzzers | `fuzzers/*/src` | the wiring of the above | `main` | which feedbacks are combined and how |

How they interact. A client is one thread: LibAFL's `StdFuzzer` runs a testcase
in the executor, lets the observers look (`pre_exec`, `post_exec`), asks the
feedbacks, and on `Ok(true)` adds the testcase to the corpus and has the manager
`fire` a `NewTestcase` event, a JSON file in the sync directory. The feedbacks
fire `UpdateUserStats` from `is_interesting`, which goes to one file per client.
Each round the `SyncFromDiskStage` lists the directory and passes newer testcases
to `process_execution`, so feedbacks, and with them statistics, also run inside a
scan. The broker, another process, lists the same directory every 30 seconds. The
directory and its modification times are all the processes share. Executors and
observers share the *work directory* of their client: the executor writes the
testcase there and starts a simulator, which leaves reports and logs behind, and
the observers read what lies there when the executor has returned.

What makes each part correct: published files are whole and stay; a scan imports
what was due and nothing twice; statistics are not lost; nothing a client does
stops the others or the broker; coverage is neither lost nor made up; a testcase
is kept for coverage of its own; every execution and every scan ends; the favored
testcases cover what all do; a program that is edited keeps its branches, and a
mutated testcase its size limit; what is encoded is what was meant, and is read
back as that by everyone.

## The modules

| module | models |
|---|---|
| `SyncDir` | the directory: names, whole and torn contents, modification times, rename and create |
| `EventManager` | one client's `fire`, file operation by file operation, its crash and its restart |
| `SyncFromDiskStage` | `perform`, entry by entry: listing, stat, open, test against `last_time`, import, end |
| `SyncOnDisk` | the clients: managers, stages and crashes together; the properties of the exchange |
| `TestcaseExchange` | the abstract specification of that exchange: testcases, offers and imports without files, names or times; `SyncOnDisk` implements it |
| `SyncOnDiskEventBroker` | `broker_loop` and the monitor next to the clients' managers |
| `CoverageFeedback` | histories, corpus and reported score under `feedback_or!` |
| `VcsExecution` | executions in one work directory: spawn, simulator, timeouts, kill, report, observers; imports; a client started again |
| `HWMinimizerScheduler` | the scheduler over the corpus of `CoverageFeedback` |
| `VerdiShMap` | the forked reader of the coverage database, the map it shares with the observer, the feedback on it |
| `ChipyardExecution` | an execution of the chipyard fuzzer over `VerdiShMap`: Spike, the simulated core, their logs, the trace observers, the differential feedback |
| `VerilatorExecution` | an execution of the Verilator fuzzer: the pipe, the testbench and its report, the observer's map, the feedback |
| `DisasDataTable` | a program under edits: ids, branch targets, the cached map of addresses, writing |
| `ISAScheduledMutator` | `scheduled_mutate`: reading, stacked mutations, the branch mutator over `DisasDataTable`, writing |
| `CpuProfile` | the table `INSTRUCTIONS`, entry by entry, and how it builds and matches words |
| `Dasm` | the readers that divide bytes into instructions, the generators of branches, and the reading of disassembled text |
| `Encodings` | the cases over which `CpuProfile` and `Dasm` are compared with each other and with a reference |
| `MC...` | the constants of the small instances |
| `..._proofs` | theorems and proofs about the module of that name; `VerdiShMap_proofs` also about `ChipyardExecution`, `VcsExecution_proofs` about `CoverageFeedback`, `ISAScheduledMutator_proofs` about `DisasDataTable`, `CpuProfile`, `Dasm` and `Encodings` |

**Sync directory.** A file is the sequence of events whole in it, a flag for a last
one that is partly written, and its modification time. `fire(NewTestcase)` is
`CreateLock`, perhaps `TearTestcase` (a `write_all` takes any number of writes),
`WriteTestcase`, `Publish` (the rename and `count += 1`); `fire(UpdateUserStats)`
is `CreateStats` or `ReopenStats` (the `exists()` and the rename to the lock name), after the latter
`NewlineStats` (a `write_all` of its own, after which the file still has its one readable event, under a new
time), `TearStats`, `WriteStats`, `PublishStats`. `ManagerCrash` may come between any two
of them and leaves the files; `ManagerRestart` starts a manager with `count = 0`,
as `new()` does. The file system is external: rename is atomic and replaces, the
clock has ticks coarser than steps (many writes can share a time) and is the same for
everyone, and `read_dir` returns what was there at its start once and what came
later perhaps (`ListLate`).

`scan[c]` holds the locals of `perform`. Its steps are `ReadDir`, `StatEntry`
(metadata, the `.stats` and the empty-file tests), `OpenPanics`, `SkipStale`,
`SkipOther`, `Import`, `Executed`, `FinishScan`. Note `File::open` comes before the
test against `last_time`, so a stale entry can still panic. Statistics are fired in
a scan only while an imported testcase is executed, since a client is one thread.
`due`, `round`, `settled`, `fired`, `statsFired`, `statsCut`, `crashes` are history
variables: no action of the code reads them.

**Exchange.** `TestcaseExchange` says what clients may rely on: a testcase can be taken when it is
complete and is owed to every import once it is offered, an import that ends has taken what it
owed, what is settled is not taken again, and only the death of its finder withdraws a testcase.
`SyncOnDisk!Exchange` is its instance, and `ImplementsExchange` the property `Exchange!Spec`.
The refinement mapping: `complete` are the testcases that are the whole content of a file under a
lock or an event name, `offered` those under an event name, `died` the clients with a crash,
`fresh` those without a `last_time`, `importing` those amid a `perform`, `owed` is `due`, `taken`
what the scan has imported, `settled` the history variable of that name. So a write maps to
`Complete`, a rename to `Offer` (which may replace an offer of the finder's former life), a
truncating `create` to `Lose`, `ReadDir` to `Begin`, `Import` to `Take`, `FinishScan` to `End`, a crash
to `Die`, and all other steps stutter. What a first scan owes is all that is on offer; a later
one owes what its test against `last_time` takes for new. That this test may be wrong is the
finding of `SyncSkips`, and the reason why `Begin` lets `owed` be less than what is offered.

**Coverage.** An input stands for the set of points it covers, a map is a set of points
per metric, the report in the work directory is a map, `Torn` or `NoReport`. The
reports of one design have one length. `Execute` is `spawn_child` with `pre_exec`;
the simulator begins and ends its report; `Exits` or `TimesOut` end the wait;
`Observe` is `post_exec`, which reads whatever report lies there, also after a
timeout, or `ObserverPanics` (its `expect`s); `Evaluate` is `process_execution` with
all feedbacks. `executor` says which fuzzer it is. With `"command"`, the cva6 fuzzer whose child
is `bash ./run.sh`, a timeout may leave the simulation running as an orphan that
writes its report later. With `"inProcess"`, the secworks and opentitan fuzzers, a
harness closure spawns the simulator itself, so that the kill reaches it, but: a testcase that
cannot be written gets a message only and the simulator reads the one before
(`ExecuteUnwritten`; `testcase` is the file's content); the simulator's output goes to pipes nobody
reads (`SimulatorBlocks`); and the `TimeoutExecutor` around the harness has an alarm of the same
20 s, set earlier, which ends the client while its simulation goes on (`AlarmFires`). A client that
is gone may be started by someone (`Restart`): it makes itself a new work directory and
starts with an empty state. `stray` is a history variable: an orphan has been left or a
testcase not written, here or at the client an imported testcase comes from. The executor's wait and kill
and the alarm are LibAFL's and external.

**Scheduler.** Maps become words of `WordBits` bits; bits are numbered, words 0 and
1 are the counters the code takes them for. One round of the loop of
`update_favored` is one action, `left` makes the shuffle: any id may be next.
`Copied` is the loop `'copy_map` with its early break. No fuzzer in the repository uses
the scheduler; `README.md:95` offers it to users.

**Shared map.** `VerdiShMapObserver` forks; the child walks the database and sets or clears
one bit per point (`ReaderWritesBit`), the two counts at the very end (`ReaderEnds`); the
parent polls (`SeesExit`) and kills (`TimesOut`, which is also what comes of a child that
died of a signal). `ForkFails` and `ReaderGivesUp` leave the zeros of `pre_exec`. Standard
output of the child is a pipe the parent never reads (`ReaderBlocks`). Of a block only the
*number* of covered points goes into the map, as its first bits. `Merge` is
`VerdiFeedback::is_interesting` from `'traverse_map` on, which stops at word 1. `room` is
the number of points the words of the map have bits for. In the chipyard fuzzer that is not all of them: 912149 bytes are cut to
228037 words, of which two are the counts, which leaves 7297120 bits for 7297130 toggle points (`main.rs:176-185`; 79744 for
79757 conditions, 47264 for 47294 lines, 39328 for 39357 branches). `update_cov_map` does not look at the size it is given
and writes on, into the rest of the last page; the observer and the feedback do not look there, so `ReaderWritesBit`
sets no bit from `room` on, while word 1 counts every point.

**Chipyard.** `stage` is where the executor is: `Begin` writes the ELF file and creates Spike's logs,
`NoSpike`, `SpikeExits` and `SpikeKilled` (after 100 ms) start the simulator and its own log, `SimvEnds`
is the end of the program, `+vcs+finish`, or the timeout, which may leave the database of the
execution before. Then `VerdiShMap` runs (`ObserveCoverage` are all its steps up to the
feedback), the logs are parsed (`ObserveTraces`) and all feedbacks are asked (`EvaluateAll`). A log is
a sequence of lines, each for an instruction or a message (`Messages`), of which a killed process leaves any prefix. `SpikeParse` takes the lines
of the instructions that write a register or memory (`Writers`), so that a branch has no entry; `RocketParse` those of
all instructions. That the two lengths are compared although the parsers count different lines is in
[what the code does not do](#what-the-code-does-not-do). One metric stands for the four of the fuzzer.

**Verilator.** A testcase is the counts its report will have. The report is a sequence of
counts; one that is cut off ends after any line or within a count (`PartsOf`). It is written when the testbench is deleted, after
`SimulateDUT` (`tb/src/main.cpp`, `verilator_tb.cpp:36-52`); one that is aborted before has written none (`Aborts`). `Written` is the
`write_all` to the testbench's standard input, which blocks where the testcase is longer than the pipe
holds and the testbench does not read; `WriteFails` is its broken pipe. `mapped` is false until the
first `set_len` of the observer's map, which exposes memory nothing was written to: any value
(`Observe`). `Evaluate` replaces the history by the map.

**Program table.** An entry is an id and a kind of instruction; the kind gives its size and, for
a branch, its reach. `FromRiscvIns` and `FromElf` resolve every branch to the id at its target
or to an address (`populate_cofi_map`), and differ in `cur_id`, which `from_elf` leaves at 0.
`AddInstruction...`, `AddCofi`, `RemoveInstruction...` are the edits, by index and by address; those by
address go through the cached map. `FromElf` is of programs without a gap between sections: `from_elf` panics on one
(`disas.rs:259-261`), and `_serialize` on an entry of 6 or 8 bytes (`unimplemented!`, 871-873). Calls that return an error change nothing but that map, which
`Lookup` covers. `Serialize` works out each distance from the addresses of now, leaves out of safe
code what is too far, and panics (an `unwrap`) at the first target that is gone. Reaches are scaled
down (in the code ±256 for `c.beqz`, ±2 KiB for `c.j`, ±4 KiB, and ±1 MiB for `jal`), as is the
`i16` to which distances of compressed branches are cut (`HalfI16`, 2^15 in the code; `DisasAssumption` has their
fields no wider than that, as they are). Registers are left out. What `spike-dasm`
and `objdump` print is external.

**Mutators.** A testcase is a list of words and perhaps an incomplete last one. `Start` reads it
(`ISAInput::new` drops what `INSTRUCTIONS` does not have, and panics on half an instruction),
`InstDelete`, `Operand`, `AppendInst`, `Opcode` are the mutations, `StartBranches`,
`AddBranch`, `EndBranches` the branch mutator, `Write` ends the call. `Built` is what a mutator
may build of an entry: 17 of the 109 entries of `INSTRUCTIONS` are hidden behind an earlier one
that matches the same words, so that what was built as a `c.jal` is read back as a `c.addiw`. No
fuzzer of the repository configures the branch mutator; the library offers it.

**Encodings.** `CpuProfile` has the 109 entries of `INSTRUCTIONS` with their length, mask and match, and the operand
fields with their places in the word; `BuiltOf` is what `build_operand` and the template make of an entry,
`Decoded` the first entry that matches a word. `Dasm` has the four readers of bytes (`dasm/mod.rs`, for
both byte orders), the branch generators of `gen.rs` with their range checks, and what the two front
ends read of a branch in disassembled text: the text with its short forms (`j`, `jr`, `ret`, `jal` and `jalr` of one
argument), `process_branch`, and what `serialize_cofi` writes from the type it answers, with distances of compressed branches cut
to 16 bits (`I16`). Words and bytes are sets of bits. `Encodings` lists the cases: every
entry with the words built of it, programs of up to three instructions, strings of up to eight bytes, branches with
registers and offsets that fill their fields, and every offset from -4200 to 4200 and around the powers of two up to 2^21. A case is a value of the variable `case` in the run `Mutator`, a state of its own in which
the mutator rests; the properties are implications from the case to what has to hold of it.

## The runs

All runs together take about ten minutes. Deadlock is not checked: the bounds on
events, crashes, corpus and clock stop every instance, and a client or broker that
has died stays so.

| run | instance | shows |
|---|---|---|
| `SyncTestcases` | two clients, one finds up to 2 testcases and may die once, the other scans and may die once; clock 0..2; fair | `TypeOK`, `PublishedWhole`, `NoReimport`, `ImplementsExchange`, `ScansEnd` |
| `SyncStats` | two clients, a testcase and two statistics each, a crash each, one instant | `PanicsOnlyOnEventLocks`, `StatsComplete` |
| `SyncSkips` | no crash | violates `NothingIsSkipped` |
| `Broker` | broker and one client, two events of both kinds, one crash, clock 0..2, fair | `OnlyTheNewestIsHandledAgain`, `PublishedNeverKillsTheBroker`, `BrokerHandlesWhatIsDue`, `BrokerScansEnd`, `LocksAreReleased`, `MonitorSettlesOnNewest` |
| `BrokerDies` | two statistics events, no crash | violates `BrokerOutlivesClients` |
| `Executions` | both executors, two metrics, three points, four inputs that overlap, corpus of 3, one orphan at a time, a client started twice, fair | `TypeOK`, `HistoryIsTheCorpus`, `SeenIsTheInputs`, `OnlyNovelIsKept`, `ReportsNeverShrink`, `ExecutionsEnd` |
| `ExecutionsNovelty` | executor `"command"`, one metric, nothing imported (`Imported`) | violates `OnlyNovelInputsAreKept` |
| `Minimizer` | every input over words 1 and 2 of 3-bit words, corpus of 4, replacing | `TypeOK`, `FavoredCoverTheMaps` |
| `Chipyard` | three blocks of 1, 2 and 1 points, a map with room for three bits or for all, five databases, four programs (the core as Spike, a loop, a store, the core commits one more), corpus of 2, fair | `ObservedIsTheDatabase`, `HistoryIsTheReads`, `RatioIsOfTheHistory`, `OnlyNewBitsAreKept`, `TracesAreOfTheProgram`, `ExecutionsEnd` |
| `Verilator` | a map of 2, reports of 1, 2 or 3 lines, counts 0 and 1, three kept testcases, fair | `KeptForItsOwnCounts`, `NotTheSameAgain`, `ExecutionsEnd` |
| `ProgramTable` | eight programs of up to three instructions, two edits, a branch that reaches 4 bytes and one that reaches 8 | `LookupsAreCurrent`, `BranchesLeadToTheirTargets`, `PanicsOnlyForTheRemoved` |
| `Mutator` | four seeds, two rounds of two mutations, up to two branches in the first round and one in the second (`OneBranchLater`), limit of 10 bytes; and the cases of `Encodings` | `SizeIsKept`, `PanicsOnlyOnSeeds`, `BranchesOfTheInputAreKept`, `EveryBuiltWordIsReadAgain`, `ReadersDivideAlike`, `BranchesAreWrittenAsTheyWere`, `SafeIfAndOnlyIfExact` |

Why the bounds are enough to be of interest. Two testcases of one client and a crash
let a restarted client rename over its own earlier file; three clock values put a file
before, at and after a `last_time`; two clients suffice since a client touches only its
own names, so that a reader's hazards come from one writer at a time (the theorems
hold for any number). The broker keeps one `last` and one client for all files, so that two files
of one client show it what files of two would. Two statistics events are what it takes to come to the append
path. Three points and two metrics let an input be novel in one metric and known in the
other, and a map be smaller than the history it adds to; `Inputs` has inputs that are
contained in the union of two others. A client that is started twice can leave a simulation in the directory of
its first life. A corpus of four testcases and `Period = 1` give
three updates of the favored list with lists of every length; `WordBits = 3` puts
the count in word 1 below, at and above the numbers of the bits in word 2. The chipyard programs have logs that differ in length
by the core, by a cut, or by a branch, and one that never ends; the map with room for three bits has none for the last block. A Verilator map of two elements has reports that are shorter,
equal and longer; three testcases show a history that goes up, down and up again. Two edits
of a program that barely fits its branches take a target out of reach, remove it, or give an id
twice; two branches added to a list make the first one's target move. `iterations()` is 2 at the
least and 256 at the most: `SizeIsKept` relates one mutation to the
next.

Each property has a mutant in `PROJECT.json`: a definition of the model replaced by a
plausible mistake (defined next to it and marked "Mutated"), under which TLC
finds the property violated.

## What the code does not do

The three violation runs are disagreements of the code with what its documents and
messages say:

- **A scan may lose testcases** (`SyncSkips`, `sync.rs:248`). A scan that imports
  nothing newer ends with `last_time = now()`. What another client published between the
  listing and that end is older than `last_time`, and is never imported.
- **The broker panics on legal files** (`BrokerDies`, `manager.rs:110`). It parses every
  file as one JSON event; a client's statistics file has two from its second event on. A
  lock file that is half written, or renamed between stat and open, has the same effect.
- **An orphaned simulation is credited to a later input** (`ExecutionsNovelty`,
  `simv.rs:133`). The timeout kills the shell; the simulator's late report is taken for that
  of the input that runs then, which is kept in the corpus, and fired to the other
  clients, for coverage it does not have. The run imports nothing, so that its trace is this story: a timeout, an orphan,
  its report during a later execution.

Noticed and without a run.

*Traces.* `README.md:80` offers the trace observers "for identifying trace mismatches (see
`differential_feedback`)"; the feedback compares the lengths of the traces and nothing in them, Spike's has no
entry for a branch while the core's has, and Spike's ends after 100 ms wherever it is. Two logs of equal length say nothing of
the design, nor do two of different length: `TracesAreOfTheProgram` is what can be said.

*Processes.* `manager.rs` documents a restarter that "will spawn a new process each time the child crashes or
timeouts" (line 731), and `llmp.rs` says that it will "spawn n clients"; `launch` starts no process (`llmp.rs:113`): each is
started by hand, as a client if an environment variable says so, with no state (`manager.rs:809`).
`ManagerRestart` and `Restart` are someone starting it again. The secworks and opentitan harnesses write the testcase without its last byte and each byte from 0x80 on as
two (UTF-8), and subtract one from the length of an input that may be empty. A killed reader of the coverage database is not
waited for and stays a zombie. A testcase for Verilator that is longer than the pipe holds is
written with no timeout around it: `ExecutionsEnd` there leaves it out.

*Coverage.* The Verilator feedback replaces its history, so that two testcases that each have a count the other has not are
kept again and again; the first map it sees may hold memory that nobody has written. `verdi_xml_feedback.rs:56` compares
the *capacity* of the history with the map's before it resizes the length.
`SyncFromDiskStage` sets the transferring flag around `process_execution` and leaves it set when that fails
(`sync.rs:195`); no fuzzer reads it. Neither does one use the cva6 differential executor, which answers `Ok` when its first
executor fails and the second has not run (`differential.rs:94`).

*Scheduler and programs.* `update_favored` may make `favored` shorter and leaves `next`, so that
`favored[next]` in `next()` panics (`hwminimizer.rs:102`; the model has it as the phase
`panicked`). A table made by `from_elf` hands out ids that are taken: an instruction that is added
replaces one, or `shift_insert` panics (`disas.rs:277`); the properties about ids except that origin.
A branch whose target was removed makes `serialize` panic (`disas.rs:737`). Safe code leaves a
branch out without looking at the others again, whose offsets over it are then too long; and in a
program beyond 32 KiB the `as i16` of `disas.rs:746` may cut a distance to one that a compressed
branch reaches, which then stays in safe code and leads elsewhere. `spike-dasm` prints `jalr ra, 0(rs)` as `jalr rs`, which
`process_branch` reads as a jump that links to x0 (`helper.rs:173-175`), where `objdump`'s text gives ra; the word is written back as it was, since
absolute branches are. A branch to in front of the first address has a target of 64 bits in `objdump`'s text, and the `unwrap` of `helper.rs:78` panics:
`BranchesAreWrittenAsTheyWere` says that this is all that differs. The branch mutator does not look
at `max_size`, and `Skipped` may be answered for a testcase it has changed. `README.md:103` says the event manager saves test case events and
"ignores other events", but it saves statistics too; `append_metadata`
stores the cumulative history, so that the scheduler finds the latest testcase to cover
everything (`hwminimizer.rs:20` promises a subset that exercises all coverage): what
holds is `FavoredCoverTheMaps`, about the maps. `verdi_xml_feedback.rs:70` takes the covered
count before the merge, so that the first score of a campaign is 0, where `verdi_feedback.rs`
counts after it. A reader of the database that is killed leaves a coverable count of 0: one
bit is merged and the ratio 1/1 is fired. The points that the chipyard fuzzer's maps have no room for are seen by nobody, and the
ratio comes to 100% without them (`Walked` ends at the end of the map). The comments of the VCS fuzzers say that each bit of
the map is one signal; `compute_score` writes counts per block.

## Fairness

`SyncOnDisk!FairSpec`: weak fairness of each client's steps *inside* a call
(`Running`): nothing in `fire` or `perform` waits for another process. That a client
starts a call, crashes or restarts, and that time passes, is not assumed.
`SyncOnDiskEventBroker!FairSpec`: the broker's loop goes on by itself, and a `fire`
that has begun. `VcsExecution!FairSpec`: the executor's own steps; the timeouts are among
them (`exec_timeout`, the harness's wait, the alarm), the simulator's steps are not, so that a simulation may hang in
any phase or wait for its pipe. `Exits`, `TimesOut`, `Observe`, `Evaluate` are steps of one thread.
`ChipyardSpec`: the executor's steps, the parent's of the coverage observer, and the evaluation; Spike, the core and
the reader may stop anywhere. `VerilatorExecution!FairSpec`: the fuzzer's steps that do not wait for the
testbench, which excludes the write of a testcase the pipe does not hold.

## The proofs

`tlapm` checks all theorems from nothing. Their constants are arbitrary: any set of
clients, metrics, points, inputs, any bounds. The assumptions are the named
`ASSUME`s (bounds are natural numbers, markers such as `NoFile` are not files),
which TLC evaluates for every instance.

- `EventManager_proofs`, `SyncOnDisk_proofs`: `Spec => []TypeOK`, `[]PublishedWhole`,
  `[]PanicsOnlyOnEventLocks`, and the action property `PublishedStays` (`PublishedNamesStay`). The inductive
  invariant says, per client and place in `fire`, what its lock file holds
  (`ManagerInv`): empty after create, one whole testcase before the rename. Without that
  the rename could publish anything. For `PanicsOnlyOnEventLocks` it adds that the
  entry a scan has open, if its kind is published, is still there; for
  `PublishedStays` that names not yet used are free until a crash.
- There too, `[]StatsComplete`: the statistics of a client are under one of two names, under the lock name
  exactly while it fires one, and are the events up to the last one written (`StatsInv`), unless a crash has cut a
  write short, after which nothing is claimed.
- There too, `[]NoReimport`. A testcase is written once, lives in one
  file, and keeps its time when it is renamed; a name's file only gets younger;
  `last_time` ends at least at the time of everything imported, except files that changed
  under the scan. `DiskInv` and `ScanInv` say this, and `DiskMoves` is what the
  scans rely on in every step of any manager, so that actions of managers and actions
  of scans are proved about separately.
- There too, `Spec => ImplementsExchange` (`ExchangeImplemented`), the refinement of `TestcaseExchange`, step by step: every
  action is one of the exchange or leaves its variables alone. `XInv` adds to the above what each step needs: until a client
  dies, the only lock file of a testcase it has is the one it works on (`LocksInv`), so that a truncation loses only what a dead client had;
  and what is owed is ahead of the scan, in a file that has not changed, or taken (`DueInv`), so that a scan
  that ends has taken it.
- `SyncOnDiskEventBroker_proofs`: `[]PublishedNeverKillsTheBroker`, `[]OnlyTheNewestIsHandledAgain`, and the action property
  `BrokerHandlesWhatIsDue`. An event handled before is handled again from the newest file, or under a younger time from statistics
  that are being appended to (`IsAppendedTo`): the newline gives an old event a new time before the next event follows, and for good when the
  client dies in between. Events of both kinds are written once and are in one file (`FilesInv`), statistics going back and
  forth between two names; `BrokerInv` says that the file of the broker's entry only gets younger and a published one is
  there (the first property), that nothing handled is younger than the newest time it knows and an event keeps its time but for that newline (the second), and
  that what is due is handled or ahead in the scan (the third).
- `VcsExecution_proofs`: `[]TypeOK`, `[]HistoryIsTheCorpus`,
  `[]SeenIsTheInputs`, `[]OnlyNovelIsKept`, for both executors, with any number of orphans and restarts; its first lemmas are
  about `CoverageFeedback`. The key is that a report lying in the directory is either the
  running input's own or has been merged (`SInv`): evaluating it again finds
  nothing new. This needs that *every* metric is merged at *every* evaluation, which is why the
  mutant `MergedFast` breaks it, and that a restarted client has a directory of its own, which is
  why `RestartInPlace` does. `ReportsNeverShrink`, an action property, follows from the score being the size of a history
  that only grows (`ReportedInv`).
- `HWMinimizerScheduler_proofs`: `[]TypeOK`, `[]FavoredCoverTheMaps`, and that no id is favored twice
  (`FavoredAtMostOnce`, which no run checks: it follows from the shape of the loop). The
  loop invariant (`LoopInv`): what the ids taken so far cover is in the accumulated map, and
  an id that was left out had nothing that was not.
- `VerdiShMap_proofs`: `[]HistoryIsTheReads`, `[]OnlyNewBitsAreKept`, `[]ObservedIsTheDatabase`, `[]RatioIsOfTheHistory` and `[]TypeOK`, for every
  layout of the database, whether the map has room for all of it or not. `MapInv`: the count, once written, is above every bit, so
  that a merge that stops there misses none. `ReadInv`, for `ObservedIsTheDatabase`: the map has exactly the bits of the
  database below the reader's place and below `room`, which needs that the bits of different blocks are apart: a block's first bit is the sum
  of the blocks before it (`FirstBit`), so this is by induction over the blocks.
- There too, of the chipyard fuzzer: `ChipyardImplementsShMap` shows that `ChipyardSpec`
  implements `VerdiShMap!Spec`: every step of an execution is one of the observer's and the feedback's, or
  leaves their variables alone, so that all of these hold of it (`ChipyardCoverageHolds`). `[]TracesAreOfTheProgram`
  follows from `LogInv`: at each stage the logs are beginnings of what this program
  commits, whatever lay in the files before; and parsing the beginning of a log gives a beginning of the trace.
- `VerilatorExecution_proofs`: `[]KeptForItsOwnCounts`, `[]NotTheSameAgain`. `InPlace` says of each stage that a report that
  can be read is the running input's own or has nothing above the history, and that the map is of it; `LastKept` that the
  history is the last map kept, since the feedback replaces it.
- `ISAScheduledMutator_proofs`, of `DisasDataTable`: `[]LookupsAreCurrent`, `[]PanicsOnlyForTheRemoved`,
  `[]BranchesLeadToTheirTargets`, for programs of any length and any number of edits. `TableInv`: an id is in the table
  once, every branch has a target, and the cached map is right whenever it is marked so; `FreshInv` (for every origin but
  `from_elf`, which hands out ids again): no id is above `cur_id`, and a target is there or was removed; `WrittenInv`:
  what was written is of this table. Lemmas say what the order of safe code and the sums of sizes are, so that the
  distance in the code that is written is the offset given to the branch.
- There too, of `ISAScheduledMutator`: `[]SizeIsKept`, `[]PanicsOnlyOnSeeds`, and `BranchesOfTheInputAreKept` in every state
  with `SizeOf(table) <= HalfI16`. The condition is the code's: beyond 32 KiB `as i16` may cut a distance to one that
  fits a compressed branch, and the property fails (see above). `LoadedInv`: the program that was read is still in the table under its
  ids, and its branches lead to the ids they led to; `BranchingInv`, `WritingInv`: so they do while branches are added
  and in what is written and read back.
- There too, of `Encodings`, whose cases the run bounds and the theorems do not. `ReadersAlwaysDivideAlike` proves
  `ReadersDivideAlike` for programs of instructions of the table of any length and for any bytes. A reader is a
  function from the places of the string to what is read from there on (`ReadFrom`): by induction from the end
  (`DownInduction`) for two readers of the same bytes, and along a program for one of its bytes, in which every
  instruction lies at a place of its own (`IsLaid`) and is the first thing read there (`AreReadThere`). The first instruction that
  is misread gives another program, of which what comes after is of no concern. `WhateverTheOperands` proves
  `EveryBuiltWordIsReadAgain` for all operands, and `BuiltIsWritten` that what is built is what the first theorem is
  about. `SafeIsExact` proves `SafeIfAndOnlyIfExact` for every integer: each field of a word holds some bits of the
  offset and no other (`Holds`), so the offset is what the fields read, plus its lowest bit, plus what is above the sign
  (`FieldOfOne` to `FieldOfTen`), and the range check is that these two are nothing more than the sign
  (`SignedIsExact`). `BranchesComeBack` proves `BranchesAreWrittenAsTheyWere` for every word that an entry of the table
  matches, and `AtAnyAddress` for every address (the run takes one): each part of a word that a text shows is written
  to the same bits again (`PlacedAgain`, from which `BranchAgain`, `JumpAndLinkAgain`, `JumpAgain` and `IfZeroAgain`),
  and the bits that no part holds are those that the table and the generator have fixed. For each entry both texts are
  followed through `translate_format`, `format_args` and `process_branch` (`BranchIsKept` and the lemmas after it,
  `EveryEntryIsKept`): `CofiType` gives the branch that the short form stands for, and the types are the same exactly if the text
  of `spike-dasm` is not a `jalr` of one argument (`AlikeButForALink`, `OnlyJalrLosesALink`). The text of `objdump` is claimed to be read
  only where its target is a `u32` (`ReadUnlessBeyond`).

The table `INSTRUCTIONS` is a constant of the code. What the proofs use of it is `ProfileAssumption` in `CpuProfile`: an entry's
fixed bits and its operands lie in its length and apart from each other, and the two lowest bits tell
the length. `BranchAssumption` in `Dasm` is about ten entries, those of the branches that are written again: what
the table has fixed of them is what the generator writes whatever the operands are. TLC evaluates both,
entry by entry, in the run `Mutator`.

*Induction.* The induction theorems of the library take an operator, which the provers cannot
instantiate. `SetInduction` states induction over a set of numbers, from `WFMin` of `WellFoundedInduction`: a set that has 0, and with a
number the next, has all. With the set as a witness it proves that a recursive *function* has a solution
and what that solves (`Addresses`, `InOrder`, `FirstBit`, `ReadFrom`, `Part`), which is why these are functions and not `RECURSIVE` operators or
`SelectSeq`.

`PublishedStays` is in no run, where it would only repeat a part of `ImplementsExchange`. The theorems named `Invariance`,
`TableInvariance`, `BrokerInvariance` and so on state the inductive invariants.

Only model-checked:

- liveness, `ScansEnd`, `BrokerScansEnd`, `LocksAreReleased`, `MonitorSettlesOnNewest` and the three `ExecutionsEnd`: liveness under
  fairness is beyond TLAPS as installed;
- the three disagreements, of which each is a trace.

## What is not modelled

Not used by any fuzzer of the repository, or without behaviour of their own: the transferred feedback (a flag),
the differential executor and feedback of the cva6 fuzzer, whose comparison is commented out,
`mutational.rs` (no `mod` names it), the ELF reader and the records of CPU states (file formats), the
constructors of `DasmInstruction` and the functions of `cpu_profile.rs` that make one
instruction each, its CSR numbers, and the Verilator fuzzer with software coverage, whose observers and
feedbacks are LibAFL's own. Out of a model's reach: the C++ and SystemVerilog test benches but for when they end and write their report, the
front ends' processes (`spike-dasm`, `objdump`), the generator of the profile, build scripts,
documentation and plots. The cycle feedback is on the plan.

In the modelled parts: the text of events and reports, printing, command line
arguments, the `serialize_bytes` build (whose files mix two encodings), clock skew
between hosts, and an error return of `process_execution` in the sync stage, which ends the
client like any crash.

## Plan

1. *A campaign*: clients over `TestcaseExchange` with the histories of `CoverageFeedback`, which converge as far as
   nothing is skipped; a consequence of `ExchangeImplemented` and `HistoryAlwaysTheCorpus`.
2. *Feedbacks that remain*: the cycle feedback and its proxy name.
