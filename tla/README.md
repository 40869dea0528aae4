# A TLA+ verification of Meson

This directory specifies parts of Meson (`src/mesonbuild/`) in TLA+, checks them
with TLC on small instances and proves their main invariants with TLAPS for
every instance. It covers the parts with state that is shared, survives a command
or depends on an order nobody fixes: the scheduler of `meson test` and the
results of its tests, the build directory, the option store, subprojects and
wraps, dependency lookup, compiler argument lists and Cargo features.

`PROJECT.json` is the index: components, runs, mutants, the source lines every
definition translates, findings, hazards and theorems.

## The system

A Meson command is a process. It reads a source tree, keeps what it learns in a
build directory and leaves a file for a build tool there. The parts, by what
makes each of them hard:

| part | state | operations | what is hard |
|---|---|---|---|
| test harness (`mtest.py`) | semaphore, deque of futures, `running_tests`, results, child processes | create, run, time out, kill, cancel, report | callbacks, timeouts and signals interleave in one event loop; children ignore signals |
| test protocols (`mtest.py`) | TAP parser state, `TestRun.res` | one line of output, completion | three writers of one result; malformed streams |
| build directory (`msetup.py`, `coredata.py`, `cmdline.py`, `mconf.py`, `build.py`, `utils/platform.py`) | `coredata.dat`, its `.prev` and `~`, `build.dat`, `build.ninja`, `cmd_line.txt`, `meson.lock` | setup, reconfigure, wipe, configure | five files written one after the other; errors, Ctrl-C, kills; other commands |
| option store (`options.py`) | options, augments, pending options | `project()`, `subproject()`, `configure` | priority depends on the order of calls over several invocations |
| argument lists (`arglist.py`) | container, `pre`, `post`, a dirty flag | append, extend, read | lazy merging must equal eager appending |
| wrap resolver (`wrap/wrap.py`) | subprojects directory, package cache, `.wraplock` | resolve, download, unpack, patch | failures and kills between steps; concurrent commands; retries |
| subproject commands (`msubprojects.py`) | the subprojects directory, git repositories in it | download, update, purge | they write beside the resolver, without its lock |
| dependency lookup (`interpreter/`, `coredata.py`) | overrides, cache, configured subprojects | `dependency()`, `subproject()` | undo of a failed subproject; a cache older than the system |
| installer (`minstall.py`) | destination tree, install log | install, `--only-changed`, uninstall | a kill between removal and copy |
| cargo resolver (`cargo/interpreter.py`) | features and dependencies per package and machine | enable a feature, add a dependency | mutual recursion, deferred features |
| interpreter, backends, compilers, modules, converters | a sequential evaluation | | computation and text, little state that outlives a call |

They interact through the build directory (`coredata.dat` carries the option
store and the dependency cache from one invocation to the next), through the
subprojects directory and through the interpreter, which calls the option store,
the resolver and the dependency lookup. The harness reads `build.dat` and the
test list from the build directory and is otherwise on its own.

`PROJECT.json` lists 27 components, those that are not modelled with the reason,
and the hazards at the line where each one bites.

## Modules

| module | what it is |
|---|---|
| `TestHarness` | `TestHarness._run_tests`, `run_test`, the handlers, `TestSubprocess.wait` and `_kill` |
| `TestHarness_proof` | types and slots; deque and dictionary, serial tests, whom Ctrl-C interrupts; results, exit status, interruption |
| `TestResults` | one test: the TAP and Rust parsers, `wait()` and the `complete()` methods |
| `TestResults_proof` | what a TAP stream means, and what a result is worth |
| `BuildDir` | the four commands that write the build directory |
| `BuildDir_proof` | types, the lock, the content of the files; `cmd_line.txt` and `coredata.dat` when one command runs at a time |
| `OptionStore` | one option through setup, configure and reconfigure |
| `OptionStore_proof` | the inductive invariant, what each operation does to a store, and the commands |
| `OptionStoreRuns_proof` | extends it: the evaluation of the build files, and the theorems |
| `WrapResolver` | `Resolver.resolve()` on one subproject, step by step |
| `Subprojects` | extends it with setup and the subprojects commands around it |
| `Subprojects_proof` | the lock, the writer of the tree, and what is in the tree |
| `Dependencies` | `dependency()`, `subproject()`, overrides and the dependency cache |
| `Dependencies_proof` | the stack of interpreters, their Builds and the cache |
| `ArgOrder` | lists of compiler arguments: what overrides what, and in which order |
| `ArgList` | what a list of compiler arguments promises |
| `CompilerArgs` | the lazy implementation of it in `arglist.py` |
| `CompilerArgs_proof` | that it implements `ArgList`, and that the newest argument wins |
| `CargoFeatures` | the recursion of the Cargo resolver |

`MCTestResults`, `MCOptionStore`, `MCSubprojects`, `MCDependencies`,
`MCCompilerArgs` and `MCCargoFeatures` define the constants of the runs that a
`.cfg` cannot write. The other runs need none: their constants are sets, numbers
and model values.

### TestHarness

One asyncio event loop runs the main coroutine, one task per test, done-callbacks
and signal handlers. An action is what one of them does between two points where
it may yield. `main` and `next` are the program counter and loop index of
`_run_tests`; `phase[t]` is where the task of test `t` waits:

| phase | the task is |
|---|---|
| `queued` | waiting for the semaphore |
| `starting` | in `create_subprocess_exec` |
| `running` | in `complete_all` of `wait()` |
| `term`, `kill`, `last` | in one of the three waits of `_kill()` |
| `collect` | waiting for the parser and the readers, before `complete()` |
| `ended`, `gone` | done, before and after its done-callback |

`futures` is the deque in its order, `running` the keys of `running_tests`,
`sem` the semaphore. `cancelled[t]` is a requested and undelivered cancellation:
`Task.cancel()` only schedules it, and `Cancel` delivers it where the task waits.
`leader` and `helper` are the test's own process and a child that keeps its pipe.

| action | code |
|---|---|
| `Create`, `AwaitAll`, `DrainDone`, `SerialDone`, `FinalDone` | the loop of `_run_tests` |
| `MainAbort`, `AbortDone` | an exception leaves it; `asyncio.run` cancels the rest |
| `sigint_handler`, `sigterm_handler`, `cancel_one_test`, `cancel_all_tests` | the functions of that name |
| `Skip`, `Start`, `RunSkip` | `run_test` after it has its slot |
| `Spawn`, `SpawnFails` | `create_subprocess_exec` |
| `Finish`, `FinishParsed`, `Collected` | the end of `wait()`, the results, `process_test_result`, `--maxfail` |
| `Timeout`, `Escalate`, `Killed` | the timer and `_kill()` |
| `Cancel` | `CancelledError` at the await point |
| `CancelSwallowed` | `read_decode` catches the one passed on to it while the output is collected: the result is recorded |
| `test_done` | the done-callback |
| `LeaderExits`, `HelperExits` | the operating system |

Abstractions. What a test's output says is a choice from `Outcomes`. Time is not
modelled: a timer may fire whenever it is armed, and a third Ctrl-C may or may
not be within a second of the first. The interactive mode and Windows'
`taskkill` are left out, and so is a corner of `asyncio.wait_for` before Python
3.12, which could lose a cancellation that arrives together with the result.

### BuildDir

A process runs one command after another. `pc[p]` is its next read or write of
the directory, `me[p]` its local variables: the `-D` options (`opts`), the
`CoreData` it has in memory (`mem`), whether this is a first invocation
(`first`), the `coredata.dat` it found when it took the lock (`base`, used only
by a property and by `configure`'s test for a change) and a copy it made
(`copy`). All options together are one value.

`disk[f]` is a file's content: a value, `Missing`, or `Torn` between
`open(f, 'w')` and the write. So a file written in place has two steps
(`BuildSave` and `BuildDump`, `CmdLineOpen` and `CmdLineWrite`), one written
aside and renamed has them on another name, and a stop between them is seen by
whoever reads next. A write through an open file whose name was deleted goes
nowhere. A lock file is a number, so a deleted and a recreated `meson.lock` are
two files, as they are to `flock()`.

| action | code |
|---|---|
| `Begin`, `validate_dirs` | `run()`, `MesonApp.__init__`, `validate_dirs()` |
| `WipeRead`, `WipeDelete`, `WipeRestore`, `Interrupted` | the `--wipe` block and its `finally` |
| `Environment` | `Environment.__init__`, `create_new_coredata`, the start of `generate()` |
| `DirectoryLock` | `DirectoryLock.__enter__`, non-blocking |
| `Interpret` | `intr.run()` with the user's options |
| `SavePrev` ... `SaveReplace` | `coredata.save()` |
| `Generate`, `BuildSave`, `BuildDump`, `CmdLineOpen`, `CmdLineWrite`, `PostConfScripts` | the rest of `_generate()` |
| `Rollback` | its `except Exception` clause |
| `ConfLoad`, then `CmdLineOpen` and `SavePrev` ... | `mconf.run_impl()` |
| `Stopped` | a kill, or `KeyboardInterrupt`, which is not an `Exception` |

Every step that can raise has a disjunct that does, through `Raise`, which knows
whether the `except` clause is around it. `Interrupted` is both a Ctrl-C and an
`OSError` while `--wipe` deletes; its `finally` clause runs in either case.

Abstractions. The options are one value, so an error in one of several options
is not told apart; `-U`, machine files, `--clearcache`, genvslite and a
`coredata.dat` of another version are left out. `build.ninja~` is private to the
process that holds the lock and its rename is one step.

### TestResults

One test of any of the three kinds of protocol (`exitcode` also stands for
`gtest`, which inherits its verdict). A line of output is what its regular
expression makes of it, so a stream is a sequence of `ok`, `not ok`, plan,
version, YAML, bailout and other lines. `tap` holds the variables of `TAPParser`
and of `TestRunTAP.parse`; `parser`, `prog` and `wait` are the parser task, the
program and `TestSubprocess.wait`, which interleave; `res` is the `TestRun.res`
they all write. `MeaningOfStream` is the reference: it is defined on the whole
stream, without the parser's state.

`TestHarness` abstracts what this module computes to a choice from `Outcomes`.

### OptionStore

A behaviour follows one option name, of one of four kinds: builtin, read-only,
compiler option (exists once a language is added) and project option (declared
in option files). A key is then what stands left of the colon. The state is the
`OptionStore` of the running command, the command line options it remembers,
and what `coredata.dat` and `cmd_line.txt` hold between commands. A store is a
record and each method of the class an operator from stores to stores, with `ok`
for "has not raised".

| action | code |
|---|---|
| `Setup`, `Reconfigure`, `Configure` | the three commands, `-D` and `-U` included |
| `func_project`, `do_subproject` | `project()` and `subproject()` with `initialize_from_*`; a subproject that raises half way through its options is disabled, and the store stays as it then is. To name the subproject itself in `default_options` raises |
| `add_languages` | the options of a language, late |
| `Finish` | the end of `_generate()`, which saves |
| `Edit` | someone edits an option file between commands |

Abstractions: two machines, `prefix` and the options that depend on it,
`buildtype`, deprecated options and `forced_options` are left out.

### WrapResolver and Subprojects

One subproject directory, one wrap file that goes through revisions, and
several processes. `tree` is the directory: which files are there, of which
revision, what of the patch is applied, whether `resolve()` would find a build
file, and the hash kept in it. Every place where the directory is half made is a
state between two actions, so that a kill or a command that takes no lock meets
it: `unpack` and `unpacked`, `clone` and `checkout`, `apply_patch` and `patched`,
`rmtree`. `download` has the retries of `get_data_with_backoff` and the fallback
URL. `Subprojects` adds the runners of `meson subprojects` and `update_wrapdb`.
Network, archives and git are external: what they may answer is a choice. An
archive or a patch is downloaded, or, without a URL, lies in `packagefiles`. The
lock file can be opened: where it cannot, `resolve()` goes on without the lock. A
git wrap has a URL and a revision; `update_git` returns at once without them.

`cut` is history: it is set when a fetch is left half done, or two processes
write the tree at once, and reset when the tree is removed. The properties
that name it are about the other behaviours, and the hazards say what happens in
these. `CommandsEnd` does not name it.

Left out: hg and svn, the thread pool of the runners (each works on its own
subproject), `foreach`, `checkout`, `packagefiles --save`.

### Dependencies

The interpreters of a run are a stack. Each has a copy of the caller's Build
(`dependency_overrides`), while the dictionary `subprojects` is shared, as in
the code; `Raise` unwinds to the innermost subproject that is not required and
undoes both. `lookup` is the sequence of candidates of
`dependencyfallbacks.py`; a lookup that starts a subproject waits in its frame
(`LookupReturns`). `deps` is the cache, kept in `saved` from one run to the next,
while the system, `pkg_config_path` and `wrap_mode` change. What the files call is
arbitrary. An identifier stands for a name with the keyword arguments that are
part of it. `override_dependency` stands for the method of `meson` and that of the
modules; on a name that has an override it raises, or, for the variants with
`static` that it adds itself, does nothing. The copy that
`dependency()` makes for `include_type` is the same dependency here. Left out: `force_fallback_for`, the two machines, CMake and Cargo
subprojects.

### ArgOrder, ArgList and CompilerArgs

`ArgList` is the promise: one list, and every operation acts on it at once, in
the order that `ArgOrder` defines.
`CompilerArgs` has `container`, `pre`, `post` and `needs_override_check`, and
merges on the first read. An argument is what `_can_dedup` and `_should_prepend`
make of it; `__iadd__` does not look for a UNIQUE argument among those it is about
to prepend, and `New` says so too. A loop is a recursive function (`Fold`) of its
body. `MergesAsIfAtOnce` is the refinement: `ArgList` with what a read would
show (`View`) as its list. `op` records the last operation so that the abstract
and the detailed step can be compared.

### CargoFeatures

`todo` is the call stack of `_prepare_package`, `_add_dependency` and
`_enable_feature`, one call per step, and `cfg` the `PackageConfiguration` of each
package and machine. A manifest has the crate types of its library, if it has one,
whether it has programs, and entries for dependencies, several of one name
included, each for a machine or all. `Least` is the reference: the least set of facts
closed under what the entries of the manifests say, as `_prepare_package` and
`_enable_feature` read them. Packages do not depend on each other in a cycle, which Cargo
forbids; features may. Workspaces, the choice of versions and the generated
syntax tree are left out.

## Runs

| run | module | instance | shows |
|---|---|---|---|
| `harness_ends` | `TestHarness` | a test with a timeout, one without a command, one without a timeout that forks, a serial one; two slots, three signals | `TypeOK`, `SlotsConserved`, `SerialAlone`, `RunningIsPrefix`, `RecordedIsReaped`, `LongestRunningFirst`, `NoSpawnOnceInterrupted`, `RunEnds` |
| `harness_maxfail` | `TestHarness` | two parallel tests twice (`--repeat=2`), `--maxfail=1`, one signal, failures and unexpected passes | `ExitCodeExplained`, `AllReported` |
| `test_results` | `MCTestResults` | all streams of five lines; programs of two lines with every end | `StreamIsUnderstood`, `GoodIsEarned`, `PassingIsComplete`, `KilledStaysKilled` |
| `builddir_locked` | `BuildDir` | two processes, three `--reconfigure`, one stop | `TypeOK`, `OneGenerator`, `CoreIntact`, `RollbackRestores`, `SuccessIsComplete` |
| `builddir_options` | `BuildDir` | one process, four of setup, reconfigure, configure | `WipeReproduces` |
| `builddir_wipe` | `BuildDir` | one process, four of all commands, two stops, failing deletions and scripts | `WipeAgrees`, `CmdLineSurvives` |
| `options` | `MCOptionStore` | two subprojects whose option files are equal at first, two values besides the default, three declarations; three settings, commands and edits, four for a builtin option | `TypeOK`, `DocumentedOrder`, `RemovedFollowsRoot`, `ValuesStay` |
| `subprojects` | `MCSubprojects` | two processes, three commands, two revisions; an archive with a fallback URL, one with a patch directory that brings the build file, a clone with a patch archive and a clone from a cached directory with a local patch archive | `TypeOK`, `RevisionIsKnown`, `ResolvedIsWhole`, `UpdateIsExact`, `CommandsEnd` |
| `dependencies` | `MCDependencies` | two subprojects, two names, four calls over any number of runs | `TypeOK`, `SameDependency`, `NothingOfAFailedSubproject`, `FoundIsMerged`, `CacheFollowsPath` |
| `compiler_args` | `MCCompilerArgs` | eight arguments, one or two of each kind; lists of four | `PendingOK`, `MergesAsIfAtOnce`, `NewestWins` |
| `cargo_features` | `MCCargoFeatures` | three packages with libraries, procedural macros or neither, all lists of up to three elements for one feature and two for another, native and cross | `ResultIsLeast` |
| `options_pinned` | `MCOptionStore` | as `options` | `PinnedStays` is violated |

Why the bounds are enough. In the harness the smallest interesting deque has one
future cancelled, one not and one still to be created behind a serial barrier:
three tests. Two repetitions of two tests are the fewest in which a failure of
the first repetition meets tasks of the second that exist already. Two slots are
the fewest with a choice of whom to interrupt, three signals the fewest that
reach `MAX_CTRLC`. A TAP stream of five lines has room for a version, a plan and
three tests, or a test with a YAML block and a late plan. In the build directory
one process can be stopped in one command, another meet its remains, and a third
command recover or fail on them: three commands for two processes, four where
`--wipe` comes in between. Two values are the fewest that tell old from new
options. For an option, three events are a setting at setup, a command and an
edit or a second command. Of subprojects, two revisions tell a stale tree from a
current one, and a third command can use what two overlapping ones left. Four
calls are a subproject inside a subproject, an override there and a failure or a
use of it, or one lookup in each of several runs. The theorems remove the bounds
for the safety properties they cover.

`options` uses the symmetry of the two subprojects, and has no liveness property.
The views of `compiler_args` and `dependencies` hide only what no step depends on:
the record of the last operation; what `Setup` will choose again, and the search
path when nothing was or can be found by pkg-config.

`MayKill` is `FALSE` in the runs of `BuildDir`: a kill that runs no `finally` clause
in the middle of `--wipe`'s deletion loses `cmd_line.txt`, and nothing promises
that it would not. Ctrl-C and an error at the same place are in (`Interrupted`).

Each property of a passing run has a mutant, a definition changed as a plausible
bug would change it, with which TLC finds the property violated.

## Disagreements

`options_pinned` checks what `Builtin-options.md` says, that a subproject's
`subp:opt=value` from the command line ranks above everything else. It does not:
`meson configure -Dsub:opt=v` with the value the subproject inherits already is
written to `cmd_line.txt` and not to `coredata.dat`, and a later `-Dopt=w` changes
the subproject too. The program does the same.

Other sentences that the models contradict. There is no run for them; the models
have the steps, and the hazards in `PROJECT.json` give the lines.

| sentence | what happens |
|---|---|
| "actually kills the process group, otherwise retry with a SIGKILL" (`mtest.py`) | a cancellation during the kill of a timed out test ends the task before SIGKILL |
| `--maxfail`: "Number of failing tests before aborting the test run" | a timeout does not count |
| "Some other Meson process is already using this build directory" | `--wipe` deletes the lock file without holding it: add `"wipe"` to `Kinds` in `builddir_locked.cfg` and `OneGenerator` fails |
| `--wipe` is "Useful when build directory got corrupted" | an empty `cmd_line.txt` makes it fail with a `KeyError`, as the program does |
| `--wipe` uses "the same options as passed when configuring" | after a failed `--wipe`, a plain setup writes a `cmd_line.txt` without the options it configured with; so does the program |
| "If you build this project on its own, this option behaves like usual" (`Build-options.md`, of `yield`) | an edit of the option file that adds a choice to such an option ends `--reconfigure` in an `AttributeError`; so does the program |
| "build patches are supported for any wrap modes, including wrap-git" (`Wrap-dependency-system-manual.md`) | `subprojects update` without `--reset`, the overlay of a wrap-git subproject goes into `git stash` and stays there; so with the program |

And what no document promises, but a reader may expect:

- A child that ignores SIGTERM outlives a timed out test whose own process
  ended on SIGTERM: `_kill()` looks at the leader only.
- A Rust test program that crashes after its `ok` lines passes: the exit status
  does not reach its result. `ok 1`, `ok 1`, `ok 3` is a complete TAP stream.
- Ctrl-C in the backend of a first setup leaves `coredata.dat` without
  `build.ninja`, since `KeyboardInterrupt` takes no rollback.
- A `--wipe` interrupted between `coredata.dat` and its `.prev` leaves an old
  `.prev`, which a first setup that fails renames to `coredata.dat`.
- `meson configure`, and `meson setup -D` on a configured directory, save
  `coredata.dat` without the lock, and `--reconfigure` loads it before taking the
  lock. This is why `builddir_locked` runs `--reconfigure` only.
- A tree that was being unpacked or patched when the process was killed, or whose
  archive could not be unpacked, is accepted by the next `resolve()` if it has a
  build file. `subprojects update` writes the tree without the lock.
- A cache entry keeps the type of the first dependency stored under its key, so
  one that pkg-config found later is returned for another `pkg_config_path`.
- `subproject()` with a disabled feature hides a subproject that was configured
  before, while its dependencies stay in use.
- `-Usub:opt` leaves an older setting in force that waits for a language another
  project has added meanwhile.

## Fairness

**Harness.** `RunEnds` allows one way not to end: a test without a timeout hangs
and nobody interrupts the run. `FairSpec` assumes weak fairness of the main
coroutine and of every task: the event loop runs each callback and timer that is
due, in order, so none is passed over for ever. It assumes that a process that
got SIGKILL ends. It does not assume that a test program ends by itself, that
SIGTERM has any effect or that anyone presses Ctrl-C. Weak fairness of
`TaskStep(t)` as a whole suffices, since a task's timer stays armed until another
step of the same task disarms it.

**Subprojects.** `CommandsEnd` assumes weak fairness of each process: a command
that can go on does. Downloads have a timeout and git is taken to return.
Nothing is assumed of who gets `.wraplock` first: with a finite number of
commands the holder always gives it back, killed or not, since the operating
system releases `flock()`.

The other modules have no fairness: commands may stop anywhere, and the promises
are about what they leave.

## Proofs

37 of the 40 properties of the passing runs are theorems, for every value of the
constants that satisfies the named assumptions of the module: any number of
tests, processes, slots, signals, commands, stops, subprojects, names, lines and
revisions. The bounds on the number of events (`MaxCalls`, `MaxCommands`, ...) are
arbitrary naturals there. Each proof has an inductive invariant, a lemma per
action (or per kind of change, where actions share one) and a last step in
temporal logic. Three remain with TLC, see below.

**Harness.** `ConstantsAssumption` asks for at least one slot and, as
`SingleTestRunner.__init__` does, that with one slot every test is serial.

- `TypeCorrect` and `SlotsAreConserved` rest on `BaseInv`. A slot is free or held
  by a task whose phase is in `Holding`; the lemmas about entering and leaving
  that set carry the cardinality. `BaseInv` also says that the tasks that exist
  are those the loop has passed, and that `running` is within the deque.
- `RunningStaysPrefix` and `SerialRunsAlone` rest on `DequeInv`. The prefix
  property alone is not inductive: appending a new future behind cancelled ones
  would break it. It holds because a task is created only while no future in the
  deque is cancelled: the main coroutine creates tasks without yielding after it
  last saw the deque empty (`LoopInv`). The deque must also have no duplicates
  and hold exactly the tasks that are not gone (or raised).
- `CtrlCPicksLongestRunning` is an action property. `OrderInv` says that the
  futures not yet cancelled are in the order of their creation, in front of the
  cancelled ones, and that the semaphore was given out in that order: so the
  first key of `running_tests` is the test that has been running longest.
- `InterruptedStaysQuiet` is an action property. Its invariant says that once
  `interrupted` is set, every task about to spawn has been told to stop.
- `ResultsAreReaped` and `ExitCodeIsExplained` rest on `ResultInv`: output is
  collected only for a program that is gone or given up; the list of failures is
  empty exactly if no bad result was recorded; and `--maxfail` is reached only
  with a listed failure, which is why the interruptions it causes may be left out
  of the list.
- `EverythingIsReported` rests on `ReportInv`: a task that returned has recorded
  a result unless the run no longer wanted one, the loop has created all tasks
  before the coroutine waits for the last, and nothing is left when that ends.

**Test results.** `ConstantsAssumption` gives the lines, statuses and bounds their
types.

- `TapIsUnderstood` and `TapPassingIsComplete` relate the parser, which keeps a
  dozen variables and sees a line at a time, to `MeaningOfStream`, which is a
  formula about positions of the whole stream. `TapInv` says of every variable what it
  is in terms of the lines read. For each notion the formula uses (the declared
  version, being in a YAML block, the number of a test, the first plan) a lemma
  says what one more line does to it; facts of the form "the last position such
  that" come from the existence of least and greatest elements.
- `ResultIsEarned` and `KilledIsFinal` rest on `ControlInv`: until `complete()`,
  the result is that of `wait()`, or the parser's, or still open.

**Build directory.** `ConstantsAssumption` asks for distinct markers and a finite
set of processes.

- `TypeCorrect` for all four commands: `TypeInv` adds to the types which command
  can be at which step, needed because a process at a saving step holds the lock
  unless it is `configure`.
- `LockExcludes`: without `--wipe` at most one process is in `_generate()`.
  `LockInv` says that every held lock is on the present lock file, which is what
  `--wipe` breaks (see Disagreements).
- `CoreStaysIntact`, `FailedRestores` and `SuccessCompletes` are for commands
  that take the lock (`LockingKinds`). `CoreInv` says what the process in
  `_generate()` knows of each file at each step (`FilesAt`), and that there is no
  `coredata.dat.prev` without a `coredata.dat` (`CoreFiles`). The second part is
  what makes the rollback of a first invocation right, and is what an interrupted
  `--wipe` breaks.

Three more are about one command at a time (`OneAtATime`: at most one
process), as in the runs `builddir_wipe` and `builddir_options`. The
hypothesis is needed, since `configure` and `--wipe` write without the lock.

- `CmdLineIsRestored`: `cmd_line.txt`, once written, is there whenever no command
  runs. Hypothesis `~MayKill`, see Runs. `Kept` says that what `--wipe` has
  deleted of it, it has copied.
- `WipeLeavesAgreement`: after a `--wipe` that succeeded, `cmd_line.txt` and
  `coredata.dat` have the same options, whatever stopped commands left before.
  `WipeAt` follows one wipe: it has taken over the options of the `cmd_line.txt`
  it puts back and finds no `coredata.dat`, so it configures afresh with them.
- `WipeWouldReproduce`: between commands the two files agree. It has the
  hypotheses that no command is `--wipe`, none is stopped and no
  post-configuration script fails. Each is needed: after a failed `--wipe` a
  plain setup writes a shorter `cmd_line.txt` (see Disagreements), a stop falls
  between the writes of the two files, and a script fails when `cmd_line.txt` is
  written already and is not rolled back. `setup` writes `coredata.dat` first
  and `configure` writes it last, so the invariant has a part for each.

**Subprojects.** `ConstantsAssumption` asks for a finite set of processes, at least
one revision, and wraps of the modelled form. All theorems are about all
commands, with kills.

- `TypeCorrect`, `HashTellsRevision`, and the action properties
  `ResolveHandsOverAll` and `UpdateReachesRevision` rest on one invariant.
  `LockInv` says who holds `.wraplock` at which step, `OneWriter` that a tree
  whose history is clean has one writer, and `TreeInv` what the tree looks like at each
  step of the writer, and when there is none. `OneWriter` is not a matter of the lock alone,
  since `update` and `purge` take none: it holds because `cut` records the moment
  a second writer appears, which `TwoWriters` and `CleanHistory` show.
- The archive that is unpacked is the one asked for although the check of its
  hash and the unpacking are two steps (`ArchiveInv`): an archive of the source
  enters the cache only under the lock, so others can at most purge it meanwhile.

**Dependencies.** `ProjectsAssumption`, `NamesAssumption` and `InstalledAssumption`
ask that the markers are no project or name, that `dependency()` is called with
non-empty lists, and that the system offers a name's dependency under that name.

- `TypeCorrect`, `ProjectsAgree`, `FailureLeavesNothing`,
  `DictionaryAgreesWithBuilds` and `CacheIsPerPath` rest on one invariant of the
  stack of interpreters. None of the properties is inductive: they speak of the
  running project, and a failure makes one run again that has waited.
- `Snapshots` says that the sets of subprojects known at the start of each
  interpreter grow with the stack, as do the overrides. `Known(i)` is the set
  that the `i`-th project would be left with if the one above it failed; `Sources`
  and `Merged` state the two properties about failures for every project of the
  stack with that set, so that `forget` and `discard` find them true.
- `Recorded` says that what a project found is in its overrides, which only
  grow: so two projects of one run agree on a name.
- `Current` and `CacheInv` say that what pkg-config found is under its path in the
  cache, if the entry was made for pkg-config (see Disagreements for those that
  were not).

**Option store.** `KeysAssumption`, `ValuesAssumption` and `FilesAssumption` ask
that the markers are distinct from keys, values and declarations, and that a
declaration has a default and choices among the values (the default need not be
one of the choices). `BoundAssumption` takes any bound on the events. The sets of
subprojects, values and declarations are arbitrary.

- `TypeCorrect`, `RemovedFollows`, `OrderIsDocumented` and the action property
  `EvaluationKeepsValues` rest on one invariant. `WF` says what the kind of the
  option makes of a store, for example that a builtin option has augments only
  and a project option none. `DroppedOK` says that a dropped setting is in no
  table, neither as an augment nor waiting. `Agree` says that the options are as
  the option files declare them while nobody has edited one: without it
  `update_project_options` could replace an option, and with it the value.
- `DocumentedOrder` speaks of the projects that are settled. It is not inductive,
  since a value can wait in two places. `Body` adds what waits: `TopOK` says that
  the toplevel value is documented, in the store or in `pending_options`;
  `ConfiguredOK` says the same of a configured subproject, whose documented value
  is the toplevel one if it has neither an augment nor a waiting setting;
  `UntouchedOK` says that of a subproject not evaluated yet the store knows exactly
  what other projects said (`pending_subproject_options`). A subproject that
  raised is in neither class, and nothing is claimed of it until a later run.
- For every operation a lemma gives its effect as one predicate (`SetResult`,
  `AddResult`, `UpdateResult`, `TopResult`, `InitResult`): what it sets, what it
  leaves alone (`Frame`), and that the result is well formed. The actions are
  proved from these without expanding the operations again.

**Compiler arguments.** `ArgsAssumption` gives the classification of arguments its
type, nothing more: any argument may be of any kind, prepended or not.

- `FlagIsUp` is `PendingOK`, which is inductive.
- `MergeMayWait` is the refinement: a read shows `Shown`, which each operation is
  shown to change as `ArgList` says (`IaddIs`, `RaddIs`, `ExtendDirectIs`,
  `ExtendLflagsIs`), and a flush not to change. The heart is `ShownSum`: to collect
  more arguments and merge later gives what merging before and then adding gives.
  It rests on what the loops do to a concatenation of lists (`FilterConcat`,
  `KeepFirstConcat`, `KeepLastConcat`).
- `NewestOverride` is an action property. The invariant `IInv` also says that the
  list is right for the last `+=`, since a flush may follow it.
- The loops are recursive functions, and what they compute is shown for lists of
  any length. The library's induction theorems cannot be used here, so `Induction`
  takes a set `T` of lists instead of a predicate: if it has the empty list and is
  closed under appending, it has all, as the shortest list outside of it would
  otherwise have a shorter one (`Least`).

**Only model-checked.**

- `RunEnds` and `CommandsEnd` are liveness properties, out of the prover's reach.
- `ResultIsLeast`: the reference is a least fixed point computed by a recursive
  operator, in a module whose definitions the prover does not read.

## Not modelled

- The installer and the uninstaller: a sequence of copies by library calls. A
  kill during a copy leaves a truncated file that `--only-changed` preserves, and
  `--only-changed` logs what it preserves only as a comment, so that `uninstall`
  leaves those files; a model would say no more than these two sentences.
- The build description (`build.py`), the depfile reader and version comparison:
  computations without state. The copy and merge of a Build are in `Dependencies`.
- Interpreter, compilers, linkers, backends, language modules, CMake translation,
  formatter, rewriter, converters, hermetic platforms: sequential computations on
  text and tables whose correctness is that of their output, which a state model
  does not reach. They are most of the lines of the program.
- Loggers, introspection, the other commands and the helper scripts: one pass
  that prints or starts a program.

The composition that is open is that of `OptionStore` and `BuildDir`: the first
takes the saving of `coredata.dat` and `cmd_line.txt` as one step, the second has
its steps and takes all options as one value. Likewise `Dependencies` takes the
fetching of a subproject as one step that may fail, which `Subprojects` details.

## Running

    tlc -workers 2 -config builddir_locked.cfg BuildDir
    tlapm BuildDir_proof.tla

The table of runs names the module of each. The longest TLC runs take three
to four minutes, and the longest proof modules about twenty.
