---------------------------- MODULE TestHarness ----------------------------
(***************************************************************************)
(* `meson test`: TestHarness._run_tests and everything it awaits           *)
(* (mesonbuild/mtest.py).                                                  *)
(*                                                                         *)
(* One asyncio event loop runs the main coroutine, one task per runner,    *)
(* the done-callbacks of those tasks and the SIGINT/SIGTERM handlers; the  *)
(* test programs are operating-system processes.  An action below is what  *)
(* one of them does between two points where it may yield to the loop.     *)
(***************************************************************************)
EXTENDS Naturals, Sequences, FiniteSets

CONSTANTS
  N,             \* number of runners: selected tests times --repeat
  Serial,        \* runners with is_parallel = False
  Parsed,        \* runners whose output is parsed (tap, rust): needs_parsing
  NoCmd,         \* runners without a command (cross built, no exe wrapper)
  Limited,       \* runners with a timeout
  Forking,       \* runners whose program may leave a child on the pipe
  NumProcesses,  \* --num-processes, at most N (doit)
  MaxFail,       \* --maxfail, 0 to disable
  Repeating,     \* --repeat > 1
  Outcomes,      \* results a test that ends by itself may be given
  MaxSignals     \* bound on the signals delivered to the harness

Runner == 1..N

\* deque.remove, given the position; as in SequencesExt, whose many definitions
\* every proof obligation would carry
RemoveAt(s, i) == SubSeq(s, 1, i - 1) \o SubSeq(s, i + 1, Len(s))

\* TestResult, without PENDING and RUNNING
Result == {"OK", "TIMEOUT", "INTERRUPT", "SKIP", "FAIL", "EXPECTEDFAIL",
           "UNEXPECTEDPASS", "ERROR", "IGNORED"}

is_bad == {"FAIL", "TIMEOUT", "INTERRUPT", "UNEXPECTEDPASS", "ERROR"}

MAX_CTRLC == 3

ASSUME ConstantsAssumption ==
  /\ N \in Nat
  /\ Serial \subseteq Runner
  /\ Parsed \subseteq Runner
  /\ NoCmd \subseteq Runner
  /\ Limited \subseteq Runner
  /\ Forking \subseteq Runner
  /\ NumProcesses \in Nat \ {0}
  /\ MaxFail \in Nat
  /\ Repeating \in BOOLEAN
  /\ Outcomes \subseteq Result \ {"TIMEOUT", "INTERRUPT"}
  /\ MaxSignals \in Nat
  /\ NumProcesses = 1 => Serial = Runner     \* SingleTestRunner.__init__

VARIABLES
  main,       \* where the main coroutine is
  next,       \* index of the next runner of its for loop
  phase,      \* where the task of each runner is
  fate,       \* how that task ended
  cancelled,  \* a cancellation was requested and not yet delivered
  why,        \* the except branch of wait() that is killing the test
  sem,        \* value of the semaphore
  futures,    \* deque of the futures not yet removed by test_done
  running,    \* keys of running_tests
  interrupted,
  ctrlc,      \* length of ctrlc_times
  recorded,   \* result given to process_test_result, "none" before
  collected,  \* collected_failures
  maxfail_reached,
  leader,     \* the test program's own process
  helper,     \* a child it left in its process group, on the same pipe
  doomed,     \* tests whose process group got SIGKILL
  stuck,      \* tests reported as "could not be killed"
  signals     \* signals delivered so far

taskVars == <<phase, fate, cancelled, why, sem>>
listVars == <<futures, running, interrupted>>
resultVars == <<recorded, collected, maxfail_reached>>
procVars == <<leader, helper, doomed, stuck>>
sigVars == <<ctrlc, signals>>
mainVars == <<main, next>>
vars == <<mainVars, taskVars, listVars, resultVars, procVars, sigVars>>

Proc == {"none", "alive", "dead"}

Killing == {"term", "kill", "last"}      \* the three waits of _kill
Holding == {"starting", "running", "collect"} \union Killing
Pending == {"queued"} \union Holding     \* the task is not done

\* tasks inside "async with semaphore"
Holders == {t \in Runner : phase[t] \in Holding}

fail_count ==
  Cardinality({t \in Runner : recorded[t] \in {"FAIL", "ERROR", "INTERRUPT"}})
unexpectedpass_count ==
  Cardinality({t \in Runner : recorded[t] = "UNEXPECTEDPASS"})
timeout_count == Cardinality({t \in Runner : recorded[t] = "TIMEOUT"})

total_failure_count == fail_count + unexpectedpass_count + timeout_count

\* what doit returns once _run_tests is over
ExitCode == IF total_failure_count > 0 THEN 1 ELSE 0

Init ==
  /\ main = "loop"
  /\ next = 1
  /\ phase = [t \in Runner |-> "none"]
  /\ fate = [t \in Runner |-> "none"]
  /\ cancelled = [t \in Runner |-> FALSE]
  /\ why = [t \in Runner |-> "none"]
  /\ sem = NumProcesses
  /\ futures = <<>>
  /\ running = {}
  /\ interrupted = FALSE
  /\ ctrlc = 0
  /\ recorded = [t \in Runner |-> "none"]
  /\ collected = {}
  /\ maxfail_reached = FALSE
  /\ leader = [t \in Runner |-> "none"]
  /\ helper = [t \in Runner |-> "none"]
  /\ doomed = {}
  /\ stuck = {}
  /\ signals = 0

-----------------------------------------------------------------------------
(* The main coroutine.  In "loop" it does not yield, so no task, callback *)
(* or handler takes a step there.                                         *)

Yielded == main # "loop"

StopRepeating == Repeating /\ fail_count > 0

\* mutant: a serial test does not wait for the tests before it
NoDrain == TRUE

\* a serial test is created once every earlier future is done
Drained == next \in Serial => futures = <<>>

\* ensure_future(run_test(runner)), futures.append, running_tests[future]
Create ==
  /\ main = "loop"
  /\ next <= N
  /\ Drained
  /\ phase' = [phase EXCEPT ![next] = "queued"]
  /\ futures' = Append(futures, next)
  /\ running' = running \union {next}
  /\ next' = next + 1
  /\ main' = IF next \in Serial THEN "serial"
             ELSE IF StopRepeating THEN "final" ELSE "loop"
  /\ UNCHANGED <<fate, cancelled, why, sem, interrupted, resultVars, procVars,
                 sigVars>>

\* await complete_all(futures), before a serial test or after the last one
AwaitAll ==
  /\ main = "loop"
  /\ \/ next \in Serial /\ futures # <<>> /\ main' = "drain"
     \/ next > N /\ main' = "final"
  /\ UNCHANGED <<next, taskVars, listVars, resultVars, procVars, sigVars>>

DrainDone ==
  /\ main = "drain"
  /\ futures = <<>>
  /\ main' = "loop"
  /\ UNCHANGED <<next, taskVars, listVars, resultVars, procVars, sigVars>>

\* await complete(future) of a serial test returns
SerialDone ==
  /\ main = "serial"
  /\ phase[next - 1] = "gone"
  /\ fate[next - 1] # "raised"
  /\ main' = IF StopRepeating THEN "final" ELSE "loop"
  /\ UNCHANGED <<next, taskVars, listVars, resultVars, procVars, sigVars>>

\* mutant: _run_tests does not wait for the last tests
FinalDoneEarly ==
  /\ main = "final"
  /\ main' = "done"
  /\ UNCHANGED <<next, taskVars, listVars, resultVars, procVars, sigVars>>

FinalDone ==
  /\ main = "final"
  /\ futures = <<>>
  /\ main' = "done"
  /\ UNCHANGED <<next, taskVars, listVars, resultVars, procVars, sigVars>>

\* A task raised: the exception leaves _run_tests, and asyncio.run cancels
\* whatever is still running.
MainAbort ==
  /\ main \in {"drain", "serial", "final"}
  /\ \E t \in Runner : phase[t] = "gone" /\ fate[t] = "raised"
  /\ main' = "abort"
  /\ cancelled' = [t \in Runner |-> cancelled[t] \/ phase[t] \in Pending]
  /\ UNCHANGED <<next, phase, fate, why, sem, listVars, resultVars, procVars,
                 sigVars>>

AbortDone ==
  /\ main = "abort"
  /\ \A t \in Runner : phase[t] \in {"none", "gone"}
  /\ main' = "failed"
  /\ UNCHANGED <<next, taskVars, listVars, resultVars, procVars, sigVars>>

Over == main \in {"done", "failed"}

Terminating == Over /\ UNCHANGED vars

-----------------------------------------------------------------------------
(* Cancellation *)

\* mutant: the future is looked at but not moved behind the others
cancel_in_place ==
  LET f == Head(futures)
  IN  /\ running' = running \ {f}
      /\ cancelled' = [cancelled EXCEPT ![f] = @ \/ phase[f] \in Pending]
      /\ UNCHANGED futures

\* mutant: pop from the right end of the deque
cancel_newest ==
  LET f == futures[Cardinality(running)]
  IN  /\ futures' = Append(RemoveAt(futures, Cardinality(running)), f)
      /\ running' = running \ {f}
      /\ cancelled' = [cancelled EXCEPT ![f] = @ \/ phase[f] \in Pending]

\* cancel_one_test: popleft, append, del running_tests[future], cancel
cancel_one_test ==
  LET f == Head(futures)
  IN  /\ futures' = Append(Tail(futures), f)
      /\ running' = running \ {f}
      /\ cancelled' = [cancelled EXCEPT ![f] = @ \/ phase[f] \in Pending]

\* mutant: the flag is set, the running tests are left alone
cancel_no_test(self) ==
  interrupted' = TRUE /\ UNCHANGED <<futures, running, cancelled>>

\* cancel_all_tests, called by the task self (0: by a signal handler).  The
\* loop pops one future for each key of running_tests.  A task that cancels
\* itself is at its last step: see ProcessResult.
cancel_all_tests(self) ==
  LET k == Cardinality(running)
  IN  /\ interrupted' = TRUE
      /\ futures' = SubSeq(futures, k + 1, Len(futures))
                      \o SubSeq(futures, 1, k)
      /\ running' = {}
      /\ cancelled' = [t \in Runner |->
             \/ cancelled[t]
             \/ t \in running /\ t # self /\ phase[t] \in Pending]

\* the handlers are installed while _run_tests is inside its try block
HandlersInstalled == main \in {"drain", "serial", "final"}

sigterm_handler ==
  /\ HandlersInstalled
  /\ signals < MaxSignals
  /\ ~interrupted
  /\ cancel_all_tests(0)
  /\ signals' = signals + 1
  /\ UNCHANGED <<mainVars, phase, fate, why, sem, resultVars, procVars, ctrlc>>

\* The third Ctrl-C within a second, or a Ctrl-C on its own
sigint_handler ==
  /\ HandlersInstalled
  /\ signals < MaxSignals
  /\ ~interrupted
  /\ ctrlc' = IF ctrlc < MAX_CTRLC THEN ctrlc + 1 ELSE MAX_CTRLC
  /\ signals' = signals + 1
  /\ \/ ctrlc' = MAX_CTRLC /\ cancel_all_tests(0)
     \/ running # {} /\ cancel_one_test /\ UNCHANGED interrupted
     \/ /\ running = {}
        /\ interrupted' = TRUE
        /\ UNCHANGED <<futures, running, cancelled>>
  /\ UNCHANGED <<mainVars, phase, fate, why, sem, resultVars, procVars>>

-----------------------------------------------------------------------------
(* run_test and what it awaits *)

\* mutants: the slot is not given back, or given back twice
EndTaskNoRelease(t, how, value) ==
  /\ phase' = [phase EXCEPT ![t] = "ended"]
  /\ fate' = [fate EXCEPT ![t] = how]
  /\ sem' = sem

\* mutant: the slot is given back twice
EndTaskTwice(t, how, value) ==
  /\ phase' = [phase EXCEPT ![t] = "ended"]
  /\ fate' = [fate EXCEPT ![t] = how]
  /\ sem' = value + 1

\* The task of t leaves "async with semaphore" (or never entered it)
EndTask(t, how, value) ==
  /\ phase' = [phase EXCEPT ![t] = "ended"]
  /\ fate' = [fate EXCEPT ![t] = how]
  /\ sem' = value

\* mutant: an interrupted test is never listed
is_bad_not_interrupt(res) == res \in is_bad \ {"INTERRUPT"}

is_bad_result(res) ==
  res \in is_bad /\ ~(res = "INTERRUPT" /\ maxfail_reached)

\* process_test_result and the --maxfail check, the end of run_test
ProcessResult(t, res, value) ==
  LET fails == fail_count
                 + (IF res \in {"FAIL", "ERROR", "INTERRUPT"} THEN 1 ELSE 0)
      reached == MaxFail > 0 /\ fails >= MaxFail /\ res \in is_bad
  IN  /\ recorded' = [recorded EXCEPT ![t] = res]
      /\ collected' = IF is_bad_result(res) THEN collected \union {t}
                                            ELSE collected
      /\ maxfail_reached' = (maxfail_reached \/ reached)
      /\ IF reached THEN cancel_all_tests(t)
                    ELSE UNCHANGED <<listVars, cancelled>>
      /\ EndTask(t, IF reached /\ t \in running THEN "cancelled" ELSE "returned",
                 value)

\* The semaphore wakes its waiters in the order in which they came
Acquirable(t) ==
  /\ Yielded
  /\ phase[t] = "queued"
  /\ ~cancelled[t]
  /\ sem > 0
  /\ \A u \in Runner : u < t => ~(phase[u] = "queued" /\ ~cancelled[u])

\* mutant: tests created after an interruption are run
NotWantedRepeat == StopRepeating

NotWanted == interrupted \/ StopRepeating

\* run_test returns early
Skip(t) ==
  /\ Acquirable(t)
  /\ NotWanted
  /\ EndTask(t, "returned", sem)
  /\ UNCHANGED <<mainVars, cancelled, why, listVars, resultVars, procVars,
                 sigVars>>

\* SingleTestRunner.run, up to create_subprocess_exec
Start(t) ==
  /\ Acquirable(t)
  /\ ~NotWanted
  /\ t \notin NoCmd
  /\ phase' = [phase EXCEPT ![t] = "starting"]
  /\ sem' = sem - 1
  /\ UNCHANGED <<mainVars, fate, cancelled, why, listVars, resultVars, procVars,
                 sigVars>>

\* SingleTestRunner.run without a command: complete_skip
RunSkip(t) ==
  /\ Acquirable(t)
  /\ ~NotWanted
  /\ t \in NoCmd
  /\ ProcessResult(t, "SKIP", sem)
  /\ UNCHANGED <<mainVars, why, procVars, sigVars>>

\* create_subprocess_exec returns.  A cancel before that ends the task: asyncio
\* closes the transport of a process that it has started already.
Spawn(t) ==
  /\ Yielded
  /\ phase[t] = "starting"
  /\ ~cancelled[t]
  /\ phase' = [phase EXCEPT ![t] = "running"]
  /\ leader' = [leader EXCEPT ![t] = "alive"]
  /\ \E h \in (IF t \in Forking THEN {"none", "alive"} ELSE {"none"}) :
       helper' = [helper EXCEPT ![t] = h]
  /\ UNCHANGED <<mainVars, fate, cancelled, why, sem, listVars, resultVars,
                 doomed, stuck, sigVars>>

\* ... or raises OSError
SpawnFails(t) ==
  /\ Yielded
  /\ phase[t] = "starting"
  /\ ~cancelled[t]
  /\ EndTask(t, "raised", sem + 1)
  /\ UNCHANGED <<mainVars, cancelled, why, listVars, resultVars, procVars,
                 sigVars>>

\* complete_all in wait() returns: the program has exited and its pipes are at
\* end of file.  Only a parser may still have lines to read.
Exited(t) ==
  /\ Yielded
  /\ phase[t] = "running"
  /\ ~cancelled[t]
  /\ leader[t] = "dead"
  /\ helper[t] # "alive"

Finish(t) ==
  /\ Exited(t)
  /\ t \notin Parsed
  /\ \E res \in Outcomes : ProcessResult(t, res, sem + 1)
  /\ UNCHANGED <<mainVars, why, procVars, sigVars>>

FinishParsed(t) ==
  /\ Exited(t)
  /\ t \in Parsed
  /\ phase' = [phase EXCEPT ![t] = "collect"]
  /\ UNCHANGED <<mainVars, fate, cancelled, why, sem, listVars, resultVars,
                 procVars, sigVars>>

\* _kill up to its first wait: SIGTERM to the process group
BeginKill(t, branch) ==
  /\ phase' = [phase EXCEPT ![t] = "term"]
  /\ why' = [why EXCEPT ![t] = branch]

\* The timer of complete_all fires; the loop may not have noticed an exit yet
Timeout(t) ==
  /\ Yielded
  /\ phase[t] = "running"
  /\ ~cancelled[t]
  /\ t \in Limited
  /\ BeginKill(t, "TIMEOUT")
  /\ UNCHANGED <<mainVars, fate, cancelled, sem, listVars, resultVars, procVars,
                 sigVars>>

\* _wait_for_exit times out in one of the three waits
Escalate(t) ==
  /\ Yielded
  /\ phase[t] \in Killing
  /\ ~cancelled[t]
  /\ phase' = [phase EXCEPT ![t] = CASE phase[t] = "term" -> "kill"
                                     [] phase[t] = "kill" -> "last"
                                     [] phase[t] = "last" -> "collect"]
  /\ doomed' = IF phase[t] = "term" THEN doomed \union {t} ELSE doomed
  /\ stuck' = IF phase[t] = "last" THEN stuck \union {t} ELSE stuck
  /\ UNCHANGED <<mainVars, fate, cancelled, why, sem, listVars, resultVars,
                 leader, helper, sigVars>>

\* mutant: the return value of _wait_for_exit is ignored
KilledUnchecked(t) ==
  /\ Yielded
  /\ phase[t] \in Killing
  /\ ~cancelled[t]
  /\ phase' = [phase EXCEPT ![t] = "collect"]
  /\ UNCHANGED <<mainVars, fate, cancelled, why, sem, listVars, resultVars,
                 procVars, sigVars>>

\* _wait_for_exit, or p.wait() after a ProcessLookupError, sees the exit; the
\* reader tasks are cancelled, so a child that holds the pipe is not waited for
Killed(t) ==
  /\ Yielded
  /\ phase[t] \in Killing
  /\ ~cancelled[t]
  /\ leader[t] = "dead"
  /\ phase' = [phase EXCEPT ![t] = "collect"]
  /\ UNCHANGED <<mainVars, fate, cancelled, why, sem, listVars, resultVars,
                 procVars, sigVars>>

\* The parser and the readers are done: complete(), then the result
Collected(t) ==
  /\ Yielded
  /\ phase[t] = "collect"
  /\ ~cancelled[t]
  /\ \E res \in (IF why[t] = "none" THEN Outcomes ELSE {why[t]}) :
       ProcessResult(t, res, sem + 1)
  /\ UNCHANGED <<mainVars, why, procVars, sigVars>>

\* CancelledError is raised where the task waits.  Only the wait for the test
\* program turns it into a result; a wait of _kill or for the parser passes it on.
Cancel(t) ==
  /\ Yielded
  /\ cancelled[t]
  /\ phase[t] \in Pending
  /\ phase[t] = "collect" => t \in Parsed
  /\ cancelled' = [cancelled EXCEPT ![t] = FALSE]
  /\ IF phase[t] = "running"
       THEN BeginKill(t, "INTERRUPT") /\ UNCHANGED <<fate, sem>>
       ELSE /\ EndTask(t, "cancelled",
                       IF phase[t] = "queued" THEN sem ELSE sem + 1)
            /\ UNCHANGED why
  /\ UNCHANGED <<mainVars, listVars, resultVars, procVars, sigVars>>

\* After a kill the task also waits for the reader tasks, which are cancelled in
\* its place: read_decode swallows that, and the result is recorded after all
CancelSwallowed(t) ==
  /\ Yielded
  /\ cancelled[t]
  /\ phase[t] = "collect" /\ why[t] # "none"
  /\ cancelled' = [cancelled EXCEPT ![t] = FALSE]
  /\ UNCHANGED <<mainVars, phase, fate, why, sem, listVars, resultVars, procVars,
                 sigVars>>

\* The done-callback.  f.result() raises before the removal if the task did.
test_done(t) ==
  /\ Yielded
  /\ phase[t] = "ended"
  /\ phase' = [phase EXCEPT ![t] = "gone"]
  /\ IF fate[t] = "raised"
       THEN UNCHANGED <<futures, running>>
       ELSE /\ \E i \in 1..Len(futures) :
                 futures[i] = t /\ futures' = RemoveAt(futures, i)
            /\ running' = running \ {t}
  /\ UNCHANGED <<mainVars, fate, cancelled, why, sem, interrupted, resultVars,
                 procVars, sigVars>>

-----------------------------------------------------------------------------
(* The test programs.  A program may exit at any time, and may ignore      *)
(* SIGTERM; SIGKILL ends it, though not at once.                           *)

LeaderExits(t) ==
  /\ leader[t] = "alive"
  /\ leader' = [leader EXCEPT ![t] = "dead"]
  /\ UNCHANGED <<mainVars, taskVars, listVars, resultVars, helper, doomed,
                 stuck, sigVars>>

HelperExits(t) ==
  /\ helper[t] = "alive"
  /\ helper' = [helper EXCEPT ![t] = "dead"]
  /\ UNCHANGED <<mainVars, taskVars, listVars, resultVars, leader, doomed,
                 stuck, sigVars>>

-----------------------------------------------------------------------------

MainStep == Create \/ AwaitAll \/ DrainDone \/ SerialDone \/ FinalDone
              \/ MainAbort \/ AbortDone

TaskStep(t) ==
  \/ Skip(t) \/ Start(t) \/ RunSkip(t) \/ Spawn(t) \/ SpawnFails(t)
  \/ Finish(t) \/ FinishParsed(t) \/ Timeout(t) \/ Escalate(t) \/ Killed(t)
  \/ Collected(t) \/ Cancel(t) \/ CancelSwallowed(t) \/ test_done(t)

Next ==
  \/ MainStep
  \/ \E t \in Runner : TaskStep(t) \/ LeaderExits(t) \/ HelperExits(t)
  \/ sigterm_handler
  \/ sigint_handler
  \/ Terminating

Spec == Init /\ [][Next]_vars

\* The event loop runs every callback and timer that is due, and SIGKILL is
\* effective.  Nothing makes a test program end, or a user press Ctrl-C.
Fairness ==
  /\ WF_vars(MainStep)
  /\ \A t \in Runner : WF_vars(TaskStep(t))
  /\ \A t \in Runner : WF_vars(t \in doomed /\ LeaderExits(t))

FairSpec == Spec /\ Fairness

-----------------------------------------------------------------------------

\* Every variable of _run_tests has its type; the semaphore stays between 0 and
\* --num-processes and the rotated deque stays a sequence of runners.
TypeOK ==
  /\ main \in {"loop", "drain", "serial", "final", "done", "abort", "failed"}
  /\ next \in 1..(N + 1)
  /\ phase \in [Runner -> Pending \union {"none", "ended", "gone"}]
  /\ fate \in [Runner -> {"none", "returned", "cancelled", "raised"}]
  /\ cancelled \in [Runner -> BOOLEAN]
  /\ why \in [Runner -> {"none", "TIMEOUT", "INTERRUPT"}]
  /\ sem \in 0..NumProcesses
  /\ futures \in Seq(Runner)
  /\ running \subseteq Runner
  /\ interrupted \in BOOLEAN
  /\ ctrlc \in 0..MAX_CTRLC
  /\ recorded \in [Runner -> Result \union {"none"}]
  /\ collected \subseteq Runner
  /\ maxfail_reached \in BOOLEAN
  /\ leader \in [Runner -> Proc]
  /\ helper \in [Runner -> Proc]
  /\ doomed \subseteq Runner
  /\ stuck \subseteq Runner
  /\ signals \in 0..MaxSignals

\* "async with semaphore" conserves the --num-processes slots: what is free
\* and what tests hold always add up, so at most NumProcesses tests run,
\* whatever is cancelled, times out or raises, and wherever it does.
SlotsConserved == sem + Cardinality(Holders) = NumProcesses

\* A test declared with is_parallel: false has the machine for itself: while
\* it holds a slot no other test does, even when tests before it had to be
\* killed or were interrupted.
SerialAlone == \A s \in Serial : s \in Holders => Holders = {s}

\* running_tests and the deque agree: the futures that were not cancelled are
\* a prefix of the deque.  So the future cancel_one_test pops is a key of
\* running_tests and "del running_tests[future]" raises no KeyError, however
\* completions, callbacks and signals interleave.
RunningIsPrefix ==
  /\ Cardinality(running) <= Len(futures)
  /\ running = {futures[i] : i \in 1..Cardinality(running)}

\* "We always pick the longest-running future that has not been cancelled":
\* when one Ctrl-C interrupts one test, no test that was not interrupted
\* before has been running for longer, and a waiting test is not picked while
\* another one runs.  (Slots are handed out in the order of the runners.)
LongestRunningFirst ==
  [][\A t \in Runner :
       (cancelled'[t] /\ ~cancelled[t] /\ ~interrupted' /\ main' # "abort")
         => \A u \in running : phase[u] \in Holding
                                 => u >= t /\ phase[t] # "queued"]_vars

\* A test gets a result only when its program is gone, or when the kill
\* sequence was carried through and reported that it did not work.
RecordedIsReaped ==
  \A t \in Runner \ NoCmd :
    recorded[t] # "none" => leader[t] = "dead" \/ t \in stuck

\* The exit status is 1 exactly if the summary of failures names a test: the
\* interruptions that --maxfail causes are not listed, but the failure that
\* caused them is.
ExitCodeExplained == ExitCode = 1 <=> collected # {}

\* Once the run is interrupted (Ctrl-C thrice, SIGTERM or --maxfail), no new
\* test program is started: neither by tests waiting for a slot, nor by tests
\* about to spawn, nor by tests the main loop still creates.
NoSpawnOnceInterrupted ==
  [][interrupted => \A t \in Runner : leader[t] = "none" => leader'[t] = "none"]_vars

\* A run that ends normally has a result for every test, except those that
\* were cancelled and those passed over because the run was interrupted or
\* because an earlier repetition failed.
AllReported ==
  main = "done" =>
    \A t \in Runner : \/ recorded[t] # "none"
                      \/ fate[t] = "cancelled"
                      \/ fate[t] \in {"none", "returned"} /\ NotWanted

\* A test without a timeout is waited for in a run nobody interrupted.
Hanging(t) ==
  /\ t \notin Limited /\ phase[t] = "running" /\ ~interrupted
  /\ leader[t] = "alive" \/ helper[t] = "alive"

\* The run ends, whatever the programs do, unless nobody interrupts it and a test
\* without a timeout hangs for ever: programs that ignore SIGTERM, leave a child
\* on the pipe or cannot be spawned do not keep `meson test` from ending.
RunEnds == <>Over \/ \E t \in Runner : <>[]Hanging(t)
=============================================================================
