---------------------------- MODULE TestResults ----------------------------
(***************************************************************************)
(* How one test of `meson test` gets its result (mesonbuild/mtest.py).     *)
(*                                                                         *)
(* The program writes lines; for the protocols tap and rust a parser task  *)
(* reads them and gives its verdict at the end of the stream, while wait() *)
(* may kill the program on a timeout or a cancellation and complete() looks*)
(* at the exit status.  All of them write TestRun.res.                     *)
(*                                                                         *)
(* A line is what its regular expression makes of it.  A line is read and  *)
(* parsed in one step: what the parser has not read when the reader is     *)
(* cancelled is lost, so it might as well not have been written.           *)
(***************************************************************************)
EXTENDS Integers, Sequences, FiniteSets

CONSTANTS
  Tests,       \* the `ok` and `not ok` lines a program may write
  Plans,       \* its `1..N` lines
  Versions,    \* the N of its `TAP version N` lines
  RustWords,   \* what `test foo ... word` lines may say
  Statuses,    \* exit statuses of the program
  MaxLines,    \* bound on the lines of a stream
  MaxEnding    \* bound on the lines of a program whose end is followed

Unnumbered == -1

ASSUME ConstantsAssumption ==
  /\ Tests \subseteq [kind : {"test"}, ok : BOOLEAN, num : Nat \union {Unnumbered},
                      directive : {"none", "SKIP", "TODO"}]
  /\ Plans \subseteq [kind : {"plan"}, num : Nat, directive : {"none", "SKIP", "TODO"}]
  /\ Versions \subseteq Nat
  /\ RustWords \subseteq {"ok", "ignored", "FAILED", "other"}
  /\ Statuses \subseteq Int
  /\ MaxLines \in Nat /\ MaxEnding \in Nat

VARIABLES
  test,        \* what meson.build and the command line say of the test
  lines,       \* the lines the parser has read
  tap,         \* TAPParser, with the res and results of TestRunTAP.parse
  parser,      \* the parser task
  prog,        \* the test program
  wait,        \* where TestSubprocess.wait is
  returncode,
  res          \* TestRun.res

vars == <<test, lines, tap, parser, prog, wait, returncode, res>>

is_bad == {"FAIL", "TIMEOUT", "INTERRUPT", "UNEXPECTEDPASS", "ERROR"}
was_killed == {"TIMEOUT", "INTERRUPT"}
GNU_SKIP_RETURNCODE == 77
GNU_ERROR_RETURNCODE == 99

needs_parsing == test.protocol \in {"tap", "rust"}

\* --interactive, where needs_parsing has no parser to read the output
Unread == needs_parsing /\ test.interactive

Plain(kind) == [kind |-> kind]
Indented == {"yaml_start", "yaml_end", "indented"}
TapLine == Tests \union Plans \union {[kind |-> "version", num |-> v] : v \in Versions}
             \union {Plain(k) : k \in Indented \union {"bailout", "other"}}
RustLine == {Plain(w) : w \in RustWords}

NoPlan == [given |-> FALSE, num_tests |-> 0, late |-> FALSE]

TAPParser == [state |-> "MAIN", version |-> 12, lineno |-> 0, plan |-> NoPlan,
              found_late_test |-> FALSE, bailed_out |-> FALSE,
              num_tests |-> 0, last_test |-> 0, highest_test |-> 0,
              res |-> "none", results |-> {}]

Init ==
  /\ test \in [protocol : {"exitcode", "tap", "rust"}, expected_fail : BOOLEAN,
               interactive : BOOLEAN, expected_exitcode : {0, GNU_SKIP_RETURNCODE}]
  /\ test.protocol # "exitcode" => test.expected_exitcode = 0
  /\ lines = <<>>
  /\ tap = TAPParser
  /\ parser = "none" /\ prog = "none" /\ wait = "none"
  /\ returncode = 0
  /\ res = "PENDING"

-----------------------------------------------------------------------------
(* TAPParser.parse_line, as TestRunTAP.parse consumes its events *)

Max(a, b) == IF a >= b THEN a ELSE b

\* yield self.Error(...) if cond
Error(t, cond) == IF cond THEN [t EXCEPT !.res = "ERROR"] ELSE t

\* parse_test
ResultOf(line) ==
  CASE line.directive = "TODO"           -> IF line.ok THEN "UNEXPECTEDPASS" ELSE "EXPECTEDFAIL"
    [] line.directive = "SKIP" /\ line.ok -> "SKIP"
    [] OTHER                              -> IF line.ok THEN "OK" ELSE "FAIL"

\* yield self.Test(...)
SubTest(t, result) ==
  [t EXCEPT !.results = @ \union {result},
            !.res = IF result \in is_bad THEN "FAIL" ELSE @,
            !.state = "AFTER_TEST"]

parse_test_line(t, line) ==
  LET late == t.plan.late /\ ~t.found_late_test
      last == IF line.num = Unnumbered THEN t.last_test + 1 ELSE line.num
      seen == [t EXCEPT !.found_late_test = @ \/ late,
                        !.num_tests = @ + 1,
                        !.last_test = last,
                        !.highest_test = Max(@, last)]
  IN  SubTest(Error(seen, late \/ (t.plan.given /\ last > t.plan.num_tests)),
              ResultOf(line))

parse_plan(t, line) ==
  LET invalid == line.directive = "TODO" \/ (line.directive = "SKIP" /\ line.num > 0)
  IN  IF t.plan.given
      THEN Error(t, TRUE)
      ELSE [Error(t, invalid) EXCEPT
              !.plan = [given |-> TRUE, num_tests |-> line.num, late |-> t.num_tests > 0]]

parse_version(t, line) ==
  IF t.lineno # 1
  THEN Error(t, TRUE)
  ELSE [Error(t, line.num < 13) EXCEPT !.version = line.num]

\* the part of parse_line behind `assert self.state == self._MAIN`
parse_main(t, line) ==
  CASE line.kind = "test"    -> parse_test_line(t, line)
    [] line.kind = "plan"    -> parse_plan(t, line)
    [] line.kind = "bailout" -> [Error(t, TRUE) EXCEPT !.bailed_out = TRUE]
    [] line.kind = "version" -> parse_version(t, line)
    [] OTHER                 -> t

\* mutant: a block may start after any line
parse_line_yaml(t0, line) ==
  LET t == [t0 EXCEPT !.lineno = @ + 1]
  IN  CASE t.state # "YAML" /\ t.version >= 13 /\ line.kind = "yaml_start"
                                                      -> [t EXCEPT !.state = "YAML"]
        [] t.state = "YAML" /\ line.kind = "yaml_end" -> [t EXCEPT !.state = "MAIN"]
        [] t.state = "YAML" /\ line.kind \in Indented \ {"yaml_end"} -> t
        [] OTHER -> parse_main([Error(t, t.state = "YAML") EXCEPT !.state = "MAIN"], line)

parse_line(t0, line) ==
  LET t == [t0 EXCEPT !.lineno = @ + 1]
  IN  CASE t.state = "AFTER_TEST" /\ t.version >= 13 /\ line.kind = "yaml_start"
                                                      -> [t EXCEPT !.state = "YAML"]
        [] t.state = "YAML" /\ line.kind = "yaml_end" -> [t EXCEPT !.state = "MAIN"]
        [] t.state = "YAML" /\ line.kind \in Indented \ {"yaml_end"} -> t
        [] OTHER -> parse_main([Error(t, t.state = "YAML") EXCEPT !.state = "MAIN"], line)

\* mutant: the numbers are not looked at
parse_eof_count(t) ==
  Error(t, \/ t.state = "YAML"
           \/ ~t.bailed_out /\ t.plan.given /\ t.num_tests # t.plan.num_tests)

\* parse_line(None)
parse_eof(t) ==
  Error(t, \/ t.state = "YAML"
           \/ /\ ~t.bailed_out
              /\ \/ t.plan.given /\ t.num_tests # t.plan.num_tests
                 \/ t.highest_test # t.num_tests)

AllSkipped(results) == results \subseteq {"SKIP"}

\* what TestRunTAP.parse finds at the end of the stream, "none" for nothing
tap_verdict(t) ==
  LET last == parse_eof(t).res
  IN  IF AllSkipped(t.results) /\ last # "ERROR" THEN "SKIP" ELSE last

\* TestRunRust.parse
parse_res(word) ==
  CASE word = "ok" -> "OK" [] word = "ignored" -> "SKIP" [] word = "FAILED" -> "FAIL"
    [] OTHER -> "ERROR"

rust_verdict ==
  LET results == {parse_res(lines[i].kind) : i \in DOMAIN lines}
  IN  IF AllSkipped(results) THEN "SKIP"
      ELSE IF "ERROR" \in results THEN "ERROR"
      ELSE IF "FAIL" \in results THEN "FAIL" ELSE "none"

-----------------------------------------------------------------------------
(* SingleTestRunner.run and the tasks it starts *)

\* TestRun._complete, given the result so far
_complete(r) ==
  LET done == IF Unread THEN "IGNORED" ELSE IF r = "RUNNING" THEN "OK" ELSE r
  IN  CASE test.expected_fail /\ done = "OK"   -> "UNEXPECTEDPASS"
        [] test.expected_fail /\ done = "FAIL" -> "EXPECTEDFAIL"
        [] OTHER                               -> done

\* The test has no command: nothing is run.
complete_skip ==
  /\ res = "PENDING"
  /\ returncode' = GNU_SKIP_RETURNCODE
  /\ res' = _complete("SKIP")
  /\ UNCHANGED <<test, lines, tap, parser, prog, wait>>

start ==
  /\ res = "PENDING"
  /\ res' = "RUNNING"
  /\ prog' = "alive" /\ wait' = "waiting"
  /\ parser' = IF needs_parsing /\ ~Unread THEN "reading" ELSE "none"
  /\ UNCHANGED <<test, lines, tap, returncode>>

\* A line comes through the queue, to the end of which the reader puts None.
ReadLine ==
  /\ parser = "reading" /\ prog = "alive"
  /\ Len(lines) < IF wait = "waiting" THEN MaxLines ELSE MaxEnding
  /\ \E line \in IF test.protocol = "tap" THEN TapLine ELSE RustLine :
       /\ lines' = Append(lines, line)
       /\ tap' = IF test.protocol = "tap" THEN parse_line(tap, line) ELSE tap
  /\ UNCHANGED <<test, parser, prog, wait, returncode, res>>

Ending == Len(lines) <= MaxEnding

\* A parsed protocol only asks whether the status is 0.
Exit ==
  /\ prog = "alive" /\ Ending
  /\ prog' = "gone"
  /\ returncode' \in IF needs_parsing THEN {0, 1} ELSE Statuses
  /\ UNCHANGED <<test, lines, tap, parser, wait, res>>

Verdict == IF test.protocol = "tap" THEN tap_verdict(tap) ELSE rust_verdict

\* mutant: whoever comes last decides
parse_done_late ==
  /\ parser = "reading" /\ prog \in {"gone", "stuck"}
  /\ parser' = "ended"
  /\ res' = IF Verdict # "none" THEN Verdict ELSE res
  /\ UNCHANGED <<test, lines, tap, prog, wait, returncode>>

\* The parser sees None: the program closed its end, or _kill() cancelled the
\* reader.  Either may come before or after wait() has written its result.
parse_done ==
  /\ parser = "reading" /\ prog \in {"gone", "stuck"}
  /\ parser' = "ended"
  /\ res' = IF Verdict # "none" /\ res = "RUNNING" THEN Verdict ELSE res
  /\ UNCHANGED <<test, lines, tap, prog, wait, returncode>>

\* complete_all() times out or is cancelled, while the program runs or when it
\* is gone and a child holds its pipe.  An interactive test has no timeout.
begin_kill ==
  /\ wait = "waiting" /\ Ending
  /\ wait' \in IF test.interactive THEN {"INTERRUPT"} ELSE was_killed
  /\ UNCHANGED <<test, lines, tap, parser, prog, returncode, res>>

\* _kill() returns, the program gone or not to be killed, its reader cancelled;
\* the except clause writes the result.
kill_done ==
  /\ wait \in was_killed
  /\ res' = wait
  /\ wait' = "done"
  /\ prog' = IF prog = "alive" THEN "stuck" ELSE prog
  /\ UNCHANGED <<test, lines, tap, parser, returncode>>

wait_done ==
  /\ wait = "waiting" /\ prog = "gone"
  /\ wait' = "done"
  /\ UNCHANGED <<test, lines, tap, parser, prog, returncode, res>>

exit_status_result ==
  IF res # "RUNNING" THEN res
  ELSE IF returncode = test.expected_exitcode THEN "OK"
  ELSE IF returncode = GNU_SKIP_RETURNCODE THEN "SKIP"
  ELSE IF returncode = GNU_ERROR_RETURNCODE THEN "ERROR" ELSE "FAIL"

\* mutant: a parsed verdict hides the exit status
tap_status_result == IF returncode # 0 /\ res = "RUNNING" THEN "ERROR" ELSE res

\* TestRunTAP.complete
tap_result == IF returncode # 0 /\ res \notin is_bad THEN "ERROR" ELSE res

complete ==
  /\ wait = "done" /\ parser # "reading"
  /\ wait' = "completed"
  /\ res' = _complete(CASE test.protocol = "exitcode" -> exit_status_result
                        [] test.protocol = "tap"      -> tap_result
                        [] OTHER                      -> res)
  /\ UNCHANGED <<test, lines, tap, parser, prog, returncode>>

Over == wait = "completed" \/ (wait = "none" /\ res # "PENDING")

Terminating == (Over \/ Len(lines) = MaxLines) /\ UNCHANGED vars

Next ==
  \/ complete_skip \/ start \/ ReadLine \/ Exit \/ parse_done
  \/ begin_kill \/ kill_done \/ wait_done \/ complete \/ Terminating

Spec == Init /\ [][Next]_vars

-----------------------------------------------------------------------------
(* What a stream means, said of the whole stream rather than line by line *)

At(kind) == {i \in DOMAIN lines : lines[i].kind = kind}

DeclaredVersion == IF 1 \in At("version") THEN lines[1].num ELSE 12

\* A block starts right behind a test and takes the indented lines up to its end.
StartsBlock(i) == i \in At("yaml_start") /\ i - 1 \in At("test") /\ DeclaredVersion >= 13

InBlock(i) ==
  \E j \in 1..i : /\ StartsBlock(j)
                  /\ \A k \in j..i : lines[k].kind \in Indented
                  /\ \A k \in j..(i - 1) : lines[k].kind # "yaml_end"

\* Position i, the end of the stream included, follows a block without an end.
CutsBlock(i) ==
  /\ i > 1 /\ InBlock(i - 1) /\ i - 1 \notin At("yaml_end")
  /\ i \in DOMAIN lines => ~InBlock(i)

\* An unnumbered test has the number that follows its predecessor's.
Number(i) ==
  LET upto == {k \in At("test") : k <= i}
      given == {k \in upto : lines[k].num # Unnumbered}
      base == CHOOSE k \in given : \A m \in given : m <= k
  IN  IF given = {} THEN Cardinality(upto)
      ELSE lines[base].num + Cardinality({k \in upto : k > base})

\* The plan, if some line in front of position i states it
IsPlanBefore(p, i) == p \in At("plan") /\ p < i /\ \A q \in At("plan") : p <= q

MisplacedTest(i) ==
  /\ i \in At("test")
  /\ \E p \in 1..(i - 1) :
       /\ IsPlanBefore(p, i)
       /\ \/ Number(i) > lines[p].num
          \/ (\E k \in At("test") : k < p) /\ ~(\E k \in At("test") : p < k /\ k < i)

BadPlan(i) ==
  /\ i \in At("plan")
  /\ \/ \E p \in At("plan") : p < i
     \/ lines[i].directive = "TODO"
     \/ lines[i].directive = "SKIP" /\ lines[i].num > 0

BadVersion(i) == i \in At("version") /\ (i # 1 \/ lines[i].num < 13)

Numbers == {Number(i) : i \in At("test")}

Miscounted ==
  LET n == Cardinality(At("test"))
  IN  /\ At("bailout") = {}
      /\ \/ \E p \in At("plan") : IsPlanBefore(p, Len(lines) + 1) /\ lines[p].num # n
         \/ n > 0 /\ ~(n \in Numbers /\ \A m \in Numbers : m <= n)

\* SubTest results come behind the errors of their own line.
BadSubtest(i) == i \in At("test") /\ ResultOf(lines[i]) \in is_bad

Broken(i) ==
  \/ i \in At("bailout") \/ MisplacedTest(i) \/ BadPlan(i) \/ BadVersion(i) \/ CutsBlock(i)
  \/ i = Len(lines) + 1 /\ Miscounted

MeaningOfStream ==
  LET bad == {i \in 1..(Len(lines) + 1) : BadSubtest(i) \/ Broken(i)}
      last == CHOOSE i \in bad : \A k \in bad : k <= i
  IN  IF bad # {} THEN IF BadSubtest(last) THEN "FAIL" ELSE "ERROR"
      ELSE IF \A i \in At("test") : ResultOf(lines[i]) = "SKIP" THEN "SKIP" ELSE "none"

-----------------------------------------------------------------------------
(* Properties *)

\* The line-by-line parser, with its nine variables, says of every stream what
\* the whole stream means: the last failed subtest, bailout or error decides
\* between FAIL and ERROR (TAPParser.parse_line, TestRunTAP.parse).
StreamIsUnderstood ==
  test.protocol = "tap" => tap_verdict(tap) = MeaningOfStream

\* A timeout or an interruption is what is reported, whatever the parser says
\* of the part of the output it saw and whatever the exit status is, except for
\* an interactive test, whose output nobody read (wait(), parse(), complete()).
KilledStaysKilled ==
  [][(res \in was_killed /\ ~Unread) => res' = res]_vars

Completed == wait = "completed"

\* A test of which the summary says something good has earned it: for tap, exit
\* status 0, no bailout and no subtest failed unexpectedly; for rust, no test
\* failed; otherwise the exit status says so (the complete() methods).  An
\* expected failure is a failure, not a hard error with status 99.
GoodIsEarned ==
  Completed /\ ~Unread =>
    /\ test.protocol = "exitcode" =>
         /\ res \in {"OK", "UNEXPECTEDPASS"} => returncode = test.expected_exitcode
         /\ res = "EXPECTEDFAIL" => returncode \notin {test.expected_exitcode, 99}
    /\ test.protocol = "tap" /\ res \in {"OK", "SKIP", "UNEXPECTEDPASS"} =>
         /\ returncode = 0
         /\ At("bailout") = {}
         /\ \A i \in At("test") : ~BadSubtest(i)
    /\ test.protocol = "rust" /\ res \in {"OK", "SKIP", "UNEXPECTEDPASS"} =>
         At("FAILED") = {} /\ At("other") = {}

\* A passing stream is complete: if it repeats no number and has no test 0, it
\* has the tests 1 to n and each exactly once, although parse_line(None) only
\* compares the count and the maximum.
PassingIsComplete ==
  /\ test.protocol = "tap" /\ tap_verdict(tap) = "none"
  /\ Cardinality(Numbers) = Cardinality(At("test")) /\ 0 \notin Numbers
  => /\ Numbers = 1..Cardinality(At("test"))
     /\ \A p \in At("plan") : lines[p].num = Cardinality(Numbers)
=============================================================================
