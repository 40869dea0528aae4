------------------------- MODULE TestResults_proof -------------------------
(***************************************************************************)
(* Proofs about the result of a test: for every set of lines, of exit      *)
(* statuses and for streams of any length.                                 *)
(*                                                                         *)
(* The lemmas say what parse_line does to each variable of the parser,     *)
(* then what one more line does to the meaning of the stream; TapInv, the  *)
(* invariant in between, says of every variable what it holds in terms of  *)
(* the lines read so far.                                                  *)
(***************************************************************************)
EXTENDS TestResults, FiniteSetTheorems, TLAPS

Results == {"OK", "SKIP", "FAIL", "UNEXPECTEDPASS", "EXPECTEDFAIL"}

Taps == [state : {"MAIN", "AFTER_TEST", "YAML"}, version : Nat, lineno : Nat,
         plan : [given : BOOLEAN, num_tests : Nat, late : BOOLEAN],
         found_late_test : BOOLEAN, bailed_out : BOOLEAN,
         num_tests : Nat, last_test : Nat, highest_test : Nat,
         res : {"none", "FAIL", "ERROR"}, results : SUBSET Results]

-----------------------------------------------------------------------------
(* What parse_line does to the variables of the parser *)

\* The kind of a line tells which record it is, and its result is one of five.
LEMMA LineFacts ==
  ASSUME NEW line \in TapLine
  PROVE  /\ line.kind \in {"test", "plan", "version", "bailout", "other"} \union Indented
         /\ line.kind = "test" =>
              line.num \in Nat \union {Unnumbered} /\ ResultOf(line) \in Results
         /\ line.kind = "plan" => line.num \in Nat
         /\ line.kind = "version" => line.num \in Nat
<1>1. CASE line \in Tests
  <2>1. line \in [kind : {"test"}, ok : BOOLEAN, num : Nat \union {Unnumbered},
                  directive : {"none", "SKIP", "TODO"}]
    BY <1>1, ConstantsAssumption
  <2> QED  BY <2>1 DEF ResultOf, Results
<1>2. CASE line \in Plans
  <2>1. line \in [kind : {"plan"}, num : Nat, directive : {"none", "SKIP", "TODO"}]
    BY <1>2, ConstantsAssumption
  <2> QED  BY <2>1
<1>3. CASE line \in {[kind |-> "version", num |-> v] : v \in Versions}
  BY <1>3, ConstantsAssumption
<1>4. CASE line \in {Plain(k) : k \in Indented \union {"bailout", "other"}}
  BY <1>4 DEF Plain, Indented
<1> QED  BY <1>1, <1>2, <1>3, <1>4 DEF TapLine

\* yield self.Error(...) writes the result and nothing else.
LEMMA ErrorFacts ==
  ASSUME NEW t \in Taps, NEW cond \in BOOLEAN
  PROVE  LET r == Error(t, cond)
         IN  /\ r \in Taps
             /\ r.res = IF cond THEN "ERROR" ELSE t.res
             /\ r.state = t.state /\ r.version = t.version /\ r.lineno = t.lineno
             /\ r.plan = t.plan /\ r.found_late_test = t.found_late_test
             /\ r.bailed_out = t.bailed_out /\ r.num_tests = t.num_tests
             /\ r.last_test = t.last_test /\ r.highest_test = t.highest_test
             /\ r.results = t.results
BY DEF Error, Taps

\* yield self.Test(...) writes the results, the result and the state.
LEMMA SubTestFacts ==
  ASSUME NEW t \in Taps, NEW result \in Results
  PROVE  LET r == SubTest(t, result)
         IN  /\ r \in Taps
             /\ r.res = IF result \in is_bad THEN "FAIL" ELSE t.res
             /\ r.state = "AFTER_TEST"
             /\ r.results = t.results \union {result}
             /\ r.version = t.version /\ r.lineno = t.lineno
             /\ r.plan = t.plan /\ r.found_late_test = t.found_late_test
             /\ r.bailed_out = t.bailed_out /\ r.num_tests = t.num_tests
             /\ r.last_test = t.last_test /\ r.highest_test = t.highest_test
<1> DEFINE r == SubTest(t, result)
<1>1. r \in Taps
  <2>1. t.results \union {result} \in SUBSET Results
    BY DEF Taps
  <2>2. (IF result \in is_bad THEN "FAIL" ELSE t.res) \in {"none", "FAIL", "ERROR"}
    BY DEF Taps
  <2> QED  BY <2>1, <2>2, Zenon DEF SubTest, Taps
<1>2. /\ r.res = IF result \in is_bad THEN "FAIL" ELSE t.res
      /\ r.state = "AFTER_TEST"
      /\ r.results = t.results \union {result}
      /\ r.version = t.version /\ r.lineno = t.lineno
      /\ r.plan = t.plan /\ r.found_late_test = t.found_late_test
      /\ r.bailed_out = t.bailed_out /\ r.num_tests = t.num_tests
      /\ r.last_test = t.last_test /\ r.highest_test = t.highest_test
  BY DEF SubTest, Taps
<1> QED  BY <1>1, <1>2

\* What parse_test_line does with a test line.
LEMMA TestLineFacts ==
  ASSUME NEW t \in Taps, NEW line,
         line.num \in Nat \union {Unnumbered}, ResultOf(line) \in Results
  PROVE  LET r == parse_test_line(t, line)
             last == IF line.num = Unnumbered THEN t.last_test + 1 ELSE line.num
         IN  /\ r \in Taps
             /\ r.res = IF ResultOf(line) \in is_bad THEN "FAIL"
                        ELSE IF \/ t.plan.late /\ ~t.found_late_test
                                \/ t.plan.given /\ last > t.plan.num_tests
                             THEN "ERROR" ELSE t.res
             /\ r.state = "AFTER_TEST"
             /\ r.results = t.results \union {ResultOf(line)}
             /\ r.version = t.version /\ r.lineno = t.lineno /\ r.plan = t.plan
             /\ r.found_late_test <=> t.found_late_test \/ t.plan.late
             /\ r.bailed_out = t.bailed_out
             /\ r.num_tests = t.num_tests + 1 /\ r.last_test = last
             /\ r.highest_test = Max(t.highest_test, last)
<1> DEFINE late == t.plan.late /\ ~t.found_late_test
           last == IF line.num = Unnumbered THEN t.last_test + 1 ELSE line.num
           seen == [t EXCEPT !.found_late_test = @ \/ late,
                             !.num_tests = @ + 1,
                             !.last_test = last,
                             !.highest_test = Max(@, last)]
           cond == late \/ (t.plan.given /\ last > t.plan.num_tests)
<1>1. /\ (t.found_late_test \/ late) \in BOOLEAN /\ t.num_tests + 1 \in Nat
      /\ last \in Nat /\ Max(t.highest_test, last) \in Nat
  BY DEF Taps, Max, Unnumbered
<1>2. seen \in Taps
  <2> HIDE DEF late, last
  <2> QED  BY <1>1, ZenonT(60) DEF Taps
<1>3. /\ seen.found_late_test = (t.found_late_test \/ late)
      /\ seen.num_tests = t.num_tests + 1
      /\ seen.last_test = last /\ seen.highest_test = Max(t.highest_test, last)
      /\ seen.res = t.res /\ seen.state = t.state /\ seen.results = t.results
      /\ seen.version = t.version /\ seen.lineno = t.lineno
      /\ seen.plan = t.plan /\ seen.bailed_out = t.bailed_out
  <2> HIDE DEF late, last
  <2> QED  BY DEF Taps
<1>4. cond \in BOOLEAN
  BY DEF Taps
<1>5. parse_test_line(t, line) = SubTest(Error(seen, cond), ResultOf(line))
  BY Zenon DEF parse_test_line
<1> HIDE DEF seen, cond
<1>6. /\ Error(seen, cond) \in Taps
      /\ Error(seen, cond).res = IF cond THEN "ERROR" ELSE t.res
      /\ Error(seen, cond).found_late_test = (t.found_late_test \/ late)
      /\ Error(seen, cond).num_tests = t.num_tests + 1
      /\ Error(seen, cond).last_test = last
      /\ Error(seen, cond).highest_test = Max(t.highest_test, last)
      /\ Error(seen, cond).results = t.results
      /\ Error(seen, cond).version = t.version /\ Error(seen, cond).lineno = t.lineno
      /\ Error(seen, cond).plan = t.plan /\ Error(seen, cond).bailed_out = t.bailed_out
  <2> HIDE DEF late, last
  <2> QED  BY <1>2, <1>3, <1>4, ErrorFacts
<1>7. (t.found_late_test \/ late) <=> t.found_late_test \/ t.plan.late
  BY DEF late
<1> DEFINE e == Error(seen, cond)
           r == SubTest(e, ResultOf(line))
<1>8. /\ r \in Taps
      /\ r.res = IF ResultOf(line) \in is_bad THEN "FAIL" ELSE e.res
      /\ r.state = "AFTER_TEST"
      /\ r.results = e.results \union {ResultOf(line)}
      /\ r.version = e.version /\ r.lineno = e.lineno
      /\ r.plan = e.plan /\ r.found_late_test = e.found_late_test
      /\ r.bailed_out = e.bailed_out /\ r.num_tests = e.num_tests
      /\ r.last_test = e.last_test /\ r.highest_test = e.highest_test
  <2>1. e \in Taps
    BY <1>6
  <2> HIDE DEF e
  <2> QED  BY <2>1, SubTestFacts
<1>9. parse_test_line(t, line) = r
  BY <1>5
<1> HIDE DEF r, last
<1>10. /\ r \in Taps
       /\ r.res = IF ResultOf(line) \in is_bad THEN "FAIL"
                  ELSE IF cond THEN "ERROR" ELSE t.res
       /\ r.state = "AFTER_TEST"
       /\ r.results = t.results \union {ResultOf(line)}
       /\ r.version = t.version /\ r.lineno = t.lineno /\ r.plan = t.plan
       /\ r.found_late_test <=> t.found_late_test \/ t.plan.late
       /\ r.bailed_out = t.bailed_out
       /\ r.num_tests = t.num_tests + 1 /\ r.last_test = last
       /\ r.highest_test = Max(t.highest_test, last)
  BY <1>6, <1>7, <1>8, Zenon
<1> QED  BY <1>9, <1>10 DEF cond, late, last


\* What parse_plan does with a plan line.
LEMMA PlanFacts ==
  ASSUME NEW t \in Taps, NEW line, line.num \in Nat
  PROVE  LET r == parse_plan(t, line)
         IN  /\ r \in Taps
             /\ r.plan = IF t.plan.given THEN t.plan
                         ELSE [given |-> TRUE, num_tests |-> line.num,
                               late |-> t.num_tests > 0]
             /\ r.res = IF \/ t.plan.given
                           \/ line.directive = "TODO"
                           \/ line.directive = "SKIP" /\ line.num > 0
                        THEN "ERROR" ELSE t.res
             /\ r.state = t.state /\ r.results = t.results
             /\ r.version = t.version /\ r.lineno = t.lineno
             /\ r.found_late_test = t.found_late_test
             /\ r.bailed_out = t.bailed_out /\ r.num_tests = t.num_tests
             /\ r.last_test = t.last_test /\ r.highest_test = t.highest_test
<1> DEFINE invalid == line.directive = "TODO" \/ (line.directive = "SKIP" /\ line.num > 0)
           e == Error(t, invalid)
           new == [given |-> TRUE, num_tests |-> line.num, late |-> t.num_tests > 0]
<1>1. CASE t.plan.given
  <2>1. parse_plan(t, line) = Error(t, TRUE)
    BY <1>1, Zenon DEF parse_plan
  <2> QED  BY <1>1, <2>1 DEF Error, Taps
<1>2. CASE ~t.plan.given
  <2>1. parse_plan(t, line) = [e EXCEPT !.plan = new]
    BY <1>2, Zenon DEF parse_plan
  <2>2. /\ e \in Taps
        /\ e.res = IF invalid THEN "ERROR" ELSE t.res
        /\ e.state = t.state /\ e.version = t.version /\ e.lineno = t.lineno
        /\ e.plan = t.plan /\ e.found_late_test = t.found_late_test
        /\ e.bailed_out = t.bailed_out /\ e.num_tests = t.num_tests
        /\ e.last_test = t.last_test /\ e.highest_test = t.highest_test
        /\ e.results = t.results
    <3>1. invalid \in BOOLEAN
      OBVIOUS
    <3> HIDE DEF invalid
    <3> QED  BY <3>1, ErrorFacts
  <2>3. new \in [given : BOOLEAN, num_tests : Nat, late : BOOLEAN]
    BY DEF Taps
  <2> HIDE DEF e, new
  <2>4. [e EXCEPT !.plan = new] \in Taps
    BY <2>2, <2>3, Zenon DEF Taps
  <2>5. /\ [e EXCEPT !.plan = new].plan = new
        /\ [e EXCEPT !.plan = new].res = e.res
        /\ [e EXCEPT !.plan = new].state = e.state
        /\ [e EXCEPT !.plan = new].results = e.results
        /\ [e EXCEPT !.plan = new].version = e.version
        /\ [e EXCEPT !.plan = new].lineno = e.lineno
        /\ [e EXCEPT !.plan = new].found_late_test = e.found_late_test
        /\ [e EXCEPT !.plan = new].bailed_out = e.bailed_out
        /\ [e EXCEPT !.plan = new].num_tests = e.num_tests
        /\ [e EXCEPT !.plan = new].last_test = e.last_test
        /\ [e EXCEPT !.plan = new].highest_test = e.highest_test
    BY <2>2 DEF Taps
  <2> DEFINE r == [e EXCEPT !.plan = new]
  <2> HIDE DEF r
  <2> QED  BY <1>2, <2>1, <2>2, <2>4, <2>5 DEF r, new
<1> QED  BY <1>1, <1>2

\* What parse_version does with a version line.
LEMMA VersionFacts ==
  ASSUME NEW t \in Taps, NEW line, line.num \in Nat
  PROVE  LET r == parse_version(t, line)
         IN  /\ r \in Taps
             /\ r.version = IF t.lineno = 1 THEN line.num ELSE t.version
             /\ r.res = IF t.lineno # 1 \/ line.num < 13 THEN "ERROR" ELSE t.res
             /\ r.state = t.state /\ r.results = t.results
             /\ r.plan = t.plan /\ r.lineno = t.lineno
             /\ r.found_late_test = t.found_late_test
             /\ r.bailed_out = t.bailed_out /\ r.num_tests = t.num_tests
             /\ r.last_test = t.last_test /\ r.highest_test = t.highest_test
<1> DEFINE low == line.num < 13
           e == Error(t, low)
           r == [e EXCEPT !.version = line.num]
<1>1. CASE t.lineno # 1
  <2>1. parse_version(t, line) = Error(t, TRUE)
    BY <1>1, Zenon DEF parse_version
  <2> QED  BY <1>1, <2>1 DEF Error, Taps
<1>2. CASE t.lineno = 1
  <2>1. parse_version(t, line) = r
    BY <1>2, Zenon DEF parse_version
  <2>2. /\ e \in Taps
        /\ e.res = IF low THEN "ERROR" ELSE t.res
        /\ e.state = t.state /\ e.version = t.version /\ e.lineno = t.lineno
        /\ e.plan = t.plan /\ e.found_late_test = t.found_late_test
        /\ e.bailed_out = t.bailed_out /\ e.num_tests = t.num_tests
        /\ e.last_test = t.last_test /\ e.highest_test = t.highest_test
        /\ e.results = t.results
    <3>1. low \in BOOLEAN
      OBVIOUS
    <3> HIDE DEF low
    <3> QED  BY <3>1, ErrorFacts
  <2> HIDE DEF e
  <2>3. r \in Taps
    BY <2>2, Zenon DEF Taps
  <2>4. /\ r.version = line.num /\ r.res = e.res /\ r.state = e.state
        /\ r.results = e.results /\ r.plan = e.plan /\ r.lineno = e.lineno
        /\ r.found_late_test = e.found_late_test /\ r.bailed_out = e.bailed_out
        /\ r.num_tests = e.num_tests /\ r.last_test = e.last_test
        /\ r.highest_test = e.highest_test
    BY <2>2 DEF Taps
  <2> HIDE DEF r
  <2> QED  BY <1>2, <2>1, <2>2, <2>3, <2>4
<1> QED  BY <1>1, <1>2


\* parse_line, variable by variable: what it makes of the state of the parser
\* and of the line.
Opens(t, line) == t.state = "AFTER_TEST" /\ t.version >= 13 /\ line.kind = "yaml_start"

Cuts(t, line) == t.state = "YAML" /\ line.kind \notin Indented

LastOf(t, line) == IF line.num = Unnumbered THEN t.last_test + 1 ELSE line.num

Wrong(t, line) ==
  \/ Cuts(t, line)
  \/ line.kind = "bailout"
  \/ /\ line.kind = "test"
     /\ \/ t.plan.late /\ ~t.found_late_test
        \/ t.plan.given /\ LastOf(t, line) > t.plan.num_tests
  \/ /\ line.kind = "plan"
     /\ t.plan.given \/ line.directive = "TODO" \/ (line.directive = "SKIP" /\ line.num > 0)
  \/ line.kind = "version" /\ (t.lineno # 0 \/ line.num < 13)

Parsed(t, line, r) ==
  /\ r \in Taps
  /\ r.lineno = t.lineno + 1
  /\ r.state = IF line.kind = "test" THEN "AFTER_TEST"
               ELSE IF \/ Opens(t, line)
                       \/ t.state = "YAML" /\ line.kind \in Indented \ {"yaml_end"}
                    THEN "YAML" ELSE "MAIN"
  /\ r.version = IF line.kind = "version" /\ t.lineno = 0 THEN line.num ELSE t.version
  /\ r.plan = IF line.kind = "plan" /\ ~t.plan.given
              THEN [given |-> TRUE, num_tests |-> line.num, late |-> t.num_tests > 0]
              ELSE t.plan
  /\ r.found_late_test <=> t.found_late_test \/ (line.kind = "test" /\ t.plan.late)
  /\ r.bailed_out <=> t.bailed_out \/ line.kind = "bailout"
  /\ r.num_tests = IF line.kind = "test" THEN t.num_tests + 1 ELSE t.num_tests
  /\ r.last_test = IF line.kind = "test" THEN LastOf(t, line) ELSE t.last_test
  /\ r.highest_test = IF line.kind = "test" THEN Max(t.highest_test, LastOf(t, line))
                      ELSE t.highest_test
  /\ r.results = IF line.kind = "test" THEN t.results \union {ResultOf(line)}
                 ELSE t.results
  /\ r.res = IF line.kind = "test" /\ ResultOf(line) \in is_bad THEN "FAIL"
             ELSE IF Wrong(t, line) THEN "ERROR" ELSE t.res

\* Every line, in every state of the parser, is parsed this way.
LEMMA ParseLineFacts ==
  ASSUME NEW t0 \in Taps, NEW line \in TapLine
  PROVE  Parsed(t0, line, parse_line(t0, line))
<1> DEFINE t == [t0 EXCEPT !.lineno = @ + 1]
           yaml == t.state = "YAML"
           e == Error(t, yaml)
           m == [e EXCEPT !.state = "MAIN"]
<1>1. /\ line.kind \in {"test", "plan", "version", "bailout", "other"} \union Indented
      /\ line.kind = "test" =>
           line.num \in Nat \union {Unnumbered} /\ ResultOf(line) \in Results
      /\ line.kind = "plan" => line.num \in Nat
      /\ line.kind = "version" => line.num \in Nat
  BY LineFacts
<1>2. /\ t \in Taps
      /\ t.lineno = t0.lineno + 1 /\ t.state = t0.state /\ t.version = t0.version
      /\ t.plan = t0.plan /\ t.found_late_test = t0.found_late_test
      /\ t.bailed_out = t0.bailed_out /\ t.num_tests = t0.num_tests
      /\ t.last_test = t0.last_test /\ t.highest_test = t0.highest_test
      /\ t.results = t0.results /\ t.res = t0.res
  BY DEF Taps
<1> HIDE DEF t
<1>3. CASE Opens(t0, line)
  <2>1. parse_line(t0, line) = [t EXCEPT !.state = "YAML"]
    BY <1>2, <1>3 DEF parse_line, t, Opens
  <2>2. line.kind = "yaml_start"
    BY <1>3 DEF Opens
  <2> QED  BY <1>2, <1>3, <2>1, <2>2 DEF Parsed, Taps, Opens, Wrong, Cuts, Indented
<1>4. CASE t0.state = "YAML" /\ line.kind \in Indented
  <2>1. ~Opens(t0, line)
    BY <1>4 DEF Opens
  <2>2. parse_line(t0, line) = IF line.kind = "yaml_end" THEN [t EXCEPT !.state = "MAIN"] ELSE t
    BY <1>2, <1>4, <2>1 DEF parse_line, t, Opens, Indented
  <2>3. ~Wrong(t0, line) /\ line.kind \notin {"test", "version", "plan", "bailout"}
    BY <1>4 DEF Wrong, Cuts, Indented
  <2> QED  BY <1>2, <1>4, <2>1, <2>2, <2>3 DEF Parsed, Taps
<1>5. CASE ~Opens(t0, line) /\ ~(t0.state = "YAML" /\ line.kind \in Indented)
  <2>1. parse_line(t0, line) = parse_main(m, line)
    BY <1>2, <1>5 DEF parse_line, t, Opens, Indented
  <2>2. /\ e \in Taps
        /\ e.res = IF yaml THEN "ERROR" ELSE t.res
        /\ e.version = t.version /\ e.lineno = t.lineno
        /\ e.plan = t.plan /\ e.found_late_test = t.found_late_test
        /\ e.bailed_out = t.bailed_out /\ e.num_tests = t.num_tests
        /\ e.last_test = t.last_test /\ e.highest_test = t.highest_test
        /\ e.results = t.results
    <3>1. yaml \in BOOLEAN
      OBVIOUS
    <3> HIDE DEF yaml
    <3> QED  BY <1>2, <3>1, ErrorFacts
  <2> HIDE DEF e
  <2>3. /\ m \in Taps /\ m.state = "MAIN"
        /\ m.res = e.res
        /\ m.version = e.version /\ m.lineno = e.lineno
        /\ m.plan = e.plan /\ m.found_late_test = e.found_late_test
        /\ m.bailed_out = e.bailed_out /\ m.num_tests = e.num_tests
        /\ m.last_test = e.last_test /\ m.highest_test = e.highest_test
        /\ m.results = e.results
    BY <2>2 DEF Taps
  <2> HIDE DEF m
  <2>4. /\ m \in Taps /\ m.state = "MAIN"
        /\ m.res = IF Cuts(t0, line) THEN "ERROR" ELSE t0.res
        /\ m.version = t0.version /\ m.lineno = t0.lineno + 1
        /\ m.plan = t0.plan /\ m.found_late_test = t0.found_late_test
        /\ m.bailed_out = t0.bailed_out /\ m.num_tests = t0.num_tests
        /\ m.last_test = t0.last_test /\ m.highest_test = t0.highest_test
        /\ m.results = t0.results
    BY <1>2, <1>5, <2>2, <2>3 DEF Cuts
  <2>5. t0.lineno \in Nat
    BY DEF Taps
  <2>6. CASE line.kind = "test"
    <3>1. parse_main(m, line) = parse_test_line(m, line)
      BY <2>6 DEF parse_main
    <3> QED  BY <1>1, <2>1, <2>4, <2>6, <3>1, TestLineFacts DEF Parsed, Wrong, LastOf
  <2>7. CASE line.kind = "plan"
    <3>1. parse_main(m, line) = parse_plan(m, line)
      BY <2>7 DEF parse_main
    <3> QED  BY <1>1, <1>5, <2>1, <2>4, <2>7, <3>1, PlanFacts DEF Parsed, Wrong, Opens, Indented
  <2>8. CASE line.kind = "version"
    <3>1. parse_main(m, line) = parse_version(m, line)
      BY <2>8 DEF parse_main
    <3> QED  BY <1>1, <1>5, <2>1, <2>4, <2>5, <2>8, <3>1, VersionFacts DEF Parsed, Wrong, Opens, Indented
  <2>9. CASE line.kind = "bailout"
    <3>1. parse_main(m, line) = [Error(m, TRUE) EXCEPT !.bailed_out = TRUE]
      BY <2>9 DEF parse_main
    <3>2. parse_main(m, line) = [[m EXCEPT !.res = "ERROR"] EXCEPT !.bailed_out = TRUE]
      BY <3>1, Zenon DEF Error
    <3> DEFINE r == [[m EXCEPT !.res = "ERROR"] EXCEPT !.bailed_out = TRUE]
    <3>3. r \in Taps
      BY <2>4, Zenon DEF Taps
    <3>4. /\ r.res = "ERROR" /\ r.bailed_out = TRUE /\ r.state = m.state
          /\ r.version = m.version /\ r.lineno = m.lineno /\ r.plan = m.plan
          /\ r.found_late_test = m.found_late_test /\ r.num_tests = m.num_tests
          /\ r.last_test = m.last_test /\ r.highest_test = m.highest_test
          /\ r.results = m.results
      BY <2>4 DEF Taps
    <3> HIDE DEF r
    <3>5. parse_line(t0, line) = r
      BY <2>1, <3>2 DEF r
    <3> QED  BY <1>5, <2>4, <2>9, <3>3, <3>4, <3>5 DEF Parsed, Wrong, Opens, Indented
  <2>10. CASE line.kind \notin {"test", "plan", "version", "bailout"}
    <3>1. parse_main(m, line) = m
      BY <2>10, Zenon DEF parse_main
    <3> QED  BY <1>5, <2>1, <2>4, <2>10, <3>1 DEF Parsed, Wrong, Opens, Indented
  <2> QED  BY <2>6, <2>7, <2>8, <2>9, <2>10
<1> QED  BY <1>3, <1>4, <1>5


-----------------------------------------------------------------------------
(* What one more line does to the meaning of the stream *)

Grows(line, n) ==
  /\ n \in Nat \ {0}
  /\ Len(lines) = n - 1 /\ DOMAIN lines = 1..(n - 1)
  /\ Len(lines') = n /\ DOMAIN lines' = 1..n
  /\ \A i \in 1..(n - 1) : lines'[i] = lines[i]
  /\ lines'[n] = line

\* ReadLine makes the stream grow by the line.
LEMMA AppendGrows ==
  ASSUME NEW S, lines \in Seq(S), NEW line \in S, lines' = Append(lines, line),
         NEW n, n = Len(lines) + 1
  PROVE  Grows(line, n) /\ lines' \in Seq(S)
BY DEF Grows

\* The positions of a kind of line are those there were and, if it is of that
\* kind, the new one.
LEMMA AtGrows ==
  ASSUME NEW line, NEW n, Grows(line, n), NEW kind
  PROVE  /\ At(kind) \subseteq 1..(n - 1)
         /\ At(kind)' \subseteq 1..n
         /\ At(kind)' = IF line.kind = kind THEN At(kind) \union {n} ELSE At(kind)
         /\ \A i \in 1..(n - 1) : i \in At(kind)' <=> i \in At(kind)
         /\ n \in At(kind)' <=> line.kind = kind
         /\ n \notin At(kind)
BY DEF Grows, At

\* Only the first line declares the version.
LEMMA DeclaredVersionGrows ==
  ASSUME NEW line, NEW n, Grows(line, n)
  PROVE  DeclaredVersion' = IF n = 1 /\ line.kind = "version" THEN line.num
                            ELSE DeclaredVersion
<1>1. CASE n = 1
  <2>1. 1 \in At("version")' <=> line.kind = "version"
    BY <1>1, AtGrows
  <2>2. 1 \notin At("version")
    BY <1>1, AtGrows
  <2>3. lines'[1] = line
    BY <1>1 DEF Grows
  <2> QED  BY <1>1, <2>1, <2>2, <2>3 DEF DeclaredVersion
<1>2. CASE n # 1
  <2>1. 1 \in 1..(n - 1)
    BY <1>2 DEF Grows
  <2>2. 1 \in At("version")' <=> 1 \in At("version")
    BY <2>1, AtGrows
  <2>3. lines'[1] = lines[1]
    BY <2>1 DEF Grows
  <2> QED  BY <1>2, <2>2, <2>3 DEF DeclaredVersion
<1> QED  BY <1>1, <1>2

\* Whether a position starts a block does not depend on later lines.
LEMMA StartsBlockGrows ==
  ASSUME NEW line, NEW n, Grows(line, n)
  PROVE  /\ \A i \in 1..(n - 1) : StartsBlock(i)' <=> StartsBlock(i)
         /\ StartsBlock(n)' <=>
              line.kind = "yaml_start" /\ n - 1 \in At("test") /\ DeclaredVersion >= 13
<1>1. ASSUME NEW i \in 1..(n - 1)
      PROVE  StartsBlock(i)' <=> StartsBlock(i)
  <2>1. n # 1
    BY DEF Grows
  <2>2. DeclaredVersion' = DeclaredVersion
    BY <2>1, DeclaredVersionGrows
  <2>3. i \in At("yaml_start")' <=> i \in At("yaml_start")
    BY AtGrows
  <2>4. i - 1 \in At("test")' <=> i - 1 \in At("test")
    <3>1. CASE i = 1
      BY <3>1 DEF At, Grows
    <3>2. CASE i # 1
      <4>1. i - 1 \in 1..(n - 1)
        BY <3>2 DEF Grows
      <4> QED  BY <4>1, AtGrows
    <3> QED  BY <3>1, <3>2
  <2> QED  BY <2>2, <2>3, <2>4 DEF StartsBlock
<1>2. StartsBlock(n)' <=>
        line.kind = "yaml_start" /\ n - 1 \in At("test") /\ DeclaredVersion >= 13
  <2>1. n \in At("yaml_start")' <=> line.kind = "yaml_start"
    BY AtGrows
  <2>2. CASE n = 1
    <3>1. n - 1 \notin At("test")' /\ n - 1 \notin At("test")
      BY <2>2 DEF At, Grows
    <3> QED  BY <3>1 DEF StartsBlock
  <2>3. CASE n # 1
    <3>1. n - 1 \in At("test")' <=> n - 1 \in At("test")
      <4>1. n - 1 \in 1..(n - 1)
        BY <2>3 DEF Grows
      <4> QED  BY <4>1, AtGrows
    <3>2. DeclaredVersion' = DeclaredVersion
      BY <2>3, DeclaredVersionGrows
    <3> QED  BY <2>1, <3>1, <3>2 DEF StartsBlock
  <2> QED  BY <2>2, <2>3
<1> QED  BY <1>1, <1>2

\* Whether a line is in a block does not depend on later lines, and the new line
\* is in one if it starts it or follows a line of a block that is not its end.
LEMMA InBlockGrows ==
  ASSUME NEW line, NEW n, Grows(line, n)
  PROVE  /\ \A i \in 1..(n - 1) : InBlock(i)' <=> InBlock(i)
         /\ InBlock(n)' <=>
              \/ /\ line.kind = "yaml_start" /\ n - 1 \in At("test")
                 /\ DeclaredVersion >= 13
              \/ /\ n > 1 /\ InBlock(n - 1) /\ lines[n - 1].kind # "yaml_end"
                 /\ line.kind \in Indented
         /\ n > 1 /\ InBlock(n - 1) => lines[n - 1].kind \in Indented
<1>1. ASSUME NEW i \in 1..(n - 1)
      PROVE  InBlock(i)' <=> InBlock(i)
  <2>1. \A j \in 1..i : StartsBlock(j)' <=> StartsBlock(j)
    BY StartsBlockGrows DEF Grows
  <2>2. \A k \in 1..i : lines'[k] = lines[k]
    BY DEF Grows
  <2>3. i \in Int
    BY DEF Grows
  <2> QED  BY <2>1, <2>2, <2>3 DEF InBlock
<1>2. ASSUME InBlock(n)'
      PROVE  \/ /\ line.kind = "yaml_start" /\ n - 1 \in At("test")
                /\ DeclaredVersion >= 13
             \/ /\ n > 1 /\ InBlock(n - 1) /\ lines[n - 1].kind # "yaml_end"
                /\ line.kind \in Indented
  <2>1. PICK j \in 1..n : /\ StartsBlock(j)'
                          /\ \A k \in j..n : lines'[k].kind \in Indented
                          /\ \A k \in j..(n - 1) : lines'[k].kind # "yaml_end"
    BY <1>2 DEF InBlock
  <2>2. CASE j = n
    BY <2>1, <2>2, StartsBlockGrows
  <2>3. CASE j # n
    <3>1. j \in 1..(n - 1) /\ n > 1
      BY <2>3 DEF Grows
    <3>2. StartsBlock(j)
      BY <2>1, <3>1, StartsBlockGrows
    <3>3. \A k \in j..(n - 1) : lines'[k] = lines[k] /\ k \in j..n
      BY <3>1 DEF Grows
    <3>4. \A k \in j..((n - 1) - 1) : lines'[k] = lines[k] /\ k \in j..(n - 1)
      BY <3>1 DEF Grows
    <3>5. InBlock(n - 1)
      BY <2>1, <3>1, <3>2, <3>3, <3>4 DEF InBlock
    <3>6. n - 1 \in j..(n - 1) /\ n \in j..n /\ lines'[n] = line
      BY <3>1 DEF Grows
    <3>7. lines[n - 1].kind # "yaml_end" /\ line.kind \in Indented
      BY <2>1, <3>3, <3>6
    <3> QED  BY <3>1, <3>5, <3>7
  <2> QED  BY <2>2, <2>3
<1>3. ASSUME line.kind = "yaml_start", n - 1 \in At("test"), DeclaredVersion >= 13
      PROVE  InBlock(n)'
  <2>1. StartsBlock(n)'
    BY <1>3, StartsBlockGrows
  <2>2. n \in 1..n /\ lines'[n] = line
    BY DEF Grows
  <2>3. \A k \in n..n : k = n
    BY DEF Grows
  <2>4. \A k \in n..(n - 1) : FALSE
    BY DEF Grows
  <2>5. \E j \in 1..n : /\ StartsBlock(j)'
                        /\ \A k \in j..n : lines'[k].kind \in Indented
                        /\ \A k \in j..(n - 1) : lines'[k].kind # "yaml_end"
    BY <1>3, <2>1, <2>2, <2>3, <2>4 DEF Indented
  <2> QED  BY <2>5 DEF InBlock
<1>4. ASSUME n > 1, InBlock(n - 1), lines[n - 1].kind # "yaml_end", line.kind \in Indented
      PROVE  InBlock(n)'
  <2>1. PICK j \in 1..(n - 1) : /\ StartsBlock(j)
                                /\ \A k \in j..(n - 1) : lines[k].kind \in Indented
                                /\ \A k \in j..((n - 1) - 1) : lines[k].kind # "yaml_end"
    BY <1>4 DEF InBlock
  <2>2. StartsBlock(j)' /\ j \in 1..n
    BY <2>1, StartsBlockGrows DEF Grows
  <2>3. ASSUME NEW k \in j..n
        PROVE  lines'[k].kind \in Indented
    <3>1. CASE k = n
      BY <1>4, <3>1 DEF Grows
    <3>2. CASE k # n
      <4>1. k \in j..(n - 1) /\ k \in 1..(n - 1)
        BY <3>2 DEF Grows
      <4> QED  BY <2>1, <4>1 DEF Grows
    <3> QED  BY <3>1, <3>2
  <2>4. ASSUME NEW k \in j..(n - 1)
        PROVE  lines'[k].kind # "yaml_end"
    <3>1. lines'[k] = lines[k]
      BY DEF Grows
    <3>2. CASE k = n - 1
      BY <1>4, <3>1, <3>2
    <3>3. CASE k # n - 1
      <4>1. k \in j..((n - 1) - 1)
        BY <3>3 DEF Grows
      <4> QED  BY <2>1, <3>1, <4>1
    <3> QED  BY <3>2, <3>3
  <2>5. \E i \in 1..n : /\ StartsBlock(i)'
                        /\ \A k \in i..n : lines'[k].kind \in Indented
                        /\ \A k \in i..(n - 1) : lines'[k].kind # "yaml_end"
    BY <2>2, <2>3, <2>4
  <2> QED  BY <2>5 DEF InBlock
<1>5. ASSUME n > 1, InBlock(n - 1)
      PROVE  lines[n - 1].kind \in Indented
  <2>1. n - 1 \in Int
    BY DEF Grows
  <2> QED  BY <1>5, <2>1 DEF InBlock
<1> QED  BY <1>1, <1>2, <1>3, <1>4, <1>5


\* Nor does it depend on later lines whether a block is cut, and what a new line
\* cuts is what the end of the stream would have cut.
LEMMA CutsBlockGrows ==
  ASSUME NEW line, NEW n, Grows(line, n)
  PROVE  /\ \A i \in 1..(n - 1) : CutsBlock(i)' <=> CutsBlock(i)
         /\ CutsBlock(n) <=> n > 1 /\ InBlock(n - 1) /\ lines[n - 1].kind # "yaml_end"
         /\ CutsBlock(n)' <=> CutsBlock(n) /\ line.kind \notin Indented
<1>1. ASSUME NEW i \in 1..(n - 1)
      PROVE  CutsBlock(i)' <=> CutsBlock(i)
  <2>1. InBlock(i)' <=> InBlock(i)
    BY InBlockGrows
  <2>2. i \in DOMAIN lines /\ i \in DOMAIN lines' /\ i \in Int
    BY DEF Grows
  <2>3. CASE i > 1
    <3>1. i - 1 \in 1..(n - 1)
      BY <2>3 DEF Grows
    <3>2. InBlock(i - 1)' <=> InBlock(i - 1)
      BY <3>1, InBlockGrows
    <3>3. i - 1 \in At("yaml_end")' <=> i - 1 \in At("yaml_end")
      BY <3>1, AtGrows
    <3> QED  BY <2>1, <2>2, <3>2, <3>3 DEF CutsBlock
  <2>4. CASE ~(i > 1)
    BY <2>4 DEF CutsBlock
  <2> QED  BY <2>3, <2>4
<1>2. n \notin DOMAIN lines /\ n \in DOMAIN lines'
  BY DEF Grows
<1>3. CASE n > 1
  <2>1. n - 1 \in 1..(n - 1)
    BY <1>3 DEF Grows
  <2>2. n - 1 \in At("yaml_end") <=> lines[n - 1].kind = "yaml_end"
    BY <2>1 DEF At, Grows
  <2>3. n - 1 \in At("yaml_end")' <=> n - 1 \in At("yaml_end")
    BY <2>1, AtGrows
  <2>4. InBlock(n - 1)' <=> InBlock(n - 1)
    BY <2>1, InBlockGrows
  <2>5. CutsBlock(n) <=> n > 1 /\ InBlock(n - 1) /\ lines[n - 1].kind # "yaml_end"
    BY <1>2, <1>3, <2>2 DEF CutsBlock
  <2>6. CutsBlock(n)' <=> CutsBlock(n) /\ ~InBlock(n)'
    BY <1>2, <1>3, <2>2, <2>3, <2>4, <2>5 DEF CutsBlock
  <2>7. n - 1 \in At("test") => lines[n - 1].kind \notin Indented
    BY DEF At, Indented
  <2>8. InBlock(n - 1) => (InBlock(n)' <=> /\ lines[n - 1].kind # "yaml_end"
                                           /\ line.kind \in Indented)
    BY <1>3, <2>7, InBlockGrows
  <2> QED  BY <1>1, <2>5, <2>6, <2>8
<1>4. CASE ~(n > 1)
  <2>1. ~CutsBlock(n) /\ ~CutsBlock(n)'
    BY <1>4 DEF CutsBlock
  <2> QED  BY <1>1, <1>4, <2>1
<1> QED  BY <1>3, <1>4

Base(S) == CHOOSE k \in S : \A m \in S : m <= k

Upto(i) == {k \in At("test") : k <= i}

Given(i) == {k \in Upto(i) : lines[k].num # Unnumbered}

\* The number of a test in terms of the tests up to it, the one that a test line
\* counts from being the last of those that have a number of their own.
LEMMA NumberIs ==
  ASSUME NEW i
  PROVE  /\ Number(i) = IF Given(i) = {} THEN Cardinality(Upto(i))
                        ELSE lines[Base(Given(i))].num
                               + Cardinality({k \in Upto(i) : k > Base(Given(i))})
         /\ Number(i)' = IF Given(i)' = {} THEN Cardinality(Upto(i)')
                         ELSE lines'[Base(Given(i)')].num
                                + Cardinality({k \in Upto(i)' : k > Base(Given(i)')})
BY Zenon DEF Number, Given, Upto, Base

\* A set of numbers that is not empty has a least element, and a greatest one if
\* it has a bound.
LEMMA LeastExists ==
  ASSUME NEW T, T \subseteq Nat, T # {}
  PROVE  \E x \in T : \A y \in T : x <= y
<1> DEFINE R == OpToRel(<, Nat)
<1>1. PICK x \in T : \A y \in T : ~(<<y, x>> \in R)
  <2>1. IsWellFoundedOn(R, Nat)
    BY NatLessThanWellFounded, Zenon
  <2> HIDE DEF R
  <2> QED  BY <2>1, WFMin, Zenon
<1>2. \A y \in T : ~(y < x)
  <2>1. TAKE y \in T
  <2>2. <<y, x>> \in R <=> <<y, x>> \in Nat \X Nat /\ y < x
    BY DEF OpToRel
  <2> QED  BY <1>1, <2>2, Zenon
<1> QED  BY <1>2

LEMMA GreatestExists ==
  ASSUME NEW T, NEW n \in Nat, T \subseteq 0..n, T # {}
  PROVE  \E x \in T : \A y \in T : y <= x
<1> DEFINE U == {n - x : x \in T}
<1>1. U \subseteq Nat /\ U # {}
  <2>1. \A x \in T : n - x \in Nat
    OBVIOUS
  <2>2. PICK x \in T : TRUE
    BY Zenon
  <2>3. n - x \in U
    BY <2>2
  <2> QED  BY <2>1, <2>3, Zenon
<1>2. PICK u \in U : \A v \in U : u <= v
  <2> HIDE DEF U
  <2> QED  BY <1>1, LeastExists, Zenon
<1>3. PICK x \in T : u = n - x
  OBVIOUS
<1>4. \A y \in T : n - x <= n - y
  BY <1>2, <1>3, Zenon
<1> QED  BY <1>4

\* The greatest element of a set is its Base.
LEMMA BaseIs ==
  ASSUME NEW S, NEW b \in S, \A m \in S : m <= b, S \subseteq Int
  PROVE  Base(S) = b
<1>1. Base(S) \in S /\ \A m \in S : m <= Base(S)
  BY Zenon DEF Base
<1>2. b \in Int /\ Base(S) \in Int /\ b <= Base(S) /\ Base(S) <= b
  BY <1>1, Zenon
<1> QED  BY <1>2

\* The number of a test does not depend on later lines.
LEMMA NumberStable ==
  ASSUME NEW line, NEW n, Grows(line, n), NEW i \in 0..(n - 1)
  PROVE  Number(i)' = Number(i)
<1>1. Upto(i)' = Upto(i)
  <2>1. \A k : k \in At("test")' /\ k <= i <=> k \in At("test") /\ k <= i
    <3>1. TAKE k
    <3>2. At("test") \subseteq 1..(n - 1) /\ At("test")' \subseteq 1..n
      BY AtGrows
    <3>3. k \in 1..(n - 1) => (k \in At("test")' <=> k \in At("test"))
      BY AtGrows
    <3> QED  BY <3>2, <3>3 DEF Grows
  <2> QED  BY <2>1, Zenon DEF Upto
<1>2. \A k \in Upto(i) : k \in 1..(n - 1) /\ lines'[k] = lines[k]
  BY AtGrows DEF Upto, Grows
<1>3. Given(i)' = Given(i)
  BY <1>1, <1>2 DEF Given
<1>4. CASE Given(i) = {}
  BY <1>1, <1>3, <1>4, NumberIs, Zenon
<1>5. CASE Given(i) # {}
  <2>1. Base(Given(i)) \in Given(i)
    <3>1. Given(i) \subseteq 0..n /\ n \in Nat /\ Given(i) \subseteq Int
      BY <1>2 DEF Given, Grows
    <3>2. PICK b \in Given(i) : \A m \in Given(i) : m <= b
      BY <1>5, <3>1, GreatestExists
    <3> QED  BY <3>1, <3>2, BaseIs
  <2>2. lines'[Base(Given(i))] = lines[Base(Given(i))]
    BY <1>2, <2>1 DEF Given
  <2> QED  BY <1>1, <1>3, <1>5, <2>2, NumberIs, Zenon
<1> QED  BY <1>4, <1>5


\* A test line counts on from the number of the last test before it, if it has
\* no number of its own, and any other line leaves that number alone.
LEMMA NumberGrows ==
  ASSUME NEW line, NEW n, Grows(line, n),
         \A k \in At("test") : lines[k].num \in Int,
         line.kind = "test" => line.num \in Int
  PROVE  Number(n)' = IF line.kind # "test" THEN Number(n - 1)
                      ELSE IF line.num = Unnumbered THEN Number(n - 1) + 1 ELSE line.num
<1>1. /\ At("test") \subseteq 1..(n - 1) /\ n \in Nat \ {0}
      /\ At("test")' = IF line.kind = "test" THEN At("test") \union {n} ELSE At("test")
  BY AtGrows DEF Grows
<1>2. Upto(n - 1) = At("test") /\ Upto(n)' = At("test")'
  BY <1>1 DEF Upto
<1>3. /\ \A k \in At("test") : lines'[k] = lines[k]
      /\ lines'[n] = line
  BY <1>1 DEF Grows
<1>4. Given(n - 1) \subseteq At("test") /\ At("test") \subseteq 0..n
  BY <1>1, <1>2 DEF Given
<1>5. ASSUME NEW S, S \subseteq At("test")
      PROVE  /\ Cardinality(S) \in Nat
             /\ Cardinality(S \union {n}) = Cardinality(S) + 1
  <2>1. S \subseteq 1..(n - 1) /\ n \notin S /\ 1 \in Int /\ n - 1 \in Int
    BY <1>1, <1>5
  <2>2. IsFiniteSet(S)
    BY <2>1, FS_Interval, FS_Subset, Zenon
  <2> QED  BY <2>1, <2>2, FS_AddElement, FS_CardinalityType
<1>6. CASE line.kind # "test"
  <2>1. Given(n)' = Given(n - 1) /\ Upto(n)' = Upto(n - 1)
    BY <1>1, <1>2, <1>3, <1>6 DEF Given
  <2>2. CASE Given(n - 1) = {}
    BY <1>6, <2>1, <2>2, NumberIs, Zenon
  <2>3. CASE Given(n - 1) # {}
    <3>1. PICK b \in Given(n - 1) : \A m \in Given(n - 1) : m <= b
      BY <1>1, <1>4, <2>3, GreatestExists
    <3>2. Base(Given(n - 1)) = b
      BY <1>4, <3>1, BaseIs
    <3>3. lines'[b] = lines[b]
      BY <1>3, <1>4
    <3> QED  BY <1>6, <2>1, <2>3, <3>2, <3>3, NumberIs, Zenon
  <2> QED  BY <2>2, <2>3
<1>7. CASE line.kind = "test" /\ line.num # Unnumbered
  <2>1. n \in Given(n)' /\ \A m \in Given(n)' : m <= n
    BY <1>1, <1>2, <1>3, <1>7 DEF Given
  <2>2. Given(n)' \subseteq Int
    BY <1>1, <1>2 DEF Given
  <2>3. Base(Given(n)') = n
    BY <2>1, <2>2, BaseIs
  <2>4. {k \in Upto(n)' : k > n} = {}
    BY <1>1, <1>2
  <2>5. Number(n)' = line.num + Cardinality({})
    BY <1>3, <2>1, <2>3, <2>4, NumberIs, Zenon
  <2> QED  BY <1>7, <2>5, FS_EmptySet
<1>8. CASE line.kind = "test" /\ line.num = Unnumbered
  <2>1. Given(n)' = Given(n - 1)
    BY <1>1, <1>2, <1>3, <1>8 DEF Given
  <2>2. Upto(n)' = Upto(n - 1) \union {n}
    BY <1>1, <1>2, <1>8
  <2>3. CASE Given(n - 1) = {}
    <3>1. Number(n - 1) = Cardinality(At("test"))
      BY <1>2, <2>3, NumberIs, Zenon
    <3>2. Number(n)' = Cardinality(At("test") \union {n})
      BY <1>2, <2>1, <2>2, <2>3, NumberIs, Zenon
    <3> QED  BY <1>5, <1>8, <3>1, <3>2
  <2>4. CASE Given(n - 1) # {}
    <3>1. PICK b \in Given(n - 1) : \A m \in Given(n - 1) : m <= b
      BY <1>1, <1>4, <2>4, GreatestExists
    <3>2. Base(Given(n - 1)) = b /\ lines'[b] = lines[b]
      BY <1>3, <1>4, <3>1, BaseIs
    <3> DEFINE S == {k \in At("test") : k > b}
    <3>3. {k \in Upto(n)' : k > b} = S \union {n}
      BY <1>1, <1>2, <1>4, <2>2, <3>1
    <3>4. {k \in Upto(n - 1) : k > b} = S
      BY <1>2
    <3>5. Cardinality(S) \in Nat /\ Cardinality(S \union {n}) = Cardinality(S) + 1
      BY <1>5
    <3>6. lines[b].num \in Int
      BY <1>4, <3>1
    <3>7. Number(n)' = lines[b].num + Cardinality(S \union {n})
      BY <2>1, <2>4, <3>2, <3>3, NumberIs, Zenon
    <3>8. Number(n - 1) = lines[b].num + Cardinality(S)
      BY <2>4, <3>2, <3>4, NumberIs, Zenon
    <3> QED  BY <1>8, <3>5, <3>6, <3>7, <3>8
  <2> QED  BY <2>3, <2>4
<1> QED  BY <1>6, <1>7, <1>8


\* Everything wrong at position i but the count at the end
BadAt(i) ==
  \/ BadSubtest(i) \/ i \in At("bailout") \/ MisplacedTest(i) \/ BadPlan(i)
  \/ BadVersion(i) \/ CutsBlock(i)

\* The plan in front of a position does not depend on later lines.
LEMMA IsPlanBeforeGrows ==
  ASSUME NEW line, NEW n, Grows(line, n), NEW i \in 1..n, NEW p
  PROVE  IsPlanBefore(p, i)' <=> IsPlanBefore(p, i)
<1>1. /\ At("plan") \subseteq 1..(n - 1)
      /\ At("plan")' = IF line.kind = "plan" THEN At("plan") \union {n} ELSE At("plan")
      /\ n \in Nat \ {0}
  BY AtGrows DEF Grows
<1> QED  BY <1>1 DEF IsPlanBefore

\* What is wrong with a line does not depend on later lines.
LEMMA BadAtStable ==
  ASSUME NEW line, NEW n, Grows(line, n), NEW i \in 1..(n - 1)
  PROVE  /\ BadSubtest(i)' <=> BadSubtest(i)
         /\ BadAt(i)' <=> BadAt(i)
<1>1. i \in 1..n /\ i \in 0..(n - 1) /\ lines'[i] = lines[i] /\ i \in Int
  BY DEF Grows
<1>2. \A kind : i \in At(kind)' <=> i \in At(kind)
  BY AtGrows
<1>3. \A kind : \A k \in 1..(n - 1) : k \in At(kind)' <=> k \in At(kind)
  BY AtGrows
<1>4. At("test") \subseteq 1..(n - 1) /\ At("test")' \subseteq 1..n /\ n \in Nat \ {0}
  BY AtGrows DEF Grows
<1>5. BadSubtest(i)' <=> BadSubtest(i)
  BY <1>1, <1>2 DEF BadSubtest
<1>6. MisplacedTest(i)' <=> MisplacedTest(i)
  <2>1. Number(i)' = Number(i)
    BY <1>1, NumberStable
  <2>2. ASSUME NEW p \in 1..(i - 1)
        PROVE  /\ IsPlanBefore(p, i)' <=> IsPlanBefore(p, i)
               /\ lines'[p] = lines[p]
               /\ (\E k \in At("test")' : k < p) <=> (\E k \in At("test") : k < p)
               /\ (\E k \in At("test")' : p < k /\ k < i)
                    <=> (\E k \in At("test") : p < k /\ k < i)
    <3>1. p \in 1..(n - 1)
      BY <1>4
    <3>2. IsPlanBefore(p, i)' <=> IsPlanBefore(p, i)
      BY <1>1, IsPlanBeforeGrows
    <3>3. lines'[p] = lines[p]
      BY <3>1 DEF Grows
    <3>4. \A k : k < p /\ k \in 1..n => k \in 1..(n - 1)
      BY <1>4, <3>1
    <3>5. \A k : k < i /\ k \in 1..n => k \in 1..(n - 1)
      BY <1>4
    <3>6. (\E k \in At("test")' : k < p) <=> (\E k \in At("test") : k < p)
      BY <1>3, <1>4, <3>4
    <3>7. (\E k \in At("test")' : p < k /\ k < i) <=> (\E k \in At("test") : p < k /\ k < i)
      BY <1>3, <1>4, <3>5
    <3> QED  BY <3>2, <3>3, <3>6, <3>7
  <2> QED  BY <1>2, <2>1, <2>2 DEF MisplacedTest
<1>7. BadPlan(i)' <=> BadPlan(i)
  <2>1. At("plan") \subseteq 1..(n - 1) /\ At("plan")' \subseteq 1..n
    BY AtGrows
  <2>2. (\E p \in At("plan")' : p < i) <=> (\E p \in At("plan") : p < i)
    <3>1. \A k : k < i /\ k \in 1..n => k \in 1..(n - 1)
      BY <1>4
    <3> QED  BY <1>3, <2>1, <3>1
  <2> QED  BY <1>1, <1>2, <2>2 DEF BadPlan
<1>8. BadVersion(i)' <=> BadVersion(i)
  BY <1>1, <1>2 DEF BadVersion
<1>9. CutsBlock(i)' <=> CutsBlock(i)
  BY CutsBlockGrows
<1> QED  BY <1>2, <1>5, <1>6, <1>7, <1>8, <1>9 DEF BadAt


-----------------------------------------------------------------------------
(* The invariant: what each variable of the parser says of the stream *)

StateInv ==
  /\ tap.lineno = Len(lines)
  /\ tap.version = DeclaredVersion
  /\ tap.state = "AFTER_TEST" <=> Len(lines) > 0 /\ lines[Len(lines)].kind = "test"
  /\ tap.state = "YAML" <=> /\ Len(lines) > 0 /\ InBlock(Len(lines))
                            /\ lines[Len(lines)].kind # "yaml_end"
  /\ tap.bailed_out <=> At("bailout") # {}
  /\ tap.results = {ResultOf(lines[i]) : i \in At("test")}

\* What the first plan line says, and whether tests came in front of it and behind
PlanIs(p) ==
  /\ IsPlanBefore(p, Len(lines) + 1)
  /\ tap.plan.num_tests = lines[p].num
  /\ tap.plan.late <=> (\E k \in At("test") : k < p)
  /\ tap.found_late_test <=> tap.plan.late /\ (\E k \in At("test") : p < k)

PlanInv ==
  /\ tap.plan.given => \E p \in At("plan") : PlanIs(p)
  /\ ~tap.plan.given => At("plan") = {} /\ ~tap.plan.late /\ ~tap.found_late_test

CountInv ==
  /\ tap.num_tests = Cardinality(At("test"))
  /\ tap.last_test = Number(Len(lines))
  /\ \A i \in At("test") : Number(i) \in Nat /\ Number(i) <= tap.highest_test
  /\ tap.highest_test = 0 \/ \E i \in At("test") : Number(i) = tap.highest_test

\* The last bad line decides.
Decides(i) ==
  /\ BadAt(i)
  /\ \A k \in 1..Len(lines) : k > i => ~BadAt(k)
  /\ tap.res = IF BadSubtest(i) THEN "FAIL" ELSE "ERROR"

ResInv ==
  \/ tap.res = "none" /\ \A i \in 1..Len(lines) : ~BadAt(i)
  \/ \E i \in 1..Len(lines) : Decides(i)

TapInv ==
  /\ tap \in Taps /\ lines \in Seq(TapLine)
  /\ StateInv /\ PlanInv /\ CountInv /\ ResInv

\* In a stream of TAP lines, the tests have numbers.
LEMMA TestNumbers ==
  ASSUME lines \in Seq(TapLine)
  PROVE  \A k \in At("test") : lines[k].num \in Int /\ ResultOf(lines[k]) \in Results
<1>1. TAKE k \in At("test")
<1>2. lines[k] \in TapLine /\ lines[k].kind = "test"
  BY DEF At
<1>3. lines[k].num \in Nat \union {Unnumbered} /\ ResultOf(lines[k]) \in Results
  BY <1>2, LineFacts
<1> QED  BY <1>3 DEF Unnumbered

\* The parser has seen nothing before the first line.
LEMMA TapInit ==
  ASSUME lines = <<>>, tap = TAPParser
  PROVE  TapInv
<1>1. tap \in Taps /\ lines \in Seq(TapLine)
  BY DEF TAPParser, NoPlan, Taps
<1>2. Len(lines) = 0 /\ DOMAIN lines = {}
  OBVIOUS
<1>3. \A kind : At(kind) = {}
  BY <1>2 DEF At
<1>4. DeclaredVersion = 12
  BY <1>3 DEF DeclaredVersion
<1>5. Number(0) = 0
  <2>1. Upto(0) = {} /\ Given(0) = {}
    BY <1>3 DEF Upto, Given
  <2> QED  BY <2>1, NumberIs, FS_EmptySet, Zenon
<1>6. StateInv
  BY <1>2, <1>3, <1>4 DEF StateInv, TAPParser
<1>7. PlanInv
  BY <1>3 DEF PlanInv, TAPParser, NoPlan
<1>8. CountInv
  BY <1>2, <1>3, <1>5, FS_EmptySet DEF CountInv, TAPParser
<1>9. ResInv
  BY <1>2 DEF ResInv, TAPParser
<1> QED  BY <1>1, <1>6, <1>7, <1>8, <1>9 DEF TapInv

\* parse_line keeps count of where it is in the stream.
LEMMA StateStep ==
  ASSUME TapInv, NEW line \in TapLine, NEW n, Grows(line, n), Parsed(tap, line, tap')
  PROVE  /\ StateInv'
         /\ CutsBlock(n) <=> tap.state = "YAML"
<1>1. /\ n \in Nat \ {0} /\ Len(lines) = n - 1 /\ Len(lines)' = n
      /\ lines'[n] = line /\ tap.lineno = n - 1 /\ tap.version = DeclaredVersion
  BY DEF Grows, TapInv, StateInv
<1>2. tap'.lineno = n
  BY <1>1 DEF Parsed
<1>3. tap'.version = DeclaredVersion'
  BY <1>1, DeclaredVersionGrows DEF Parsed
<1>4. tap'.state = "AFTER_TEST" <=> line.kind = "test"
  BY DEF Parsed
<1>5. n - 1 \in At("test") <=> tap.state = "AFTER_TEST"
  BY <1>1 DEF TapInv, StateInv, At, Grows
<1>6. tap.state = "YAML" <=> n > 1 /\ InBlock(n - 1) /\ lines[n - 1].kind # "yaml_end"
  BY <1>1 DEF TapInv, StateInv
<1>7. tap'.state = "YAML" <=> InBlock(n)' /\ line.kind # "yaml_end"
  <2>1. InBlock(n)' <=> Opens(tap, line) \/ (tap.state = "YAML" /\ line.kind \in Indented)
    BY <1>1, <1>5, <1>6, InBlockGrows DEF Opens
  <2>2. line.kind = "test" => line.kind \notin Indented /\ ~Opens(tap, line)
    BY DEF Indented, Opens
  <2>3. Opens(tap, line) => line.kind # "yaml_end"
    BY DEF Opens
  <2> QED  BY <2>1, <2>2, <2>3 DEF Parsed
<1>8. tap'.bailed_out <=> At("bailout")' # {}
  <2>1. At("bailout")' # {} <=> At("bailout") # {} \/ line.kind = "bailout"
    BY AtGrows
  <2> QED  BY <2>1 DEF Parsed, TapInv, StateInv
<1>9. tap'.results = {ResultOf(lines'[i]) : i \in At("test")'}
  <2>1. tap.results = {ResultOf(lines[i]) : i \in At("test")}
    BY DEF TapInv, StateInv
  <2>2. \A i \in At("test") : lines'[i] = lines[i]
    BY AtGrows DEF Grows
  <2>3. CASE line.kind = "test"
    <3>1. At("test")' = At("test") \union {n}
      BY <2>3, AtGrows
    <3>2. tap'.results = tap.results \union {ResultOf(line)}
      BY <2>3 DEF Parsed
    <3> QED  BY <1>1, <2>1, <2>2, <3>1, <3>2
  <2>4. CASE line.kind # "test"
    <3>1. At("test")' = At("test")
      BY <2>4, AtGrows
    <3>2. tap'.results = tap.results
      BY <2>4 DEF Parsed
    <3> QED  BY <2>1, <2>2, <3>1, <3>2
  <2> QED  BY <2>3, <2>4
<1>10. StateInv'
  BY <1>1, <1>2, <1>3, <1>4, <1>7, <1>8, <1>9 DEF StateInv
<1> QED  BY <1>6, <1>10, CutsBlockGrows


\* Only finitely many lines have been read.
LEMMA PositionsFinite ==
  ASSUME NEW n \in Nat, NEW S, S \subseteq 1..n
  PROVE  IsFiniteSet(S) /\ Cardinality(S) \in Nat
<1>1. 1 \in Int /\ n \in Int /\ S \in SUBSET (1..n)
  OBVIOUS
<1>2. IsFiniteSet(1..n)
  BY <1>1, FS_Interval, Zenon
<1>3. IsFiniteSet(S)
  BY <1>1, <1>2, FS_Subset, Zenon
<1> QED  BY <1>3, FS_CardinalityType

\* parse_plan takes the first plan, parse_test_line notes a test behind a late one.
LEMMA PlanStep ==
  ASSUME TapInv, NEW line \in TapLine, NEW n, Grows(line, n), Parsed(tap, line, tap')
  PROVE  PlanInv'
<1>1. /\ n \in Nat \ {0} /\ Len(lines) = n - 1 /\ Len(lines') = n /\ lines'[n] = line
      /\ \A i \in 1..(n - 1) : lines'[i] = lines[i]
  BY DEF Grows
<1>2. /\ At("plan") \subseteq 1..(n - 1) /\ At("test") \subseteq 1..(n - 1)
      /\ At("plan")' = IF line.kind = "plan" THEN At("plan") \union {n} ELSE At("plan")
      /\ At("test")' = IF line.kind = "test" THEN At("test") \union {n} ELSE At("test")
  BY AtGrows
<1>3. CASE tap.plan.given
  <2>1. PICK p \in At("plan") : PlanIs(p)
    BY <1>3 DEF TapInv, PlanInv
  <2>2. tap'.plan = tap.plan
    BY <1>3 DEF Parsed
  <2>3. p \in At("plan")' /\ p \in 1..(n - 1) /\ lines'[p] = lines[p]
    BY <1>1, <1>2
  <2>4. IsPlanBefore(p, n + 1)'
    BY <1>1, <1>2, <2>1, <2>3 DEF PlanIs, IsPlanBefore
  <2>5. (\E k \in At("test")' : k < p) <=> (\E k \in At("test") : k < p)
    BY <1>1, <1>2, <2>3
  <2>6. (\E k \in At("test")' : p < k) <=> (\E k \in At("test") : p < k) \/ line.kind = "test"
    BY <1>1, <1>2, <2>3
  <2>7. tap'.found_late_test <=>
          tap'.plan.late /\ (\E k \in At("test")' : p < k)
    BY <2>1, <2>2, <2>6 DEF Parsed, PlanIs
  <2>8. PlanIs(p)'
    BY <1>1, <2>1, <2>2, <2>3, <2>4, <2>5, <2>7 DEF PlanIs
  <2> QED  BY <1>3, <2>2, <2>3, <2>8 DEF PlanInv
<1>4. CASE ~tap.plan.given
  <2>1. At("plan") = {} /\ ~tap.plan.late /\ ~tap.found_late_test
    BY <1>4 DEF TapInv, PlanInv
  <2>2. ~tap'.found_late_test
    BY <2>1 DEF Parsed
  <2>3. CASE line.kind = "plan"
    <3>1. tap'.plan = [given |-> TRUE, num_tests |-> line.num, late |-> tap.num_tests > 0]
      BY <1>4, <2>3 DEF Parsed
    <3>2. tap.num_tests > 0 <=> At("test") # {}
      <4>1. IsFiniteSet(At("test"))
        BY <1>1, <1>2, PositionsFinite
      <4>2. tap.num_tests = Cardinality(At("test")) /\ tap.num_tests \in Nat
        BY DEF TapInv, CountInv, Taps
      <4> QED  BY <4>1, <4>2, FS_EmptySet
    <3>3. At("plan")' = {n} /\ At("test")' = At("test")
      BY <1>2, <2>1, <2>3
    <3>4. /\ (\E k \in At("test")' : k < n) <=> At("test") # {}
          /\ ~(\E k \in At("test")' : n < k)
      BY <1>1, <1>2, <3>3
    <3>5. IsPlanBefore(n, n + 1)'
      BY <1>1, <3>3 DEF IsPlanBefore
    <3>6. /\ tap'.plan.given /\ tap'.plan.num_tests = line.num
          /\ tap'.plan.late <=> tap.num_tests > 0
      <4> DEFINE late == tap.num_tests > 0
      <4>1. late \in BOOLEAN
        OBVIOUS
      <4>2. tap'.plan = [given |-> TRUE, num_tests |-> line.num, late |-> late]
        BY <3>1
      <4> HIDE DEF late
      <4>3. tap'.plan.given = TRUE /\ tap'.plan.num_tests = line.num /\ tap'.plan.late = late
        BY <4>2
      <4> QED  BY <4>3, Zenon DEF late
    <3>7. PlanIs(n)'
      BY <1>1, <2>2, <3>2, <3>4, <3>5, <3>6 DEF PlanIs
    <3> QED  BY <3>3, <3>6, <3>7 DEF PlanInv
  <2>4. CASE line.kind # "plan"
    <3>1. tap'.plan = tap.plan /\ At("plan")' = {}
      BY <1>2, <2>1, <2>4 DEF Parsed
    <3> QED  BY <1>4, <2>1, <2>2, <3>1 DEF PlanInv
  <2> QED  BY <2>3, <2>4
<1> QED  BY <1>3, <1>4

\* parse_test_line counts the tests and keeps the last and the highest number.
LEMMA CountStep ==
  ASSUME TapInv, NEW line \in TapLine, NEW n, Grows(line, n), Parsed(tap, line, tap')
  PROVE  /\ CountInv'
         /\ line.kind = "test" => Number(n)' = LastOf(tap, line)
<1>1. /\ n \in Nat \ {0} /\ Len(lines) = n - 1 /\ Len(lines') = n
      /\ At("test") \subseteq 1..(n - 1) /\ n \notin At("test")
      /\ At("test")' = IF line.kind = "test" THEN At("test") \union {n} ELSE At("test")
  BY AtGrows DEF Grows
<1>2. /\ tap.num_tests = Cardinality(At("test"))
      /\ tap.last_test = Number(n - 1)
      /\ \A i \in At("test") : Number(i) \in Nat /\ Number(i) <= tap.highest_test
      /\ tap.highest_test = 0 \/ \E i \in At("test") : Number(i) = tap.highest_test
      /\ tap.last_test \in Nat /\ tap.highest_test \in Nat
  BY <1>1 DEF TapInv, CountInv, Taps
<1>3. Number(n)' = IF line.kind # "test" THEN Number(n - 1)
                   ELSE IF line.num = Unnumbered THEN Number(n - 1) + 1 ELSE line.num
  <2>1. line.kind = "test" => line.num \in Int
    BY LineFacts DEF Unnumbered
  <2>2. \A k \in At("test") : lines[k].num \in Int
    BY TestNumbers DEF TapInv
  <2> QED  BY <2>1, <2>2, NumberGrows
<1>4. line.kind = "test" => Number(n)' = LastOf(tap, line) /\ LastOf(tap, line) \in Nat
  <2>1. line.kind = "test" => line.num \in Nat \union {Unnumbered}
    BY LineFacts
  <2> QED  BY <1>2, <1>3, <2>1 DEF LastOf
<1>5. \A i \in At("test") : Number(i)' = Number(i)
  <2>1. TAKE i \in At("test")
  <2>2. i \in 0..(n - 1)
    BY <1>1
  <2> QED  BY <2>2, NumberStable
<1>6. tap'.num_tests = Cardinality(At("test")')
  <2>1. IsFiniteSet(At("test"))
    BY <1>1, PositionsFinite
  <2>2. Cardinality(At("test") \union {n}) = Cardinality(At("test")) + 1
    BY <1>1, <2>1, FS_AddElement, Zenon
  <2> QED  BY <1>1, <1>2, <2>2, Zenon DEF Parsed
<1>7. tap'.last_test = Number(n)'
  BY <1>2, <1>3, <1>4 DEF Parsed
<1>8. CASE line.kind = "test"
  <2>1. tap'.highest_test = Max(tap.highest_test, LastOf(tap, line))
    BY <1>8 DEF Parsed
  <2>2. /\ tap'.highest_test >= tap.highest_test /\ tap'.highest_test >= LastOf(tap, line)
        /\ tap'.highest_test \in {tap.highest_test, LastOf(tap, line)}
        /\ tap'.highest_test \in Nat
    BY <1>2, <1>4, <1>8, <2>1 DEF Max
  <2>3. \A i \in At("test")' : i = n \/ i \in At("test")
    BY <1>1
  <2>4. n \in At("test")' /\ At("test") \subseteq At("test")'
    BY <1>1, <1>8
  <2>5. ASSUME NEW i \in At("test")'
        PROVE  Number(i)' \in Nat /\ Number(i)' <= tap'.highest_test
    <3>1. CASE i = n
      BY <1>4, <1>8, <2>2, <3>1
    <3>2. CASE i \in At("test")
      BY <1>2, <1>5, <2>2, <3>2
    <3> QED  BY <2>3, <3>1, <3>2
  <2>6. tap'.highest_test = 0 \/ \E i \in At("test")' : Number(i)' = tap'.highest_test
    <3>1. CASE tap'.highest_test = LastOf(tap, line)
      BY <1>4, <1>8, <2>4, <3>1
    <3>2. CASE tap'.highest_test = tap.highest_test
      BY <1>2, <1>5, <2>4, <3>2
    <3> QED  BY <2>2, <3>1, <3>2
  <2>7. CountInv'
    BY <1>1, <1>6, <1>7, <2>5, <2>6 DEF CountInv
  <2> QED  BY <1>4, <2>7
<1>9. CASE line.kind # "test"
  <2>1. tap'.highest_test = tap.highest_test /\ At("test")' = At("test")
    BY <1>1, <1>9 DEF Parsed
  <2>2. \A i \in At("test")' : Number(i)' \in Nat /\ Number(i)' <= tap'.highest_test
    BY <1>2, <1>5, <2>1
  <2>3. tap'.highest_test = 0 \/ \E i \in At("test")' : Number(i)' = tap'.highest_test
    BY <1>2, <1>5, <2>1
  <2>4. CountInv'
    BY <1>1, <1>6, <1>7, <2>2, <2>3 DEF CountInv
  <2> QED  BY <1>9, <2>4
<1> QED  BY <1>8, <1>9


\* What is wrong with the new line is what parse_line yields an error for, or a
\* bad result.
LEMMA BadAtNew ==
  ASSUME TapInv, NEW line \in TapLine, NEW n, Grows(line, n), Parsed(tap, line, tap')
  PROVE  /\ BadSubtest(n)' <=> line.kind = "test" /\ ResultOf(line) \in is_bad
         /\ BadAt(n)' <=> BadSubtest(n)' \/ Wrong(tap, line)
<1>1. /\ n \in Nat \ {0} /\ Len(lines) = n - 1 /\ lines'[n] = line
      /\ \A i \in 1..(n - 1) : lines'[i] = lines[i]
      /\ At("test") \subseteq 1..(n - 1) /\ At("plan") \subseteq 1..(n - 1)
      /\ At("test")' = IF line.kind = "test" THEN At("test") \union {n} ELSE At("test")
      /\ At("plan")' = IF line.kind = "plan" THEN At("plan") \union {n} ELSE At("plan")
      /\ tap.lineno = n - 1
  BY AtGrows DEF Grows, TapInv, StateInv
<1>2. \A kind : n \in At(kind)' <=> line.kind = kind
  BY AtGrows
<1>3. BadSubtest(n)' <=> line.kind = "test" /\ ResultOf(line) \in is_bad
  BY <1>1, <1>2 DEF BadSubtest
<1>4. BadVersion(n)' <=> line.kind = "version" /\ (tap.lineno # 0 \/ line.num < 13)
  BY <1>1, <1>2 DEF BadVersion
<1>5. BadPlan(n)' <=> /\ line.kind = "plan"
                      /\ \/ tap.plan.given \/ line.directive = "TODO"
                         \/ line.directive = "SKIP" /\ line.num > 0
  <2>1. tap.plan.given <=> At("plan") # {}
    BY DEF TapInv, PlanInv
  <2>2. (\E p \in At("plan")' : p < n) <=> At("plan") # {}
    BY <1>1
  <2> QED  BY <1>1, <1>2, <2>1, <2>2 DEF BadPlan
<1>6. CutsBlock(n)' <=> Cuts(tap, line)
  BY StateStep, CutsBlockGrows DEF Cuts
<1>7. MisplacedTest(n)' <=>
        /\ line.kind = "test"
        /\ \/ tap.plan.late /\ ~tap.found_late_test
           \/ tap.plan.given /\ LastOf(tap, line) > tap.plan.num_tests
  <2>1. CASE line.kind # "test"
    BY <1>2, <2>1 DEF MisplacedTest
  <2>2. CASE line.kind = "test" /\ ~tap.plan.given
    <3>1. At("plan")' = {} /\ ~tap.plan.late
      BY <1>1, <2>2 DEF TapInv, PlanInv
    <3> QED  BY <2>2, <3>1 DEF MisplacedTest, IsPlanBefore
  <2>3. CASE line.kind = "test" /\ tap.plan.given
    <3>1. PICK p \in At("plan") : PlanIs(p)
      BY <2>3 DEF TapInv, PlanInv
    <3>2. Number(n)' = LastOf(tap, line)
      BY <2>3, CountStep
    <3>3. At("plan")' = At("plan") /\ p \in 1..(n - 1) /\ lines'[p] = lines[p]
      BY <1>1, <2>3
    <3>4. \A q : IsPlanBefore(q, n)' <=> q = p
      BY <1>1, <3>1, <3>3 DEF PlanIs, IsPlanBefore
    <3>5. (\E k \in At("test")' : k < p) <=> tap.plan.late
      BY <1>1, <2>3, <3>1, <3>3 DEF PlanIs
    <3>6. tap.found_late_test <=>
            tap.plan.late /\ (\E k \in At("test")' : p < k /\ k < n)
      <4>1. (\E k \in At("test")' : p < k /\ k < n) <=> (\E k \in At("test") : p < k)
        BY <1>1, <2>3
      <4> QED  BY <3>1, <4>1 DEF PlanIs
    <3>7. MisplacedTest(n)' <=>
            \/ LastOf(tap, line) > tap.plan.num_tests
            \/ /\ \E k \in At("test")' : k < p
               /\ ~(\E k \in At("test")' : p < k /\ k < n)
      BY <1>2, <2>3, <3>1, <3>2, <3>3, <3>4 DEF MisplacedTest, PlanIs
    <3> QED  BY <2>3, <3>5, <3>6, <3>7
  <2> QED  BY <2>1, <2>2, <2>3
<1> QED  BY <1>2, <1>3, <1>4, <1>5, <1>6, <1>7 DEF BadAt, Wrong

\* The result of the parser is that of the last bad line.
LEMMA ResStep ==
  ASSUME TapInv, NEW line \in TapLine, NEW n, Grows(line, n), Parsed(tap, line, tap')
  PROVE  ResInv'
<1>1. n \in Nat \ {0} /\ Len(lines) = n - 1 /\ Len(lines') = n
  BY DEF Grows
<1>2. \A i \in 1..(n - 1) : /\ BadSubtest(i)' <=> BadSubtest(i)
                            /\ BadAt(i)' <=> BadAt(i)
  BY BadAtStable
<1>3. /\ BadSubtest(n)' <=> line.kind = "test" /\ ResultOf(line) \in is_bad
      /\ BadAt(n)' <=> BadSubtest(n)' \/ Wrong(tap, line)
  BY BadAtNew
<1>4. tap'.res = IF BadSubtest(n)' THEN "FAIL"
                 ELSE IF Wrong(tap, line) THEN "ERROR" ELSE tap.res
  BY <1>3 DEF Parsed
<1>5. CASE BadAt(n)'
  <2>1. n \in 1..n /\ \A k \in 1..n : ~(k > n)
    BY <1>1
  <2>2. Decides(n)'
    BY <1>1, <1>3, <1>4, <1>5, <2>1 DEF Decides
  <2> QED  BY <1>1, <2>1, <2>2 DEF ResInv
<1>6. CASE ~BadAt(n)'
  <2>1. tap'.res = tap.res
    BY <1>3, <1>4, <1>6
  <2>2. \A k \in 1..n : k = n \/ k \in 1..(n - 1)
    BY <1>1
  <2>3. CASE tap.res = "none" /\ \A i \in 1..(n - 1) : ~BadAt(i)
    <3>1. \A i \in 1..n : ~BadAt(i)'
      BY <1>2, <1>6, <2>2, <2>3
    <3> QED  BY <1>1, <2>1, <2>3, <3>1 DEF ResInv
  <2>4. CASE \E i \in 1..(n - 1) : Decides(i)
    <3>1. PICK i \in 1..(n - 1) : Decides(i)
      BY <2>4
    <3>2. BadAt(i)' /\ (BadSubtest(i)' <=> BadSubtest(i))
      BY <1>2, <3>1 DEF Decides
    <3>3. \A k \in 1..n : k > i => ~BadAt(k)'
      BY <1>1, <1>2, <1>6, <2>2, <3>1 DEF Decides
    <3>4. tap'.res = IF BadSubtest(i)' THEN "FAIL" ELSE "ERROR"
      BY <2>1, <3>1, <3>2 DEF Decides
    <3>5. Decides(i)'
      BY <1>1, <3>2, <3>3, <3>4 DEF Decides
    <3> QED  BY <1>1, <3>5 DEF ResInv
  <2> QED  BY <1>1, <2>3, <2>4 DEF TapInv, ResInv
<1> QED  BY <1>5, <1>6

\* parse_line keeps the invariant.
LEMMA TapStep ==
  ASSUME TapInv, NEW line \in TapLine,
         lines' = Append(lines, line), tap' = parse_line(tap, line)
  PROVE  TapInv'
<1>1. tap \in Taps /\ lines \in Seq(TapLine)
  BY DEF TapInv
<1>2. PICK n : n = Len(lines) + 1
  OBVIOUS
<1>3. Grows(line, n) /\ lines' \in Seq(TapLine)
  BY <1>1, <1>2, AppendGrows
<1>4. Parsed(tap, line, tap')
  BY <1>1, ParseLineFacts
<1>5. tap' \in Taps
  BY <1>4 DEF Parsed
<1> QED  BY <1>3, <1>4, <1>5, StateStep, PlanStep, CountStep, ResStep DEF TapInv


-----------------------------------------------------------------------------
(* From the invariant to the meaning of the stream *)

\* What parse_line(None) yields an error for
BadEnd ==
  \/ tap.state = "YAML"
  \/ /\ ~tap.bailed_out
     /\ \/ tap.plan.given /\ tap.num_tests # tap.plan.num_tests
        \/ tap.highest_test # tap.num_tests

\* The verdict of the parser, from its result and the end of the stream.
LEMMA VerdictIs ==
  ASSUME TapInv
  PROVE  tap_verdict(tap) =
           LET last == IF BadEnd THEN "ERROR" ELSE tap.res
           IN  IF tap.results \subseteq {"SKIP"} /\ last # "ERROR" THEN "SKIP" ELSE last
<1>1. tap \in Taps
  BY DEF TapInv
<1>2. parse_eof(tap).res = IF BadEnd THEN "ERROR" ELSE tap.res
  BY <1>1 DEF parse_eof, Error, BadEnd, Taps
<1> QED  BY <1>2 DEF tap_verdict, AllSkipped

\* The counters tell whether the stream is miscounted.
LEMMA BadEndIs ==
  ASSUME TapInv, NEW n, n = Len(lines) + 1
  PROVE  /\ BadEnd <=> CutsBlock(n) \/ Miscounted
         /\ \A kind : n \notin At(kind) /\ At(kind) \subseteq 1..(n - 1)
         /\ n \in Nat \ {0} /\ Len(lines) = n - 1
<1>1. n \in Nat \ {0} /\ Len(lines) = n - 1 /\ DOMAIN lines = 1..(n - 1)
  BY DEF TapInv
<1>2. \A kind : n \notin At(kind) /\ At(kind) \subseteq 1..(n - 1)
  BY <1>1 DEF At
<1>3. CutsBlock(n) <=> tap.state = "YAML"
  <2>1. n \notin DOMAIN lines /\ (n > 1 => n - 1 \in DOMAIN lines)
    BY <1>1
  <2>2. CutsBlock(n) <=> n > 1 /\ InBlock(n - 1) /\ n - 1 \notin At("yaml_end")
    BY <2>1 DEF CutsBlock
  <2>3. n > 1 => (n - 1 \in At("yaml_end") <=> lines[n - 1].kind = "yaml_end")
    BY <2>1 DEF At
  <2>4. tap.state = "YAML" <=> n - 1 > 0 /\ InBlock(n - 1) /\ lines[n - 1].kind # "yaml_end"
    BY <1>1 DEF TapInv, StateInv
  <2>5. n > 1 <=> n - 1 > 0
    BY <1>1
  <2> QED  BY <2>2, <2>3, <2>4, <2>5
<1>4. tap.bailed_out <=> At("bailout") # {}
  BY DEF TapInv, StateInv
<1>5. tap.plan.given /\ tap.num_tests # tap.plan.num_tests <=>
        \E p \in At("plan") : /\ IsPlanBefore(p, Len(lines) + 1)
                              /\ lines[p].num # Cardinality(At("test"))
  <2>1. tap.num_tests = Cardinality(At("test"))
    BY DEF TapInv, CountInv
  <2>2. CASE ~tap.plan.given
    BY <2>2 DEF TapInv, PlanInv
  <2>3. CASE tap.plan.given
    <3>1. PICK p \in At("plan") : PlanIs(p)
      BY <2>3 DEF TapInv, PlanInv
    <3>2. \A q \in At("plan") : IsPlanBefore(q, Len(lines) + 1) <=> q = p
      BY <1>1, <1>2, <3>1 DEF PlanIs, IsPlanBefore
    <3>3. tap.plan.num_tests = lines[p].num /\ IsPlanBefore(p, Len(lines) + 1)
      BY <3>1 DEF PlanIs
    <3> QED  BY <2>1, <2>3, <3>2, <3>3
  <2> QED  BY <2>2, <2>3
<1>6. tap.highest_test # tap.num_tests <=>
        LET c == Cardinality(At("test"))
        IN  c > 0 /\ ~(c \in Numbers /\ \A m \in Numbers : m <= c)
  <2>1. /\ tap.num_tests = Cardinality(At("test"))
        /\ \A i \in At("test") : Number(i) \in Nat /\ Number(i) <= tap.highest_test
        /\ tap.highest_test = 0 \/ \E i \in At("test") : Number(i) = tap.highest_test
        /\ tap.highest_test \in Nat /\ tap.num_tests \in Nat
    BY DEF TapInv, CountInv, Taps
  <2>2. IsFiniteSet(At("test"))
    <3>1. At("test") \subseteq 1..(n - 1) /\ n - 1 \in Nat
      BY <1>1, <1>2
    <3> QED  BY <3>1, PositionsFinite
  <2>3. tap.num_tests = 0 <=> At("test") = {}
    BY <2>1, <2>2, FS_EmptySet
  <2>4. CASE At("test") = {}
    BY <2>1, <2>3, <2>4
  <2>5. CASE At("test") # {}
    <3>1. Numbers \subseteq Nat /\ \A m \in Numbers : m <= tap.highest_test
      BY <2>1 DEF Numbers
    <3>2. tap.highest_test \in Numbers
      <4>1. CASE tap.highest_test = 0
        <5>1. PICK i \in At("test") : TRUE
          BY <2>5
        <5>2. Number(i) = 0
          BY <2>1, <4>1
        <5> QED  BY <4>1, <5>2 DEF Numbers
      <4>2. CASE \E i \in At("test") : Number(i) = tap.highest_test
        BY <4>2 DEF Numbers
      <4> QED  BY <2>1, <4>1, <4>2
    <3> QED  BY <2>1, <2>3, <2>5, <3>1, <3>2
  <2> QED  BY <2>4, <2>5
<1>7. BadEnd <=> CutsBlock(n) \/ Miscounted
  BY <1>3, <1>4, <1>5, <1>6 DEF BadEnd, Miscounted
<1> QED  BY <1>1, <1>2, <1>7

\* A clean result is that of a stream in which no line is bad.
LEMMA CleanIs ==
  ASSUME TapInv
  PROVE  /\ tap.res = "none" => \A i \in 1..Len(lines) : ~BadAt(i)
         /\ tap.res = "FAIL" => ~(tap.results \subseteq {"SKIP"})
<1>1. tap.res = "none" => \A i \in 1..Len(lines) : ~BadAt(i)
  BY DEF TapInv, ResInv, Decides
<1>2. ASSUME tap.res = "FAIL"
      PROVE  ~(tap.results \subseteq {"SKIP"})
  <2>1. PICK i \in 1..Len(lines) : Decides(i)
    BY <1>2 DEF TapInv, ResInv
  <2>2. i \in At("test") /\ ResultOf(lines[i]) \in is_bad
    BY <1>2, <2>1 DEF Decides, BadSubtest
  <2>3. ResultOf(lines[i]) \in tap.results
    BY <2>2 DEF TapInv, StateInv
  <2> QED  BY <2>2, <2>3 DEF is_bad
<1> QED  BY <1>1, <1>2

\* The line-by-line parser says of the stream what the whole stream means.
LEMMA VerdictIsMeaning ==
  ASSUME TapInv
  PROVE  tap_verdict(tap) = MeaningOfStream
<1> DEFINE n == Len(lines) + 1
           bad == {i \in 1..n : BadSubtest(i) \/ Broken(i)}
<1>1. /\ BadEnd <=> CutsBlock(n) \/ Miscounted
      /\ \A kind : n \notin At(kind)
      /\ n \in Nat \ {0} /\ Len(lines) = n - 1
  BY BadEndIs
<1>2. /\ bad # {} => MeaningOfStream = IF BadSubtest(Base(bad)) THEN "FAIL" ELSE "ERROR"
      /\ bad = {} =>
           MeaningOfStream = IF \A i \in At("test") : ResultOf(lines[i]) = "SKIP"
                             THEN "SKIP" ELSE "none"
  BY Zenon DEF MeaningOfStream, Base
<1> HIDE DEF n
<1>3. bad \subseteq Int
  BY <1>1
<1>4. /\ ~BadSubtest(n)
      /\ n \in bad <=> BadEnd
  <2>1. ~BadSubtest(n)
    BY <1>1 DEF BadSubtest
  <2>2. Broken(n) <=> CutsBlock(n) \/ Miscounted
    BY <1>1 DEF Broken, MisplacedTest, BadPlan, BadVersion
  <2>3. n \in 1..n
    BY <1>1
  <2> QED  BY <1>1, <2>1, <2>2, <2>3
<1>5. \A i \in 1..(n - 1) : i \in bad <=> BadAt(i)
  <2>1. TAKE i \in 1..(n - 1)
  <2>2. i \in 1..n /\ i # Len(lines) + 1
    BY <1>1
  <2> QED  BY <2>2 DEF BadAt, Broken
<1>6. \A i \in bad : i = n \/ i \in 1..(n - 1)
  BY <1>1
<1>7. \A i \in 1..(n - 1) : i < n /\ n \in Int /\ i \in Int
  BY <1>1
<1> HIDE DEF bad
<1>8. (\A i \in At("test") : ResultOf(lines[i]) = "SKIP") <=> tap.results \subseteq {"SKIP"}
  BY Zenon DEF TapInv, StateInv
<1>9. CASE BadEnd
  <2>1. n \in bad /\ \A m \in bad : m <= n
    BY <1>4, <1>6, <1>7, <1>9, <1>1
  <2>2. Base(bad) = n
    BY <1>3, <2>1, BaseIs, Zenon
  <2>3. MeaningOfStream = "ERROR"
    BY <1>2, <1>4, <2>1, <2>2
  <2> QED  BY <1>9, <2>3, VerdictIs
<1>10. CASE ~BadEnd /\ tap.res = "none"
  <2>1. bad = {}
    BY <1>1, <1>4, <1>5, <1>6, <1>10, CleanIs
  <2>2. MeaningOfStream = IF tap.results \subseteq {"SKIP"} THEN "SKIP" ELSE "none"
    BY <1>2, <1>8, <2>1
  <2> QED  BY <1>10, <2>2, VerdictIs
<1>11. CASE ~BadEnd /\ tap.res # "none"
  <2>1. PICK i \in 1..(n - 1) : Decides(i)
    BY <1>1, <1>11 DEF TapInv, ResInv
  <2>2. i \in bad
    BY <1>5, <2>1 DEF Decides
  <2>3. ASSUME NEW m \in bad
        PROVE  m <= i
    <3>1. m \in 1..(n - 1) /\ BadAt(m)
      BY <1>4, <1>5, <1>6, <1>11, <2>3
    <3>2. ~(m > i)
      BY <1>1, <2>1, <3>1 DEF Decides
    <3> QED  BY <1>7, <3>1, <3>2
  <2>4. Base(bad) = i
    BY <1>3, <2>2, <2>3, BaseIs, Zenon
  <2>5. MeaningOfStream = tap.res
    BY <1>2, <2>1, <2>2, <2>4 DEF Decides
  <2>6. tap.res \in {"FAIL", "ERROR"}
    BY <2>1 DEF Decides
  <2> QED  BY <1>11, <2>5, <2>6, VerdictIs, CleanIs
<1> QED  BY <1>9, <1>10, <1>11


\* A stream that passes, repeats no number and has no test 0 has the tests 1 to n
\* and the plan, if any, says n.
LEMMA PassingIsWhole ==
  ASSUME TapInv, tap_verdict(tap) = "none",
         Cardinality(Numbers) = Cardinality(At("test")), 0 \notin Numbers
  PROVE  /\ Numbers = 1..Cardinality(At("test"))
         /\ \A p \in At("plan") : lines[p].num = Cardinality(Numbers)
<1> DEFINE c == Cardinality(At("test"))
<1>1. ~BadEnd /\ tap.res = "none"
  BY VerdictIs
<1>2. \A i \in 1..Len(lines) : ~BadAt(i)
  BY <1>1, CleanIs
<1>3. \A kind : At(kind) \subseteq 1..Len(lines)
  BY DEF TapInv, At
<1>4. ~tap.bailed_out
  BY <1>2, <1>3 DEF TapInv, StateInv, BadAt
<1>5. /\ tap.highest_test = tap.num_tests /\ tap.num_tests = c /\ c \in Nat
      /\ tap.plan.given => tap.plan.num_tests = c
  BY <1>1, <1>4 DEF BadEnd, TapInv, CountInv, Taps
<1>6. Numbers \in SUBSET (1..c)
  <2>1. ASSUME NEW i \in At("test")
        PROVE  Number(i) \in 1..c
    <3>1. Number(i) \in Nat /\ Number(i) <= c
      BY <1>5 DEF TapInv, CountInv
    <3>2. Number(i) # 0
      BY DEF Numbers
    <3> QED  BY <1>5, <3>1, <3>2
  <2> QED  BY <2>1, Zenon DEF Numbers
<1>7. IsFiniteSet(1..c) /\ Cardinality(1..c) = c
  <2>1. 1 \in Int /\ c \in Int
    BY <1>5
  <2> HIDE DEF c
  <2>2. IsFiniteSet(1..c) /\ Cardinality(1..c) = IF 1 > c THEN 0 ELSE c - 1 + 1
    BY <2>1, FS_Interval, Zenon
  <2> QED  BY <1>5, <2>2
<1>8. Numbers = 1..c
  <2> HIDE DEF c
  <2> QED  BY <1>6, <1>7, FS_Subset, Zenon DEF c
<1>9. ASSUME NEW q \in At("plan")
      PROVE  lines[q].num = c
  <2>1. tap.plan.given
    BY DEF TapInv, PlanInv
  <2>2. PICK p \in At("plan") : PlanIs(p)
    BY <2>1 DEF TapInv, PlanInv
  <2>3. p \in 1..Len(lines) /\ q \in 1..Len(lines)
    BY <1>3
  <2>4. ~(p < q)
    BY <1>2, <2>3 DEF BadAt, BadPlan
  <2>5. p <= q
    BY <2>2 DEF PlanIs, IsPlanBefore
  <2>6. p = q
    BY <2>3, <2>4, <2>5
  <2> QED  BY <1>5, <2>1, <2>2, <2>6 DEF PlanIs
<1> QED  BY <1>8, <1>9

-----------------------------------------------------------------------------
(* The result of the test *)

\* Until complete(), the result is that of wait(), of the parser or still open.
Open ==
  \/ res \in was_killed /\ wait = "done"
  \/ res = "RUNNING" /\ (parser = "ended" => Verdict = "none")
  \/ parser = "ended" /\ res = Verdict /\ Verdict # "none"

ControlInv ==
  /\ test \in [protocol : {"exitcode", "tap", "rust"}, expected_fail : BOOLEAN,
               interactive : BOOLEAN, expected_exitcode : {0, GNU_SKIP_RETURNCODE}]
  /\ wait \in {"none", "waiting", "done", "completed"} \union was_killed
  /\ parser \in {"none", "reading", "ended"}
  /\ prog \in {"none", "alive", "gone", "stuck"}
  /\ wait = "none" => parser = "none" /\ prog = "none" /\ res \notin was_killed
  /\ wait # "none" => prog # "none" /\ (parser = "none" <=> ~needs_parsing \/ Unread)
  /\ wait \notin {"none", "completed"} => Open
  /\ wait \in {"done", "completed"} => prog \in {"gone", "stuck"}
  /\ wait = "completed" => parser # "reading"
  /\ res = "PENDING" => wait = "none"

Inv ==
  /\ ControlInv
  /\ test.protocol = "tap" => TapInv
  /\ GoodIsEarned

\* A parser's verdict is no success: it says none, skipped or bad.
LEMMA VerdictType ==
  ASSUME Inv
  PROVE  Verdict \in {"none", "SKIP", "FAIL", "ERROR"}
<1>1. CASE test.protocol = "tap"
  <2>1. TapInv /\ tap.res \in {"none", "FAIL", "ERROR"}
    BY <1>1 DEF Inv, TapInv, Taps
  <2> QED  BY <1>1, <2>1, VerdictIs DEF Verdict
<1>2. CASE test.protocol # "tap"
  BY <1>2 DEF Verdict, rust_verdict
<1> QED  BY <1>1, <1>2


\* A verdict that is neither FAIL nor ERROR is one on a stream without a bad line.
LEMMA VerdictIsClean ==
  ASSUME Inv, Verdict \in {"none", "SKIP"}
  PROVE  /\ test.protocol = "tap" =>
              At("bailout") = {} /\ \A i \in At("test") : ~BadSubtest(i)
         /\ test.protocol = "rust" => At("FAILED") = {} /\ At("other") = {}
<1>1. ASSUME test.protocol = "tap"
      PROVE  At("bailout") = {} /\ \A i \in At("test") : ~BadSubtest(i)
  <2>1. TapInv /\ tap.res \in {"none", "FAIL", "ERROR"} /\ Verdict = tap_verdict(tap)
    BY <1>1 DEF Inv, TapInv, Taps, Verdict
  <2>2. tap.res = "none"
    BY <2>1, VerdictIs, CleanIs
  <2>3. \A i \in 1..Len(lines) : ~BadAt(i)
    BY <2>1, <2>2, CleanIs
  <2>4. \A kind : At(kind) \subseteq 1..Len(lines)
    BY <2>1 DEF TapInv, At
  <2> QED  BY <2>3, <2>4 DEF BadAt
<1>2. ASSUME test.protocol = "rust"
      PROVE  At("FAILED") = {} /\ At("other") = {}
  <2> DEFINE results == {parse_res(lines[i].kind) : i \in DOMAIN lines}
  <2>1. "ERROR" \notin results /\ "FAIL" \notin results
    BY <1>2 DEF Verdict, rust_verdict, AllSkipped
  <2>2. \A i \in DOMAIN lines : parse_res(lines[i].kind) \notin {"ERROR", "FAIL"}
    BY <2>1
  <2>3. parse_res("FAILED") = "FAIL" /\ parse_res("other") = "ERROR"
    BY DEF parse_res
  <2> QED  BY <2>2, <2>3 DEF At
<1> QED  BY <1>1, <1>2

\* A result of the parser or of wait() before complete() is not a good one, and
\* what complete() makes of it is what the stream or the exit status has earned.
LEMMA CompleteEarns ==
  ASSUME Inv, complete
  PROVE  GoodIsEarned' /\ res' # "PENDING"
<1>1. /\ test' = test /\ lines' = lines /\ returncode' = returncode
      /\ wait = "done" /\ parser # "reading"
  BY DEF complete
<1>2. /\ test.protocol \in {"exitcode", "tap", "rust"} /\ test.expected_fail \in BOOLEAN
      /\ parser = "none" <=> ~needs_parsing \/ Unread
      /\ parser \in {"none", "reading", "ended"}
      /\ Open
  BY <1>1 DEF Inv, ControlInv
<1>3. Verdict \in {"none", "SKIP", "FAIL", "ERROR"}
  BY VerdictType
<1>4. CASE Unread
  <2>1. res' = "IGNORED"
    BY <1>4 DEF complete, _complete
  <2> QED  BY <1>1, <1>4, <2>1 DEF GoodIsEarned, Unread, needs_parsing
<1>5. CASE ~Unread /\ test.protocol = "exitcode"
  <2>1. parser = "none"
    BY <1>2, <1>5 DEF needs_parsing
  <2>2. res \in was_killed \union {"RUNNING"}
    BY <1>2, <2>1 DEF Open
  <2>3. res' = _complete(exit_status_result)
    BY <1>5 DEF complete
  <2>4. /\ res' \in {"OK", "UNEXPECTEDPASS"} => returncode = test.expected_exitcode
        /\ res' = "EXPECTEDFAIL" => returncode \notin {test.expected_exitcode, 99}
        /\ res' # "PENDING"
    BY <1>5, <2>2, <2>3
    DEF _complete, exit_status_result, was_killed, GNU_SKIP_RETURNCODE, GNU_ERROR_RETURNCODE
  <2> QED  BY <1>1, <1>5, <2>4 DEF GoodIsEarned
<1>6. CASE ~Unread /\ test.protocol # "exitcode"
  <2>1. parser = "ended"
    BY <1>1, <1>2, <1>6 DEF needs_parsing
  <2>2. \/ res \in was_killed
        \/ res = "RUNNING" /\ Verdict = "none"
        \/ res = Verdict /\ Verdict \in {"SKIP", "FAIL", "ERROR"}
    BY <1>2, <1>3, <2>1 DEF Open
  <2>3. res' = _complete(IF test.protocol = "tap" THEN tap_result ELSE res)
    BY <1>2, <1>6 DEF complete
  <2>4. /\ res' \in {"OK", "SKIP", "UNEXPECTEDPASS"} =>
             /\ Verdict \in {"none", "SKIP"}
             /\ test.protocol = "tap" => returncode = 0
        /\ res' # "PENDING"
    BY <1>6, <2>2, <2>3 DEF _complete, tap_result, was_killed, is_bad
  <2>5. res' \in {"OK", "SKIP", "UNEXPECTEDPASS"} =>
          /\ test.protocol = "tap" =>
               At("bailout") = {} /\ \A i \in At("test") : ~BadSubtest(i)
          /\ test.protocol = "rust" => At("FAILED") = {} /\ At("other") = {}
    BY <2>4, VerdictIsClean
  <2>6. \A kind : At(kind)' = At(kind)
    BY <1>1 DEF At
  <2>7. \A i : BadSubtest(i)' <=> BadSubtest(i)
    BY <1>1, <2>6 DEF BadSubtest
  <2> QED  BY <1>1, <1>6, <2>4, <2>5, <2>6, <2>7 DEF GoodIsEarned
<1> QED  BY <1>2, <1>4, <1>5, <1>6

\* While the stream stays the same, so does what is said about it.
LEMMA SameStream ==
  ASSUME Inv, UNCHANGED <<test, lines, tap>>
  PROVE  /\ test'.protocol = "tap" => TapInv'
         /\ Verdict' = Verdict
         /\ Unread' = Unread /\ needs_parsing' = needs_parsing
         /\ UNCHANGED <<wait, returncode, res>> => GoodIsEarned'
<1>1. test'.protocol = "tap" => TapInv'
  <2>1. \A kind : At(kind)' = At(kind)
    BY DEF At
  <2>2. DeclaredVersion' = DeclaredVersion
    BY <2>1 DEF DeclaredVersion
  <2>3. \A i : StartsBlock(i)' <=> StartsBlock(i)
    BY <2>1, <2>2 DEF StartsBlock
  <2>4. \A i : InBlock(i)' <=> InBlock(i)
    BY <2>3 DEF InBlock
  <2>5. \A i : Number(i)' = Number(i)
    <3>1. TAKE i
    <3>2. Upto(i)' = Upto(i)
      BY <2>1, Zenon DEF Upto
    <3>3. Given(i)' = Given(i)
      BY <3>2, Zenon DEF Given
    <3> QED  BY <3>2, <3>3, NumberIs, Zenon
  <2>6. \A p, i : IsPlanBefore(p, i)' <=> IsPlanBefore(p, i)
    BY <2>1 DEF IsPlanBefore
  <2>7. \A i : BadSubtest(i)' <=> BadSubtest(i)
    BY <2>1 DEF BadSubtest
  <2>8. \A i : MisplacedTest(i)' <=> MisplacedTest(i)
    BY <2>1, <2>5, <2>6 DEF MisplacedTest
  <2>9. \A i : CutsBlock(i)' <=> CutsBlock(i)
    BY <2>1, <2>4 DEF CutsBlock
  <2>10. \A i : BadAt(i)' <=> BadAt(i)
    BY <2>1, <2>7, <2>8, <2>9 DEF BadAt, BadPlan, BadVersion
  <2>11. StateInv => StateInv'
    BY <2>1, <2>2, <2>4 DEF StateInv
  <2>12. PlanInv => PlanInv'
    BY <2>1, <2>6 DEF PlanInv, PlanIs
  <2>13. CountInv => CountInv'
    BY <2>1, <2>5 DEF CountInv
  <2>14. ResInv => ResInv'
    BY <2>7, <2>10 DEF ResInv, Decides
  <2> QED  BY <2>11, <2>12, <2>13, <2>14 DEF Inv, TapInv
<1>2. Verdict' = Verdict
  BY DEF Verdict, rust_verdict
<1>3. Unread' = Unread /\ needs_parsing' = needs_parsing
  BY DEF Unread, needs_parsing
<1>4. ASSUME UNCHANGED <<wait, returncode, res>>
      PROVE  GoodIsEarned'
  BY <1>3, <1>4 DEF Inv, GoodIsEarned, Completed, At, BadSubtest
<1> QED  BY <1>1, <1>2, <1>3, <1>4


\* The invariant holds when a test is made,
LEMMA InvInit == Init => Inv
<1> SUFFICES ASSUME Init  PROVE Inv
  OBVIOUS
<1>1. ControlInv
  BY DEF Init, ControlInv, was_killed
<1>2. TapInv
  BY TapInit DEF Init
<1>3. GoodIsEarned
  BY DEF Init, GoodIsEarned, Completed
<1> QED  BY <1>1, <1>2, <1>3 DEF Inv

\* and every step keeps it.
LEMMA InvNext == Inv /\ [Next]_vars => Inv'
<1> SUFFICES ASSUME Inv, [Next]_vars  PROVE Inv'
  OBVIOUS
<1>1. CASE complete_skip
  <2>1. UNCHANGED <<test, lines, tap, parser, prog, wait>> /\ wait = "none"
    BY <1>1 DEF complete_skip, Inv, ControlInv
  <2>2. res' \in {"IGNORED", "SKIP"}
    BY <1>1 DEF complete_skip, _complete
  <2>3. ControlInv'
    BY <2>1, <2>2, SameStream DEF Inv, ControlInv, was_killed
  <2>4. GoodIsEarned'
    BY <2>1 DEF GoodIsEarned, Completed
  <2> QED  BY <2>1, <2>3, <2>4, SameStream DEF Inv
<1>2. CASE start
  <2>1. UNCHANGED <<test, lines, tap>> /\ wait' = "waiting"
    BY <1>2 DEF start
  <2>2. res' = "RUNNING" /\ prog' = "alive"
    BY <1>2 DEF start
  <2>3. parser' \in {"none", "reading"} /\ (parser' = "none" <=> ~needs_parsing \/ Unread)
    BY <1>2 DEF start
  <2>4. ControlInv'
    BY <2>1, <2>2, <2>3, SameStream DEF Inv, ControlInv, Open, was_killed
  <2>5. GoodIsEarned'
    BY <2>1 DEF GoodIsEarned, Completed
  <2> QED  BY <2>1, <2>4, <2>5, SameStream DEF Inv
<1>3. CASE ReadLine
  <2>1. UNCHANGED <<test, parser, prog, wait, returncode, res>> /\ parser = "reading"
    BY <1>3 DEF ReadLine
  <2>2. wait # "completed"
    BY <2>1 DEF Inv, ControlInv
  <2>3. ControlInv'
    BY <2>1 DEF Inv, ControlInv, Open, needs_parsing, Unread
  <2>4. GoodIsEarned'
    BY <2>1, <2>2 DEF GoodIsEarned, Completed
  <2>5. ASSUME test.protocol = "tap"
        PROVE  TapInv'
    <3>1. PICK line \in TapLine : lines' = Append(lines, line) /\ tap' = parse_line(tap, line)
      BY <1>3, <2>5 DEF ReadLine
    <3> QED  BY <2>5, <3>1, TapStep DEF Inv
  <2> QED  BY <2>1, <2>3, <2>4, <2>5 DEF Inv
<1>4. CASE Exit
  <2>1. UNCHANGED <<test, lines, tap, parser, wait, res>> /\ prog = "alive" /\ prog' = "gone"
    BY <1>4 DEF Exit
  <2>2. wait \notin {"none", "completed"}
    BY <2>1 DEF Inv, ControlInv
  <2>3. ControlInv'
    BY <2>1, <2>2, SameStream DEF Inv, ControlInv, Open
  <2>4. GoodIsEarned'
    BY <2>1, <2>2 DEF GoodIsEarned, Completed
  <2> QED  BY <2>1, <2>3, <2>4, SameStream DEF Inv
<1>5. CASE parse_done
  <2>1. /\ UNCHANGED <<test, lines, tap, prog, wait, returncode>>
        /\ parser = "reading" /\ parser' = "ended"
        /\ res' = IF Verdict # "none" /\ res = "RUNNING" THEN Verdict ELSE res
    BY <1>5 DEF parse_done
  <2>2. wait \notin {"none", "completed"} /\ Open
    BY <2>1 DEF Inv, ControlInv
  <2>3. Open' /\ res' # "PENDING"
    BY <2>1, <2>2, SameStream, VerdictType DEF Open, was_killed
  <2>4. ControlInv'
    BY <2>1, <2>2, <2>3, SameStream DEF Inv, ControlInv
  <2>5. GoodIsEarned'
    BY <2>1, <2>2 DEF GoodIsEarned, Completed
  <2> QED  BY <2>1, <2>4, <2>5, SameStream DEF Inv
<1>6. CASE begin_kill
  <2>1. /\ UNCHANGED <<test, lines, tap, parser, prog, returncode, res>>
        /\ wait = "waiting" /\ wait' \in was_killed
    BY <1>6 DEF begin_kill, was_killed
  <2>2. ControlInv'
    BY <2>1, SameStream DEF Inv, ControlInv, Open, was_killed
  <2>3. GoodIsEarned'
    BY <2>1 DEF GoodIsEarned, Completed, was_killed
  <2> QED  BY <2>1, <2>2, <2>3, SameStream DEF Inv
<1>7. CASE kill_done
  <2>1. /\ UNCHANGED <<test, lines, tap, parser, returncode>>
        /\ wait \in was_killed /\ wait' = "done" /\ res' = wait
        /\ prog' = IF prog = "alive" THEN "stuck" ELSE prog
    BY <1>7 DEF kill_done
  <2>2. prog' \in {"gone", "stuck"}
    BY <2>1 DEF Inv, ControlInv, was_killed
  <2>3. ControlInv'
    BY <2>1, <2>2, SameStream DEF Inv, ControlInv, Open, was_killed
  <2>4. GoodIsEarned'
    BY <2>1 DEF GoodIsEarned, Completed
  <2> QED  BY <2>1, <2>3, <2>4, SameStream DEF Inv
<1>8. CASE wait_done
  <2>1. /\ UNCHANGED <<test, lines, tap, parser, prog, returncode, res>>
        /\ wait = "waiting" /\ wait' = "done" /\ prog = "gone"
    BY <1>8 DEF wait_done
  <2>2. ControlInv'
    BY <2>1, SameStream DEF Inv, ControlInv, Open
  <2>3. GoodIsEarned'
    BY <2>1 DEF GoodIsEarned, Completed
  <2> QED  BY <2>1, <2>2, <2>3, SameStream DEF Inv
<1>9. CASE complete
  <2>1. /\ UNCHANGED <<test, lines, tap, parser, prog, returncode>>
        /\ wait = "done" /\ wait' = "completed" /\ parser # "reading"
    BY <1>9 DEF complete
  <2>2. GoodIsEarned' /\ res' # "PENDING"
    BY <1>9, CompleteEarns
  <2>3. ControlInv'
    BY <2>1, <2>2, SameStream DEF Inv, ControlInv
  <2> QED  BY <2>1, <2>2, <2>3, SameStream DEF Inv
<1>10. CASE UNCHANGED vars
  <2>1. UNCHANGED <<test, lines, tap, parser, prog, wait, returncode, res>>
    BY <1>10 DEF vars
  <2>2. ControlInv'
    BY <2>1, SameStream DEF Inv, ControlInv, Open
  <2> QED  BY <2>1, <2>2, SameStream DEF Inv
<1> QED  BY <1>1, <1>2, <1>3, <1>4, <1>5, <1>6, <1>7, <1>8, <1>9, <1>10
         DEF Next, Terminating

\* Inv is an invariant of the result of a test.
LEMMA Invariant == Spec => []Inv
BY InvInit, InvNext, PTL DEF Spec


\* TAPParser.parse_line and TestRunTAP.parse understand every stream, of any
\* length and of any lines.
THEOREM TapIsUnderstood == Spec => []StreamIsUnderstood
<1>1. Inv => StreamIsUnderstood
  BY VerdictIsMeaning DEF Inv, StreamIsUnderstood
<1> QED  BY <1>1, Invariant, PTL

\* A TAP stream that passes, without a repeated number and without a test 0, has
\* every test from 1 to n (TAPParser.parse_line(None) compares only the count
\* and the maximum).
THEOREM TapPassingIsComplete == Spec => []PassingIsComplete
<1>1. Inv => PassingIsComplete
  BY PassingIsWhole DEF Inv, PassingIsComplete
<1> QED  BY <1>1, Invariant, PTL

\* A good result is earned, whatever the order in which the parser, wait() and
\* complete() write TestRun.res.
THEOREM ResultIsEarned == Spec => []GoodIsEarned
<1>1. Inv => GoodIsEarned
  BY DEF Inv
<1> QED  BY <1>1, Invariant, PTL

\* What wait() has written when it killed the program, neither the parser nor
\* complete() replaces.
THEOREM KilledIsFinal == Spec => KilledStaysKilled
<1>1. Inv /\ [Next]_vars => [(res \in was_killed /\ ~Unread) => res' = res]_vars
  <2> SUFFICES ASSUME Inv, Next, res \in was_killed, ~Unread
               PROVE  res' = res
    BY DEF vars
  <2>1. res \in {"TIMEOUT", "INTERRUPT"} /\ test.expected_fail \in BOOLEAN
    BY DEF was_killed, Inv, ControlInv
  <2>2. CASE kill_done
    <3>1. wait \notin {"none", "completed", "done"}
      BY <2>2 DEF kill_done, was_killed
    <3>2. Open
      BY <3>1 DEF Inv, ControlInv
    <3> QED  BY <2>1, <3>1, <3>2, VerdictType DEF Open, was_killed
  <2>3. CASE complete
    <3>1. _complete(res) = res
      BY <2>1 DEF _complete
    <3>2. exit_status_result = res /\ tap_result = res
      BY <2>1 DEF exit_status_result, tap_result, is_bad
    <3> QED  BY <2>3, <3>1, <3>2 DEF complete
  <2>4. CASE complete_skip \/ start
    BY <2>1, <2>4 DEF complete_skip, start
  <2>5. CASE ReadLine \/ Exit \/ begin_kill \/ wait_done
    BY <2>5 DEF ReadLine, Exit, begin_kill, wait_done
  <2>6. CASE parse_done
    BY <2>1, <2>6 DEF parse_done
  <2>7. CASE Terminating
    BY <2>7 DEF Terminating, vars
  <2> QED  BY <2>2, <2>3, <2>4, <2>5, <2>6, <2>7 DEF Next
<1> QED  BY <1>1, Invariant, PTL DEF Spec, KilledStaysKilled
=============================================================================
