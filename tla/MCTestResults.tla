--------------------------- MODULE MCTestResults ---------------------------
(* Lines of a small TAP program: tests with and without a number, in and out *)
(* of order, and one line for every branch of parse_line.                    *)
EXTENDS TestResults

T(ok, num, directive) ==
  [kind |-> "test", ok |-> ok, num |-> num, directive |-> directive]

P(num, directive) == [kind |-> "plan", num |-> num, directive |-> directive]

MCTests == {T(TRUE, Unnumbered, "none"), T(TRUE, 3, "none"),
            T(FALSE, 2, "none"), T(TRUE, Unnumbered, "SKIP"), T(TRUE, Unnumbered, "TODO")}

MCPlans == {P(0, "SKIP"), P(2, "none"), P(3, "TODO")}
=============================================================================
