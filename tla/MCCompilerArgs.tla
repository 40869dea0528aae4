--------------------------- MODULE MCCompilerArgs ---------------------------
(* Arguments of a C compiler, one or two of each kind, and the -L of the D   *)
(* compiler, which is prepended but does not override.                       *)
EXTENDS CompilerArgs

MCArgs == {"-Ia", "-Ib", "-Da", "-la", "/a.so", "a.o", "-Ld", "-La.so"}

MCcan_dedup ==
  [a \in MCArgs |-> CASE a \in {"-Ia", "-Ib", "-Da"}      -> "OVERRIDDEN"
                      [] a \in {"-la", "/a.so", "-La.so"} -> "UNIQUE"
                      [] a \in {"a.o", "-Ld"}             -> "NO_DEDUP"]

\* op is there to be compared, no step depends on it
Content == <<container, pre, post, needs_override_check>>

MCshould_prepend == [a \in MCArgs |-> a \in {"-Ia", "-Ib", "-Ld", "-La.so"}]
=============================================================================
