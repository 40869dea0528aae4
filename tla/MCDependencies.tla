--------------------------- MODULE MCDependencies ---------------------------
(***************************************************************************)
(* A toplevel project and two subprojects: `own` provides `a` and          *)
(* overrides it or not, `var` provides `b` through a variable.  The system *)
(* has `a` old and without pkg-config, or new and with it, and never `b`.  *)
(***************************************************************************)
EXTENDS Dependencies, TLC

CONSTANTS own, var, a, b, p

MCSubVersion == (Root :> 2) @@ (own :> 2) @@ (var :> 1)
MCLists == {<<a>>, <<b>>, <<a, b>>}
MCProvider == (a :> own) @@ (b :> var)

Pkg(v, t) == [src |-> "system", name |-> a, version |-> v, type |-> t, path |-> Empty]
MCInstalled ==
    {(a :> x) @@ (b :> NotFound) : x \in {Pkg(1, "other"), Pkg(2, "pkgconfig")}}

\* Between runs only what was saved matters, Setup chooses the rest anew; and
\* the path only matters once there is something that pkg-config has found.
Seen ==
    IF stack = << >> THEN <<saved, calls>>
    ELSE <<system, wrap_mode, deps, saved, subprojects, stack, calls,
           IF deps = None /\ \A n \in Name : system[n].type # "pkgconfig" THEN Empty ELSE path>>

=============================================================================
