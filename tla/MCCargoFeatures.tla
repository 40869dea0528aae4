-------------------------- MODULE MCCargoFeatures --------------------------
(***************************************************************************)
(* A package, its dependency `b`, and c, an optional dependency of b.  All *)
(* lists of up to three elements for the default feature and of up to two  *)
(* for the feature x of the main package; b may be required, optional, not *)
(* for the host, or optional with an entry for the host that overrides it. *)
(* It is a library, a proc-macro, both or neither; the main package is a   *)
(* library or has binaries only.                                           *)
(***************************************************************************)
EXTENDS CargoFeatures

CONSTANTS a, b, c

dep(d) == [kind |-> "dep", dep |-> d]
feature(f) == [kind |-> "feature", feature |-> f]
strong(d, f) == [kind |-> "strong", dep |-> d, feature |-> f]
weak(d, f) == [kind |-> "weak", dep |-> d, feature |-> f]

Uses(optional, default, feats, target) ==
    [optional |-> optional, default_features |-> default, features |-> feats, target |-> target]

OfB == {<<Uses(FALSE, TRUE, << >>, Machine)>>,
        <<Uses(TRUE, TRUE, << >>, Machine)>>,
        <<Uses(TRUE, TRUE, << >>, {"build"})>>,
        <<Uses(TRUE, TRUE, << >>, Machine), Uses(FALSE, FALSE, <<"y">>, {"host"})>>}

\* The crate types of the main package and of b.
CrateTypes == {<<{"lib"}, {"lib"}>>, <<{"lib"}, {"proc-macro"}>>, <<{"lib"}, {"lib", "proc-macro"}>>,
               <<{"lib"}, {}>>, <<{}, {"lib"}>>}

Lists(n, S) == UNION {[1..i -> S] : i \in 0..n}
InDefault == {feature("x"), dep(b), weak(b, "x"), strong(b, "y")}
InX == {feature("default"), feature(b), weak(b, "y"), dep(b)}

None == [f \in {} |-> f]

MCManifests ==
    {(a :> [crate_type |-> types[1], bin |-> TRUE,
            dependencies |-> b :> of_b,
            features |-> ("default" :> d) @@ ("x" :> x)])
     @@ (b :> [crate_type |-> types[2], bin |-> FALSE,
               dependencies |-> c :> <<Uses(TRUE, FALSE, << >>, Machine)>>,
               features |-> ("default" :> <<weak(c, "x")>>) @@ ("x" :> <<weak(c, "y")>>) @@ ("y" :> <<dep(c)>>)])
     @@ (c :> [crate_type |-> {"lib"}, bin |-> FALSE, dependencies |-> None, features |-> None])
     : of_b \in OfB, types \in CrateTypes,
       d \in Lists(3, InDefault), x \in Lists(2, InX)}

=============================================================================
