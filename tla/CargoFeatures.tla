--------------------------- MODULE CargoFeatures ---------------------------
(***************************************************************************)
(* Which dependencies and features of Cargo packages are built, for which  *)
(* machine: the mutual recursion of _prepare_package, _add_dependency and  *)
(* _enable_feature (cargo/interpreter.py).  The call stack is `todo`, the  *)
(* calls still to be made in their order; a step makes the first one, and  *)
(* puts the calls of its body in its place.                                *)
(*                                                                         *)
(* A manifest has the crate types of its library (none without a library), *)
(* whether it has binaries, its dependencies and its features.  Under the  *)
(* name of its package a dependency has a list of entries, for all or for  *)
(* some machines.  A feature lists elements: dep:d, another feature, d/f   *)
(* (strong) or d?/f (weak).                                                *)
(***************************************************************************)
EXTENDS Naturals, FiniteSets, Sequences, SequencesExt, TLC

CONSTANTS
    Pkg,       \* packages
    Main,      \* the default member of the workspace
    Feature,   \* names of features; the implicit ones are those of packages
    Manifests, \* the possible contents of all Cargo.toml files
    Nothing

VARIABLES
    manifest, \* one of them
    is_cross, \* a cross build
    cfg,      \* PackageConfiguration of a package for a machine, or Nothing
    todo

vars == <<manifest, is_cross, cfg, todo>>

Machine == {"host", "build"}

machines_from(p, parent, bin) ==
    LET need_build == "proc-macro" \in manifest[p].crate_type \/ parent = "build"
        need_host == parent = "host" /\ manifest[p].crate_type # {"proc-macro"}
    IN  IF manifest[p].crate_type = {}
        THEN IF bin /\ manifest[p].bin THEN <<parent>> ELSE << >>
        ELSE IF ~is_cross THEN <<parent>>
        ELSE (IF need_build THEN <<"build">> ELSE << >>) \o (IF need_host THEN <<"host">> ELSE << >>)

\* The last entry for the machine counts.
dependencies(p, m) ==
    LET enabled == [d \in DOMAIN manifest[p].dependencies |->
                       SelectSeq(manifest[p].dependencies[d], LAMBDA dep : m \in dep.target)]
    IN  [d \in {d \in DOMAIN enabled : enabled[d] # << >>} |-> Last(enabled[d])]

\* An optional dependency that no feature names with dep: is a feature itself.
features(p) ==
    LET declared == manifest[p].features
        explicit == {d \in Pkg : \E f \in DOMAIN declared : [kind |-> "dep", dep |-> d] \in ToSet(declared[f])}
        implicit == {d \in DOMAIN manifest[p].dependencies \ explicit :
                        \E dep \in ToSet(manifest[p].dependencies[d]) : dep.optional}
    IN  [f \in DOMAIN declared \cup implicit |->
            (IF f \in DOMAIN declared THEN declared[f] ELSE << >>)
            \o (IF f \in implicit THEN <<[kind |-> "dep", dep |-> f]>> ELSE << >>)]

\* Calls.  pass is the second half of the treatment of d/f, late the loop
\* over the features that waited for a dependency.
_prepare_package(p, m) == [call |-> "prepare", pkg |-> p, machine |-> m]
_add_dependency(p, d, m) == [call |-> "add", pkg |-> p, machine |-> m, dep |-> d]
_enable_feature(p, f, m) == [call |-> "enable", pkg |-> p, machine |-> m, feature |-> f]
pass(p, d, f, m) == [call |-> "pass", pkg |-> p, machine |-> m, dep |-> d, feature |-> f]
late(p, d, m, dep_machine) == [call |-> "late", pkg |-> p, machine |-> m, dep |-> d, to |-> dep_machine]

Map(s, Op(_)) == [i \in 1..Len(s) |-> Op(s[i])]

element(p, e, m) ==
    CASE e.kind = "dep" -> <<_add_dependency(p, e.dep, m)>>
      [] e.kind = "feature" -> <<_enable_feature(p, e.feature, m)>>
      [] e.kind = "strong" -> <<_add_dependency(p, e.dep, m), pass(p, e.dep, e.feature, m)>>
      [] e.kind = "weak" -> <<pass(p, e.dep, e.feature, m)>>

\* What follows for a package that becomes a dependency.
dependency_calls(p, d, m) ==
    LET dep == dependencies(p, m)[d]
        on(k) == <<_prepare_package(d, k)>>
                 \o (IF dep.default_features THEN <<_enable_feature(d, "default", k)>> ELSE << >>)
                 \o Map(dep.features, LAMBDA f : _enable_feature(d, f, k))
                 \o <<late(p, d, m, k)>>
    IN  FlattenSeq(Map(machines_from(d, m, FALSE), on))

Init ==
    /\ manifest \in Manifests /\ is_cross \in BOOLEAN
    /\ cfg = [x \in Pkg \X Machine |-> Nothing]
    /\ todo = FlattenSeq(Map(machines_from(Main, "host", TRUE),
                    LAMBDA m : <<_prepare_package(Main, m), _enable_feature(Main, "default", m)>>))

----------------------------------------------------------------------------

Call(name) == todo # << >> /\ todo[1].call = name
Config == cfg[todo[1].pkg, todo[1].machine]
Add(field, x) == [Config EXCEPT ![field] = @ \cup {x}]

\* The first call leaves its package with c and makes further calls.
Make(c, calls) ==
    /\ cfg' = [cfg EXCEPT ![todo[1].pkg, todo[1].machine] = c]
    /\ todo' = calls \o Tail(todo)
    /\ UNCHANGED <<manifest, is_cross>>

Prepare ==
    /\ Call("prepare")
    /\ LET p == todo[1].pkg
           m == todo[1].machine
           deps == dependencies(p, m)
           required == {d \in DOMAIN deps : ~deps[d].optional}
       IN  IF Config # Nothing THEN Make(Config, << >>)
           ELSE \E order \in SetToSeqs(required) :
                Make([features |-> {}, required_deps |-> {}, optional_deps_features |-> {}],
                     Map(order, LAMBDA d : _add_dependency(p, d, m)))

AddDependency ==
    /\ Call("add")
    /\ LET p == todo[1].pkg
           d == todo[1].dep
           m == todo[1].machine
       IN  IF d \in Config.required_deps \/ d \notin DOMAIN dependencies(p, m)
           THEN Make(Config, << >>)
           ELSE Make(Add("required_deps", d), dependency_calls(p, d, m))

Late ==
    /\ Call("late")
    /\ LET d == todo[1].dep
       IN  \E order \in SetToSeqs({f \in Feature : <<d, f>> \in Config.optional_deps_features}) :
                Make(Config, Map(order, LAMBDA f : _enable_feature(d, f, todo[1].to)))

EnableFeature ==
    /\ Call("enable")
    /\ LET p == todo[1].pkg
           f == todo[1].feature
           m == todo[1].machine
       IN  IF f \in Config.features THEN Make(Config, << >>)
           ELSE Make(Add("features", f),
                     IF f \in DOMAIN features(p)
                     THEN FlattenSeq(Map(features(p)[f], LAMBDA e : element(p, e, m))) ELSE << >>)

\* Mutant: d?/f before the dependency is added has no effect.
wait_forgotten(d, f) == Config

\* A feature for a dependency that may be added later.
wait(d, f) == Add("optional_deps_features", <<d, f>>)

Pass ==
    /\ Call("pass")
    /\ LET d == todo[1].dep
           f == todo[1].feature
       IN  IF d \in Config.required_deps
           THEN Make(Config, Map(machines_from(d, todo[1].machine, FALSE), LAMBDA m : _enable_feature(d, f, m)))
           ELSE Make(wait(d, f), << >>)

Done == todo = << >> /\ UNCHANGED vars

Next == Prepare \/ AddDependency \/ Late \/ EnableFeature \/ Pass \/ Done

Spec == Init /\ [][Next]_vars

----------------------------------------------------------------------------
(* Properties *)

\* What a set of facts <<kind, package, machine, what>> about needed
\* dependencies and enabled features implies directly.  d/f adds the dependency
\* and enables its feature, as the code reads it; Cargo also enables the feature
\* of the name d.
Implied(facts) ==
    LET on(d, m) == ToSet(machines_from(d, m, FALSE))
        elements(x, kinds) == {e \in (IF x[4] \in DOMAIN features(x[2])
                                      THEN ToSet(features(x[2])[x[4]]) ELSE {}) : e.kind \in kinds}
        feats == {x \in facts : x[1] = "feature"}
        deps == {x \in facts : x[1] = "dependency"}
        built == {x \in facts : x[1] = "package"}
    IN  UNION {{<<"dependency", x[2], x[3], d>> : d \in
                    {d \in DOMAIN dependencies(x[2], x[3]) : ~dependencies(x[2], x[3])[d].optional}} : x \in built}
        \cup UNION {{<<"package", x[4], m, Nothing>> : m \in on(x[4], x[3])} : x \in deps}
        \cup UNION {{<<"feature", x[4], m, f>> : m \in on(x[4], x[3]),
                        f \in LET dep == dependencies(x[2], x[3])[x[4]]
                              IN  ToSet(dep.features) \cup (IF dep.default_features THEN {"default"} ELSE {})}
                    : x \in deps}
        \cup UNION {{<<"feature", x[2], x[3], e.feature>> : e \in elements(x, {"feature"})} : x \in feats}
        \cup UNION {{<<"dependency", x[2], x[3], e.dep>> : e \in
                        {e \in elements(x, {"dep", "strong"}) : e.dep \in DOMAIN dependencies(x[2], x[3])}} : x \in feats}
        \cup UNION {UNION {{<<"feature", e.dep, m, e.feature>> : m \in on(e.dep, x[3])} : e \in
                        {e \in elements(x, {"strong", "weak"}) : <<"dependency", x[2], x[3], e.dep>> \in facts}}
                    : x \in feats}

RECURSIVE Closure(_)
Closure(facts) == IF Implied(facts) \subseteq facts THEN facts ELSE Closure(facts \cup Implied(facts))

\* The least set closed under the rules that has the entry point.
Least ==
    Closure(UNION {{<<"package", Main, m, Nothing>>, <<"feature", Main, m, "default">>}
                   : m \in ToSet(machines_from(Main, "host", TRUE))})

\* The recursion, whatever the order in which manifests name dependencies and
\* features, ends with exactly the dependencies and features the rules
\* require: a weak feature d?/f met before or after d is added, or for a d
\* built for two machines, ends in the same configuration.
ResultIsLeast ==
    todo = << >> =>
        Least = UNION {IF cfg[x] = Nothing THEN {}
                       ELSE {<<"package", x[1], x[2], Nothing>>}
                            \cup {<<"feature", x[1], x[2], f>> : f \in cfg[x].features}
                            \cup {<<"dependency", x[1], x[2], d>> : d \in cfg[x].required_deps}
                       : x \in Pkg \X Machine}

=============================================================================
