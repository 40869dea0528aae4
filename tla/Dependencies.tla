---------------------------- MODULE Dependencies ----------------------------
(***************************************************************************)
(* How meson.build files find their dependencies: dependency() with its    *)
(* candidates (dependencyfallbacks.py), meson.override_dependency(),       *)
(* subproject() with its nested interpreters, each on its own copy of the  *)
(* Build (interpreter.py, build.py), and the cache that survives in        *)
(* coredata.dat (coredata.py).                                             *)
(*                                                                         *)
(* A run evaluates the toplevel project; what its files and those of its   *)
(* subprojects call is arbitrary.  The stack holds the interpreters, the   *)
(* one that runs on top.  A subproject's dependency object is known by the *)
(* subproject; one of the system by its version, type and the search path  *)
(* it was found with.                                                      *)
(***************************************************************************)
EXTENDS Naturals, FiniteSets, Sequences

CONSTANTS
    Sub,         \* names of the subprojects
    SubVersion,  \* the version of the dependencies each of them declares
    HasVariable, \* subprojects with a dependency variable the wrap file names
    Name,        \* identifiers of dependencies
    Lists,       \* the lists of names that dependency() is called with
    Provider,    \* the subproject the wrap files name for each, or Nothing
    Installed,   \* what the system may offer: dependency or NotFound per name
    Path,        \* values of pkg_config_path
    Empty,       \* the empty list, one of them
    Root, Nothing,
    MaxCalls     \* bound on the calls evaluated in all runs together

VARIABLES
    system,      \* what an external search finds for each name
    wrap_mode,   \* the option of this name
    path,        \* pkg_config_path
    deps,        \* coredata.deps: for each name its type and its entries
    saved,       \* coredata.deps as the last run that succeeded saved it
    subprojects, \* the dictionary all interpreters share
    stack,       \* the interpreters, the running one last
    calls

vars == <<system, wrap_mode, path, deps, saved, subprojects, stack, calls>>

NotFound == [src |-> Nothing, name |-> Nothing, version |-> 0, type |-> "none", path |-> Nothing]

\* The dependency objects of a subproject, told apart by where they come from.
Declared(s) ==
    [src |-> s, name |-> Nothing, version |-> SubVersion[s], type |-> "internal", path |-> Nothing]

\* Those of the system, and all of them.
SystemDep ==
    [src : {"system"}, name : Name, version : 1..2, type : {"pkgconfig", "other"}, path : Path]
Dep == {NotFound} \cup {Declared(s) : s \in Sub \cup {Root}} \cup SystemDep

ASSUME ProjectsAssumption ==
    /\ Root \notin Sub /\ "system" \notin Sub
    /\ Nothing \notin Sub \cup {Root} \cup Name \cup Dep

ASSUME NamesAssumption ==
    /\ Lists \subseteq Seq(Name) \ {<< >>}
    /\ Provider \in [Name -> Sub \cup {Nothing}]

ASSUME InstalledAssumption ==
    /\ Empty \in Path
    /\ Installed \subseteq [Name -> Dep]
    /\ \A i \in Installed, n \in Name :
        \/ i[n] = NotFound
        \/ i[n] \in SystemDep /\ i[n].name = n /\ i[n].path = Empty

ASSUME MaxCallsAssumption == MaxCalls \in Nat

\* Dictionaries: d[k] = v, and {**d, **other} where other wins.
None == [x \in {} |-> x]
With(d, k, v) == [x \in DOMAIN d \cup {k} |-> IF x = k THEN v ELSE d[x]]
Update(d, other) ==
    [x \in DOMAIN d \cup DOMAIN other |-> IF x \in DOMAIN other THEN other[x] ELSE d[x]]

\* The elements of a list, and the first of them that is in S.
Elements(list) == {list[i] : i \in 1..Len(list)}
First(list, S) ==
    list[CHOOSE i \in 1..Len(list) : list[i] \in S /\ \A j \in 1..(i - 1) : list[j] \notin S]

Top == stack[Len(stack)]
\* Mutant: only the running project is tested for recursion.
Names_running == {Top.name}

\* subproject_stack
Names == {stack[i].name : i \in 1..Len(stack)}
Amend(frame) == [stack EXCEPT ![Len(stack)] = frame]

----------------------------------------------------------------------------
(* DependencyCache *)

\* Mutant: one entry per name, whatever the search path.
calculate_subkey_fixed(type) == Empty

calculate_subkey(type) == IF type = "pkgconfig" THEN path ELSE Empty

\* The type of an entry is that of the first dependency put into it.
put(n, dep) ==
    LET entry == IF n \in DOMAIN deps THEN deps[n] ELSE [type |-> dep.type, deps |-> None]
    IN  With(deps, n, [type |-> entry.type,
                       deps |-> With(entry.deps, calculate_subkey(dep.type), dep)])

get(n) ==
    IF n \in DOMAIN deps /\ calculate_subkey(deps[n].type) \in DOMAIN deps[n].deps
    THEN deps[n].deps[calculate_subkey(deps[n].type)] ELSE Nothing

----------------------------------------------------------------------------
(* DependencyFallbacksHolder.  A lookup q has the names, the version       *)
(* wanted, whether it is required, and the subproject to fall back to.  A  *)
(* candidate answers with a dependency, with NotFound to end the search,   *)
(* or with Nothing to try the next.                                        *)

forcefallback == wrap_mode = "forcefallback"
nofallback == wrap_mode = "nofallback"

get_subproject(s) == s \in DOMAIN subprojects /\ subprojects[s].state = "found"

check_version(q, dep) == dep.version >= q.version

get_cached_dep(q, n) ==
    LET overrides == Top.dependency_overrides
        dep == get(n)
    IN  IF n \in DOMAIN overrides
        THEN IF overrides[n] # NotFound /\ check_version(q, overrides[n])
             THEN overrides[n] ELSE NotFound
        ELSE IF \/ forcefallback /\ q.subproject_name # Nothing
                \/ dep = Nothing
                \/ dep # Nothing /\ ~check_version(q, dep)
             THEN Nothing ELSE dep

\* The first name the caches know decides.
do_dependency_cache(q) ==
    LET known == {n \in Elements(q.names) : get_cached_dep(q, n) # Nothing}
    IN  IF known = {} THEN Nothing ELSE get_cached_dep(q, First(q.names, known))

get_subproject_dep(q) ==
    LET s == q.subproject_name
        cached == do_dependency_cache(q)
    IN  IF ~get_subproject(s) THEN Nothing
        ELSE IF cached # Nothing THEN cached
        ELSE IF s \in HasVariable /\ check_version(q, Declared(s)) THEN Declared(s)
        ELSE NotFound

\* find_external_dependency: the names the system has in a fitting version
external(q) ==
    {n \in Elements(q.names) : system[n] # NotFound /\ check_version(q, system[n])}

\* The subproject that a call without an explicit fallback falls back to.
fallback(names, allow_fallback, required) ==
    LET provided == {n \in Elements(names) : Provider[n] # Nothing}
        s == Provider[First(names, provided)]
    IN  IF \/ allow_fallback = "false" \/ provided = {}
           \/ ~(forcefallback \/ allow_fallback = "true" \/ required \/ get_subproject(s))
        THEN Nothing ELSE s

----------------------------------------------------------------------------
(* Interpreters.  configured is the snapshot of the known subprojects that *)
(* do_subproject takes, lookup the dependency() call that waits for the    *)
(* subproject above, used and made are history: the names that were found  *)
(* and the names overridden by this project itself.                        *)

Interpreter(s, required) ==
    [name |-> s, required |-> required, configured |-> DOMAIN subprojects,
     dependency_overrides |-> IF stack = << >> THEN None ELSE Top.dependency_overrides,
     lookup |-> Nothing, used |-> {}, made |-> {}]

disabled_subproject(state) == [state |-> state, made |-> {}]

\* Mutant: nothing is deleted.
forget_none(subs, configured) == subs

\* What is left of the subprojects when those not in configured are deleted.
forget(subs, configured) == [s \in DOMAIN subs \cap configured |-> subs[s]]

\* Mutant: the caller and the failed subproject share one Build.
discard_shared(i) ==
    [SubSeq(stack, 1, i - 1) EXCEPT ![i - 1].dependency_overrides = Top.dependency_overrides]

\* The interpreters left when the i-th is given up; each has its own Build.
discard(i) == SubSeq(stack, 1, i - 1)

\* An exception reaches the innermost subproject that is not required: its
\* Build and those above it are discarded and what it configured is forgotten.
\* Without one, or with invalid code, the run fails and nothing is saved.
Raise(invalid_code) ==
    \/ /\ invalid_code \/ \A i \in 2..Len(stack) : stack[i].required
       /\ stack' = << >> /\ subprojects' = None /\ deps' = saved
    \/ /\ ~invalid_code
       /\ \E i \in 2..Len(stack) :
            /\ ~stack[i].required /\ \A j \in (i + 1)..Len(stack) : stack[j].required
            /\ stack' = discard(i)
            /\ subprojects' = With(forget(subprojects, stack[i].configured),
                                   stack[i].name, disabled_subproject("failed"))
       /\ UNCHANGED deps

\* do_subproject, after the disabled feature: the subproject is refused,
\* known already, impossible to fetch, or started on a copy of the Build.
\* frames is the stack with the caller as it waits.
do_subproject(s, required, frames) ==
    \/ s \in Names /\ Raise(TRUE)
    \/ /\ s \notin Names /\ s \in DOMAIN subprojects
       /\ IF required /\ ~get_subproject(s) THEN Raise(FALSE)
          ELSE stack' = frames /\ UNCHANGED <<subprojects, deps>>
    \/ /\ s \notin Names /\ s \notin DOMAIN subprojects
       /\ \/ required /\ Raise(FALSE)
          \/ /\ ~required
             /\ subprojects' = With(subprojects, s, disabled_subproject("failed"))
             /\ stack' = frames /\ UNCHANGED deps
          \/ /\ stack' = Append(frames, Interpreter(s, required))
             /\ UNCHANGED <<subprojects, deps>>

\* Build.merge: the caller goes on with the dictionaries of the subproject.
merge(st) ==
    LET sub == st[Len(st)]
        caller == st[Len(st) - 1]
    IN  [SubSeq(st, 1, Len(st) - 1) EXCEPT ![Len(st) - 1] =
            [caller EXCEPT !.dependency_overrides = sub.dependency_overrides,
                           !.used = @ \cup sub.used]]

\* Mutant: what was found is not recorded.
overridden_not(q, dep) == Top.dependency_overrides

\* A found dependency is the implicit override of every name that has none.
overridden(q, dep) == Update([n \in Elements(q.names) |-> dep], Top.dependency_overrides)

\* The end of lookup.
Answer(q, dep, cache) ==
    IF dep \notin {Nothing, NotFound}
    THEN /\ stack' = Amend([Top EXCEPT
                !.lookup = Nothing,
                !.dependency_overrides = overridden(q, dep),
                !.used = @ \cup (IF Len(q.names) = 1 THEN {<<Head(q.names), dep>>} ELSE {})])
         /\ deps' = cache /\ UNCHANGED subprojects
    ELSE IF q.required THEN Raise(FALSE)
    ELSE stack' = Amend([Top EXCEPT !.lookup = Nothing]) /\ UNCHANGED <<subprojects, deps>>

\* The candidates in their order; only the last one may start a subproject.
lookup(q) ==
    LET s == q.subproject_name
    IN  IF do_dependency_cache(q) # Nothing THEN Answer(q, do_dependency_cache(q), deps)
        ELSE IF get_subproject(s) THEN Answer(q, get_subproject_dep(q), deps)
        ELSE IF external(q) # {} /\ ~(forcefallback /\ s # Nothing)
        THEN LET n == First(q.names, external(q)) IN Answer(q, system[n], put(n, system[n]))
        ELSE IF s = Nothing \/ nofallback THEN Answer(q, Nothing, deps)
        ELSE do_subproject(s, q.required, Amend([Top EXCEPT !.lookup = q]))

----------------------------------------------------------------------------
(* A run, and the calls of the meson.build files *)

Init ==
    /\ system \in Installed /\ wrap_mode = "default" /\ path = Empty
    /\ deps = None /\ saved = None /\ subprojects = None
    /\ stack = << >> /\ calls = 0

\* meson setup or --reconfigure, after anything on the system has changed
Setup ==
    /\ stack = << >> /\ calls < MaxCalls
    /\ \E clearcache \in BOOLEAN : deps' = IF clearcache THEN None ELSE saved
    /\ wrap_mode' \in {"default", "nofallback", "forcefallback"}
    /\ path' \in Path
    /\ \E i \in Installed : system' =
            [n \in Name |-> IF i[n].type = "pkgconfig" THEN [i[n] EXCEPT !.path = path'] ELSE i[n]]
    /\ stack' = <<Interpreter(Root, TRUE)>>
    /\ UNCHANGED <<saved, subprojects, calls>>

Call ==
    /\ stack # << >> /\ Top.lookup = Nothing
    /\ calls < MaxCalls /\ calls' = calls + 1
    /\ UNCHANGED <<system, wrap_mode, path, saved>>

func_dependency ==
    /\ Call
    /\ \E names \in Lists, version \in {0, 2}, required \in BOOLEAN :
        LET implicit == {fallback(names, allow_fallback, required) :
                            allow_fallback \in {"true", "false", "unset"}}
        IN  \E s \in Sub \cup implicit :
                lookup([names |-> names, version |-> version, required |-> required,
                        subproject_name |-> s])

\* lookup goes on when the subproject it started is there, or has failed.
LookupReturns ==
    /\ stack # << >> /\ Top.lookup # Nothing
    /\ Answer(Top.lookup, get_subproject_dep(Top.lookup), deps)
    /\ UNCHANGED <<system, wrap_mode, path, saved, calls>>

\* meson.override_dependency(), and override_dependency() of a module.  A name
\* that is resolved already is an error, or is left alone in the permissive call
\* that goes with override_dependency(static:).
override_dependency ==
    /\ Call
    /\ \E n \in Name, dep \in {Declared(Top.name), NotFound} :
        IF n \in DOMAIN Top.dependency_overrides
        THEN Raise(FALSE) \/ UNCHANGED <<stack, subprojects, deps>>
        ELSE /\ stack' = Amend([Top EXCEPT !.dependency_overrides = With(@, n, dep),
                                           !.made = @ \cup {<<n, dep>>}])
             /\ UNCHANGED <<subprojects, deps>>

\* subproject() with required true, false or a disabled feature
func_subproject ==
    /\ Call
    /\ \E s \in Sub :
        \/ \E required \in BOOLEAN : do_subproject(s, required, stack)
        \/ /\ subprojects' = With(subprojects, s, disabled_subproject("skipped"))
           /\ UNCHANGED <<stack, deps>>

\* error(), invalid code, a version that does not match: anything that raises
Error == Call /\ \E invalid_code \in BOOLEAN : Raise(invalid_code)

\* The meson.build file ends: the Build is merged into the caller's, or saved.
Finish ==
    /\ stack # << >> /\ Top.lookup = Nothing
    /\ IF Len(stack) = 1
       THEN stack' = << >> /\ subprojects' = None /\ saved' = deps
       ELSE /\ stack' = merge(stack)
            /\ subprojects' = With(subprojects, Top.name, [state |-> "found", made |-> Top.made])
            /\ UNCHANGED saved
    /\ UNCHANGED <<system, wrap_mode, path, deps, calls>>

Stop == stack = << >> /\ calls = MaxCalls /\ UNCHANGED vars

Next ==
    \/ Setup \/ func_dependency \/ LookupReturns \/ override_dependency
    \/ func_subproject \/ Error \/ Finish \/ Stop

Spec == Init /\ [][Next]_vars

----------------------------------------------------------------------------
(* Properties *)

\* The state has its types: projects on the stack are distinct, only the
\* projects under the running one wait for it, and only in a lookup of the
\* subproject above them.
TypeOK ==
    /\ system \in [Name -> Dep] /\ path \in Path
    /\ wrap_mode \in {"default", "nofallback", "forcefallback"}
    /\ DOMAIN deps \subseteq Name /\ DOMAIN saved \subseteq Name
    /\ DOMAIN subprojects \subseteq Sub
    /\ calls \in 0..MaxCalls
    /\ stack # << >> => stack[1].name = Root
    /\ \A i, j \in 1..Len(stack) : stack[i].name = stack[j].name => i = j
    /\ \A i \in 1..Len(stack) :
        /\ DOMAIN stack[i].dependency_overrides \subseteq Name
        /\ \A n \in DOMAIN stack[i].dependency_overrides : stack[i].dependency_overrides[n] \in Dep
        /\ i < Len(stack) /\ stack[i].lookup # Nothing =>
               /\ stack[i].lookup.subproject_name = stack[i + 1].name
               /\ stack[i].lookup.required = stack[i + 1].required

\* All projects of a run that get a dependency of one name get the same one,
\* whatever fallback, version and order they ask with (func_dependency may
\* return it as a copy with another include_type): lookup overrides what it
\* found ("to have consistent results in subsequent dependency lookups") and
\* override_dependency refuses a resolved name.
SameDependency ==
    LET used == UNION {stack[i].used : i \in 1..Len(stack)}
    IN  \A u, v \in used : u[1] = v[1] => u[2] = v[2]

\* No project uses a dependency that a failed subproject, or one configured
\* inside it, has declared: do_subproject discards their Build.
NothingOfAFailedSubproject ==
    stack # << >> =>
        \A n \in DOMAIN Top.dependency_overrides :
            LET s == Top.dependency_overrides[n].src
            IN  s \in Sub \ Names => s \in DOMAIN subprojects /\ subprojects[s].state # "failed"

\* A subproject that the shared dictionary shows as found has its overrides in
\* the Build of the running project: the dictionary and the Builds, which are
\* rolled back separately when do_subproject catches an exception, agree.
FoundIsMerged ==
    stack # << >> =>
        \A s \in DOMAIN subprojects : subprojects[s].state = "found" =>
            \A m \in subprojects[s].made :
                m[1] \in DOMAIN Top.dependency_overrides /\ Top.dependency_overrides[m[1]] = m[2]

\* A dependency that pkg-config found is used only with the pkg_config_path it
\* was found with, although the cache outlives a change of that option, if the
\* cache entry was created for pkg-config (calculate_subkey).
CacheFollowsPath ==
    \A i \in 1..Len(stack) : \A u \in stack[i].used :
        u[2].type = "pkgconfig" /\ deps[u[2].name].type = "pkgconfig" => u[2].path = path

=============================================================================
