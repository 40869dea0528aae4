---------------------------- MODULE OptionStore ----------------------------
(***************************************************************************)
(* options.py's OptionStore over the life of a build directory: the first  *)
(* `meson setup`, the project() and subproject() calls of each run, options*)
(* that appear late because a language is added late, `meson configure -D` *)
(* and -U, reconfiguration, and option files edited in between.            *)
(*                                                                         *)
(* A behaviour follows the option of one name, of one of four kinds: a     *)
(* builtin option, a read-only builtin, a compiler option (which exists    *)
(* only once some project has added the language) and a project option     *)
(* (declared in option files).  A key is then the part of an OptionKey left*)
(* of the colon: Global (subproject None), Root ('') or a subproject.      *)
(***************************************************************************)
EXTENDS Naturals, FiniteSets

CONSTANTS
    Sub,       \* names of the subprojects
    Value,     \* values given to the option
    Default,   \* the value a builtin or compiler option starts with
    Decls,     \* declarations of the option an option file may hold
    Files,     \* the option files the projects may start with
    Global, Root, NoFile, Nothing, NoParent, Live, Crash,
    MaxEvents  \* for each kind, bound on settings given, commands after the
               \* first setup and edits

Project == {Root} \cup Sub
UserKey == {Global} \cup Sub
Kind == {"builtin", "readonly", "compiler", "project"}

ASSUME KeysAssumption == Global \notin Project /\ Root \notin Sub

ASSUME ValuesAssumption ==
    /\ Nothing \notin Value /\ {NoParent, Live, Crash} \cap (Value \cup {Default}) = {}
    /\ NoParent # Live

ASSUME FilesAssumption ==
    /\ \A d \in Decls : d.value \in Value /\ d.choices \subseteq Value /\ d.yield \in BOOLEAN
    /\ {NoFile, Nothing} \cap Decls = {} /\ NoFile # Nothing /\ NoFile \notin Project
    /\ Files \subseteq [Project -> Decls \cup {NoFile}]

ASSUME BoundAssumption == MaxEvents \in [Kind -> Nat]

VARIABLES
    kind,     \* the kind of the option followed
    file,     \* the declaration in each project's option file
    run,      \* of the command that runs: its OptionStore, its cmd_line_options
              \* and, for the properties, what the build files gave it
    saved,    \* what coredata.dat and cmd_line.txt hold
    configured, \* whether there is a coredata.dat
    machine,  \* options of the machine file, fixed for the directory
    phase,    \* "idle", "project" or "body" of the toplevel meson.build
    called,   \* projects evaluated so far in this run
    edited,   \* was an option file changed since the first setup
    events    \* settings, commands and edits so far

vars == <<kind, file, run, saved, configured, machine, phase, called, edited, events>>

\* Dictionaries: d[k] = v is With, d.update(other) is Update.
Dict(K) == UNION {[D -> Value] : D \in SUBSET K}
None == [x \in {} |-> x]
get(d, k, otherwise) == IF k \in DOMAIN d THEN d[k] ELSE otherwise
pop(d, k) == [x \in DOMAIN d \ {k} |-> d[x]]
With(d, k, v) == [x \in DOMAIN d \cup {k} |-> IF x = k THEN v ELSE d[x]]
Update(d, other) == [x \in DOMAIN d \cup DOMAIN other |-> IF x \in DOMAIN other THEN other[x] ELSE d[x]]
Only(d, K) == [x \in DOMAIN d \cap K |-> d[x]]

----------------------------------------------------------------------------
(* The store's operations, as functions on stores.  A parent is Live while *)
(* it is the toplevel project's present option object; a value stands for  *)
(* an object that is no longer in the store, whose value nothing changes.  *)

Fail(st) == [st EXCEPT !.ok = FALSE]

UserOption(v, yielding, parent, decl) ==
    [value |-> v, yielding |-> yielding, parent |-> parent,
     choices |-> decl.choices, type |-> decl.type]

\* init_builtins()
Builtin == UserOption(Default, FALSE, NoParent, [choices |-> Value \cup {Default}, type |-> "builtin"])

OptionStore ==
    [options |-> IF kind \in {"builtin", "readonly"} THEN [k \in {Global} |-> Builtin] ELSE None,
     augments |-> None, pending_options |-> None, pending_subproject_options |-> None,
     subprojects |-> {}, options_files |-> None, ok |-> TRUE]

get_option_and_value_for(st, key) ==
    LET opt == st.options[IF key \in DOMAIN st.options THEN key ELSE Global]
    IN  IF key \in DOMAIN st.augments THEN st.augments[key]
        ELSE IF ~opt.yielding THEN opt.value
        ELSE IF opt.parent = NoParent THEN Crash
        ELSE IF opt.parent = Live THEN st.options[Root].value
        ELSE opt.parent

has_option(st, key) == {key, Global} \cap DOMAIN st.options # {}

\* The value set_option() compares the new one with.
old_value(st, key) ==
    IF key \in DOMAIN st.options THEN st.options[key].value
    ELSE get(st.augments, key, st.options[Global].value)

set_option(st, key, new, first) ==
    IF \/ ~has_option(st, key)
       \/ new \notin st.options[IF key \in DOMAIN st.options THEN key ELSE Global].choices
       \/ kind = "readonly" /\ ~first /\ old_value(st, key) # new
    THEN Fail(st)
    ELSE IF key \in DOMAIN st.options
         THEN [st EXCEPT !.options = With(@, key, [st.options[key] EXCEPT !.value = new, !.yielding = FALSE])]
         ELSE [st EXCEPT !.augments = With(@, key, new)]

set_user_option(st, key, new, first) ==
    IF has_option(st, key) THEN set_option(st, key, new, first)
    ELSE IF kind = "compiler" THEN [st EXCEPT !.pending_options = With(@, key, new)]
    ELSE IF key = Global THEN set_option(st, Root, new, first)
    ELSE Fail(st)

\* One `for key, valstr in d.items()` for the option followed.
set_from(st, d, key, first) ==
    IF key \in DOMAIN d THEN set_user_option(st, key, d[key], first) ELSE st

\* The value pending for the key is set once the option exists.
Unpend(st, pending, key) ==
    IF key \in DOMAIN pending
    THEN set_option([st EXCEPT !.pending_options = pop(@, key)], key, pending[key], FALSE)
    ELSE st

add_global(st) ==
    IF Global \in DOMAIN st.options THEN st
    ELSE Unpend([st EXCEPT !.options = With(@, Global, Builtin)], st.pending_options, Global)

\* A variant that adds the subproject's key itself.
add_system_option_subkey(st, key) ==
    Unpend([st EXCEPT !.options = With(@, key, Builtin)], st.pending_options, key)

add_system_option_internal(st, key) ==
    IF key = Global THEN add_global(st) ELSE Unpend(add_global(st), st.pending_options, key)

add_project_option(st, key, decl) ==
    LET parent == IF /\ decl.yield /\ key \in Sub /\ Root \in DOMAIN st.options
                     /\ st.options[Root].type = decl.type
                  THEN Live ELSE NoParent
    IN  [st EXCEPT !.options = With(@, key, UserOption(decl.value, parent # NoParent, parent, decl))]

\* The toplevel project's option object leaves the store; options that yield
\* to it keep the object.
Orphan(st, key) ==
    IF key # Root THEN st
    ELSE [st EXCEPT !.options =
            [k \in DOMAIN st.options |->
                IF st.options[k].parent = Live THEN [st.options[k] EXCEPT !.parent = st.options[Root].value]
                ELSE st.options[k]]]

\* A variant that takes the value of the option file every time.
update_project_options_resets(st, decl, key) ==
    IF decl = Nothing THEN st
    ELSE IF key \in DOMAIN st.options THEN set_option(st, key, decl.value, FALSE)
    ELSE add_project_option(st, key, decl)

\* decl is Nothing when the option file does not declare the option.
update_project_options(st, decl, key) ==
    LET old == st.options[key]
        kept == IF old.value \in decl.choices THEN old.value ELSE decl.value
    IN  IF key \notin DOMAIN st.options
        THEN IF decl = Nothing THEN st ELSE add_project_option(st, key, decl)
        ELSE IF decl = Nothing THEN [Orphan(st, key) EXCEPT !.options = pop(@, key)]
        ELSE IF old.type # decl.type THEN set_option(st, key, decl.value, FALSE)
        ELSE IF old.choices = decl.choices THEN st
        ELSE [Orphan(st, key) EXCEPT !.options = With(@, key, UserOption(kept, decl.yield, NoParent, decl))]

\* Interpret the option file of `of` on behalf of project `key`.
process(st, of, key) ==
    [update_project_options(st, file[of], key) EXCEPT
        !.options_files = With(@, key, <<of, file[of]>>)]

_load_option_file(st, key) ==
    IF file[key] = NoFile
    THEN [st EXCEPT !.options_files = With(@, key, <<NoFile, NoFile>>)]
    ELSE process(st, key, key)

initialize_from_top_level_project_call(st, project, cmd) ==
    LET defaults == [set_from(st, project, Global, TRUE) EXCEPT
                        !.pending_subproject_options = Only(project, Sub)]
    IN  set_from(set_from(defaults, machine, Global, TRUE), cmd, Global, TRUE)

\* A variant in which the subproject's own defaults rank above global settings.
SubprojectOptions_own_first(st, s, call, own, cmd) ==
    LET waiting == Update(Update(own, Only(st.pending_subproject_options, {s})), call)
    IN  Update(Update(waiting, Only(machine, {s})), Only(cmd, {s}))

\* What subproject s starts from: keys of s and of other subprojects.
SubprojectOptions(st, s, call, own, cmd) ==
    LET toplevel == IF Root \in DOMAIN st.options THEN {} ELSE {Global}
        global == toplevel \cap (DOMAIN machine \cup DOMAIN cmd)
        defaults == IF global = {} THEN own ELSE pop(own, s)
        waiting == Update(Update(defaults, Only(st.pending_subproject_options, {s})), call)
    IN  Update(Update(waiting, Only(machine, {s})), Only(cmd, {s}))

\* Keys at which the merge raises: the subproject's own if its value cannot be
\* set, that of a configured subproject if option_has_value() cannot say.
Raising(st, s, options) ==
    {t \in (DOMAIN options \cap st.subprojects) \ {s} :
        \/ ~has_option(st, t)
        \/ options[t] \notin st.options[IF t \in DOMAIN st.options THEN t ELSE Global].choices
        \/ get_option_and_value_for(st, t) = Crash}
    \cup {t \in {s} \ DOMAIN st.augments : ~set_from(st, options, s, TRUE).ok}

\* The keys the merge comes to: all, or up to the first that raises.  The
\* order in which the dictionary holds them is left open.
Merged(st, s, options) ==
    {keys \in SUBSET DOMAIN options :
        \/ keys = DOMAIN options /\ keys \cap Raising(st, s, options) = {}
        \/ \E t \in keys : keys \cap Raising(st, s, options) = {t}}

initialize_from_subproject_call(st, s, options, keys) ==
    LET raised == keys \cap Raising(st, s, options)
        rest == keys \ (raised \cup {s})
        processed == {t \in rest \cap st.subprojects : get_option_and_value_for(st, t) # options[t]}
        others == Only(options, rest \ processed)
        merged == [st EXCEPT
                     !.pending_subproject_options =
                         Update(IF s \in keys THEN pop(st.pending_subproject_options, s)
                                ELSE st.pending_subproject_options, others),
                     !.pending_options = IF s \in keys THEN pop(st.pending_options, s) ELSE st.pending_options]
        final == IF s \in keys \ DOMAIN st.augments THEN set_from(merged, options, s, TRUE) ELSE merged
    IN  IF raised # {} THEN Fail(final) ELSE [final EXCEPT !.subprojects = @ \cup {s}]

\* Conf.__init__() looks at the option files again.  A project that had none
\* is given the toplevel project's.
reload(st, key) ==
    LET seen == st.options_files[key]
        path == IF seen[1] # NoFile /\ file[seen[1]] # NoFile THEN seen[1] ELSE Root
    IN  IF file[path] = NoFile THEN update_project_options(st, Nothing, key)
        ELSE IF path = seen[1] /\ file[path] = seen[2] THEN st
        ELSE process(st, path, key)

\* The toplevel project first; what becomes of an option of a subproject then
\* depends on no other subproject.
Conf(st) ==
    LET top == reload(st, Root)
        new == [key \in DOMAIN st.options_files |-> IF key = Root THEN top ELSE reload(top, key)]
        key(k) == IF k \in DOMAIN new THEN k ELSE Root
    IN  [top EXCEPT !.options = [k \in {k \in {Global} \cup Project : k \in DOMAIN new[key(k)].options}
                                    |-> new[key(k)].options[k]],
                    !.options_files = [k \in DOMAIN new |-> new[k].options_files[k]],
                    !.ok = \A k \in DOMAIN new : new[k].ok]

\* A variant whose -U goes back to the default and not to the toplevel value.
set_from_configure_command_resets(st, key, new) ==
    IF new # Nothing THEN set_user_option(st, key, new, FALSE)
    ELSE IF key \in DOMAIN st.augments THEN [st EXCEPT !.augments[key] = Default]
    ELSE Fail(st)

\* -D sets, -U (the value Nothing) drops an augment or makes the option yield.
set_from_configure_command(st, key, new) ==
    IF new # Nothing THEN set_user_option(st, key, new, FALSE)
    ELSE IF key \in DOMAIN st.augments THEN [st EXCEPT !.augments = pop(@, key)]
    ELSE IF key \in DOMAIN st.options
    THEN LET opt == st.options[key]
         IN  [st EXCEPT !.options = With(@, key, [opt EXCEPT !.yielding = opt.parent # NoParent])]
    ELSE Fail(st)

\* The flag set_from_configure_command() returns.
dirty(st, key, new) ==
    LET at == IF has_option(st, key) \/ key # Global THEN key ELSE Root
    IN  IF new # Nothing
        THEN IF has_option(st, at) THEN old_value(st, at) # new
             ELSE get(st.pending_options, key, Nothing) # new
        ELSE \/ key \in DOMAIN st.augments
             \/ ~st.options[key].yielding /\ st.options[key].parent # NoParent

----------------------------------------------------------------------------
(* The commands *)

NoGiven == [project |-> None, parent |-> None, call |-> None, own |-> None, dropped |-> {}]
Blank == [store |-> OptionStore, cmd |-> None, given |-> NoGiven]

Init ==
    /\ kind \in Kind
    /\ file \in IF kind = "project" THEN Files ELSE [Project -> {NoFile}]
    /\ run = Blank /\ saved = Blank /\ configured = FALSE /\ machine = None
    /\ phase = "idle" /\ called = {}
    /\ edited = FALSE /\ events = 0

Count(n) == events + n <= MaxEvents[kind] /\ events' = events + n

\* The command goes on, or it raises and nothing of it is kept.
Continue(new, next, projects) ==
    IF new.store.ok
    THEN run' = new /\ phase' = next /\ called' = projects
    ELSE run' = saved /\ phase' = "idle" /\ called' = {}

\* meson setup with a machine file and -D options
Setup ==
    /\ phase = "idle" /\ ~configured
    /\ \E d \in Dict(UserKey), m \in Dict(UserKey) :
          /\ Count(Cardinality(DOMAIN d) + Cardinality(DOMAIN m))
          /\ run' = [Blank EXCEPT !.cmd = d]
          /\ machine' = m
    /\ phase' = "project" /\ called' = {}
    /\ UNCHANGED <<kind, file, saved, configured, edited>>

\* A command or an edit after the first setup
Command ==
    /\ phase = "idle" /\ configured /\ Count(1)

\* meson setup --reconfigure, with or without a -D
Reconfigure ==
    /\ Command
    /\ \/ run' = saved /\ phase' = "project" /\ called' = {}
       \/ \E key \in UserKey, v \in Value :
             Continue([saved EXCEPT !.store = set_from_configure_command(saved.store, key, v),
                                    !.cmd = With(saved.cmd, key, v),
                                    !.given = [saved.given EXCEPT !.dropped = @ \ {key}]], "project", {})
    /\ UNCHANGED <<kind, file, saved, configured, machine, edited>>

\* meson configure, which saves the store only if the setting made it dirty
Configure ==
    /\ Command
    /\ \E key \in UserKey, v \in Value \cup {Nothing} :
          LET loaded == Conf(saved.store)
              set == set_from_configure_command(loaded, key, v)
              kept == loaded.ok /\ set.ok /\ dirty(loaded, key, v)
          IN  /\ saved' = IF ~set.ok THEN saved
                          ELSE [store |-> IF kept THEN set ELSE saved.store,
                                cmd |-> IF v = Nothing THEN pop(saved.cmd, key) ELSE With(saved.cmd, key, v),
                                given |-> [saved.given EXCEPT !.dropped =
                                              IF v = Nothing
                                              THEN @ \cup (({key} \cap loaded.subprojects) \ DOMAIN loaded.pending_options)
                                              ELSE @ \ {key}]]
    /\ run' = saved'
    /\ UNCHANGED <<kind, file, configured, machine, phase, called, edited>>

\* project() of the toplevel meson.build
func_project ==
    /\ phase = "project"
    /\ LET st == _load_option_file(run.store, Root)
       IN  \/ /\ configured
              /\ Continue([run EXCEPT !.store = st], "body", {Root})
              /\ UNCHANGED events
           \/ /\ ~configured
              /\ \E d \in Dict(UserKey) :
                    /\ Count(Cardinality(DOMAIN d))
                    /\ Continue([run EXCEPT
                                    !.store = initialize_from_top_level_project_call(st, d, run.cmd),
                                    !.given = [run.given EXCEPT !.project = Only(d, {Global}),
                                                                !.parent = Only(d, Sub)]], "body", {Root})
    /\ UNCHANGED <<kind, file, saved, configured, machine, edited>>

\* subproject() and the project() call of the subproject, with their
\* default_options, which may name other subprojects; to name its own raises.
\* A subproject that raises is disabled if it is not required, and the store
\* stays as it then is.
do_subproject(s) ==
    /\ phase = "body" /\ s \notin called
    /\ LET st == _load_option_file(run.store, s)
           given == run.given
           Evaluated(new) ==
              \/ Continue(new, "body", called \cup {s})
              \/ ~new.store.ok /\ Continue([new EXCEPT !.store.ok = TRUE], "body", called \cup {s})
       IN  \/ /\ s \in st.subprojects \/ ~st.ok
              /\ Evaluated([run EXCEPT !.store = st])
              /\ UNCHANGED events
           \/ /\ s \notin st.subprojects /\ st.ok /\ Count(1)
              /\ Evaluated([run EXCEPT !.store = Fail(st)])
           \/ /\ s \notin st.subprojects /\ st.ok
              /\ \E call \in Dict(Sub), own \in Dict(Sub) :
                    LET options == SubprojectOptions(st, s, call, own, run.cmd)
                    IN  /\ Count(Cardinality(DOMAIN call) + Cardinality(DOMAIN own))
                        /\ \E keys \in Merged(st, s, options) :
                              Evaluated([run EXCEPT
                                 !.store = initialize_from_subproject_call(st, s, options, keys),
                                 !.given = [given EXCEPT
                                    !.call = Update(pop(given.call, s), Only(call, {s})),
                                    !.own = Update(pop(given.own, s), Only(own, {s})),
                                    !.parent = Update(given.parent, Only(Update(own, call),
                                                                         keys \ (st.subprojects \cup {s})))]])
    /\ UNCHANGED <<kind, file, saved, configured, machine, edited>>

\* add_languages() in project p: process_compiler_options()
add_languages(p) ==
    /\ phase = "body" /\ kind = "compiler" /\ p \in called
    /\ LET st == add_system_option_internal(run.store, IF p = Root THEN Global ELSE p)
       IN  /\ st # run.store
           /\ Continue([run EXCEPT !.store = st], "body", called)
    /\ UNCHANGED <<kind, file, saved, configured, machine, edited, events>>

\* The end of _generate(): the store and the command line are saved.
Finish ==
    /\ phase = "body"
    /\ saved' = [run EXCEPT !.given = [NoGiven EXCEPT !.dropped = run.given.dropped]]
    /\ run' = saved' /\ configured' = TRUE /\ phase' = "idle" /\ called' = {}
    /\ UNCHANGED <<kind, file, machine, edited, events>>

\* A project's option file is changed between two commands.
Edit(p) ==
    /\ Command /\ kind = "project"
    /\ \E d \in (Decls \cup {Nothing, NoFile}) \ {file[p]} : file' = [file EXCEPT ![p] = d]
    /\ edited' = TRUE
    /\ UNCHANGED <<kind, run, saved, configured, machine, phase, called>>

Done == phase = "idle" /\ configured /\ events = MaxEvents[kind] /\ UNCHANGED vars

Next ==
    \/ Setup \/ Reconfigure \/ Configure \/ func_project \/ Finish \/ Done
    \/ \E s \in Sub : do_subproject(s)
    \/ \E p \in Project : add_languages(p) \/ Edit(p)

Spec == Init /\ [][Next]_vars

----------------------------------------------------------------------------
(* Properties *)

TypeOK ==
    /\ kind \in Kind
    /\ DOMAIN run.store.options \subseteq (IF kind = "project" THEN Project ELSE {Global})
    /\ run.store.augments \in Dict(Sub)
    /\ run.store.pending_options \in Dict(UserKey)
    /\ run.store.pending_subproject_options \in Dict(Sub)
    /\ run.store.subprojects \subseteq Sub
    /\ run.store.ok
    /\ saved.cmd \in Dict(UserKey)
    /\ phase \in {"idle", "project", "body"} /\ called \subseteq Project

value_of(r, p) == get_option_and_value_for(r.store, p)

\* Projects whose value the store knows: the option exists and no setting for
\* the project is still waiting for it.
Settled(r) ==
    {p \in r.store.subprojects \cup {Root} :
        /\ has_option(r.store, p)
        /\ {p, Global} \cap DOMAIN r.store.pending_options = {}}

RootDocumented ==
    get(run.cmd, Global, get(machine, Global, get(run.given.project, Global,
        IF kind = "project" THEN file[Root].value ELSE Default)))

SharedDocumented(s) ==
    get(run.cmd, Global, get(machine, Global, get(run.given.own, s, get(run.given.project, Global, Default))))

OwnDocumented(s) ==
    LET yields == /\ file[s].yield /\ file[Root] \in Decls /\ file[Root].type = file[s].type
    IN  get(run.given.own, s, IF yields THEN RootDocumented ELSE file[s].value)

Documented(s) ==
    get(run.cmd, s, get(machine, s, get(run.given.call, s, get(run.given.parent, s,
        IF kind = "project" THEN OwnDocumented(s) ELSE SharedDocumented(s)))))

\* After the first setup every project sees the value that the documented
\* order of the eight sources selects, whichever project adds the language
\* when, and whichever subproject is configured first
\* (initialize_from_top_level_project_call, initialize_from_subproject_call).
DocumentedOrder ==
    ~configured /\ phase = "body" =>
        \A p \in Settled(run) :
            value_of(run, p) = IF p = Root THEN RootDocumented ELSE Documented(p)

\* Once a project is configured, evaluating project() and subproject() again
\* never changes its value of an option that was not waiting to exist, unless
\* an option file was edited: only -D and -U do (func_project,
\* initialize_from_subproject_call, add_system_option_internal).
ValuesStay ==
    [][\A p \in Settled(run) \cap Settled(run') :
          /\ configured /\ ~edited /\ phase # "idle"
          /\ p \in Settled(saved)
          => value_of(run', p) \in {value_of(run, p), value_of(saved, p)}]_vars

\* After `meson configure -Usub:opt` the subproject follows the toplevel
\* project's value in this and every later run, until the user sets it again;
\* unless an older setting was waiting for the language when it was dropped
\* (set_from_configure_command, `key not in self.augments`).
RemovedFollowsRoot ==
    \A s \in Settled(run) \cap run.given.dropped \cap Sub :
        kind # "project" => value_of(run, s) = value_of(run, Root)

\* A subproject's setting from the command line is its value: nothing ranks
\* above `subp:opt=value` (set_from_configure_command, run_impl's save).
PinnedStays ==
    \A s \in Settled(run) \cap DOMAIN run.cmd :
        s \in Sub /\ kind # "project" => value_of(run, s) = run.cmd[s]
============================================================================
