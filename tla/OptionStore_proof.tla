------------------------ MODULE OptionStore_proof ------------------------
(***************************************************************************)
(* The inductive invariant of OptionStore, what the operations do to a     *)
(* store (each keeps it well formed, leaves the other projects' values     *)
(* alone and sets what its callers rely on), and to a run's records.       *)
(* OptionStoreRuns_proof has the actions and the theorems.                 *)
(***************************************************************************)
EXTENDS OptionStore, TLAPS

Key == {Global} \cup Project
Values == Value \cup {Default}
Types == {"builtin"} \cup {d.type : d \in Decls}
Option == [value : Values, yielding : BOOLEAN, parent : Values \cup {NoParent, Live},
           choices : SUBSET Values, type : Types]
Table == UNION {[D -> Option] : D \in SUBSET Key}
Seen == UNION {[D -> (Project \cup {NoFile}) \X (Decls \cup {Nothing, NoFile})] : D \in SUBSET Project}
Store == [options : Table, augments : Dict(Sub), pending_options : Dict(UserKey),
          pending_subproject_options : Dict(Sub), subprojects : SUBSET Sub,
          options_files : Seen, ok : BOOLEAN]

\* What the kind of the option says of a store.
KindOK(st) ==
    /\ kind = "project" =>
          /\ Global \notin DOMAIN st.options
          /\ DOMAIN st.augments = {} /\ DOMAIN st.pending_options = {}
    /\ kind # "project" =>
          /\ DOMAIN st.options \subseteq {Global}
          /\ \A k \in DOMAIN st.options :
                ~st.options[k].yielding /\ st.options[k].parent = NoParent /\ st.options[k].choices = Values
    /\ kind \in {"builtin", "readonly"} => Global \in DOMAIN st.options /\ DOMAIN st.pending_options = {}

\* An option yields to the toplevel project's only while there is one.
LiveOK(st) == \A k \in DOMAIN st.options : st.options[k].parent = Live => Root \in DOMAIN st.options

WF(st) == st \in Store /\ KindOK(st) /\ LiveOK(st)

\* What each kind of option has in the option files.
FileOK ==
    /\ file \in [Project -> Decls \cup {Nothing, NoFile}]
    /\ kind # "project" => \A p \in Project : file[p] = NoFile
    /\ ~edited => \A p \in Project : file[p] # Nothing

\* The declaration behind project k's option: its own file's, or the toplevel
\* project's, which Conf reads for a project without a file.
Decl_of(k) == IF file[k] = NoFile THEN file[Root] ELSE file[k]

\* While no option file is edited, the options are as the files declare them.
Agree(st) ==
    kind = "project" =>
        /\ \A k \in DOMAIN st.options :
              /\ Decl_of(k) \in Decls
              /\ st.options[k].type = Decl_of(k).type /\ st.options[k].choices = Decl_of(k).choices
        /\ \A k \in DOMAIN st.options_files :
              IF file[k] = NoFile THEN st.options_files[k][1] \in {NoFile, Root}
              ELSE st.options_files[k] = <<k, file[k]>>

Given == [project : Dict({Global}), parent : Dict(Sub), call : Dict(Sub), own : Dict(Sub),
          dropped : SUBSET Sub]
Run == [store : Store, cmd : Dict(UserKey), given : Given]

\* A dropped setting is in no table of the store.
DroppedOK(r) ==
    kind # "project" =>
        \A s \in r.given.dropped :
            s \in r.store.subprojects /\ s \notin DOMAIN r.store.augments
            /\ s \notin DOMAIN r.store.pending_options

\* A run's records, whether or not its last step raised.
SoundRun(r) == /\ r \in Run /\ WF(r.store) /\ DroppedOK(r)
               /\ ~edited => Agree(r.store)

RunOK(r) == SoundRun(r) /\ r.store.ok

Basic ==
    /\ kind \in Kind /\ FileOK /\ configured \in BOOLEAN /\ edited \in BOOLEAN
    /\ phase \in {"idle", "project", "body"} /\ called \subseteq Project
    /\ machine \in Dict(UserKey)
    /\ RunOK(run) /\ RunOK(saved)
    /\ configured => Root \in DOMAIN saved.store.options_files
    /\ phase = "body" => Root \in DOMAIN run.store.options_files

\* RootDocumented and Documented, of any run.
TopDefault == IF kind = "project" THEN file[Root].value ELSE Default
RootDoc(r) == get(r.cmd, Global, get(machine, Global, get(r.given.project, Global, TopDefault)))
SharedDoc(r, s) ==
    get(r.cmd, Global, get(machine, Global, get(r.given.own, s, get(r.given.project, Global, Default))))
Yields(s) == file[s].yield /\ file[Root] \in Decls /\ file[Root].type = file[s].type
OwnDoc(r, s) == get(r.given.own, s, IF Yields(s) THEN RootDoc(r) ELSE file[s].value)
Doc(r, s) ==
    get(r.cmd, s, get(machine, s, get(r.given.call, s, get(r.given.parent, s,
        IF kind = "project" THEN OwnDoc(r, s) ELSE SharedDoc(r, s)))))

\* The toplevel project's value in the first run.
TopOK(r) ==
    /\ kind # "project" =>
          IF Global \in DOMAIN r.store.options
          THEN r.store.options[Global].value = RootDoc(r) /\ Global \notin DOMAIN r.store.pending_options
          ELSE get(r.store.pending_options, Global, Default) = RootDoc(r)
    /\ kind = "project" =>
          IF Root \in DOMAIN r.store.options
          THEN /\ file[Root] \in Decls /\ r.store.options[Root].type = file[Root].type
               /\ r.store.options[Root].value = RootDoc(r) /\ ~r.store.options[Root].yielding
          ELSE file[Root] = NoFile /\ Global \notin DOMAIN r.cmd \cup DOMAIN machine

\* A subproject that is configured has the documented value, or it waits.
ConfiguredOK(r, s) ==
    /\ kind # "project" =>
          /\ s \in DOMAIN r.store.augments => r.store.augments[s] = Doc(r, s)
          /\ s \in DOMAIN r.store.pending_options => r.store.pending_options[s] = Doc(r, s)
          /\ s \notin DOMAIN r.store.augments \cup DOMAIN r.store.pending_options => Doc(r, s) = RootDoc(r)
    /\ kind = "project" /\ s \in DOMAIN r.store.options =>
          IF r.store.options[s].yielding
          THEN r.store.options[s].parent = Live /\ Doc(r, s) = RootDoc(r)
          ELSE r.store.options[s].value = Doc(r, s)

\* A subproject not evaluated yet has left no trace but what others said of it.
UntouchedOK(r, s) ==
    /\ s \notin DOMAIN r.store.options \cup DOMAIN r.store.augments \cup DOMAIN r.store.pending_options
    /\ s \notin r.store.subprojects
    /\ get(r.store.pending_subproject_options, s, Nothing) = get(r.given.parent, s, Nothing)

\* The toplevel meson.build in the first run, with the projects done so far.
Body(r, done) ==
    /\ TopOK(r)
    /\ \A s \in Sub : IF s \in r.store.subprojects THEN s \in done /\ ConfiguredOK(r, s)
                      ELSE s \in done \/ UntouchedOK(r, s)

FirstRun ==
    ~configured =>
        /\ ~edited
        /\ phase = "project" => run.store = OptionStore /\ run.given = NoGiven
        /\ phase = "body" => Body(run, called)

IInv == Basic /\ FirstRun

----------------------------------------------------------------------------
(* Dictionaries *)

\* A member of Dict(K) maps some of K to values.
LEMMA DictDef ==
    ASSUME NEW K, NEW d
    PROVE  d \in Dict(K) <=> DOMAIN d \subseteq K /\ d \in [DOMAIN d -> Value]
<1>1. ASSUME d \in Dict(K) PROVE DOMAIN d \subseteq K /\ d \in [DOMAIN d -> Value]
  <2>1. PICK D \in SUBSET K : d \in [D -> Value] BY <1>1 DEF Dict
  <2>. QED BY <2>1
<1>2. ASSUME DOMAIN d \subseteq K, d \in [DOMAIN d -> Value] PROVE d \in Dict(K)
  <2>1. DOMAIN d \in SUBSET K BY <1>2
  <2>. QED BY <1>2, <2>1 DEF Dict
<1>. QED BY <1>1, <1>2

\* The empty dictionary is one.
LEMMA NoneDict == ASSUME NEW K PROVE None \in Dict(K) /\ DOMAIN None = {}
BY DictDef, Zenon DEF None

\* d[k] = v gives a dictionary.
LEMMA WithDict ==
    ASSUME NEW K, NEW d \in Dict(K), NEW k \in K, NEW v \in Value
    PROVE  With(d, k, v) \in Dict(K)
<1>1. DOMAIN d \subseteq K /\ d \in [DOMAIN d -> Value] BY DictDef
<1>2. DOMAIN With(d, k, v) \subseteq K BY <1>1 DEF With
<1>3. With(d, k, v) \in [DOMAIN With(d, k, v) -> Value] BY <1>1 DEF With
<1>. QED BY <1>2, <1>3, DictDef

\* d.pop(k) gives a dictionary.
LEMMA popDict ==
    ASSUME NEW K, NEW d \in Dict(K), NEW k
    PROVE  pop(d, k) \in Dict(K)
<1>1. DOMAIN d \subseteq K /\ d \in [DOMAIN d -> Value] BY DictDef
<1>2. DOMAIN pop(d, k) \subseteq K BY <1>1 DEF pop
<1>3. pop(d, k) \in [DOMAIN pop(d, k) -> Value] BY <1>1 DEF pop
<1>. QED BY <1>2, <1>3, DictDef

\* The entries of some of the keys are a dictionary.
LEMMA OnlyDict ==
    ASSUME NEW K, NEW d \in Dict(K), NEW J
    PROVE  Only(d, J) \in Dict(K) /\ Only(d, J) \in Dict(J)
<1>1. DOMAIN d \subseteq K /\ d \in [DOMAIN d -> Value] BY DictDef
<1>2. DOMAIN Only(d, J) \subseteq K /\ DOMAIN Only(d, J) \subseteq J BY <1>1 DEF Only
<1>3. Only(d, J) \in [DOMAIN Only(d, J) -> Value] BY <1>1 DEF Only
<1>. QED BY <1>2, <1>3, DictDef

\* d.update(other) gives a dictionary.
LEMMA UpdateDict ==
    ASSUME NEW K, NEW d \in Dict(K), NEW other \in Dict(K)
    PROVE  Update(d, other) \in Dict(K)
<1>1. DOMAIN d \subseteq K /\ d \in [DOMAIN d -> Value] BY DictDef
<1>2. DOMAIN other \subseteq K /\ other \in [DOMAIN other -> Value] BY DictDef
<1>3. DOMAIN Update(d, other) \subseteq K BY <1>1, <1>2 DEF Update
<1>4. Update(d, other) \in [DOMAIN Update(d, other) -> Value] BY <1>1, <1>2 DEF Update
<1>. QED BY <1>3, <1>4, DictDef

\* A dictionary of fewer keys is one of more.
LEMMA DictGrows ==
    ASSUME NEW K, NEW J, J \subseteq K, NEW d \in Dict(J)
    PROVE  d \in Dict(K)
BY DictDef

\* A table of options maps some of the keys to options.
LEMMA TableDef ==
    ASSUME NEW t
    PROVE  t \in Table <=> DOMAIN t \subseteq Key /\ t \in [DOMAIN t -> Option]
<1>1. ASSUME t \in Table PROVE DOMAIN t \subseteq Key /\ t \in [DOMAIN t -> Option]
  <2>1. PICK D \in SUBSET Key : t \in [D -> Option] BY <1>1 DEF Table
  <2>. QED BY <2>1
<1>2. ASSUME DOMAIN t \subseteq Key, t \in [DOMAIN t -> Option] PROVE t \in Table
  <2>1. DOMAIN t \in SUBSET Key BY <1>2
  <2>. QED BY <1>2, <2>1 DEF Table
<1>. QED BY <1>1, <1>2

\* Setting an entry gives a table.
LEMMA WithTable ==
    ASSUME NEW t \in Table, NEW k \in Key, NEW o \in Option
    PROVE  With(t, k, o) \in Table
<1>1. DOMAIN t \subseteq Key /\ t \in [DOMAIN t -> Option] BY TableDef
<1>2. DOMAIN With(t, k, o) \subseteq Key BY <1>1 DEF With
<1>3. With(t, k, o) \in [DOMAIN With(t, k, o) -> Option] BY <1>1 DEF With
<1>. QED BY <1>2, <1>3, TableDef

\* Removing an entry gives a table.
LEMMA popTable ==
    ASSUME NEW t \in Table, NEW k
    PROVE  pop(t, k) \in Table
<1>1. DOMAIN t \subseteq Key /\ t \in [DOMAIN t -> Option] BY TableDef
<1>2. DOMAIN pop(t, k) \subseteq Key BY <1>1 DEF pop
<1>3. pop(t, k) \in [DOMAIN pop(t, k) -> Option] BY <1>1 DEF pop
<1>. QED BY <1>2, <1>3, TableDef

\* A record of option files maps some projects to a file and its contents.
LEMMA SeenDef ==
    ASSUME NEW f
    PROVE  f \in Seen <=> /\ DOMAIN f \subseteq Project
                          /\ f \in [DOMAIN f -> (Project \cup {NoFile}) \X (Decls \cup {Nothing, NoFile})]
<1>1. ASSUME f \in Seen
      PROVE  DOMAIN f \subseteq Project /\ f \in [DOMAIN f -> (Project \cup {NoFile}) \X (Decls \cup {Nothing, NoFile})]
  <2>1. PICK D \in SUBSET Project : f \in [D -> (Project \cup {NoFile}) \X (Decls \cup {Nothing, NoFile})]
    BY <1>1 DEF Seen
  <2>. QED BY <2>1
<1>2. ASSUME DOMAIN f \subseteq Project, f \in [DOMAIN f -> (Project \cup {NoFile}) \X (Decls \cup {Nothing, NoFile})]
      PROVE  f \in Seen
  <2>1. DOMAIN f \in SUBSET Project BY <1>2
  <2>. QED BY <1>2, <2>1 DEF Seen
<1>. QED BY <1>1, <1>2

\* Noting a file gives such a record.
LEMMA WithSeen ==
    ASSUME NEW f \in Seen, NEW k \in Project, NEW of \in Project \cup {NoFile}, NEW c \in Decls \cup {Nothing, NoFile}
    PROVE  With(f, k, <<of, c>>) \in Seen
<1>1. DOMAIN f \subseteq Project /\ f \in [DOMAIN f -> (Project \cup {NoFile}) \X (Decls \cup {Nothing, NoFile})] BY SeenDef
<1>2. DOMAIN With(f, k, <<of, c>>) \subseteq Project BY <1>1 DEF With
<1>3. With(f, k, <<of, c>>) \in [DOMAIN With(f, k, <<of, c>>) -> (Project \cup {NoFile}) \X (Decls \cup {Nothing, NoFile})]
  BY <1>1 DEF With
<1>. QED BY <1>2, <1>3, SeenDef

----------------------------------------------------------------------------
(* Stores *)

\* The types of a store's fields.
LEMMA StoreType ==
    ASSUME NEW st \in Store
    PROVE  /\ st.options \in Table /\ st.augments \in Dict(Sub) /\ st.pending_options \in Dict(UserKey)
           /\ st.pending_subproject_options \in Dict(Sub) /\ st.subprojects \in SUBSET Sub
           /\ st.options_files \in Seen /\ st.ok \in BOOLEAN
           /\ DOMAIN st.options \subseteq Key /\ \A k \in DOMAIN st.options : st.options[k] \in Option
           /\ DOMAIN st.augments \subseteq Sub /\ \A k \in DOMAIN st.augments : st.augments[k] \in Value
           /\ DOMAIN st.pending_options \subseteq UserKey
           /\ \A k \in DOMAIN st.pending_options : st.pending_options[k] \in Value
<1>1. /\ st.options \in Table /\ st.augments \in Dict(Sub) /\ st.pending_options \in Dict(UserKey)
      /\ st.pending_subproject_options \in Dict(Sub) /\ st.subprojects \in SUBSET Sub
      /\ st.options_files \in Seen /\ st.ok \in BOOLEAN
  BY DEF Store
<1>2. DOMAIN st.options \subseteq Key /\ st.options \in [DOMAIN st.options -> Option] BY <1>1, TableDef
<1>3. DOMAIN st.augments \subseteq Sub /\ st.augments \in [DOMAIN st.augments -> Value] BY <1>1, DictDef
<1>4. DOMAIN st.pending_options \subseteq UserKey /\ st.pending_options \in [DOMAIN st.pending_options -> Value]
  BY <1>1, DictDef
<1>. QED BY <1>1, <1>2, <1>3, <1>4

\* Changing the options changes nothing else.
LEMMA PutOptions ==
    ASSUME NEW st \in Store, NEW x \in Table
    PROVE  LET r == [st EXCEPT !.options = x] IN
           /\ r \in Store /\ r.options = x /\ r.augments = st.augments /\ r.pending_options = st.pending_options
           /\ r.pending_subproject_options = st.pending_subproject_options /\ r.subprojects = st.subprojects
           /\ r.options_files = st.options_files /\ r.ok = st.ok
<1>1. [st EXCEPT !.options = x] \in Store BY Zenon DEF Store
<1>. QED BY <1>1 DEF Store

\* Changing the augments changes nothing else.
LEMMA PutAugments ==
    ASSUME NEW st \in Store, NEW x \in Dict(Sub)
    PROVE  LET r == [st EXCEPT !.augments = x] IN
           /\ r \in Store /\ r.options = st.options /\ r.augments = x /\ r.pending_options = st.pending_options
           /\ r.pending_subproject_options = st.pending_subproject_options /\ r.subprojects = st.subprojects
           /\ r.options_files = st.options_files /\ r.ok = st.ok
<1>1. [st EXCEPT !.augments = x] \in Store BY Zenon DEF Store
<1>. QED BY <1>1 DEF Store

\* Changing the pending options changes nothing else.
LEMMA PutPending ==
    ASSUME NEW st \in Store, NEW x \in Dict(UserKey)
    PROVE  LET r == [st EXCEPT !.pending_options = x] IN
           /\ r \in Store /\ r.options = st.options /\ r.augments = st.augments /\ r.pending_options = x
           /\ r.pending_subproject_options = st.pending_subproject_options /\ r.subprojects = st.subprojects
           /\ r.options_files = st.options_files /\ r.ok = st.ok
<1>1. [st EXCEPT !.pending_options = x] \in Store BY Zenon DEF Store
<1>. QED BY <1>1 DEF Store

\* Noting what other subprojects are to have changes nothing else.
LEMMA PutWaiting ==
    ASSUME NEW st \in Store, NEW x \in Dict(Sub)
    PROVE  LET r == [st EXCEPT !.pending_subproject_options = x] IN
           /\ r \in Store /\ r.options = st.options /\ r.augments = st.augments
           /\ r.pending_options = st.pending_options
           /\ r.pending_subproject_options = x /\ r.subprojects = st.subprojects
           /\ r.options_files = st.options_files /\ r.ok = st.ok
<1>1. [st EXCEPT !.pending_subproject_options = x] \in Store BY Zenon DEF Store
<1>. QED BY <1>1 DEF Store

\* A configured subproject is noted, and nothing else changes.
LEMMA PutSubprojects ==
    ASSUME NEW st \in Store, NEW x \in SUBSET Sub
    PROVE  LET r == [st EXCEPT !.subprojects = x] IN
           /\ r \in Store /\ r.options = st.options /\ r.augments = st.augments
           /\ r.pending_options = st.pending_options
           /\ r.pending_subproject_options = st.pending_subproject_options /\ r.subprojects = x
           /\ r.options_files = st.options_files /\ r.ok = st.ok
<1>1. [st EXCEPT !.subprojects = x] \in Store BY Zenon DEF Store
<1>. QED BY <1>1 DEF Store

\* Noting the option files changes nothing else.
LEMMA PutFiles ==
    ASSUME NEW st \in Store, NEW x \in Seen
    PROVE  LET r == [st EXCEPT !.options_files = x] IN
           /\ r \in Store /\ r.options = st.options /\ r.augments = st.augments
           /\ r.pending_options = st.pending_options
           /\ r.pending_subproject_options = st.pending_subproject_options /\ r.subprojects = st.subprojects
           /\ r.options_files = x /\ r.ok = st.ok
<1>1. [st EXCEPT !.options_files = x] \in Store BY Zenon DEF Store
<1>. QED BY <1>1 DEF Store

\* Raising, or handling what was raised, changes nothing else.
LEMMA PutOk ==
    ASSUME NEW st \in Store, NEW x \in BOOLEAN
    PROVE  LET r == [st EXCEPT !.ok = x] IN
           /\ r \in Store /\ r.options = st.options /\ r.augments = st.augments
           /\ r.pending_options = st.pending_options
           /\ r.pending_subproject_options = st.pending_subproject_options /\ r.subprojects = st.subprojects
           /\ r.options_files = st.options_files /\ r.ok = x
<1>1. [st EXCEPT !.ok = x] \in Store BY Zenon DEF Store
<1>. QED BY <1>1 DEF Store

\* An option a file or a builtin makes.
LEMMA OptionType ==
    ASSUME NEW v \in Values, NEW y \in BOOLEAN, NEW p \in Values \cup {NoParent, Live}, NEW d \in Decls
    PROVE  LET o == UserOption(v, y, p, d) IN
           /\ o \in Option /\ o.value = v /\ o.yielding = y /\ o.parent = p
           /\ o.choices = d.choices /\ o.type = d.type
<1>1. d.choices \in SUBSET Values BY FilesAssumption DEF Values
<1>2. d.type \in Types BY DEF Types
<1>. QED BY <1>1, <1>2 DEF UserOption, Option

\* The builtin option.
LEMMA BuiltinType ==
    /\ Builtin \in Option /\ Builtin.value = Default /\ Builtin.yielding = FALSE
    /\ Builtin.parent = NoParent /\ Builtin.choices = Values
BY DEF Builtin, UserOption, Option, Values, Types

\* A value is set and the option yields no more.
LEMMA OptionSet ==
    ASSUME NEW o \in Option, NEW v \in Values
    PROVE  LET n == [o EXCEPT !.value = v, !.yielding = FALSE] IN
           /\ n \in Option /\ n.value = v /\ n.yielding = FALSE /\ n.parent = o.parent
           /\ n.choices = o.choices /\ n.type = o.type
<1>1. [o EXCEPT !.value = v, !.yielding = FALSE] \in Option BY Zenon DEF Option
<1>. QED BY <1>1 DEF Option

\* The option is made to yield, or not to.
LEMMA OptionYield ==
    ASSUME NEW o \in Option, NEW y \in BOOLEAN
    PROVE  LET n == [o EXCEPT !.yielding = y] IN
           /\ n \in Option /\ n.value = o.value /\ n.yielding = y /\ n.parent = o.parent
           /\ n.choices = o.choices /\ n.type = o.type
<1>1. [o EXCEPT !.yielding = y] \in Option BY Zenon DEF Option
<1>. QED BY <1>1 DEF Option

\* The option it yielded to has left the store.
LEMMA OptionOrphan ==
    ASSUME NEW o \in Option, NEW p \in Values
    PROVE  LET n == [o EXCEPT !.parent = p] IN
           /\ n \in Option /\ n.value = o.value /\ n.yielding = o.yielding /\ n.parent = p
           /\ n.choices = o.choices /\ n.type = o.type
<1>1. [o EXCEPT !.parent = p] \in Option BY Zenon DEF Option
<1>. QED BY <1>1 DEF Option

----------------------------------------------------------------------------
(* What an operation on one key leaves alone *)

\* Only entries of the key differ.
OtherKeys(st, r, key) ==
    \A k \in Key \ {key} :
        /\ k \in DOMAIN r.options <=> k \in DOMAIN st.options
        /\ k \in DOMAIN st.options => r.options[k] = st.options[k]
        /\ k \in DOMAIN r.augments <=> k \in DOMAIN st.augments
        /\ k \in DOMAIN st.augments => r.augments[k] = st.augments[k]
        /\ k \in DOMAIN r.pending_options <=> k \in DOMAIN st.pending_options
        /\ k \in DOMAIN st.pending_options => r.pending_options[k] = st.pending_options[k]

\* And what had raised is still raised.
Frame(st, r, key) == OtherKeys(st, r, key) /\ r.subprojects = st.subprojects /\ (r.ok => st.ok)

\* The same options, of the same types and choices, and the same files.
SameDecls(st, r) ==
    /\ DOMAIN r.options = DOMAIN st.options
    /\ \A k \in DOMAIN st.options :
          r.options[k].type = st.options[k].type /\ r.options[k].choices = st.options[k].choices
    /\ r.options_files = st.options_files

\* Raising keeps a store well formed (MesonException).
LEMMA FailWF ==
    ASSUME NEW st, WF(st), NEW key
    PROVE  /\ WF(Fail(st)) /\ Frame(st, Fail(st), key) /\ SameDecls(st, Fail(st)) /\ ~Fail(st).ok
           /\ Fail(st).pending_subproject_options = st.pending_subproject_options
           /\ Fail(st).pending_options = st.pending_options
<1>. DEFINE r == [st EXCEPT !.ok = FALSE]
<1>1. st \in Store BY DEF WF
<1>2. /\ r \in Store /\ r.options = st.options /\ r.augments = st.augments
      /\ r.pending_options = st.pending_options
      /\ r.pending_subproject_options = st.pending_subproject_options /\ r.subprojects = st.subprojects
      /\ r.options_files = st.options_files /\ r.ok = FALSE
  BY <1>1, PutOk, Zenon
<1>. HIDE DEF r
<1>3. WF(r) BY <1>2 DEF WF, KindOK, LiveOK
<1>4. Frame(st, r, key) /\ SameDecls(st, r) BY <1>2 DEF Frame, OtherKeys, SameDecls
<1>. QED BY <1>2, <1>3, <1>4 DEF r, Fail

\* Replacing an option by one with the same parent and choices.
Replaced(st, key, o) == [st EXCEPT !.options = With(@, key, o)]

\* The replacement keeps the store well formed.
LEMMA ReplacedWF ==
    ASSUME NEW st, WF(st), NEW key \in DOMAIN st.options, NEW o \in Option,
           o.parent = st.options[key].parent, o.choices = st.options[key].choices,
           o.type = st.options[key].type, kind # "project" => ~o.yielding
    PROVE  LET r == Replaced(st, key, o) IN
           /\ WF(r) /\ Frame(st, r, key) /\ SameDecls(st, r) /\ r.ok = st.ok
           /\ r.options[key] = o /\ r.augments = st.augments
           /\ r.pending_subproject_options = st.pending_subproject_options
           /\ r.pending_options = st.pending_options
<1>. DEFINE t == With(st.options, key, o)
            r == [st EXCEPT !.options = t]
<1>1. st \in Store BY DEF WF
<1>2. DOMAIN st.options \subseteq Key BY <1>1, StoreType
<1>3. t \in Table BY <1>1, <1>2, StoreType, WithTable
<1>4. DOMAIN t = DOMAIN st.options /\ t[key] = o /\ \A k \in DOMAIN st.options : k # key => t[k] = st.options[k]
  BY DEF With
<1>. HIDE DEF t
<1>5. /\ r \in Store /\ r.options = t /\ r.augments = st.augments
      /\ r.pending_options = st.pending_options
      /\ r.pending_subproject_options = st.pending_subproject_options /\ r.subprojects = st.subprojects
      /\ r.options_files = st.options_files /\ r.ok = st.ok
  BY <1>1, <1>3, PutOptions
<1>6. r = Replaced(st, key, o) BY DEF t, Replaced
<1>. HIDE DEF r
<1>7. KindOK(r)
  <2>1. KindOK(st) BY DEF WF
  <2>. QED BY <2>1, <1>4, <1>5 DEF KindOK
<1>8. LiveOK(r)
  <2>1. LiveOK(st) BY DEF WF
  <2>. QED BY <2>1, <1>4, <1>5 DEF LiveOK
<1>9. Frame(st, r, key) BY <1>4, <1>5 DEF Frame, OtherKeys
<1>10. SameDecls(st, r) BY <1>4, <1>5 DEF SameDecls
<1>. QED BY <1>4, <1>5, <1>6, <1>7, <1>8, <1>9, <1>10 DEF WF

\* Recording an augment keeps the store well formed.
LEMMA AugmentedWF ==
    ASSUME NEW st, WF(st), kind # "project", NEW key \in Sub, NEW v \in Value
    PROVE  LET r == [st EXCEPT !.augments = With(@, key, v)] IN
           /\ WF(r) /\ Frame(st, r, key) /\ SameDecls(st, r) /\ r.ok = st.ok
           /\ r.options = st.options /\ DOMAIN r.augments = DOMAIN st.augments \cup {key} /\ r.augments[key] = v
           /\ r.pending_subproject_options = st.pending_subproject_options
           /\ r.pending_options = st.pending_options
<1>. DEFINE t == With(st.augments, key, v)
            r == [st EXCEPT !.augments = t]
<1>1. st \in Store BY DEF WF
<1>3. t \in Dict(Sub) BY <1>1, StoreType, WithDict
<1>4. DOMAIN t = DOMAIN st.augments \cup {key} /\ t[key] = v /\ \A k \in DOMAIN st.augments : k # key => t[k] = st.augments[k]
  BY DEF With
<1>. HIDE DEF t
<1>5. /\ r \in Store /\ r.options = st.options /\ r.augments = t
      /\ r.pending_options = st.pending_options
      /\ r.pending_subproject_options = st.pending_subproject_options /\ r.subprojects = st.subprojects
      /\ r.options_files = st.options_files /\ r.ok = st.ok
  BY <1>1, <1>3, PutAugments
<1>6. r = [st EXCEPT !.augments = With(@, key, v)] BY DEF t
<1>. HIDE DEF r
<1>7. WF(r) BY <1>5 DEF WF, KindOK, LiveOK
<1>9. Frame(st, r, key) BY <1>4, <1>5 DEF Frame, OtherKeys
<1>10. SameDecls(st, r) BY <1>5 DEF SameDecls
<1>. QED BY <1>4, <1>5, <1>6, <1>7, <1>9, <1>10

\* Noting a setting for an option that does not exist yet.
LEMMA PendedWF ==
    ASSUME NEW st, WF(st), kind = "compiler", NEW key \in UserKey, NEW v \in Value
    PROVE  LET r == [st EXCEPT !.pending_options = With(@, key, v)] IN
           /\ WF(r) /\ Frame(st, r, key) /\ SameDecls(st, r) /\ r.ok = st.ok
           /\ r.options = st.options /\ r.augments = st.augments
           /\ r.pending_subproject_options = st.pending_subproject_options
           /\ DOMAIN r.pending_options = DOMAIN st.pending_options \cup {key} /\ r.pending_options[key] = v
<1>. DEFINE t == With(st.pending_options, key, v)
            r == [st EXCEPT !.pending_options = t]
<1>1. st \in Store BY DEF WF
<1>3. t \in Dict(UserKey) BY <1>1, StoreType, WithDict
<1>4. /\ DOMAIN t = DOMAIN st.pending_options \cup {key} /\ t[key] = v
      /\ \A k \in DOMAIN st.pending_options : k # key => t[k] = st.pending_options[k]
  BY DEF With
<1>. HIDE DEF t
<1>5. /\ r \in Store /\ r.options = st.options /\ r.augments = st.augments
      /\ r.pending_options = t
      /\ r.pending_subproject_options = st.pending_subproject_options /\ r.subprojects = st.subprojects
      /\ r.options_files = st.options_files /\ r.ok = st.ok
  BY <1>1, <1>3, PutPending
<1>6. r = [st EXCEPT !.pending_options = With(@, key, v)] BY DEF t
<1>. HIDE DEF r
<1>7. WF(r) BY <1>5 DEF WF, KindOK, LiveOK
<1>9. Frame(st, r, key) BY <1>4, <1>5 DEF Frame, OtherKeys
<1>10. SameDecls(st, r) BY <1>5 DEF SameDecls
<1>. QED BY <1>4, <1>5, <1>6, <1>7, <1>9, <1>10

\* Dropping a setting that waited.
LEMMA UnpendedWF ==
    ASSUME NEW st, WF(st), NEW key
    PROVE  LET r == [st EXCEPT !.pending_options = pop(@, key)] IN
           /\ WF(r) /\ Frame(st, r, key) /\ SameDecls(st, r) /\ r.ok = st.ok
           /\ r.options = st.options /\ r.augments = st.augments
           /\ r.pending_subproject_options = st.pending_subproject_options
           /\ DOMAIN r.pending_options = DOMAIN st.pending_options \ {key}
<1>. DEFINE t == pop(st.pending_options, key)
            r == [st EXCEPT !.pending_options = t]
<1>1. st \in Store BY DEF WF
<1>3. t \in Dict(UserKey) BY <1>1, StoreType, popDict
<1>4. /\ DOMAIN t = DOMAIN st.pending_options \ {key}
      /\ \A k \in DOMAIN st.pending_options : k # key => t[k] = st.pending_options[k]
  BY DEF pop
<1>. HIDE DEF t
<1>5. /\ r \in Store /\ r.options = st.options /\ r.augments = st.augments
      /\ r.pending_options = t
      /\ r.pending_subproject_options = st.pending_subproject_options /\ r.subprojects = st.subprojects
      /\ r.options_files = st.options_files /\ r.ok = st.ok
  BY <1>1, <1>3, PutPending
<1>6. r = [st EXCEPT !.pending_options = pop(@, key)] BY DEF t
<1>. HIDE DEF r
<1>7. WF(r) BY <1>4, <1>5, Zenon DEF WF, KindOK, LiveOK
<1>9. Frame(st, r, key) BY <1>4, <1>5 DEF Frame, OtherKeys
<1>10. SameDecls(st, r) BY <1>5 DEF SameDecls
<1>. QED BY <1>4, <1>5, <1>6, <1>7, <1>9, <1>10

----------------------------------------------------------------------------
(* The store's operations *)

\* What set_option() does, when it does not raise, to the key.
SetResult(st, r, key, new, first) ==
    /\ WF(r) /\ Frame(st, r, key) /\ SameDecls(st, r)
    /\ r.pending_subproject_options = st.pending_subproject_options
    /\ r.pending_options = st.pending_options
    /\ r.ok => /\ has_option(st, key)
               /\ IF key \in DOMAIN st.options
                  THEN r.options[key].value = new /\ ~r.options[key].yielding /\ r.augments = st.augments
                  ELSE /\ key \in Sub /\ r.options = st.options
                       /\ key \in DOMAIN r.augments /\ r.augments[key] = new
    /\ kind # "project" /\ kind # "readonly" /\ has_option(st, key) => r.ok = st.ok
    /\ kind # "project" /\ first /\ has_option(st, key) => r.ok = st.ok

\* set_option() changes the entries of its key only; when it does not raise the
\* key has the value, as the option's own or as an augment of the global one.
LEMMA SetOption ==
    ASSUME NEW st, WF(st), NEW key \in Key, key = Root => kind = "project", NEW new \in Value, NEW first
    PROVE  SetResult(st, set_option(st, key, new, first), key, new, first)
<1>. DEFINE r == set_option(st, key, new, first)
            at == IF key \in DOMAIN st.options THEN key ELSE Global
            raises == \/ ~has_option(st, key) \/ new \notin st.options[at].choices
                      \/ kind = "readonly" /\ ~first /\ old_value(st, key) # new
<1>1. st \in Store /\ KindOK(st) BY DEF WF
<1>2. new \in Values BY DEF Values
<1>3. DOMAIN st.options \subseteq Key /\ \A k \in DOMAIN st.options : st.options[k] \in Option BY <1>1, StoreType
<1>4. has_option(st, key) => at \in DOMAIN st.options BY DEF has_option
<1>5. kind # "project" /\ has_option(st, key) => new \in st.options[at].choices
  BY <1>1, <1>2, <1>4 DEF KindOK
<1>6. CASE raises
  <2>1. r = Fail(st) BY <1>6 DEF set_option
  <2>2. /\ WF(Fail(st)) /\ Frame(st, Fail(st), key) /\ SameDecls(st, Fail(st)) /\ ~Fail(st).ok
        /\ Fail(st).pending_subproject_options = st.pending_subproject_options
        /\ Fail(st).pending_options = st.pending_options
    BY FailWF
  <2>. HIDE DEF r
  <2>3. ~(kind # "project" /\ kind # "readonly" /\ has_option(st, key))
    BY <1>5, <1>6
  <2>4. ~(kind # "project" /\ first /\ has_option(st, key))
    BY <1>5, <1>6
  <2>. QED BY <2>1, <2>2, <2>3, <2>4 DEF r, SetResult
<1>7. CASE ~raises /\ key \in DOMAIN st.options
  <2>. DEFINE o == [st.options[key] EXCEPT !.value = new, !.yielding = FALSE]
  <2>1. /\ o \in Option /\ o.value = new /\ o.yielding = FALSE /\ o.parent = st.options[key].parent
        /\ o.choices = st.options[key].choices /\ o.type = st.options[key].type
    BY <1>2, <1>3, <1>7, OptionSet, Zenon
  <2>2. r = Replaced(st, key, o) BY <1>7 DEF set_option, Replaced
  <2>. HIDE DEF o, r
  <2>3. /\ WF(Replaced(st, key, o)) /\ Frame(st, Replaced(st, key, o), key)
        /\ SameDecls(st, Replaced(st, key, o)) /\ Replaced(st, key, o).ok = st.ok
        /\ Replaced(st, key, o).options[key] = o /\ Replaced(st, key, o).augments = st.augments
        /\ Replaced(st, key, o).pending_subproject_options = st.pending_subproject_options
        /\ Replaced(st, key, o).pending_options = st.pending_options
    BY <1>7, <2>1, ReplacedWF
  <2>. QED BY <1>7, <2>1, <2>2, <2>3, <1>4 DEF r, SetResult, has_option
<1>8. CASE ~raises /\ key \notin DOMAIN st.options
  <2>1. Global \in DOMAIN st.options BY <1>4, <1>8
  <2>2. kind # "project" BY <1>1, <2>1 DEF KindOK
  <2>3. key \in Sub BY <1>8, <2>1, <2>2 DEF Key, Project
  <2>. DEFINE n == [st EXCEPT !.augments = With(@, key, new)]
  <2>4. r = n BY <1>8 DEF set_option
  <2>5. /\ WF(n) /\ Frame(st, n, key) /\ SameDecls(st, n) /\ n.ok = st.ok
        /\ n.options = st.options /\ DOMAIN n.augments = DOMAIN st.augments \cup {key} /\ n.augments[key] = new
        /\ n.pending_subproject_options = st.pending_subproject_options
        /\ n.pending_options = st.pending_options
    BY <2>2, <2>3, AugmentedWF
  <2>. HIDE DEF n, r
  <2>. QED BY <1>8, <2>3, <2>4, <2>5 DEF r, SetResult
<1>. QED BY <1>6, <1>7, <1>8

\* Frames compose.
LEMMA FrameTrans ==
    ASSUME NEW x, NEW y, NEW z, NEW key, Frame(x, y, key), Frame(y, z, key)
    PROVE  Frame(x, z, key)
BY DEF Frame, OtherKeys

\* A global setting of a project option is one of the toplevel project's.
Target(key) == IF kind = "project" /\ key = Global THEN Root ELSE key

\* What set_user_option() does, when it does not raise, to the target.
UserResult(st, r, key, new, first) ==
    LET at == Target(key) IN
    /\ WF(r) /\ Frame(st, r, at) /\ SameDecls(st, r)
    /\ r.pending_subproject_options = st.pending_subproject_options
    /\ has_option(st, key) => r.pending_options = st.pending_options
    /\ r.ok => IF at \in DOMAIN st.options
               THEN /\ r.options[at].value = new /\ ~r.options[at].yielding /\ r.augments = st.augments
                    /\ r.pending_options = st.pending_options
               ELSE /\ kind # "project" /\ r.options = st.options
                    /\ IF has_option(st, key)
                       THEN key \in Sub /\ key \in DOMAIN r.augments /\ r.augments[key] = new
                       ELSE /\ r.augments = st.augments
                            /\ key \in DOMAIN r.pending_options /\ r.pending_options[key] = new
    /\ kind # "project" /\ kind # "readonly" => r.ok = st.ok
    /\ kind # "project" /\ first => r.ok = st.ok

\* set_user_option() changes the entries of its target only; when it does not
\* raise, the target has the value or the value waits for the option.
LEMMA SetUserOption ==
    ASSUME NEW st, WF(st), kind \in Kind, NEW key \in UserKey, NEW new \in Value, NEW first
    PROVE  UserResult(st, set_user_option(st, key, new, first), key, new, first)
<1>. DEFINE r == set_user_option(st, key, new, first)
<1>0. st \in Store /\ KindOK(st) BY DEF WF
<1>1. key \in Key /\ Root \in Key /\ key # Root BY KeysAssumption DEF UserKey, Key, Project
<1>2. CASE has_option(st, key)
  <2>. DEFINE n == set_option(st, key, new, first)
  <2>1. r = n BY <1>2 DEF set_user_option
  <2>2. SetResult(st, n, key, new, first)
    BY <1>1, SetOption
  <2>3. Target(key) = key BY <1>0, <1>2 DEF Target, has_option, KindOK
  <2>4. kind = "project" => key \in DOMAIN st.options BY <1>0, <1>2 DEF has_option, KindOK
  <2>. HIDE DEF n, r
  <2>. QED BY <1>2, <2>1, <2>2, <2>3, <2>4 DEF r, SetResult, UserResult
<1>3. CASE ~has_option(st, key) /\ kind = "compiler"
  <2>. DEFINE n == [st EXCEPT !.pending_options = With(@, key, new)]
  <2>1. r = n BY <1>3 DEF set_user_option
  <2>2. /\ WF(n) /\ Frame(st, n, key) /\ SameDecls(st, n) /\ n.ok = st.ok
        /\ n.options = st.options /\ n.augments = st.augments
        /\ n.pending_subproject_options = st.pending_subproject_options
        /\ DOMAIN n.pending_options = DOMAIN st.pending_options \cup {key} /\ n.pending_options[key] = new
    BY <1>3, PendedWF
  <2>3. Target(key) = key /\ key \notin DOMAIN st.options BY <1>3 DEF Target, has_option
  <2>. HIDE DEF n, r
  <2>. QED BY <1>3, <2>1, <2>2, <2>3 DEF r, UserResult
<1>4. CASE ~has_option(st, key) /\ kind # "compiler"
  <2>0. kind = "project" BY <1>0, <1>4 DEF has_option, KindOK, Kind
  <2>1. CASE key = Global
    <3>. DEFINE n == set_option(st, Root, new, first)
    <3>1. r = n BY <1>4, <2>1 DEF set_user_option
    <3>2. SetResult(st, n, Root, new, first)
      BY <1>1, <2>0, SetOption
    <3>3. Target(key) = Root /\ Root \notin Sub BY <2>0, <2>1, KeysAssumption DEF Target
    <3>. HIDE DEF n, r
    <3>. QED BY <1>4, <2>0, <3>1, <3>2, <3>3 DEF r, SetResult, UserResult
  <2>2. CASE key # Global
    <3>1. r = Fail(st) BY <1>4, <2>2 DEF set_user_option
    <3>2. Target(key) = key BY <2>2 DEF Target
    <3>. HIDE DEF r
    <3>. QED BY <2>0, <3>1, <3>2, FailWF DEF r, UserResult
  <2>. QED BY <2>1, <2>2
<1>. QED BY <1>2, <1>3, <1>4


\* Adding the global option: it has the value that waited for it, or the default.
LEMMA AddGlobal ==
    ASSUME NEW st, WF(st), st.ok = TRUE, kind = "compiler"
    PROVE  LET r == add_global(st) IN
           /\ WF(r) /\ Frame(st, r, Global) /\ r.ok = st.ok
           /\ r.pending_subproject_options = st.pending_subproject_options
           /\ r.options_files = st.options_files
           /\ Global \in DOMAIN r.options
           /\ IF Global \in DOMAIN st.options THEN r = st
              ELSE /\ r.options[Global].value = get(st.pending_options, Global, Default)
                   /\ Global \notin DOMAIN r.pending_options
<1>. DEFINE r == add_global(st)
<1>1. st \in Store /\ KindOK(st) /\ LiveOK(st) BY DEF WF
<1>2. CASE Global \in DOMAIN st.options
  <2>1. r = st BY <1>2 DEF add_global
  <2>. QED BY <1>2, <2>1 DEF Frame, OtherKeys
<1>3. CASE Global \notin DOMAIN st.options
  <2>. DEFINE t == With(st.options, Global, Builtin)
              n == [st EXCEPT !.options = t]
  <2>1. Global \in Key BY DEF Key
  <2>2. t \in Table BY <1>1, <2>1, StoreType, WithTable, BuiltinType
  <2>3. DOMAIN t = DOMAIN st.options \cup {Global} /\ t[Global] = Builtin
        /\ \A k \in DOMAIN st.options : k # Global => t[k] = st.options[k]
    BY DEF With
  <2>. HIDE DEF t
  <2>4. /\ n \in Store /\ n.options = t /\ n.augments = st.augments
        /\ n.pending_options = st.pending_options
        /\ n.pending_subproject_options = st.pending_subproject_options /\ n.subprojects = st.subprojects
        /\ n.options_files = st.options_files /\ n.ok = st.ok
    BY <1>1, <2>2, PutOptions
  <2>5. r = Unpend(n, st.pending_options, Global) BY <1>3 DEF add_global, t
  <2>. HIDE DEF n, r
  <2>6. DOMAIN t = {Global} BY <1>1, <1>3, <2>3 DEF KindOK
  <2>7. WF(n)
    <3>1. KindOK(n) BY <1>1, <2>3, <2>4, <2>6, BuiltinType DEF KindOK
    <3>2. NoParent # Live BY ValuesAssumption
    <3>3. LiveOK(n) BY <2>3, <2>4, <2>6, <3>2, BuiltinType DEF LiveOK
    <3>. QED BY <2>4, <3>1, <3>3 DEF WF
  <2>8. Frame(st, n, Global) BY <2>3, <2>4 DEF Frame, OtherKeys
  <2>9. CASE Global \notin DOMAIN st.pending_options
    <3>1. r = n BY <2>5, <2>9 DEF Unpend
    <3>2. r.options[Global].value = Default BY <2>3, <2>4, <3>1, BuiltinType
    <3>. QED BY <1>3, <2>3, <2>4, <2>7, <2>8, <2>9, <3>1, <3>2 DEF get, r
  <2>10. CASE Global \in DOMAIN st.pending_options
    <3>. DEFINE m == [n EXCEPT !.pending_options = pop(@, Global)]
                q == set_option(m, Global, st.pending_options[Global], FALSE)
    <3>1. r = q BY <2>5, <2>10 DEF Unpend
    <3>2. /\ WF(m) /\ Frame(n, m, Global) /\ SameDecls(n, m) /\ m.ok = n.ok
          /\ m.options = n.options /\ m.augments = n.augments
          /\ m.pending_subproject_options = n.pending_subproject_options
          /\ DOMAIN m.pending_options = DOMAIN n.pending_options \ {Global}
      BY <2>7, UnpendedWF
    <3>3. st.pending_options[Global] \in Value BY <1>1, <2>10, StoreType
    <3>4. has_option(m, Global) /\ Global \in DOMAIN m.options BY <2>3, <2>4, <3>2 DEF has_option
    <3>. HIDE DEF m
    <3>5. Global # Root BY KeysAssumption DEF Project
    <3>6. SetResult(m, q, Global, st.pending_options[Global], FALSE)
      BY <2>1, <3>2, <3>3, <3>5, SetOption, Zenon
    <3>. HIDE DEF q
    <3>7. /\ WF(q) /\ Frame(m, q, Global) /\ DOMAIN q.options = DOMAIN m.options
          /\ q.pending_subproject_options = m.pending_subproject_options
          /\ q.pending_options = m.pending_options /\ q.options_files = m.options_files
          /\ q.ok = st.ok /\ q.options[Global].value = st.pending_options[Global]
      BY <2>4, <3>2, <3>4, <3>6 DEF SetResult, SameDecls
    <3>8. Frame(st, q, Global) BY <2>8, <3>2, <3>7, FrameTrans
    <3>. QED BY <1>3, <2>4, <2>10, <3>1, <3>2, <3>4, <3>7, <3>8 DEF get, r, SameDecls
  <2>. QED BY <2>9, <2>10
<1>. QED BY <1>2, <1>3

\* The store once a language's option exists.
AddResult(st, r, key) ==
    /\ WF(r) /\ r.ok = st.ok /\ r.subprojects = st.subprojects
    /\ r.pending_subproject_options = st.pending_subproject_options
    /\ r.options_files = st.options_files
    /\ Global \in DOMAIN r.options
    /\ IF Global \in DOMAIN st.options
       THEN /\ r.options[Global] = st.options[Global]
            /\ Global \in DOMAIN r.pending_options <=> Global \in DOMAIN st.pending_options
       ELSE /\ r.options[Global].value = get(st.pending_options, Global, Default)
            /\ Global \notin DOMAIN r.pending_options
    /\ \A k \in Sub :
          IF k = key /\ k \in DOMAIN st.pending_options
          THEN /\ k \in DOMAIN r.augments /\ r.augments[k] = st.pending_options[k]
               /\ k \notin DOMAIN r.pending_options
          ELSE /\ k \in DOMAIN r.augments <=> k \in DOMAIN st.augments
               /\ k \in DOMAIN st.augments => r.augments[k] = st.augments[k]
               /\ k \in DOMAIN r.pending_options <=> k \in DOMAIN st.pending_options
               /\ k \in DOMAIN st.pending_options => r.pending_options[k] = st.pending_options[k]

\* add_system_option_internal() for a compiler option: a setting that waited for
\* the project becomes its augment, and no other project's entries change.
LEMMA AddSystem ==
    ASSUME NEW st, WF(st), st.ok = TRUE, kind = "compiler", NEW key \in UserKey
    PROVE  AddResult(st, add_system_option_internal(st, key), key)
<1>. DEFINE r == add_system_option_internal(st, key)
            g == add_global(st)
<1>1. st \in Store BY DEF WF
<1>2. /\ WF(g) /\ Frame(st, g, Global) /\ g.ok = st.ok
      /\ g.pending_subproject_options = st.pending_subproject_options
      /\ g.options_files = st.options_files
      /\ Global \in DOMAIN g.options
      /\ IF Global \in DOMAIN st.options THEN g = st
         ELSE /\ g.options[Global].value = get(st.pending_options, Global, Default)
              /\ Global \notin DOMAIN g.pending_options
  BY AddGlobal, Zenon
<1>3. Global \notin Sub /\ Global # Root /\ Sub \subseteq Key BY KeysAssumption DEF Project, Key
<1>4. CASE key = Global \/ key \notin DOMAIN st.pending_options
  <2>1. r = g BY <1>4, Zenon DEF add_system_option_internal, Unpend
  <2>. HIDE DEF r, g
  <2>2. g.subprojects = st.subprojects BY <1>2 DEF Frame, OtherKeys
  <2>3. \A k \in Sub : /\ k \in DOMAIN g.augments <=> k \in DOMAIN st.augments
                       /\ k \in DOMAIN st.augments => g.augments[k] = st.augments[k]
                       /\ k \in DOMAIN g.pending_options <=> k \in DOMAIN st.pending_options
                       /\ k \in DOMAIN st.pending_options => g.pending_options[k] = st.pending_options[k]
    BY <1>2, <1>3 DEF Frame, OtherKeys
  <2>4. \A k \in Sub : ~(k = key /\ k \in DOMAIN st.pending_options) BY <1>3, <1>4
  <2>5. Global \in DOMAIN st.options =>
            /\ g.options[Global] = st.options[Global]
            /\ Global \in DOMAIN g.pending_options <=> Global \in DOMAIN st.pending_options
    BY <1>2
  <2>6. AddResult(st, r, key) BY <1>2, <2>1, <2>2, <2>3, <2>4, <2>5 DEF AddResult
  <2>. QED BY <2>6 DEF r
<1>5. CASE key # Global /\ key \in DOMAIN st.pending_options
  <2>. DEFINE m == [g EXCEPT !.pending_options = pop(@, key)]
              q == set_option(m, key, st.pending_options[key], FALSE)
  <2>1. r = q BY <1>5 DEF add_system_option_internal, Unpend
  <2>2. key \in Sub /\ key \in Key BY <1>3, <1>5 DEF UserKey
  <2>3. /\ WF(m) /\ Frame(g, m, key) /\ SameDecls(g, m) /\ m.ok = g.ok
        /\ m.options = g.options /\ m.augments = g.augments
        /\ m.pending_subproject_options = g.pending_subproject_options
        /\ DOMAIN m.pending_options = DOMAIN g.pending_options \ {key}
    BY <1>2, UnpendedWF
  <2>4. st.pending_options[key] \in Value BY <1>1, <1>5, StoreType
  <2>. HIDE DEF m, g, r
  <2>5. has_option(m, key) BY <1>2, <2>3 DEF has_option
  <2>6. key # Root /\ key \notin DOMAIN m.options
    BY <1>5, <2>2, <2>3, KeysAssumption DEF WF, KindOK
  <2>7. SetResult(m, q, key, st.pending_options[key], FALSE)
    BY <2>2, <2>3, <2>4, <2>6, SetOption, Zenon
  <2>. HIDE DEF q
  <2>8. /\ WF(q) /\ Frame(m, q, key) /\ q.ok = st.ok /\ q.options = m.options
        /\ q.pending_subproject_options = m.pending_subproject_options
        /\ q.pending_options = m.pending_options /\ q.options_files = m.options_files
        /\ key \in DOMAIN q.augments /\ q.augments[key] = st.pending_options[key]
    BY <1>2, <2>3, <2>5, <2>6, <2>7 DEF SetResult, SameDecls
  <2>9. q.subprojects = st.subprojects BY <1>2, <2>3, <2>8 DEF Frame, OtherKeys
  <2>10. /\ q.pending_subproject_options = st.pending_subproject_options
         /\ q.options_files = st.options_files
    BY <1>2, <2>3, <2>8 DEF SameDecls
  <2>11. IF Global \in DOMAIN st.options
         THEN /\ q.options[Global] = st.options[Global]
              /\ Global \in DOMAIN q.pending_options <=> Global \in DOMAIN st.pending_options
         ELSE /\ q.options[Global].value = get(st.pending_options, Global, Default)
              /\ Global \notin DOMAIN q.pending_options
    <3>1. q.options[Global] = g.options[Global] BY <2>3, <2>8
    <3>2. Global \in DOMAIN q.pending_options <=> Global \in DOMAIN g.pending_options BY <1>5, <2>3, <2>8
    <3>. QED BY <1>2, <3>1, <3>2
  <2>12. \A k \in Sub :
                k # key =>
                       /\ k \in DOMAIN q.augments <=> k \in DOMAIN st.augments
                       /\ k \in DOMAIN st.augments => q.augments[k] = st.augments[k]
                       /\ k \in DOMAIN q.pending_options <=> k \in DOMAIN st.pending_options
                       /\ k \in DOMAIN st.pending_options => q.pending_options[k] = st.pending_options[k]
    <3>. SUFFICES ASSUME NEW k \in Sub, k # key
                  PROVE  /\ k \in DOMAIN q.augments <=> k \in DOMAIN st.augments
                         /\ k \in DOMAIN st.augments => q.augments[k] = st.augments[k]
                         /\ k \in DOMAIN q.pending_options <=> k \in DOMAIN st.pending_options
                         /\ k \in DOMAIN st.pending_options => q.pending_options[k] = st.pending_options[k]
      OBVIOUS
    <3>1. k \in Key \ {Global} /\ k \in Key \ {key} BY <1>3
    <3>2. /\ k \in DOMAIN g.augments <=> k \in DOMAIN st.augments
          /\ k \in DOMAIN st.augments => g.augments[k] = st.augments[k]
          /\ k \in DOMAIN g.pending_options <=> k \in DOMAIN st.pending_options
          /\ k \in DOMAIN st.pending_options => g.pending_options[k] = st.pending_options[k]
      BY <1>2, <3>1 DEF Frame, OtherKeys
    <3>3. /\ k \in DOMAIN q.augments <=> k \in DOMAIN m.augments
          /\ k \in DOMAIN m.augments => q.augments[k] = m.augments[k]
      BY <2>8, <3>1 DEF Frame, OtherKeys
    <3>4. /\ k \in DOMAIN m.pending_options <=> k \in DOMAIN g.pending_options
          /\ k \in DOMAIN g.pending_options => m.pending_options[k] = g.pending_options[k]
      BY <2>3, <3>1 DEF Frame, OtherKeys
    <3>. QED BY <2>3, <2>8, <3>2, <3>3, <3>4
  <2>13. key \notin DOMAIN q.pending_options BY <2>3, <2>8
  <2>14. Global \in DOMAIN q.options BY <1>2, <2>3, <2>8
  <2>15. AddResult(st, r, key) BY <1>5, <2>1, <2>8, <2>9, <2>10, <2>11, <2>12, <2>13, <2>14 DEF AddResult
  <2>. QED BY <2>15 DEF r
<1>. QED BY <1>4, <1>5


\* An option file's declaration adds the option.
Added(st, r, decl, key) ==
    /\ DOMAIN r.options = DOMAIN st.options \cup {key}
    /\ \A k \in DOMAIN st.options : r.options[k] = st.options[k]
    /\ r.options[key].value = decl.value
    /\ r.options[key].type = decl.type /\ r.options[key].choices = decl.choices
    /\ IF key \in Sub /\ decl.yield /\ Root \in DOMAIN st.options /\ st.options[Root].type = decl.type
       THEN r.options[key].yielding = TRUE /\ r.options[key].parent = Live
       ELSE r.options[key].yielding = FALSE

\* Only the options differ.
OptionsOnly(st, r) ==
    /\ r.augments = st.augments /\ r.pending_options = st.pending_options
    /\ r.pending_subproject_options = st.pending_subproject_options /\ r.subprojects = st.subprojects
    /\ r.options_files = st.options_files

\* add_project_option() adds an option that yields to the toplevel project's,
\* if there is one of its type.
LEMMA AddProjectOption ==
    ASSUME NEW st, WF(st), kind = "project", NEW key \in Project, key \notin DOMAIN st.options, NEW decl \in Decls
    PROVE  LET r == add_project_option(st, key, decl) IN
           WF(r) /\ OptionsOnly(st, r) /\ r.ok = st.ok /\ Added(st, r, decl, key)
<1>. DEFINE c == decl.yield /\ key \in Sub /\ Root \in DOMAIN st.options /\ st.options[Root].type = decl.type
            p == IF c THEN Live ELSE NoParent
            o == UserOption(decl.value, p # NoParent, p, decl)
            t == With(st.options, key, o)
            r == [st EXCEPT !.options = t]
<1>1. st \in Store /\ KindOK(st) /\ LiveOK(st) BY DEF WF
<1>2. decl.value \in Values /\ decl.yield \in BOOLEAN BY FilesAssumption DEF Values
<1>3. Live # NoParent BY ValuesAssumption
<1>4. p \in Values \cup {NoParent, Live} /\ (p # NoParent) \in BOOLEAN OBVIOUS
<1>5. /\ o \in Option /\ o.value = decl.value /\ o.yielding = (p # NoParent) /\ o.parent = p
      /\ o.choices = decl.choices /\ o.type = decl.type
  <2>. HIDE DEF p
  <2>. DEFINE y == p # NoParent
  <2>1. y \in BOOLEAN OBVIOUS
  <2>. HIDE DEF y
  <2>2. LET n == UserOption(decl.value, y, p, decl) IN
        /\ n \in Option /\ n.value = decl.value /\ n.yielding = y /\ n.parent = p
        /\ n.choices = decl.choices /\ n.type = decl.type
    BY <1>2, <1>4, <2>1, OptionType
  <2>. QED BY <2>2 DEF y
<1>6. key \in Key /\ key # Global BY KeysAssumption DEF Key
<1>7. t \in Table
  <2>. HIDE DEF o
  <2>. QED BY <1>1, <1>5, <1>6, StoreType, WithTable
<1>8. DOMAIN t = DOMAIN st.options \cup {key} /\ t[key] = o /\ \A k \in DOMAIN st.options : t[k] = st.options[k]
  <2>. HIDE DEF o
  <2>. QED BY DEF With
<1>9. r = add_project_option(st, key, decl)
  BY DEF add_project_option
<1>. HIDE DEF t, o
<1>10. /\ r \in Store /\ r.options = t /\ r.augments = st.augments
       /\ r.pending_options = st.pending_options
       /\ r.pending_subproject_options = st.pending_subproject_options /\ r.subprojects = st.subprojects
       /\ r.options_files = st.options_files /\ r.ok = st.ok
  BY <1>1, <1>7, PutOptions
<1>. HIDE DEF r
<1>11. KindOK(r) BY <1>1, <1>6, <1>8, <1>10 DEF KindOK
<1>12. LiveOK(r) BY <1>1, <1>3, <1>5, <1>8, <1>10 DEF LiveOK
<1>13. Added(st, r, decl, key)
  <2>1. CASE c BY <1>3, <1>5, <1>8, <1>10, <2>1, Zenon DEF Added
  <2>2. CASE ~c BY <1>5, <1>8, <1>10, <2>2, Zenon DEF Added
  <2>. QED BY <2>1, <2>2
<1>. QED BY <1>9, <1>10, <1>11, <1>12, <1>13 DEF WF, OptionsOnly

\* The toplevel project's option object leaves: nothing yields to it any more.
LEMMA OrphanWF ==
    ASSUME NEW st, WF(st), kind = "project", NEW key \in DOMAIN st.options
    PROVE  LET r == Orphan(st, key) IN
           /\ WF(r) /\ OptionsOnly(st, r) /\ r.ok = st.ok /\ SameDecls(st, r)
           /\ key # Root => r = st
           /\ key = Root => \A k \in DOMAIN r.options : r.options[k].parent # Live
<1>1. st \in Store /\ KindOK(st) /\ LiveOK(st) BY DEF WF
<1>2. CASE key # Root
  <2>1. Orphan(st, key) = st BY <1>2 DEF Orphan
  <2>. QED BY <1>2, <2>1 DEF OptionsOnly, SameDecls
<1>3. CASE key = Root
  <2>. DEFINE n(k) == [st.options[k] EXCEPT !.parent = st.options[Root].value]
              t == [k \in DOMAIN st.options |-> IF st.options[k].parent = Live THEN n(k) ELSE st.options[k]]
              r == [st EXCEPT !.options = t]
  <2>1. DOMAIN st.options \subseteq Key /\ \A k \in DOMAIN st.options : st.options[k] \in Option BY <1>1, StoreType
  <2>2. st.options[Root].value \in Values BY <1>3, <2>1 DEF Option
  <2>3. \A k \in DOMAIN st.options :
            /\ n(k) \in Option /\ n(k).parent = st.options[Root].value
            /\ n(k).choices = st.options[k].choices /\ n(k).type = st.options[k].type
    <3>. TAKE k \in DOMAIN st.options
    <3>. QED BY <2>1, <2>2, OptionOrphan
  <2>. HIDE DEF n
  <2>4. t \in [DOMAIN st.options -> Option] BY <2>1, <2>3
  <2>5. DOMAIN t = DOMAIN st.options OBVIOUS
  <2>6. t \in Table BY <2>1, <2>4, <2>5, TableDef
  <2>7. \A k \in DOMAIN st.options : /\ t[k].parent # Live
                                     /\ t[k].choices = st.options[k].choices /\ t[k].type = st.options[k].type
    BY <2>2, <2>3, ValuesAssumption DEF Values
  <2>8. r = Orphan(st, key) BY <1>3 DEF Orphan, n
  <2>. HIDE DEF t
  <2>9. /\ r \in Store /\ r.options = t /\ r.augments = st.augments
        /\ r.pending_options = st.pending_options
        /\ r.pending_subproject_options = st.pending_subproject_options /\ r.subprojects = st.subprojects
        /\ r.options_files = st.options_files /\ r.ok = st.ok
    BY <1>1, <2>6, PutOptions
  <2>. HIDE DEF r
  <2>10. KindOK(r) BY <1>1, <2>5, <2>9 DEF KindOK
  <2>11. LiveOK(r) BY <2>5, <2>7, <2>9 DEF LiveOK
  <2>12. SameDecls(st, r) BY <2>5, <2>7, <2>9 DEF SameDecls
  <2>. QED BY <1>3, <2>5, <2>7, <2>8, <2>9, <2>10, <2>11, <2>12 DEF WF, OptionsOnly
<1>. QED BY <1>2, <1>3

\* The same options stay, with their types and choices, at other keys.
OthersDeclared(st, r, key) ==
    \A k \in Key \ {key} :
        /\ k \in DOMAIN r.options <=> k \in DOMAIN st.options
        /\ k \in DOMAIN st.options => /\ r.options[k].type = st.options[k].type
                                      /\ r.options[k].choices = st.options[k].choices
                                      /\ key # Root => r.options[k] = st.options[k]

\* What update_project_options() leaves, for a declaration it is given.
UpdateResult(st, r, decl, key) ==
    /\ WF(r) /\ OptionsOnly(st, r) /\ r.ok \in BOOLEAN /\ (r.ok => st.ok) /\ OthersDeclared(st, r, key)
    /\ key \notin DOMAIN st.options => /\ decl = Nothing => r = st
                                       /\ decl # Nothing => Added(st, r, decl, key) /\ r.ok = st.ok
    /\ key \in DOMAIN st.options /\ decl \in Decls
       /\ st.options[key].type = decl.type /\ st.options[key].choices = decl.choices => r = st

\* update_project_options() is about its project's option; it leaves the option
\* alone when the declaration is unchanged.
LEMMA UpdateProject ==
    ASSUME NEW st, WF(st), kind = "project", NEW key \in Project, NEW decl \in Decls \cup {Nothing}
    PROVE  UpdateResult(st, update_project_options(st, decl, key), decl, key)
<1>. DEFINE r == update_project_options(st, decl, key)
<1>1. st \in Store /\ KindOK(st) /\ LiveOK(st) BY DEF WF
<1>2. Nothing \notin Decls BY FilesAssumption
<1>3. st.ok \in BOOLEAN /\ DOMAIN st.options \subseteq Key BY <1>1, StoreType
<1>4. key \in Key /\ key # Global BY KeysAssumption DEF Key
<1>5. UpdateResult(st, st, decl, key) \/ (key \notin DOMAIN st.options /\ decl # Nothing)
  BY <1>3 DEF UpdateResult, OptionsOnly, OthersDeclared
<1>6. CASE key \notin DOMAIN st.options /\ decl = Nothing
  <2>1. r = st BY <1>6 DEF update_project_options
  <2>. QED BY <1>5, <1>6, <2>1
<1>7. CASE key \notin DOMAIN st.options /\ decl # Nothing
  <2>1. r = add_project_option(st, key, decl) BY <1>7 DEF update_project_options
  <2>. HIDE DEF r
  <2>2. WF(r) /\ OptionsOnly(st, r) /\ r.ok = st.ok /\ Added(st, r, decl, key)
    BY <1>7, <2>1, AddProjectOption
  <2>3. OthersDeclared(st, r, key) BY <2>2 DEF OthersDeclared, Added
  <2>. QED BY <1>3, <1>7, <2>2, <2>3 DEF UpdateResult, r
<1>8. CASE key \in DOMAIN st.options /\ decl = Nothing
  <2>. DEFINE q == Orphan(st, key)
              t == pop(q.options, key)
              n == [q EXCEPT !.options = t]
  <2>1. r = n BY <1>8 DEF update_project_options
  <2>2. /\ WF(q) /\ OptionsOnly(st, q) /\ q.ok = st.ok /\ SameDecls(st, q)
        /\ key # Root => q = st
        /\ key = Root => \A k \in DOMAIN q.options : q.options[k].parent # Live
    BY <1>8, OrphanWF
  <2>. HIDE DEF q, r
  <2>3. q \in Store BY <2>2 DEF WF
  <2>4. t \in Table BY <2>3, StoreType, popTable
  <2>5. DOMAIN t = DOMAIN q.options \ {key} /\ \A k \in DOMAIN t : t[k] = q.options[k] BY DEF pop
  <2>. HIDE DEF t
  <2>6. /\ n \in Store /\ n.options = t /\ n.augments = q.augments
        /\ n.pending_options = q.pending_options
        /\ n.pending_subproject_options = q.pending_subproject_options /\ n.subprojects = q.subprojects
        /\ n.options_files = q.options_files /\ n.ok = q.ok
    BY <2>3, <2>4, PutOptions
  <2>. HIDE DEF n
  <2>7. KindOK(n) BY <2>2, <2>5, <2>6 DEF WF, KindOK
  <2>8. LiveOK(n) BY <2>2, <2>5, <2>6 DEF WF, LiveOK
  <2>9. OthersDeclared(st, n, key) BY <2>2, <2>5, <2>6 DEF OthersDeclared, SameDecls
  <2>10. WF(n) /\ OptionsOnly(st, n) BY <2>2, <2>6, <2>7, <2>8 DEF WF, OptionsOnly
  <2>11. n.ok \in BOOLEAN /\ (n.ok => st.ok) BY <1>3, <2>2, <2>6
  <2>. QED BY <1>2, <1>8, <2>1, <2>9, <2>10, <2>11 DEF UpdateResult, r
<1>9. CASE key \in DOMAIN st.options /\ decl # Nothing /\ st.options[key].type # decl.type
  <2>. DEFINE q == set_option(st, key, decl.value, FALSE)
  <2>1. r = q BY <1>9, Zenon DEF update_project_options
  <2>2. decl.value \in Value BY <1>9, FilesAssumption
  <2>3. SetResult(st, q, key, decl.value, FALSE) BY <1>4, <2>2, SetOption, Zenon
  <2>. HIDE DEF q, r
  <2>4. key = Root \/ key \in Sub BY DEF Project
  <2>5. WF(q) /\ Frame(st, q, key) /\ SameDecls(st, q) BY <2>3 DEF SetResult
  <2>6. q.ok \in BOOLEAN /\ (q.ok => st.ok) BY <2>5, StoreType DEF WF, Frame, OtherKeys
  <2>7. OthersDeclared(st, q, key) BY <2>5 DEF Frame, OtherKeys, OthersDeclared
  <2>8. DOMAIN q.augments = DOMAIN st.augments /\ q.augments = st.augments
    <3>1. KindOK(q) BY <2>5 DEF WF
    <3>2. DOMAIN q.augments = {} /\ DOMAIN st.augments = {} BY <1>1, <3>1 DEF KindOK
    <3>3. q.augments \in [{} -> Value] /\ st.augments \in [{} -> Value]
      BY <1>1, <2>5, <3>2, StoreType, DictDef, Zenon DEF WF
    <3>. QED BY <3>3
  <2>9. OptionsOnly(st, q) BY <2>3, <2>5, <2>8 DEF OptionsOnly, SetResult, SameDecls, Frame, OtherKeys
  <2>. QED BY <1>9, <2>1, <2>5, <2>6, <2>7, <2>9 DEF UpdateResult, r
<1>10. CASE key \in DOMAIN st.options /\ decl # Nothing /\ st.options[key].type = decl.type
            /\ st.options[key].choices = decl.choices
  <2>1. r = st BY <1>10 DEF update_project_options
  <2>. QED BY <1>5, <1>10, <2>1
<1>11. CASE key \in DOMAIN st.options /\ decl # Nothing /\ st.options[key].type = decl.type
            /\ st.options[key].choices # decl.choices
  <2>. DEFINE q == Orphan(st, key)
              kept == IF st.options[key].value \in decl.choices THEN st.options[key].value ELSE decl.value
              o == UserOption(kept, decl.yield, NoParent, decl)
              t == With(q.options, key, o)
              n == [q EXCEPT !.options = t]
  <2>1. r = n BY <1>11 DEF update_project_options
  <2>2. /\ WF(q) /\ OptionsOnly(st, q) /\ q.ok = st.ok /\ SameDecls(st, q)
        /\ key # Root => q = st
        /\ key = Root => \A k \in DOMAIN q.options : q.options[k].parent # Live
    BY <1>11, OrphanWF
  <2>. HIDE DEF q, r
  <2>3. q \in Store BY <2>2 DEF WF
  <2>4. decl \in Decls /\ decl.value \in Value /\ decl.yield \in BOOLEAN BY <1>11, FilesAssumption
  <2>5. st.options[key] \in Option BY <1>1, <1>11, StoreType
  <2>6. kept \in Values BY <2>4, <2>5 DEF Values, Option
  <2>. HIDE DEF kept
  <2>7. o \in Option /\ o.parent = NoParent BY <2>4, <2>6, OptionType
  <2>. HIDE DEF o
  <2>8. t \in Table BY <1>4, <2>3, <2>7, StoreType, WithTable
  <2>9. DOMAIN t = DOMAIN q.options \cup {key} /\ t[key] = o /\ \A k \in DOMAIN q.options : k # key => t[k] = q.options[k]
    BY DEF With
  <2>. HIDE DEF t
  <2>10. /\ n \in Store /\ n.options = t /\ n.augments = q.augments
         /\ n.pending_options = q.pending_options
         /\ n.pending_subproject_options = q.pending_subproject_options /\ n.subprojects = q.subprojects
         /\ n.options_files = q.options_files /\ n.ok = q.ok
    BY <2>3, <2>8, PutOptions
  <2>. HIDE DEF n
  <2>11. KindOK(n) BY <1>4, <2>2, <2>9, <2>10 DEF WF, KindOK
  <2>12. NoParent # Live BY ValuesAssumption
  <2>13. LiveOK(n) BY <2>2, <2>7, <2>9, <2>10, <2>12 DEF WF, LiveOK
  <2>14. OthersDeclared(st, n, key) BY <2>2, <2>9, <2>10 DEF OthersDeclared, SameDecls
  <2>15. WF(n) /\ OptionsOnly(st, n) BY <2>2, <2>10, <2>11, <2>13 DEF WF, OptionsOnly
  <2>16. n.ok \in BOOLEAN /\ (n.ok => st.ok) BY <1>3, <2>2, <2>10
  <2>. QED BY <1>11, <2>1, <2>14, <2>15, <2>16 DEF UpdateResult, r
<1>. QED BY <1>6, <1>7, <1>8, <1>9, <1>10, <1>11


----------------------------------------------------------------------------
(* Option files *)

\* Reading an option file for a project changes its option and the note of
\* the file.
LoadResult(st, r, key) ==
    /\ WF(r) /\ r.ok \in BOOLEAN /\ (r.ok => st.ok)
    /\ r.augments = st.augments /\ r.pending_options = st.pending_options
    /\ r.pending_subproject_options = st.pending_subproject_options /\ r.subprojects = st.subprojects
    /\ OthersDeclared(st, r, key)
    /\ DOMAIN st.options_files \subseteq DOMAIN r.options_files
    /\ DOMAIN r.options_files \subseteq DOMAIN st.options_files \cup {key}

\* While the files are as they were, reading one adds the option or does nothing.
LoadAgrees(st, r, decl, key) ==
    /\ Agree(r) /\ r.ok = st.ok
    /\ IF kind = "project" /\ decl # NoFile /\ key \notin DOMAIN st.options
       THEN Added(st, r, decl, key) ELSE r.options = st.options

\* The file of `of` declares project key's option.
Declares(of, key) == IF file[key] = NoFile THEN of = Root ELSE of = key

\* OptionInterpreter.process() and update_project_options().
LEMMA Process ==
    ASSUME NEW st, WF(st), FileOK, kind = "project", NEW key \in Project, NEW of \in Project, file[of] # NoFile
    PROVE  LET r == process(st, of, key) IN
           /\ LoadResult(st, r, key) /\ key \in DOMAIN r.options_files
           /\ ~edited /\ Agree(st) /\ Declares(of, key) => LoadAgrees(st, r, file[of], key)
<1>. DEFINE u == update_project_options(st, file[of], key)
            t == With(u.options_files, key, <<of, file[of]>>)
            r == [u EXCEPT !.options_files = t]
<1>1. st \in Store BY DEF WF
<1>2. file[of] \in Decls \cup {Nothing} BY DEF FileOK
<1>3. UpdateResult(st, u, file[of], key) BY <1>2, UpdateProject
<1>. HIDE DEF u
<1>4. u \in Store /\ WF(u) BY <1>3 DEF UpdateResult, WF
<1>5. t \in Seen BY <1>2, <1>4, StoreType, WithSeen
<1>6. DOMAIN t = DOMAIN u.options_files \cup {key} /\ t[key] = <<of, file[of]>>
      /\ \A k \in DOMAIN u.options_files : k # key => t[k] = u.options_files[k]
  BY DEF With
<1>7. r = process(st, of, key) BY DEF process, u
<1>. HIDE DEF t
<1>8. /\ r \in Store /\ r.options = u.options /\ r.augments = u.augments
      /\ r.pending_options = u.pending_options
      /\ r.pending_subproject_options = u.pending_subproject_options /\ r.subprojects = u.subprojects
      /\ r.options_files = t /\ r.ok = u.ok
  BY <1>4, <1>5, PutFiles
<1>. HIDE DEF r
<1>9. WF(r) BY <1>4, <1>8 DEF WF, KindOK, LiveOK
<1>10. OthersDeclared(st, r, key) BY <1>3, <1>8 DEF UpdateResult, OthersDeclared
<1>11. u.options_files = st.options_files /\ u.augments = st.augments /\ u.pending_options = st.pending_options
       /\ u.pending_subproject_options = st.pending_subproject_options /\ u.subprojects = st.subprojects
  BY <1>3 DEF UpdateResult, OptionsOnly
<1>12. u.ok \in BOOLEAN /\ (u.ok => st.ok) BY <1>3 DEF UpdateResult
<1>13. LoadResult(st, r, key) BY <1>6, <1>8, <1>9, <1>10, <1>11, <1>12 DEF LoadResult
<1>14. ASSUME ~edited, Agree(st), Declares(of, key) PROVE LoadAgrees(st, r, file[of], key)
  <2>1. file[of] = Decl_of(key) /\ (file[key] = NoFile => of = Root) /\ (file[key] # NoFile => of = key)
    BY <1>14 DEF Declares, Decl_of
  <2>2. file[of] \in Decls /\ file[of] # Nothing BY <1>2, <1>14 DEF FileOK
  <2>3. /\ key \in DOMAIN st.options => u = st
        /\ key \notin DOMAIN st.options => Added(st, u, file[of], key) /\ u.ok = st.ok
    <3>1. ASSUME key \in DOMAIN st.options PROVE u = st
      <4>1. st.options[key].type = file[of].type /\ st.options[key].choices = file[of].choices
        BY <1>14, <2>1, <3>1 DEF Agree
      <4>. QED BY <1>3, <2>2, <3>1, <4>1 DEF UpdateResult
    <3>2. ASSUME key \notin DOMAIN st.options PROVE Added(st, u, file[of], key) /\ u.ok = st.ok
      BY <1>3, <2>2, <3>2 DEF UpdateResult
    <3>. QED BY <3>1, <3>2
  <2>4. \A k \in DOMAIN u.options : /\ Decl_of(k) \in Decls
                                    /\ u.options[k].type = Decl_of(k).type /\ u.options[k].choices = Decl_of(k).choices
    <3>1. CASE key \in DOMAIN st.options BY <1>14, <2>3, <3>1 DEF Agree
    <3>2. CASE key \notin DOMAIN st.options BY <1>14, <2>1, <2>2, <2>3, <3>2, Zenon DEF Agree, Added
    <3>. QED BY <3>1, <3>2
  <2>5. \A k \in DOMAIN t : IF file[k] = NoFile THEN t[k][1] \in {NoFile, Root} ELSE t[k] = <<k, file[k]>>
    BY <1>6, <1>11, <1>14, <2>1 DEF Agree
  <2>6. Agree(r) BY <1>8, <2>4, <2>5 DEF Agree
  <2>7. r.ok = st.ok BY <1>8, <2>3
  <2>8. IF key \notin DOMAIN st.options THEN Added(st, r, file[of], key) ELSE r.options = st.options
    BY <1>8, <2>3, Zenon DEF Added
  <2>9. file[of] # NoFile OBVIOUS
  <2>. QED BY <2>6, <2>7, <2>8, <2>9 DEF LoadAgrees
<1>15. key \in DOMAIN r.options_files BY <1>6, <1>8
<1>. QED BY <1>7, <1>13, <1>14, <1>15

\* _load_option_file() at the start of project().
LEMMA LoadFile ==
    ASSUME NEW st, WF(st), FileOK, NEW key \in Project
    PROVE  LET r == _load_option_file(st, key) IN
           /\ LoadResult(st, r, key) /\ key \in DOMAIN r.options_files
           /\ kind # "project" => r.options = st.options /\ r.ok = st.ok
           /\ ~edited /\ Agree(st) => LoadAgrees(st, r, file[key], key)
<1>1. st \in Store BY DEF WF
<1>2. CASE file[key] = NoFile
  <2>. DEFINE t == With(st.options_files, key, <<NoFile, NoFile>>)
              r == [st EXCEPT !.options_files = t]
  <2>1. t \in Seen BY <1>1, StoreType, WithSeen
  <2>2. DOMAIN t = DOMAIN st.options_files \cup {key} /\ t[key] = <<NoFile, NoFile>>
        /\ \A k \in DOMAIN st.options_files : k # key => t[k] = st.options_files[k]
    BY DEF With
  <2>3. r = _load_option_file(st, key) BY <1>2 DEF _load_option_file
  <2>. HIDE DEF t
  <2>4. /\ r \in Store /\ r.options = st.options /\ r.augments = st.augments
        /\ r.pending_options = st.pending_options
        /\ r.pending_subproject_options = st.pending_subproject_options /\ r.subprojects = st.subprojects
        /\ r.options_files = t /\ r.ok = st.ok
    BY <1>1, <2>1, PutFiles
  <2>. HIDE DEF r
  <2>5. WF(r) BY <2>4 DEF WF, KindOK, LiveOK
  <2>6. OthersDeclared(st, r, key) BY <2>4 DEF OthersDeclared
  <2>7. st.ok \in BOOLEAN BY <1>1, StoreType
  <2>8. LoadResult(st, r, key) BY <2>2, <2>4, <2>5, <2>6, <2>7 DEF LoadResult
  <2>9. ASSUME Agree(st) PROVE Agree(r)
    <3>1. kind = "project" => \A k \in DOMAIN t : IF file[k] = NoFile THEN t[k][1] \in {NoFile, Root}
                                                  ELSE t[k] = <<k, file[k]>>
      <4>. SUFFICES ASSUME kind = "project", NEW k \in DOMAIN t
                    PROVE  IF file[k] = NoFile THEN t[k][1] \in {NoFile, Root} ELSE t[k] = <<k, file[k]>>
        OBVIOUS
      <4>1. CASE k = key BY <1>2, <2>2, <4>1
      <4>2. CASE k # key BY <2>2, <2>9, <4>2 DEF Agree
      <4>. QED BY <4>1, <4>2
    <3>. QED BY <2>4, <2>9, <3>1 DEF Agree
  <2>10. Agree(st) => LoadAgrees(st, r, file[key], key) BY <1>2, <2>4, <2>9 DEF LoadAgrees
  <2>. QED BY <2>2, <2>3, <2>4, <2>8, <2>10
<1>3. CASE file[key] # NoFile
  <2>1. kind = "project" BY <1>3 DEF FileOK
  <2>2. _load_option_file(st, key) = process(st, key, key) BY <1>3 DEF _load_option_file
  <2>3. Declares(key, key) BY <1>3 DEF Declares
  <2>. QED BY <1>3, <2>1, <2>2, <2>3, Process
<1>. QED BY <1>2, <1>3


\* One turn of Conf's loop over the option files.
LEMMA Reload ==
    ASSUME NEW st, WF(st), FileOK, NEW key \in DOMAIN st.options_files
    PROVE  LET r == reload(st, key) IN
           /\ LoadResult(st, r, key)
           /\ kind # "project" => r = st
           /\ ~edited /\ Agree(st) => Agree(r)
<1>. DEFINE seen == st.options_files[key]
            path == IF seen[1] # NoFile /\ file[seen[1]] # NoFile THEN seen[1] ELSE Root
            r == reload(st, key)
<1>1. st \in Store BY DEF WF
<1>2. key \in Project /\ seen \in (Project \cup {NoFile}) \X (Decls \cup {Nothing, NoFile}) BY <1>1, StoreType, SeenDef
<1>3. path \in Project BY <1>2 DEF Project
<1>4. LoadResult(st, st, key)
  <2>1. st.ok \in BOOLEAN BY <1>1, StoreType
  <2>. QED BY <2>1 DEF LoadResult, OthersDeclared
<1>5. ASSUME ~edited, Agree(st), kind = "project" PROVE Declares(path, key)
  <2>1. IF file[key] = NoFile THEN seen[1] \in {NoFile, Root} ELSE seen = <<key, file[key]>> BY <1>5 DEF Agree
  <2>2. CASE file[key] = NoFile BY <2>1, <2>2 DEF Declares
  <2>3. CASE file[key] # NoFile
    <3>1. seen[1] = key BY <2>1, <2>3
    <3>2. key # NoFile BY <1>2, FilesAssumption
    <3>. QED BY <2>3, <3>1, <3>2 DEF Declares
  <2>. QED BY <2>2, <2>3
<1>6. CASE file[path] = NoFile
  <2>1. r = update_project_options(st, Nothing, key) BY <1>6 DEF reload
  <2>2. CASE kind # "project"
    <3>1. key \notin DOMAIN st.options BY <1>2, <2>2, KeysAssumption DEF WF, KindOK
    <3>2. r = st BY <2>1, <3>1 DEF update_project_options
    <3>. QED BY <1>4, <2>2, <3>2
  <2>3. CASE kind = "project"
    <3>1. UpdateResult(st, r, Nothing, key) BY <1>2, <2>1, <2>3, UpdateProject
    <3>. HIDE DEF r
    <3>2. LoadResult(st, r, key) BY <3>1 DEF UpdateResult, LoadResult, OptionsOnly
    <3>3. ASSUME ~edited, Agree(st) PROVE Agree(r)
      <4>1. Declares(path, key) BY <1>5, <2>3, <3>3
      <4>2. Decl_of(key) = NoFile BY <1>6, <4>1 DEF Declares, Decl_of
      <4>3. key \notin DOMAIN st.options BY <2>3, <3>3, <4>2, FilesAssumption DEF Agree
      <4>4. r = st BY <3>1, <4>3 DEF UpdateResult
      <4>. QED BY <3>3, <4>4
    <3>. QED BY <2>3, <3>2, <3>3 DEF r
  <2>. QED BY <2>2, <2>3
<1>7. CASE file[path] # NoFile /\ path = seen[1] /\ file[path] = seen[2]
  <2>1. r = st BY <1>7 DEF reload
  <2>. QED BY <1>4, <2>1
<1>8. CASE file[path] # NoFile /\ ~(path = seen[1] /\ file[path] = seen[2])
  <2>1. r = process(st, path, key) BY <1>8, Zenon DEF reload
  <2>2. kind = "project" BY <1>3, <1>8 DEF FileOK
  <2>. HIDE DEF path, r
  <2>3. /\ LoadResult(st, r, key)
        /\ ~edited /\ Agree(st) /\ Declares(path, key) => LoadAgrees(st, r, file[path], key)
    BY <1>2, <1>3, <1>8, <2>1, <2>2, Process
  <2>. QED BY <1>5, <2>2, <2>3 DEF LoadAgrees, r
<1>. QED BY <1>6, <1>7, <1>8, Zenon

\* Conf.__init__() reads the option files again: the store stays well formed,
\* and follows the files.
LEMMA ConfWF ==
    ASSUME NEW st, WF(st), FileOK, Root \in DOMAIN st.options_files
    PROVE  LET r == Conf(st) IN
           /\ WF(r) /\ (r.ok => st.ok)
           /\ r.augments = st.augments /\ r.pending_options = st.pending_options
           /\ r.pending_subproject_options = st.pending_subproject_options /\ r.subprojects = st.subprojects
           /\ Root \in DOMAIN r.options_files
           /\ kind # "project" => r.options = st.options
           /\ ~edited /\ Agree(st) => Agree(r)
<1>. DEFINE top == reload(st, Root)
            new == [key \in DOMAIN st.options_files |-> IF key = Root THEN top ELSE reload(top, key)]
            at(k) == IF k \in DOMAIN new THEN k ELSE Root
            K == {k \in {Global} \cup Project : k \in DOMAIN new[at(k)].options}
            x == [k \in K |-> new[at(k)].options[k]]
            y == [k \in DOMAIN new |-> new[k].options_files[k]]
            z == \A k \in DOMAIN new : new[k].ok
            r == [top EXCEPT !.options = x, !.options_files = y, !.ok = z]
<1>1. r = Conf(st) BY DEF Conf
<1>2. st \in Store BY DEF WF
<1>3. DOMAIN st.options_files \subseteq Project BY <1>2, StoreType, SeenDef
<1>4. /\ LoadResult(st, top, Root) /\ (kind # "project" => top = st)
      /\ ~edited /\ Agree(st) => Agree(top)
  BY Reload
<1>5. WF(top) /\ DOMAIN st.options_files \subseteq DOMAIN top.options_files /\ (top.ok => st.ok)
      /\ top.augments = st.augments /\ top.pending_options = st.pending_options
      /\ top.pending_subproject_options = st.pending_subproject_options /\ top.subprojects = st.subprojects
  BY <1>4 DEF LoadResult
<1>. HIDE DEF top
<1>6. DOMAIN new = DOMAIN st.options_files OBVIOUS
<1>7. \A k \in DOMAIN new : /\ WF(new[k]) /\ k \in DOMAIN new[k].options_files
                            /\ kind # "project" => new[k] = st
                            /\ ~edited /\ Agree(st) => Agree(new[k])
                            /\ Root \in DOMAIN new[k].options /\ k # Root => Root \in DOMAIN top.options
  <2>. TAKE k \in DOMAIN new
  <2>1. k \in DOMAIN top.options_files /\ k \in Project BY <1>3, <1>5
  <2>2. CASE k = Root BY <1>4, <1>5, <2>1, <2>2
  <2>3. CASE k # Root
    <3>1. new[k] = reload(top, k) BY <2>3
    <3>. HIDE DEF new
    <3>2. /\ LoadResult(top, new[k], k) /\ (kind # "project" => new[k] = top)
          /\ ~edited /\ Agree(top) => Agree(new[k])
      BY <1>5, <2>1, <3>1, Reload
    <3>3. WF(new[k]) /\ k \in DOMAIN new[k].options_files BY <2>1, <3>2 DEF LoadResult
    <3>4. Root \in DOMAIN new[k].options => Root \in DOMAIN top.options
      BY <2>3, <3>2 DEF LoadResult, OthersDeclared, Key, Project
    <3>. QED BY <1>4, <3>2, <3>3, <3>4
  <2>. QED BY <2>2, <2>3
<1>8. new[Root] = top OBVIOUS
<1>. HIDE DEF new
<1>9. \A k : at(k) \in DOMAIN new BY <1>6
<1>. HIDE DEF at
<1>10. \A k \in K : k \in Key /\ k \in DOMAIN new[at(k)].options /\ new[at(k)].options[k] \in Option
  <2>. TAKE k \in K
  <2>1. new[at(k)] \in Store BY <1>7, <1>9 DEF WF
  <2>. QED BY <2>1, StoreType DEF Key
<1>11. DOMAIN x = K /\ \A k \in K : x[k] = new[at(k)].options[k] OBVIOUS
<1>12. x \in Table
  <2>1. x \in [K -> Option] BY <1>10
  <2>2. K \subseteq Key BY <1>10
  <2>. HIDE DEF x, K
  <2>. QED BY <1>11, <2>1, <2>2, TableDef
<1>13. DOMAIN y = DOMAIN new /\ \A k \in DOMAIN new : y[k] = new[k].options_files[k] OBVIOUS
<1>14. y \in Seen
  <2>1. \A k \in DOMAIN new : new[k].options_files[k] \in (Project \cup {NoFile}) \X (Decls \cup {Nothing, NoFile})
    <3>. TAKE k \in DOMAIN new
    <3>1. new[k].options_files \in Seen BY <1>7, StoreType DEF WF
    <3>. QED BY <1>7, <3>1, SeenDef
  <2>2. y \in [DOMAIN new -> (Project \cup {NoFile}) \X (Decls \cup {Nothing, NoFile})] BY <2>1
  <2>. HIDE DEF y
  <2>. QED BY <1>3, <1>6, <1>13, <2>2, SeenDef
<1>15. z \in BOOLEAN OBVIOUS
<1>16. z => st.ok BY <1>5, <1>6, <1>8
<1>17. top \in Store BY <1>5 DEF WF
<1>18. Root \in K <=> Root \in DOMAIN top.options
  <2>1. at(Root) = Root BY DEF at
  <2>2. Root \in {Global} \cup Project BY DEF Project
  <2>. QED BY <1>8, <2>1, <2>2
<1>19. Global \in K => \E k \in DOMAIN new : Global \in DOMAIN new[k].options BY <1>9, <1>10
<1>. HIDE DEF x, y, z, K
<1>20. /\ r \in Store /\ r.options = x /\ r.augments = top.augments
       /\ r.pending_options = top.pending_options
       /\ r.pending_subproject_options = top.pending_subproject_options /\ r.subprojects = top.subprojects
       /\ r.options_files = y /\ r.ok = z
  <2>1. \A v \in BOOLEAN :
            LET n == [top EXCEPT !.options = x, !.options_files = y, !.ok = v] IN
            /\ n \in Store /\ n.options = x /\ n.augments = top.augments
            /\ n.pending_options = top.pending_options
            /\ n.pending_subproject_options = top.pending_subproject_options /\ n.subprojects = top.subprojects
            /\ n.options_files = y /\ n.ok = v
    <3>. TAKE v \in BOOLEAN
    <3>1. [top EXCEPT !.options = x, !.options_files = y, !.ok = v] \in Store
      BY <1>12, <1>14, <1>17, Zenon DEF Store
    <3>. QED BY <1>17, <3>1 DEF Store
  <2>. QED BY <1>15, <2>1, Zenon
<1>. HIDE DEF r
<1>21. kind # "project" => x = st.options
  <2>. SUFFICES ASSUME kind # "project" PROVE x = st.options
    OBVIOUS
  <2>1. \A k : new[at(k)] = st BY <1>7, <1>9
  <2>2. DOMAIN st.options \subseteq Key /\ st.options \in [DOMAIN st.options -> Option] BY <1>2, StoreType, TableDef
  <2>3. K = DOMAIN st.options BY <2>1, <2>2 DEF K, Key
  <2>4. x = [k \in DOMAIN st.options |-> st.options[k]] BY <2>1, <2>3 DEF x
  <2>. QED BY <2>2, <2>4
<1>22. KindOK(r)
  <2>1. CASE kind # "project"
    <3>1. KindOK(st) BY DEF WF
    <3>. QED BY <1>5, <1>20, <1>21, <2>1, <3>1 DEF KindOK
  <2>2. CASE kind = "project"
    <3>1. KindOK(top) BY <1>5 DEF WF
    <3>2. Global \notin K BY <1>7, <1>19, <2>2 DEF WF, KindOK
    <3>. QED BY <1>11, <1>20, <2>2, <3>1, <3>2 DEF KindOK
  <2>. QED BY <2>1, <2>2
<1>23. LiveOK(r)
  <2>. SUFFICES ASSUME NEW k \in K, x[k].parent = Live PROVE Root \in K
    BY <1>11, <1>20 DEF LiveOK
  <2>1. WF(new[at(k)]) /\ k \in DOMAIN new[at(k)].options BY <1>7, <1>9, <1>10
  <2>2. new[at(k)].options[k].parent = Live BY <1>11
  <2>3. Root \in DOMAIN new[at(k)].options BY <2>1, <2>2 DEF WF, LiveOK
  <2>4. Root \in DOMAIN top.options BY <1>7, <1>8, <1>9, <2>3
  <2>. QED BY <1>18, <2>4
<1>24. ASSUME ~edited, Agree(st) PROVE Agree(r)
  <2>. SUFFICES ASSUME kind = "project" PROVE Agree(r)
    BY DEF Agree
  <2>1. \A k \in K : /\ Decl_of(k) \in Decls
                     /\ x[k].type = Decl_of(k).type /\ x[k].choices = Decl_of(k).choices
    <3>. TAKE k \in K
    <3>1. Agree(new[at(k)]) /\ k \in DOMAIN new[at(k)].options BY <1>7, <1>9, <1>10, <1>24
    <3>. QED BY <1>11, <3>1 DEF Agree
  <2>2. \A k \in DOMAIN new : IF file[k] = NoFile THEN y[k][1] \in {NoFile, Root} ELSE y[k] = <<k, file[k]>>
    <3>. TAKE k \in DOMAIN new
    <3>1. Agree(new[k]) /\ k \in DOMAIN new[k].options_files BY <1>7, <1>24
    <3>. QED BY <1>13, <3>1 DEF Agree
  <2>. QED BY <1>11, <1>13, <1>20, <2>1, <2>2, Zenon DEF Agree
<1>25. Root \in DOMAIN r.options_files BY <1>6, <1>13, <1>20
<1>. QED BY <1>1, <1>5, <1>16, <1>20, <1>21, <1>22, <1>23, <1>24, <1>25 DEF WF


----------------------------------------------------------------------------
(* Commands that set options *)

\* A loop over a dictionary sets the key's entry, if there is one.
LEMMA SetFrom ==
    ASSUME NEW st, WF(st), kind \in Kind, NEW d, NEW K, d \in Dict(K), NEW key \in UserKey, NEW first
    PROVE  LET r == set_from(st, d, key, first) IN
           IF key \in DOMAIN d THEN d[key] \in Value /\ UserResult(st, r, key, d[key], first) ELSE r = st
<1>1. CASE key \in DOMAIN d
  <2>1. d[key] \in Value BY <1>1, DictDef
  <2>2. set_from(st, d, key, first) = set_user_option(st, key, d[key], first) BY <1>1 DEF set_from
  <2>. QED BY <1>1, <2>1, <2>2, SetUserOption
<1>2. CASE key \notin DOMAIN d BY <1>2 DEF set_from
<1>. QED BY <1>1, <1>2

\* The toplevel project's value, set or waiting.
TopIs(st, v) ==
    /\ kind # "project" => IF Global \in DOMAIN st.options
                           THEN st.options[Global].value = v /\ Global \notin DOMAIN st.pending_options
                           ELSE get(st.pending_options, Global, Default) = v
    /\ kind = "project" /\ Root \in DOMAIN st.options => st.options[Root].value = v /\ ~st.options[Root].yielding

\* What setting the global key does to the store.
TopResult(st, r, d, v) ==
    /\ WF(r) /\ SameDecls(st, r) /\ Frame(st, r, Target(Global))
    /\ r.augments = st.augments
    /\ r.pending_subproject_options = st.pending_subproject_options
    /\ r.ok => /\ TopIs(r, get(d, Global, v))
               /\ kind = "project" /\ Root \notin DOMAIN st.options => Global \notin DOMAIN d

\* A setting without a subproject is the toplevel project's value.
LEMMA SetTop ==
    ASSUME NEW st, WF(st), kind \in Kind, NEW d \in Dict(UserKey), NEW v, st.ok = TRUE => TopIs(st, v)
    PROVE  TopResult(st, set_from(st, d, Global, TRUE), d, v)
<1>. DEFINE r == set_from(st, d, Global, TRUE)
<1>1. Global \in UserKey /\ Global \notin Sub BY KeysAssumption DEF UserKey, Project
<1>2. IF Global \in DOMAIN d THEN d[Global] \in Value /\ UserResult(st, r, Global, d[Global], TRUE) ELSE r = st
  BY <1>1, SetFrom, Zenon
<1>. HIDE DEF r
<1>0. st.ok \in BOOLEAN BY StoreType DEF WF
<1>3. CASE Global \notin DOMAIN d
  <2>1. r = st /\ get(d, Global, v) = v BY <1>2, <1>3 DEF get
  <2>2. SameDecls(st, r) /\ Frame(st, r, Target(Global)) BY <2>1 DEF SameDecls, Frame, OtherKeys
  <2>3. r.ok => TopIs(r, get(d, Global, v)) BY <1>0, <2>1
  <2>. QED BY <1>3, <2>1, <2>2, <2>3, Zenon DEF TopResult, r
<1>4. CASE Global \in DOMAIN d
  <2>1. UserResult(st, r, Global, d[Global], TRUE) /\ get(d, Global, v) = d[Global] BY <1>2, <1>4, Zenon DEF get
  <2>2. WF(r) /\ SameDecls(st, r) /\ Frame(st, r, Target(Global))
        /\ r.pending_subproject_options = st.pending_subproject_options
    BY <2>1, Zenon DEF UserResult
  <2>3. KindOK(st) /\ KindOK(r) /\ st \in Store /\ r \in Store BY <2>2 DEF WF
  <2>4. r.augments = st.augments
    <3>1. st.augments \in Dict(Sub) /\ r.augments \in Dict(Sub) BY <2>3, StoreType
    <3>2. DOMAIN st.augments \subseteq Sub /\ DOMAIN r.augments \subseteq Sub
          /\ st.augments \in [DOMAIN st.augments -> Value] /\ r.augments \in [DOMAIN r.augments -> Value]
      BY <3>1, DictDef
    <3>3. \A k \in Sub : /\ k \in DOMAIN r.augments <=> k \in DOMAIN st.augments
                         /\ k \in DOMAIN st.augments => r.augments[k] = st.augments[k]
      BY <1>1, <2>2, KeysAssumption DEF Frame, OtherKeys, Key, Project, Target
    <3>4. DOMAIN r.augments = DOMAIN st.augments BY <3>2, <3>3
    <3>. QED BY <3>2, <3>3, <3>4
  <2>5. ASSUME r.ok = TRUE PROVE TopIs(r, d[Global])
    <3>0. TopIs(st, v) BY <1>0, <2>2, <2>5 DEF Frame
    <3>1. CASE kind = "project"
      <4>1. Target(Global) = Root BY <3>1 DEF Target
      <4>2. Root \in DOMAIN st.options BY <2>1, <2>5, <3>1, <4>1, Zenon DEF UserResult
      <4>3. r.options[Root].value = d[Global] /\ ~r.options[Root].yielding BY <2>1, <2>5, <4>1, <4>2, Zenon DEF UserResult
      <4>. QED BY <3>1, <4>3 DEF TopIs
    <3>2. CASE kind # "project"
      <4>1. Target(Global) = Global BY <3>2 DEF Target
      <4>2. CASE Global \in DOMAIN st.options
        <5>1. r.options[Global].value = d[Global] /\ r.pending_options = st.pending_options
          BY <2>1, <2>5, <4>1, <4>2, Zenon DEF UserResult
        <5>2. Global \in DOMAIN r.options BY <2>2, <4>2 DEF SameDecls
        <5>3. Global \notin DOMAIN st.pending_options BY <3>0, <3>2, <4>2 DEF TopIs
        <5>. QED BY <3>2, <5>1, <5>2, <5>3 DEF TopIs
      <4>3. CASE Global \notin DOMAIN st.options
        <5>1. ~has_option(st, Global) BY <4>3 DEF has_option
        <5>2. Global \in DOMAIN r.pending_options /\ r.pending_options[Global] = d[Global]
          BY <2>1, <2>5, <4>1, <4>3, <5>1, Zenon DEF UserResult
        <5>3. Global \notin DOMAIN r.options BY <2>2, <4>3 DEF SameDecls
        <5>. QED BY <3>2, <5>2, <5>3 DEF TopIs, get
      <4>. QED BY <4>2, <4>3
    <3>. QED BY <3>1, <3>2
  <2>6. ASSUME r.ok = TRUE, kind = "project" PROVE Root \in DOMAIN st.options
    BY <2>1, <2>6, Zenon DEF UserResult, Target
  <2>7. r.ok \in BOOLEAN BY <2>3, StoreType
  <2>. QED BY <2>1, <2>2, <2>4, <2>5, <2>6, <2>7, Zenon DEF TopResult, r
<1>. QED BY <1>3, <1>4, Zenon

\* Settings of subprojects wait in the store.
LEMMA WaitingWF ==
    ASSUME NEW st, WF(st), NEW d \in Dict(Sub)
    PROVE  LET r == [st EXCEPT !.pending_subproject_options = d] IN
           /\ WF(r) /\ r.pending_subproject_options = d /\ r.ok = st.ok /\ r.subprojects = st.subprojects
           /\ r.options = st.options /\ r.augments = st.augments /\ r.pending_options = st.pending_options
           /\ r.options_files = st.options_files
<1>. DEFINE r == [st EXCEPT !.pending_subproject_options = d]
<1>1. st \in Store BY DEF WF
<1>2. /\ r \in Store /\ r.options = st.options /\ r.augments = st.augments
      /\ r.pending_options = st.pending_options
      /\ r.pending_subproject_options = d /\ r.subprojects = st.subprojects
      /\ r.options_files = st.options_files /\ r.ok = st.ok
  BY <1>1, PutWaiting
<1>. HIDE DEF r
<1>3. WF(r) BY <1>2 DEF WF, KindOK, LiveOK
<1>. QED BY <1>2, <1>3 DEF r

\* project() of the toplevel project in the first run: its default_options, the
\* machine file and the command line set its value in this order.
LEMMA TopCall ==
    ASSUME NEW st, WF(st), kind \in Kind, machine \in Dict(UserKey), NEW project \in Dict(UserKey),
           NEW cmd \in Dict(UserKey), NEW v, TopIs(st, v)
    PROVE  LET r == initialize_from_top_level_project_call(st, project, cmd) IN
           /\ WF(r) /\ SameDecls(st, r) /\ OtherKeys(st, r, Target(Global)) /\ (r.ok => st.ok)
           /\ r.augments = st.augments /\ r.subprojects = st.subprojects
           /\ r.pending_subproject_options = Only(project, Sub)
           /\ r.ok => /\ TopIs(r, get(cmd, Global, get(machine, Global, get(project, Global, v))))
                      /\ kind = "project" /\ Root \notin DOMAIN st.options =>
                            Global \notin DOMAIN cmd \cup DOMAIN machine
<1>. DEFINE d1 == set_from(st, project, Global, TRUE)
            d2 == [d1 EXCEPT !.pending_subproject_options = Only(project, Sub)]
            d3 == set_from(d2, machine, Global, TRUE)
            d4 == set_from(d3, cmd, Global, TRUE)
            v1 == get(project, Global, v)
            v2 == get(machine, Global, v1)
            v3 == get(cmd, Global, v2)
<1>1. d4 = initialize_from_top_level_project_call(st, project, cmd)
  BY DEF initialize_from_top_level_project_call
<1>2. TopResult(st, d1, project, v) BY SetTop, Zenon
<1>3. WF(d1) /\ Only(project, Sub) \in Dict(Sub) BY <1>2, OnlyDict, Zenon DEF TopResult
<1>. HIDE DEF d1
<1>4. /\ WF(d2) /\ d2.pending_subproject_options = Only(project, Sub) /\ d2.ok = d1.ok
      /\ d2.subprojects = d1.subprojects
      /\ d2.options = d1.options /\ d2.augments = d1.augments /\ d2.pending_options = d1.pending_options
      /\ d2.options_files = d1.options_files
  BY <1>3, WaitingWF
<1>. HIDE DEF d2
<1>5. d1.ok = TRUE => TopIs(d2, v1) BY <1>2, <1>4, Zenon DEF TopResult, TopIs
<1>6. TopResult(d2, d3, machine, v1)
  <2>1. d2.ok = TRUE => TopIs(d2, v1) BY <1>4, <1>5, Zenon
  <2>. HIDE DEF v1
  <2>. QED BY <1>4, <2>1, SetTop, Zenon
<1>7. WF(d3) BY <1>6, Zenon DEF TopResult
<1>. HIDE DEF d3
<1>8. d3.ok = TRUE => TopIs(d3, v2) BY <1>6, Zenon DEF TopResult
<1>9. TopResult(d3, d4, cmd, v2)
  <2>. HIDE DEF v2
  <2>. QED BY <1>7, <1>8, SetTop, Zenon
<1>. HIDE DEF d4
<1>10. WF(d4) BY <1>9, Zenon DEF TopResult
<1>11. SameDecls(st, d4)
  <2>1. SameDecls(st, d2) BY <1>2, <1>4 DEF TopResult, SameDecls
  <2>2. SameDecls(st, d3) BY <1>6, <2>1, Zenon DEF TopResult, SameDecls
  <2>. QED BY <1>9, <2>2, Zenon DEF TopResult, SameDecls
<1>12. Frame(st, d4, Target(Global))
  <2>1. Frame(st, d2, Target(Global)) BY <1>2, <1>4, Zenon DEF TopResult, Frame, OtherKeys
  <2>2. Frame(d2, d3, Target(Global)) /\ Frame(d3, d4, Target(Global)) BY <1>6, <1>9 DEF TopResult
  <2>. QED BY <2>1, <2>2, FrameTrans
<1>13. d4.augments = st.augments /\ d4.pending_subproject_options = Only(project, Sub)
  BY <1>2, <1>4, <1>6, <1>9 DEF TopResult
<1>14. d4.ok \in BOOLEAN /\ d3.ok \in BOOLEAN /\ (d4.ok => d3.ok)
  BY <1>7, <1>9, <1>10, StoreType, Zenon DEF WF, TopResult, Frame
<1>15. ASSUME d4.ok = TRUE
       PROVE  /\ TopIs(d4, v3)
              /\ kind = "project" /\ Root \notin DOMAIN st.options => Global \notin DOMAIN cmd \cup DOMAIN machine
  <2>1. TopIs(d4, v3) BY <1>9, <1>15, Zenon DEF TopResult
  <2>2. d3.ok = TRUE BY <1>14, <1>15
  <2>3. DOMAIN d2.options = DOMAIN st.options /\ DOMAIN d3.options = DOMAIN st.options
    BY <1>2, <1>4, <1>6, Zenon DEF TopResult, SameDecls
  <2>4. kind = "project" /\ Root \notin DOMAIN st.options => Global \notin DOMAIN machine
    BY <1>6, <2>2, <2>3, Zenon DEF TopResult
  <2>5. kind = "project" /\ Root \notin DOMAIN st.options => Global \notin DOMAIN cmd
    BY <1>9, <1>15, <2>3, Zenon DEF TopResult
  <2>. QED BY <2>1, <2>4, <2>5
<1>. QED BY <1>1, <1>10, <1>11, <1>12, <1>13, <1>14, <1>15, Zenon DEF Frame


\* `meson configure -D` and -U: entries of the key change only, and -U leaves
\* no augment.
LEMMA ConfigureSet ==
    ASSUME NEW st, WF(st), kind \in Kind, NEW key \in UserKey, NEW new \in Value \cup {Nothing}
    PROVE  LET r == set_from_configure_command(st, key, new) IN
           /\ WF(r) /\ SameDecls(st, r) /\ (r.ok => st.ok) /\ r.subprojects = st.subprojects
           /\ kind # "project" => Frame(st, r, key)
           /\ kind # "project" /\ new = Nothing =>
                 r.pending_options = st.pending_options /\ (r.ok /\ key \in Sub => key \notin DOMAIN r.augments)
<1>. DEFINE r == set_from_configure_command(st, key, new)
<1>1. st \in Store /\ KindOK(st) BY DEF WF
<1>2. CASE new # Nothing
  <2>1. r = set_user_option(st, key, new, FALSE) BY <1>2 DEF set_from_configure_command
  <2>2. UserResult(st, r, key, new, FALSE) BY <1>2, <2>1, SetUserOption, Zenon
  <2>. HIDE DEF r
  <2>3. WF(r) /\ SameDecls(st, r) /\ Frame(st, r, Target(key)) BY <2>2 DEF UserResult
  <2>4. (r.ok => st.ok) /\ r.subprojects = st.subprojects BY <2>3 DEF Frame
  <2>5. kind # "project" => Target(key) = key BY DEF Target
  <2>. QED BY <1>2, <2>3, <2>4, <2>5 DEF r
<1>3. CASE new = Nothing /\ key \in DOMAIN st.augments
  <2>. DEFINE t == pop(st.augments, key)
              n == [st EXCEPT !.augments = t]
  <2>1. r = n BY <1>3 DEF set_from_configure_command
  <2>2. t \in Dict(Sub) BY <1>1, StoreType, popDict, Zenon
  <2>3. DOMAIN t = DOMAIN st.augments \ {key} /\ \A k \in DOMAIN t : t[k] = st.augments[k] BY DEF pop
  <2>. HIDE DEF t, r
  <2>4. /\ n \in Store /\ n.options = st.options /\ n.augments = t /\ n.pending_options = st.pending_options
        /\ n.pending_subproject_options = st.pending_subproject_options /\ n.subprojects = st.subprojects
        /\ n.options_files = st.options_files /\ n.ok = st.ok
    BY <1>1, <2>2, PutAugments
  <2>. HIDE DEF n
  <2>5. WF(n) BY <2>3, <2>4, Zenon DEF WF, KindOK, LiveOK
  <2>6. Frame(st, n, key) BY <2>3, <2>4 DEF Frame, OtherKeys
  <2>7. SameDecls(st, n) BY <2>4 DEF SameDecls
  <2>. QED BY <2>1, <2>3, <2>4, <2>5, <2>6, <2>7 DEF r
<1>4. CASE new = Nothing /\ key \notin DOMAIN st.augments /\ key \in DOMAIN st.options
  <2>. DEFINE y == st.options[key].parent # NoParent
              o == [st.options[key] EXCEPT !.yielding = y]
  <2>1. r = Replaced(st, key, o) BY <1>4 DEF set_from_configure_command, Replaced
  <2>2. st.options[key] \in Option BY <1>1, <1>4, StoreType
  <2>3. y \in BOOLEAN OBVIOUS
  <2>4. kind # "project" => y = FALSE BY <1>1, <1>4 DEF KindOK
  <2>. HIDE DEF y, r
  <2>5. /\ o \in Option /\ o.value = st.options[key].value /\ o.yielding = y
        /\ o.parent = st.options[key].parent
        /\ o.choices = st.options[key].choices /\ o.type = st.options[key].type
    BY <2>2, <2>3, OptionYield
  <2>. HIDE DEF o
  <2>6. kind # "project" => ~o.yielding BY <2>4, <2>5
  <2>7. /\ WF(Replaced(st, key, o)) /\ Frame(st, Replaced(st, key, o), key)
        /\ SameDecls(st, Replaced(st, key, o)) /\ Replaced(st, key, o).ok = st.ok
        /\ Replaced(st, key, o).augments = st.augments
        /\ Replaced(st, key, o).pending_options = st.pending_options
    BY <1>4, <2>5, <2>6, ReplacedWF, Zenon
  <2>. QED BY <1>4, <2>1, <2>7, Zenon DEF r, Frame
<1>5. CASE new = Nothing /\ key \notin DOMAIN st.augments /\ key \notin DOMAIN st.options
  <2>1. r = Fail(st) BY <1>5 DEF set_from_configure_command
  <2>. HIDE DEF r
  <2>2. /\ WF(Fail(st)) /\ Frame(st, Fail(st), key) /\ SameDecls(st, Fail(st)) /\ ~Fail(st).ok
        /\ Fail(st).pending_options = st.pending_options
    BY FailWF
  <2>. QED BY <2>1, <2>2 DEF r, Frame
<1>. QED BY <1>2, <1>3, <1>4, <1>5, Zenon

\* When setting a user's option raises: a matter of the options and augments.
UserRaises(st, key, new) ==
    IF has_option(st, key) THEN new \notin st.options[IF key \in DOMAIN st.options THEN key ELSE Global].choices
    ELSE kind # "compiler"

\* set_user_option() for a subproject in its first project() call.
LEMMA SubprojectRaises ==
    ASSUME NEW st, WF(st), st.ok = TRUE, NEW key \in Sub, NEW new \in Value
    PROVE  set_user_option(st, key, new, TRUE).ok = ~UserRaises(st, key, new)
<1>. DEFINE r == set_user_option(st, key, new, TRUE)
<1>1. st \in Store /\ KindOK(st) BY DEF WF
<1>2. key # Global /\ key \in Key /\ key # Root BY KeysAssumption DEF Project, Key
<1>3. CASE UserRaises(st, key, new)
  <2>1. r = Fail(st) BY <1>2, <1>3 DEF UserRaises, set_user_option, set_option
  <2>2. ~Fail(st).ok /\ WF(Fail(st)) BY FailWF
  <2>3. Fail(st).ok \in BOOLEAN BY <2>2, StoreType DEF WF
  <2>. QED BY <1>3, <2>1, <2>2, <2>3, Zenon
<1>4. CASE ~UserRaises(st, key, new) /\ has_option(st, key) /\ key \in DOMAIN st.options
  <2>. DEFINE o == [st.options[key] EXCEPT !.value = new, !.yielding = FALSE]
  <2>1. r = [st EXCEPT !.options = With(@, key, o)] BY <1>4 DEF UserRaises, set_user_option, set_option
  <2>2. new \in Values /\ st.options[key] \in Option BY <1>1, <1>4, StoreType DEF Values
  <2>3. o \in Option BY <2>2, OptionSet, Zenon
  <2>. HIDE DEF o
  <2>4. With(st.options, key, o) \in Table BY <1>1, <1>2, <2>3, StoreType, WithTable
  <2>5. [st EXCEPT !.options = With(@, key, o)].ok = st.ok BY <1>1, <2>4, PutOptions
  <2>. QED BY <1>4, <2>1, <2>5, Zenon
<1>5. CASE ~UserRaises(st, key, new) /\ has_option(st, key) /\ key \notin DOMAIN st.options
  <2>1. r = [st EXCEPT !.augments = With(@, key, new)] BY <1>5 DEF UserRaises, set_user_option, set_option
  <2>2. With(st.augments, key, new) \in Dict(Sub) BY <1>1, StoreType, WithDict
  <2>3. [st EXCEPT !.augments = With(@, key, new)].ok = st.ok BY <1>1, <2>2, PutAugments
  <2>. QED BY <1>5, <2>1, <2>3, Zenon
<1>6. CASE ~UserRaises(st, key, new) /\ ~has_option(st, key)
  <2>1. r = [st EXCEPT !.pending_options = With(@, key, new)] BY <1>6 DEF UserRaises, set_user_option
  <2>2. key \in UserKey BY DEF UserKey
  <2>3. With(st.pending_options, key, new) \in Dict(UserKey) BY <1>1, <2>2, StoreType, WithDict
  <2>4. [st EXCEPT !.pending_options = With(@, key, new)].ok = st.ok BY <1>1, <2>3, PutPending
  <2>. QED BY <1>6, <2>1, <2>4, Zenon
<1>. QED BY <1>3, <1>4, <1>5, <1>6, Zenon


\* Looking a key up in a dictionary that was updated, cut or popped.
LEMMA GetUpdate ==
    ASSUME NEW d, NEW o, NEW k, NEW e
    PROVE  get(Update(d, o), k, e) = get(o, k, get(d, k, e))
<1>1. DOMAIN Update(d, o) = DOMAIN d \cup DOMAIN o BY DEF Update
<1>2. CASE k \in DOMAIN o
  <2>1. Update(d, o)[k] = o[k] BY <1>2 DEF Update
  <2>. QED BY <1>1, <1>2, <2>1 DEF get
<1>3. CASE k \in DOMAIN d /\ k \notin DOMAIN o
  <2>1. Update(d, o)[k] = d[k] BY <1>3 DEF Update
  <2>. QED BY <1>1, <1>3, <2>1 DEF get
<1>4. CASE k \notin DOMAIN d /\ k \notin DOMAIN o BY <1>1, <1>4 DEF get
<1>. QED BY <1>2, <1>3, <1>4

\* Looking a key up among some entries.
LEMMA GetOnly ==
    ASSUME NEW d, NEW J, NEW k, NEW e
    PROVE  get(Only(d, J), k, e) = IF k \in J THEN get(d, k, e) ELSE e
<1>1. DOMAIN Only(d, J) = DOMAIN d \cap J BY DEF Only
<1>2. CASE k \in DOMAIN d /\ k \in J
  <2>1. Only(d, J)[k] = d[k] BY <1>2 DEF Only
  <2>. QED BY <1>1, <1>2, <2>1 DEF get
<1>3. CASE ~(k \in DOMAIN d /\ k \in J) BY <1>1, <1>3 DEF get
<1>. QED BY <1>2, <1>3

\* Looking a key up after one was popped.
LEMMA GetPop ==
    ASSUME NEW d, NEW j, NEW k, NEW e
    PROVE  get(pop(d, j), k, e) = IF k = j THEN e ELSE get(d, k, e)
<1>1. DOMAIN pop(d, j) = DOMAIN d \ {j} BY DEF pop
<1>2. CASE k \in DOMAIN d /\ k # j
  <2>1. pop(d, j)[k] = d[k] BY <1>2 DEF pop
  <2>. QED BY <1>1, <1>2, <2>1 DEF get
<1>3. CASE ~(k \in DOMAIN d /\ k # j) BY <1>1, <1>3 DEF get
<1>. QED BY <1>2, <1>3

\* A global setting hides the subproject's own default.
Hidden(st, cmd) == Root \notin DOMAIN st.options /\ Global \in DOMAIN machine \cup DOMAIN cmd

\* What a dictionary of settings for a subproject holds.
Selected(o, st, s, call, own, cmd) ==
    /\ o \in Dict(Sub)
    /\ \A e : get(o, s, e) =
          get(cmd, s, get(machine, s, get(call, s, get(st.pending_subproject_options, s,
              IF Hidden(st, cmd) THEN e ELSE get(own, s, e)))))
    /\ \A t \in Sub \ {s} : \A e : get(o, t, e) = get(Update(own, call), t, e)

\* The dictionary that initialize_from_subproject_call() computes, entry by
\* entry: the sources in the documented order, and no other subproject's
\* entry but those of the two default_options.
LEMMA SubprojectOptionsAre ==
    ASSUME NEW st \in Store, NEW s \in Sub, NEW call \in Dict(Sub), NEW own \in Dict(Sub),
           NEW cmd \in Dict(UserKey), machine \in Dict(UserKey)
    PROVE  Selected(SubprojectOptions(st, s, call, own, cmd), st, s, call, own, cmd)
<1>. DEFINE toplevel == IF Root \in DOMAIN st.options THEN {} ELSE {Global}
            global == toplevel \cap (DOMAIN machine \cup DOMAIN cmd)
            o1 == IF global = {} THEN own ELSE pop(own, s)
            o2 == Update(o1, Only(st.pending_subproject_options, {s}))
            o3 == Update(o2, call)
            o4 == Update(o3, Only(machine, {s}))
            o5 == Update(o4, Only(cmd, {s}))
<1>1. o5 = SubprojectOptions(st, s, call, own, cmd) BY DEF SubprojectOptions
<1>2. global = {} <=> ~Hidden(st, cmd) BY DEF Hidden
<1>3. {s} \subseteq Sub OBVIOUS
<1>4. o5 \in Dict(Sub)
  <2>1. o1 \in Dict(Sub) BY popDict
  <2>2. Only(st.pending_subproject_options, {s}) \in Dict(Sub) BY StoreType, OnlyDict
  <2>3. Only(machine, {s}) \in Dict({s}) /\ Only(cmd, {s}) \in Dict({s}) BY OnlyDict
  <2>4. Only(machine, {s}) \in Dict(Sub) /\ Only(cmd, {s}) \in Dict(Sub) BY <1>3, <2>3, DictGrows
  <2>. HIDE DEF o1
  <2>5. o2 \in Dict(Sub) BY <2>1, <2>2, UpdateDict
  <2>. HIDE DEF o2
  <2>6. o3 \in Dict(Sub) BY <2>5, UpdateDict
  <2>. HIDE DEF o3
  <2>7. o4 \in Dict(Sub) BY <2>4, <2>6, UpdateDict
  <2>. HIDE DEF o4
  <2>. QED BY <2>4, <2>7, UpdateDict
<1>5. \A t, e : get(o5, t, e) =
         get(Only(cmd, {s}), t, get(Only(machine, {s}), t, get(call, t,
             get(Only(st.pending_subproject_options, {s}), t, get(o1, t, e)))))
  <2>. TAKE t, e
  <2>1. get(o2, t, e) = get(Only(st.pending_subproject_options, {s}), t, get(o1, t, e)) BY GetUpdate
  <2>2. get(o3, t, e) = get(call, t, get(o2, t, e)) BY GetUpdate
  <2>3. get(o4, t, e) = get(Only(machine, {s}), t, get(o3, t, e)) BY GetUpdate
  <2>4. get(o5, t, e) = get(Only(cmd, {s}), t, get(o4, t, e)) BY GetUpdate
  <2>. HIDE DEF o1, o2, o3, o4, o5
  <2>. QED BY <2>1, <2>2, <2>3, <2>4
<1>6. \A e : get(o1, s, e) = IF Hidden(st, cmd) THEN e ELSE get(own, s, e)
  <2>. TAKE e
  <2>1. CASE Hidden(st, cmd)
    <3>1. o1 = pop(own, s) BY <1>2, <2>1
    <3>. HIDE DEF o1
    <3>. QED BY <2>1, <3>1, GetPop
  <2>2. CASE ~Hidden(st, cmd)
    <3>1. o1 = own BY <1>2, <2>2
    <3>. QED BY <2>2, <3>1
  <2>. QED BY <2>1, <2>2
<1>7. \A t \in Sub \ {s} : \A e : get(o1, t, e) = get(own, t, e)
  <2>. TAKE t \in Sub \ {s}
  <2>. TAKE e
  <2>1. CASE global = {} BY <2>1
  <2>2. CASE global # {}
    <3>1. o1 = pop(own, s) BY <2>2
    <3>. HIDE DEF o1
    <3>. QED BY <3>1, GetPop
  <2>. QED BY <2>1, <2>2
<1>. HIDE DEF o1, o5
<1>8. ASSUME NEW e
      PROVE  get(o5, s, e) = get(cmd, s, get(machine, s, get(call, s, get(st.pending_subproject_options, s,
                     IF Hidden(st, cmd) THEN e ELSE get(own, s, e)))))
  <2>1. \A x : get(Only(cmd, {s}), s, x) = get(cmd, s, x) BY GetOnly
  <2>2. \A x : get(Only(machine, {s}), s, x) = get(machine, s, x) BY GetOnly
  <2>3. \A x : get(Only(st.pending_subproject_options, {s}), s, x) = get(st.pending_subproject_options, s, x) BY GetOnly
  <2>. QED BY <1>5, <1>6, <2>1, <2>2, <2>3
<1>9. ASSUME NEW t \in Sub \ {s}, NEW e PROVE get(o5, t, e) = get(Update(own, call), t, e)
  <2>1. \A x : get(Only(cmd, {s}), t, x) = x BY GetOnly
  <2>2. \A x : get(Only(machine, {s}), t, x) = x BY GetOnly
  <2>3. \A x : get(Only(st.pending_subproject_options, {s}), t, x) = x BY GetOnly
  <2>4. get(Update(own, call), t, e) = get(call, t, get(own, t, e)) BY GetUpdate
  <2>. QED BY <1>5, <1>7, <2>1, <2>2, <2>3, <2>4
<1>. QED BY <1>1, <1>4, <1>8, <1>9 DEF Selected


\* The subproject's setting has reached the option, or waits for it.
SetTo(st, r, s, v) ==
    IF s \in DOMAIN st.options
    THEN r.options[s].value = v /\ ~r.options[s].yielding /\ r.augments = st.augments
    ELSE /\ kind # "project" /\ r.options = st.options
         /\ IF has_option(st, s)
            THEN s \in DOMAIN r.augments /\ r.augments[s] = v /\ s \notin DOMAIN r.pending_options
            ELSE r.augments = st.augments /\ s \in DOMAIN r.pending_options /\ r.pending_options[s] = v

\* What the merge of a subproject's settings does to the store.
InitResult(st, r, s, options, keys) ==
    /\ WF(r) /\ SameDecls(st, r) /\ OtherKeys(st, r, s)
    /\ r.subprojects = IF r.ok = TRUE THEN st.subprojects \cup {s} ELSE st.subprojects
    /\ r.ok = TRUE /\ s \notin DOMAIN st.augments =>
          IF s \in DOMAIN options THEN SetTo(st, r, s, options[s])
          ELSE r.options = st.options /\ r.augments = st.augments /\ r.pending_options = st.pending_options
    /\ \A t \in Sub \ (st.subprojects \cup {s}) :
          get(r.pending_subproject_options, t, Nothing) =
             IF t \in keys THEN options[t] ELSE get(st.pending_subproject_options, t, Nothing)

\* initialize_from_subproject_call() changes entries of its subproject only,
\* and when it raises the subproject is not noted as configured.
LEMMA InitSub ==
    ASSUME NEW st, WF(st), st.ok = TRUE, kind \in Kind, NEW s \in Sub, NEW options \in Dict(Sub),
           NEW keys \in Merged(st, s, options)
    PROVE  InitResult(st, initialize_from_subproject_call(st, s, options, keys), s, options, keys)
<1>. DEFINE raised == keys \cap Raising(st, s, options)
            rest == keys \ (raised \cup {s})
            processed == {t \in rest \cap st.subprojects : get_option_and_value_for(st, t) # options[t]}
            others == Only(options, rest \ processed)
            wait == IF s \in keys THEN pop(st.pending_subproject_options, s) ELSE st.pending_subproject_options
            x == Update(wait, others)
            y == IF s \in keys THEN pop(st.pending_options, s) ELSE st.pending_options
            merged == [st EXCEPT !.pending_subproject_options = x, !.pending_options = y]
            final == IF s \in keys \ DOMAIN st.augments THEN set_from(merged, options, s, TRUE) ELSE merged
            more == final.subprojects \cup {s}
            r == IF raised # {} THEN Fail(final) ELSE [final EXCEPT !.subprojects = more]
<1>0. st \in Store /\ KindOK(st) /\ LiveOK(st) BY DEF WF
<1>1. keys \subseteq DOMAIN options /\ (raised = {} => keys = DOMAIN options) BY DEF Merged
<1>2. DOMAIN options \subseteq Sub /\ \A t \in DOMAIN options : options[t] \in Value BY DictDef
<1>3. s \in UserKey /\ s \in Key /\ s # Global /\ s # Root BY KeysAssumption DEF UserKey, Key, Project
<1>4. x \in Dict(Sub)
  <2>1. wait \in Dict(Sub) BY <1>0, StoreType, popDict
  <2>2. others \in Dict(Sub) BY OnlyDict
  <2>. HIDE DEF wait, others
  <2>. QED BY <2>1, <2>2, UpdateDict
<1>5. y \in Dict(UserKey) BY <1>0, StoreType, popDict
<1>6. /\ DOMAIN y \subseteq DOMAIN st.pending_options
      /\ \A k \in DOMAIN st.pending_options \ {s} : k \in DOMAIN y /\ y[k] = st.pending_options[k]
      /\ s \in keys => s \notin DOMAIN y
      /\ s \notin keys => y = st.pending_options
  BY DEF pop
<1>7. \A t \in Sub \ (st.subprojects \cup {s}) :
         get(x, t, Nothing) = IF t \in keys THEN options[t] ELSE get(st.pending_subproject_options, t, Nothing)
  <2>. TAKE t \in Sub \ (st.subprojects \cup {s})
  <2>1. get(wait, t, Nothing) = get(st.pending_subproject_options, t, Nothing)
    <3>1. CASE s \in keys
      <4>1. wait = pop(st.pending_subproject_options, s) BY <3>1
      <4>. HIDE DEF wait
      <4>. QED BY <4>1, GetPop
    <3>2. CASE s \notin keys BY <3>2
    <3>. QED BY <3>1, <3>2
  <2>2. t \in rest \ processed <=> t \in keys BY Zenon DEF Raising
  <2>3. \A e : get(others, t, e) = IF t \in keys THEN get(options, t, e) ELSE e BY <2>2, GetOnly
  <2>4. \A e : t \in keys => get(options, t, e) = options[t] BY <1>1 DEF get
  <2>5. get(x, t, Nothing) = get(others, t, get(wait, t, Nothing))
    <3>1. x = Update(wait, others) OBVIOUS
    <3>. HIDE DEF x, others, wait
    <3>. QED BY <3>1, GetUpdate
  <2>. HIDE DEF x, others, wait
  <2>. QED BY <2>1, <2>3, <2>4, <2>5
<1>8. r = initialize_from_subproject_call(st, s, options, keys)
  BY DEF initialize_from_subproject_call
<1>9. s \in keys \ DOMAIN st.augments =>
        (s \in raised <=> ~set_user_option(st, s, options[s], TRUE).ok)
  BY <1>1, Zenon DEF Raising, set_from
<1>. HIDE DEF x, y, raised
<1>10. /\ merged \in Store /\ merged.options = st.options /\ merged.augments = st.augments
       /\ merged.pending_options = y
       /\ merged.pending_subproject_options = x /\ merged.subprojects = st.subprojects
       /\ merged.options_files = st.options_files /\ merged.ok = st.ok
  <2>1. merged \in Store BY <1>0, <1>4, <1>5, Zenon DEF Store
  <2>. QED BY <1>0, <2>1 DEF Store
<1>. HIDE DEF merged
<1>11. WF(merged) BY <1>0, <1>6, <1>10, Zenon DEF WF, KindOK, LiveOK
<1>12. SameDecls(st, merged) /\ Frame(st, merged, s)
  BY <1>0, <1>6, <1>10, StoreType, Zenon DEF SameDecls, Frame, OtherKeys
<1>13. has_option(merged, s) <=> has_option(st, s) BY <1>10 DEF has_option
<1>14. Target(s) = s BY <1>3 DEF Target
<1>15. /\ WF(final) /\ SameDecls(st, final) /\ Frame(st, final, s)
       /\ final.pending_subproject_options = x
  <2>1. CASE s \in keys \ DOMAIN st.augments
    <3>1. UserResult(merged, final, s, options[s], TRUE)
      BY <1>1, <1>3, <1>11, <2>1, SetFrom, Zenon
    <3>. HIDE DEF final
    <3>2. /\ WF(final) /\ SameDecls(merged, final) /\ Frame(merged, final, s)
          /\ final.pending_subproject_options = x
      BY <1>10, <1>14, <3>1, Zenon DEF UserResult
    <3>3. Frame(st, final, s) BY <1>12, <3>2, FrameTrans
    <3>. QED BY <1>12, <3>2, <3>3 DEF SameDecls
  <2>2. CASE ~(s \in keys \ DOMAIN st.augments)
    <3>1. final = merged BY <2>2
    <3>. QED BY <1>10, <1>11, <1>12, <3>1, Zenon
  <2>. QED BY <2>1, <2>2, Zenon
<1>16. raised = {} => final.ok = TRUE
  <2>1. CASE s \in keys \ DOMAIN st.augments /\ raised = {}
    <3>1. final = set_user_option(merged, s, options[s], TRUE) BY <1>1, <2>1 DEF set_from
    <3>2. options[s] \in Value BY <1>1, <1>2, <2>1
    <3>3. set_user_option(merged, s, options[s], TRUE).ok = ~UserRaises(merged, s, options[s])
      BY <1>10, <1>11, <3>2, SubprojectRaises, Zenon
    <3>4. set_user_option(st, s, options[s], TRUE).ok = ~UserRaises(st, s, options[s])
      BY <3>2, SubprojectRaises, Zenon
    <3>5. UserRaises(merged, s, options[s]) <=> UserRaises(st, s, options[s])
      BY <1>10, <1>13 DEF UserRaises
    <3>6. set_user_option(st, s, options[s], TRUE).ok BY <1>9, <2>1, Zenon
    <3>. HIDE DEF final
    <3>7. final.ok BY <3>1, <3>3, <3>4, <3>5, <3>6, Zenon
    <3>. QED BY <1>15, <3>7, StoreType DEF WF
  <2>2. CASE ~(s \in keys \ DOMAIN st.augments)
    <3>1. final = merged BY <2>2
    <3>. QED BY <1>10, <3>1, Zenon
  <2>. QED BY <2>1, <2>2, Zenon
<1>17. raised = {} /\ s \notin DOMAIN st.augments =>
          IF s \in DOMAIN options THEN SetTo(st, final, s, options[s])
          ELSE final.options = st.options /\ final.augments = st.augments /\ final.pending_options = st.pending_options
  <2>1. CASE raised = {} /\ s \notin DOMAIN st.augments /\ s \in DOMAIN options
    <3>1. s \in keys \ DOMAIN st.augments BY <1>1, <2>1
    <3>2. UserResult(merged, final, s, options[s], TRUE)
      BY <1>1, <1>3, <1>11, <3>1, SetFrom, Zenon
    <3>3. final.ok BY <1>16, <2>1, Zenon
    <3>. HIDE DEF final
    <3>4. s \notin DOMAIN merged.pending_options BY <1>6, <1>10, <3>1
    <3>. QED BY <1>10, <1>13, <1>14, <2>1, <3>2, <3>3, <3>4, Zenon DEF UserResult, SetTo
  <2>2. CASE raised = {} /\ s \notin DOMAIN st.augments /\ s \notin DOMAIN options
    <3>1. s \notin keys BY <1>1, <2>2
    <3>2. final = merged BY <3>1
    <3>. QED BY <1>6, <1>10, <2>2, <3>1, <3>2, Zenon
  <2>. QED BY <2>1, <2>2, Zenon
<1>. HIDE DEF final
<1>18. CASE raised # {}
  <2>1. r = Fail(final) BY <1>18
  <2>. HIDE DEF r
  <2>2. /\ WF(r) /\ Frame(final, r, s) /\ SameDecls(final, r) /\ r.ok # TRUE
        /\ r.pending_subproject_options = final.pending_subproject_options
    BY <1>15, <2>1, FailWF, Zenon
  <2>3. Frame(st, r, s) BY <1>15, <2>2, FrameTrans
  <2>4. SameDecls(st, r) BY <1>15, <2>2 DEF SameDecls
  <2>. QED BY <1>7, <1>8, <1>15, <2>2, <2>3, <2>4, Zenon DEF InitResult, Frame
<1>19. CASE raised = {}
  <2>1. r = [final EXCEPT !.subprojects = more] BY <1>19
  <2>2. final \in Store /\ KindOK(final) /\ LiveOK(final) BY <1>15 DEF WF
  <2>3. more = st.subprojects \cup {s} BY <1>15 DEF Frame
  <2>. HIDE DEF r, more
  <2>a. more \in SUBSET Sub BY <1>0, <2>3, StoreType
  <2>4. /\ r \in Store /\ r.options = final.options /\ r.augments = final.augments
        /\ r.pending_options = final.pending_options
        /\ r.pending_subproject_options = final.pending_subproject_options /\ r.subprojects = more
        /\ r.options_files = final.options_files /\ r.ok = final.ok
    BY <2>1, <2>2, <2>a, PutSubprojects
  <2>5. WF(r) BY <2>2, <2>4 DEF WF, KindOK, LiveOK
  <2>6. SameDecls(st, r) BY <1>15, <2>4, Zenon DEF SameDecls
  <2>7. OtherKeys(st, r, s) BY <1>15, <2>4, Zenon DEF Frame, OtherKeys
  <2>8. s \notin DOMAIN st.augments =>
          IF s \in DOMAIN options THEN SetTo(st, r, s, options[s])
          ELSE r.options = st.options /\ r.augments = st.augments /\ r.pending_options = st.pending_options
    BY <1>17, <1>19, <2>4, Zenon DEF SetTo
  <2>. QED BY <1>7, <1>8, <1>15, <1>16, <1>19, <2>3, <2>4, <2>5, <2>6, <2>7, <2>8, Zenon DEF InitResult
<1>. QED BY <1>18, <1>19

----------------------------------------------------------------------------
(* Runs *)

\* The types of a run's fields.
LEMMA RunType ==
    ASSUME NEW r \in Run
    PROVE  /\ r.store \in Store /\ r.cmd \in Dict(UserKey) /\ r.given \in Given
           /\ r.given.project \in Dict({Global}) /\ r.given.parent \in Dict(Sub) /\ r.given.call \in Dict(Sub)
           /\ r.given.own \in Dict(Sub) /\ r.given.dropped \in SUBSET Sub
<1>1. r.store \in Store /\ r.cmd \in Dict(UserKey) /\ r.given \in Given BY DEF Run
<1>. QED BY <1>1, Zenon DEF Given

\* The command's step with a new store.
LEMMA RunStore ==
    ASSUME NEW r \in Run, NEW st \in Store
    PROVE  LET n == [r EXCEPT !.store = st] IN
           n \in Run /\ n.store = st /\ n.cmd = r.cmd /\ n.given = r.given
<1>1. [r EXCEPT !.store = st] \in Run BY Zenon DEF Run
<1>. QED BY <1>1 DEF Run

\* And with a new record of what the build files gave.
NewRun(r, st, g) == [r EXCEPT !.store = st, !.given = g]

\* Its fields.
LEMMA RunGiven ==
    ASSUME NEW r \in Run, NEW st \in Store, NEW g \in Given
    PROVE  LET n == NewRun(r, st, g) IN
           n \in Run /\ n.store = st /\ n.cmd = r.cmd /\ n.given = g
<1>1. NewRun(r, st, g) \in Run BY Zenon DEF Run, NewRun
<1>. QED BY <1>1 DEF Run, NewRun

\* And with a new command line.
NewCommand(r, st, c, g) == [r EXCEPT !.store = st, !.cmd = c, !.given = g]

\* Its fields.
LEMMA RunCommand ==
    ASSUME NEW r \in Run, NEW st \in Store, NEW c \in Dict(UserKey), NEW g \in Given
    PROVE  LET n == NewCommand(r, st, c, g) IN
           n \in Run /\ n.store = st /\ n.cmd = c /\ n.given = g
<1>1. NewCommand(r, st, c, g) \in Run BY Zenon DEF Run, NewCommand
<1>. QED BY <1>1 DEF Run, NewCommand

\* Settings dropped by the user.
LEMMA GivenDropped ==
    ASSUME NEW g \in Given, NEW D \in SUBSET Sub
    PROVE  LET n == [g EXCEPT !.dropped = D] IN
           /\ n \in Given /\ n.project = g.project /\ n.parent = g.parent /\ n.call = g.call
           /\ n.own = g.own /\ n.dropped = D
<1>1. [g EXCEPT !.dropped = D] \in Given BY Zenon DEF Given
<1>. QED BY <1>1 DEF Given

\* The default_options of the toplevel project.
TopGiven(g, x, y) == [g EXCEPT !.project = x, !.parent = y]

\* Its fields.
LEMMA GivenTop ==
    ASSUME NEW g \in Given, NEW x \in Dict({Global}), NEW y \in Dict(Sub)
    PROVE  LET n == TopGiven(g, x, y) IN
           /\ n \in Given /\ n.project = x /\ n.parent = y /\ n.call = g.call
           /\ n.own = g.own /\ n.dropped = g.dropped
<1>1. TopGiven(g, x, y) \in Given BY Zenon DEF Given, TopGiven
<1>. QED BY <1>1 DEF Given, TopGiven

\* The default_options of subproject() and of the subproject.
SubGiven(g, x, y, z) == [g EXCEPT !.call = x, !.own = y, !.parent = z]

\* Its fields.
LEMMA GivenSub ==
    ASSUME NEW g \in Given, NEW x \in Dict(Sub), NEW y \in Dict(Sub), NEW z \in Dict(Sub)
    PROVE  LET n == SubGiven(g, x, y, z) IN
           /\ n \in Given /\ n.project = g.project /\ n.parent = z /\ n.call = x
           /\ n.own = y /\ n.dropped = g.dropped
<1>1. SubGiven(g, x, y, z) \in Given BY Zenon DEF Given, SubGiven
<1>. QED BY <1>1 DEF Given, SubGiven

\* A subproject that raised is disabled, and the store is used as it is.
LEMMA Disabled ==
    ASSUME NEW n \in Run
    PROVE  LET m == [n EXCEPT !.store.ok = TRUE] IN
           /\ m \in Run /\ m.cmd = n.cmd /\ m.given = n.given
           /\ m.store.options = n.store.options /\ m.store.augments = n.store.augments
           /\ m.store.pending_options = n.store.pending_options
           /\ m.store.pending_subproject_options = n.store.pending_subproject_options
           /\ m.store.subprojects = n.store.subprojects
           /\ m.store.options_files = n.store.options_files /\ m.store.ok = TRUE
<1>. DEFINE st == [n.store EXCEPT !.ok = TRUE]
            m == [n EXCEPT !.store = st]
<1>1. [n EXCEPT !.store.ok = TRUE] = m OBVIOUS
<1>2. n.store \in Store BY RunType
<1>3. /\ st \in Store /\ st.options = n.store.options /\ st.augments = n.store.augments
      /\ st.pending_options = n.store.pending_options
      /\ st.pending_subproject_options = n.store.pending_subproject_options
      /\ st.subprojects = n.store.subprojects /\ st.options_files = n.store.options_files /\ st.ok = TRUE
  BY <1>2, PutOk, Zenon
<1>. HIDE DEF st
<1>4. m \in Run /\ m.store = st /\ m.cmd = n.cmd /\ m.given = n.given BY <1>3, RunStore
<1>. HIDE DEF m
<1>. QED BY <1>1, <1>3, <1>4, Zenon

\* The same declarations agree with the same files.
LEMMA AgreeSame ==
    ASSUME NEW st, NEW r, Agree(st), SameDecls(st, r)
    PROVE  Agree(r)
BY DEF Agree, SameDecls

\* A new store keeps what was dropped, if it keeps its other entries.
LEMMA DroppedKept ==
    ASSUME NEW r, NEW n, r \in Run, DroppedOK(r), NEW key,
           kind # "project" => /\ OtherKeys(r.store, n.store, key) /\ r.store.subprojects \subseteq n.store.subprojects
                               /\ n.given.dropped \subseteq r.given.dropped /\ key \notin n.given.dropped
    PROVE  DroppedOK(n)
<1>1. r.given.dropped \subseteq Key BY RunType DEF Key, Project
<1>. QED BY <1>1 DEF DroppedOK, OtherKeys

=============================================================================
