---------------------- MODULE OptionStoreRuns_proof ----------------------
(***************************************************************************)
(* Proofs about OptionStore: every action keeps the invariant of           *)
(* OptionStore_proof, from which follow the store's type, what             *)
(* `meson configure -U` leaves, the documented order of the sources of a   *)
(* value, and that evaluating the build files again changes no value.      *)
(***************************************************************************)
EXTENDS OptionStore_proof

----------------------------------------------------------------------------
(* Each command keeps the invariant *)

\* Nothing but the run changes: its soundness is that of the new record.
LEMMA RunKept ==
    ASSUME kind' = kind, file' = file, edited' = edited, RunOK(run')
    PROVE  RunOK(run)'
BY Zenon DEF RunOK, SoundRun, WF, KindOK, LiveOK, DroppedOK, Agree, Decl_of

\* The same for the saved record.
LEMMA SavedKept ==
    ASSUME kind' = kind, file' = file, edited' = edited, RunOK(saved')
    PROVE  RunOK(saved)'
BY Zenon DEF RunOK, SoundRun, WF, KindOK, LiveOK, DroppedOK, Agree, Decl_of

\* And for the first run's body.
LEMMA BodyKept ==
    ASSUME kind' = kind, file' = file, machine' = machine, Body(run', called')
    PROVE  Body(run, called)'
<1>1. RootDoc(run)' = RootDoc(run') BY DEF RootDoc, TopDefault
<1>2. ASSUME NEW s PROVE Doc(run, s)' = Doc(run', s)
  BY <1>1, Zenon DEF Doc, SharedDoc, OwnDoc, Yields
<1>3. TopOK(run)' BY <1>1, Zenon DEF Body, TopOK
<1>4. ASSUME NEW s \in Sub, ConfiguredOK(run', s) PROVE ConfiguredOK(run, s)'
  BY <1>1, <1>2, <1>4, Zenon DEF ConfiguredOK
<1>5. ASSUME NEW s \in Sub, UntouchedOK(run', s) PROVE UntouchedOK(run, s)'
  BY <1>5, Zenon DEF UntouchedOK
<1>. QED BY <1>3, <1>4, <1>5, Zenon DEF Body

\* What a command's step must give for the invariant to hold after it.
StepOK(n, next, done) ==
    /\ RunOK(n)
    /\ next = "body" => Root \in DOMAIN n.store.options_files
    /\ ~configured => next = "body" /\ Body(n, done)

\* A command that goes on, or raises.
LEMMA Continued ==
    ASSUME IInv, UNCHANGED <<kind, file, saved, configured, machine, edited>>,
           NEW n, NEW next \in {"project", "body"}, NEW done \in SUBSET Project,
           Continue(n, next, done), n.store.ok \in BOOLEAN, n.store.ok = TRUE => StepOK(n, next, done)
    PROVE  IInv'
<1>1. FileOK' BY DEF IInv, Basic, FileOK
<1>2. RunOK(saved) BY Zenon DEF IInv, Basic
<1>3. RunOK(saved)'
  <2>1. RunOK(saved') BY <1>2
  <2>. QED BY <2>1, SavedKept
<1>4. CASE n.store.ok = TRUE
  <2>1. StepOK(n, next, done) /\ run' = n /\ phase' = next /\ called' = done BY <1>4 DEF Continue
  <2>2. RunOK(run)'
    <3>1. RunOK(run') BY <2>1 DEF StepOK
    <3>. QED BY <3>1, RunKept
  <2>3. ~configured => Body(run, called)'
    <3>1. ~configured => Body(run', called') BY <2>1 DEF StepOK
    <3>. QED BY <3>1, BodyKept
  <2>4. Basic' BY <1>1, <1>3, <2>1, <2>2 DEF IInv, Basic, StepOK
  <2>5. FirstRun' BY <2>1, <2>3, Zenon DEF IInv, FirstRun, StepOK
  <2>. QED BY <2>4, <2>5 DEF IInv
<1>5. CASE n.store.ok # TRUE
  <2>1. run' = saved /\ phase' = "idle" /\ called' = {} BY <1>5, Zenon DEF Continue
  <2>2. RunOK(run)'
    <3>1. RunOK(run') BY <1>2, <2>1
    <3>. QED BY <3>1, RunKept
  <2>3. Basic' BY <1>1, <1>3, <2>1, <2>2, Zenon DEF IInv, Basic
  <2>4. FirstRun' BY <2>1 DEF IInv, FirstRun
  <2>. QED BY <2>3, <2>4 DEF IInv
<1>. QED BY <1>4, <1>5, Zenon


\* A store without settings is well formed.
LEMMA BlankOK ==
    ASSUME kind \in Kind
    PROVE  /\ WF(OptionStore) /\ OptionStore.ok = TRUE /\ NoGiven \in Given /\ Blank \in Run
           /\ Blank.store = OptionStore /\ Blank.cmd = None /\ Blank.given = NoGiven
           /\ OptionStore.augments = None /\ OptionStore.pending_options = None
           /\ OptionStore.pending_subproject_options = None /\ OptionStore.subprojects = {}
           /\ OptionStore.options_files = None
           /\ OptionStore.options = IF kind \in {"builtin", "readonly"} THEN [k \in {Global} |-> Builtin] ELSE None
           /\ NoGiven.dropped = {} /\ Agree(OptionStore)
<1>. DEFINE t == IF kind \in {"builtin", "readonly"} THEN [k \in {Global} |-> Builtin] ELSE None
<1>1. t \in Table
  <2>1. Builtin \in Option BY BuiltinType
  <2>2. [k \in {Global} |-> Builtin] \in Table
    <3>. DEFINE b == [k \in {Global} |-> Builtin]
    <3>1. DOMAIN b \subseteq Key /\ b \in [DOMAIN b -> Option] BY <2>1 DEF Key
    <3>. HIDE DEF b
    <3>2. b \in Table BY <3>1, TableDef
    <3>. QED BY <3>2 DEF b
  <2>3. None \in Table BY TableDef, Zenon DEF None
  <2>. QED BY <2>2, <2>3
<1>2. None \in Seen BY SeenDef, Zenon DEF None
<1>3. \A K : None \in Dict(K) BY NoneDict
<1>4. DOMAIN None = {} BY NoneDict
<1>5. OptionStore = [options |-> t, augments |-> None, pending_options |-> None,
                     pending_subproject_options |-> None, subprojects |-> {}, options_files |-> None, ok |-> TRUE]
  BY DEF OptionStore
<1>6. \A k \in DOMAIN t : k = Global /\ t[k] = Builtin BY <1>4
<1>7. kind \in {"builtin", "readonly"} <=> Global \in DOMAIN t BY <1>4
<1>. HIDE DEF t
<1>8. OptionStore \in Store BY <1>1, <1>2, <1>3, <1>5 DEF Store
<1>9. /\ OptionStore.options = t /\ OptionStore.augments = None /\ OptionStore.pending_options = None
      /\ OptionStore.pending_subproject_options = None /\ OptionStore.subprojects = {}
      /\ OptionStore.options_files = None /\ OptionStore.ok = TRUE
  BY <1>5
<1>10. ~Builtin.yielding /\ Builtin.parent = NoParent /\ Builtin.choices = Values
  BY DEF Builtin, UserOption, Values
<1>11. NoParent # Live BY ValuesAssumption
<1>12. DOMAIN t \subseteq {Global} BY <1>6
<1>13. KindOK(OptionStore)
  <2>1. kind = "project" => Global \notin DOMAIN t BY <1>7
  <2>2. kind \in {"builtin", "readonly"} => Global \in DOMAIN t BY <1>7
  <2>3. \A k \in DOMAIN t : ~t[k].yielding /\ t[k].parent = NoParent /\ t[k].choices = Values BY <1>6, <1>10
  <2>. QED BY <1>4, <1>9, <1>12, <2>1, <2>2, <2>3 DEF KindOK
<1>14. LiveOK(OptionStore) BY <1>6, <1>9, <1>10, <1>11 DEF LiveOK
<1>15. NoGiven \in Given BY <1>3 DEF NoGiven, Given
<1>16. Blank \in Run /\ Blank.store = OptionStore /\ Blank.cmd = None /\ Blank.given = NoGiven
  BY <1>3, <1>8, <1>15 DEF Blank, Run
<1>17. Agree(OptionStore)
  <2>1. kind = "project" => DOMAIN t = {} BY <1>6, <1>7
  <2>. QED BY <1>4, <1>9, <2>1 DEF Agree
<1>18. NoGiven.dropped = {} BY DEF NoGiven
<1>. QED BY <1>8, <1>9, <1>13, <1>14, <1>15, <1>16, <1>17, <1>18 DEF WF, t

\* The states before the first setup satisfy the invariant.
LEMMA InitIInv == Init => IInv
<1>. SUFFICES ASSUME Init PROVE IInv OBVIOUS
<1>. USE DEF Init
<1>1. FileOK
  <2>1. NoFile \in Decls \cup {Nothing, NoFile} OBVIOUS
  <2>2. CASE kind = "project"
    <3>1. file \in [Project -> Decls \cup {NoFile}] BY <2>2, FilesAssumption
    <3>2. Nothing \notin Decls \cup {NoFile} BY FilesAssumption
    <3>. QED BY <2>2, <3>1, <3>2 DEF FileOK
  <2>3. CASE kind # "project"
    <3>1. file \in [Project -> {NoFile}] BY <2>3
    <3>2. NoFile # Nothing BY FilesAssumption
    <3>. QED BY <3>1, <3>2 DEF FileOK
  <2>. QED BY <2>2, <2>3
<1>2. RunOK(Blank)
  <2>1. DroppedOK(Blank) BY BlankOK DEF DroppedOK
  <2>. QED BY <2>1, BlankOK, Zenon DEF RunOK, SoundRun
<1>3. machine \in Dict(UserKey) BY NoneDict
<1>4. Basic BY <1>1, <1>2, <1>3, Zenon DEF Basic
<1>5. FirstRun BY DEF FirstRun
<1>. QED BY <1>4, <1>5 DEF IInv

\* meson setup
LEMMA SetupIInv == IInv /\ Setup => IInv'
<1>. SUFFICES ASSUME IInv, Setup PROVE IInv' OBVIOUS
<1>0. kind \in Kind /\ RunOK(saved) /\ FileOK BY DEF IInv, Basic
<1>1. PICK d \in Dict(UserKey), m \in Dict(UserKey) : run' = [Blank EXCEPT !.cmd = d] /\ machine' = m
  BY DEF Setup
<1>2. /\ UNCHANGED <<kind, file, saved, configured, edited>> /\ ~configured
      /\ phase' = "project" /\ called' = {}
  BY DEF Setup
<1>3. run' \in Run /\ run'.store = OptionStore /\ run'.given = NoGiven
  <2>1. [Blank EXCEPT !.cmd = d] \in Run BY <1>0, BlankOK, Zenon DEF Run
  <2>2. Blank \in Run /\ Blank.store = OptionStore /\ Blank.given = NoGiven BY <1>0, BlankOK
  <2>. QED BY <1>1, <2>1, <2>2 DEF Run
<1>4. RunOK(run')
  <2>1. DroppedOK(run') BY <1>0, <1>3, BlankOK DEF DroppedOK
  <2>. QED BY <1>0, <1>3, <2>1, BlankOK, Zenon DEF RunOK, SoundRun
<1>5. RunOK(run)' BY <1>2, <1>4, RunKept
<1>6. RunOK(saved)'
  <2>1. RunOK(saved') BY <1>0, <1>2
  <2>. QED BY <1>2, <2>1, SavedKept
<1>7. FileOK' BY <1>0, <1>2 DEF FileOK
<1>8. Basic' BY <1>1, <1>2, <1>5, <1>6, <1>7 DEF IInv, Basic
<1>9. OptionStore' = OptionStore BY <1>2 DEF OptionStore
<1>10. NoGiven' = NoGiven BY DEF NoGiven
<1>11. FirstRun' BY <1>2, <1>3, <1>9, <1>10 DEF IInv, FirstRun
<1>. QED BY <1>8, <1>11 DEF IInv

\* meson setup --reconfigure
LEMMA ReconfigureIInv == IInv /\ Reconfigure => IInv'
<1>. SUFFICES ASSUME IInv, Reconfigure PROVE IInv' OBVIOUS
<1>0. /\ kind \in Kind /\ RunOK(saved) /\ FileOK /\ configured
      /\ saved \in Run /\ WF(saved.store) /\ DroppedOK(saved) /\ (~edited => Agree(saved.store))
  BY Zenon DEF IInv, Basic, Reconfigure, Command, RunOK, SoundRun
<1>1. UNCHANGED <<kind, file, saved, configured, machine, edited>> BY Zenon DEF Reconfigure
<1>2. CASE run' = saved /\ phase' = "project" /\ called' = {}
  <2>1. RunOK(run') /\ RunOK(saved') BY <1>0, <1>1, <1>2
  <2>2. RunOK(run)' BY <1>1, <2>1, RunKept
  <2>3. RunOK(saved)' BY <1>1, <2>1, SavedKept
  <2>4. FileOK' BY <1>0, <1>1 DEF FileOK
  <2>5. Basic' BY <1>1, <1>2, <2>2, <2>3, <2>4 DEF IInv, Basic
  <2>6. FirstRun' BY <1>0, <1>1 DEF FirstRun
  <2>. QED BY <2>5, <2>6 DEF IInv
<1>3. CASE \E key \in UserKey, v \in Value :
              Continue([saved EXCEPT !.store = set_from_configure_command(saved.store, key, v),
                                     !.cmd = With(saved.cmd, key, v),
                                     !.given = [saved.given EXCEPT !.dropped = @ \ {key}]], "project", {})
  <2>1. PICK key \in UserKey, v \in Value :
              Continue([saved EXCEPT !.store = set_from_configure_command(saved.store, key, v),
                                     !.cmd = With(saved.cmd, key, v),
                                     !.given = [saved.given EXCEPT !.dropped = @ \ {key}]], "project", {})
    BY <1>3, Zenon
  <2>. DEFINE st == set_from_configure_command(saved.store, key, v)
              c == With(saved.cmd, key, v)
              D == saved.given.dropped \ {key}
              g == [saved.given EXCEPT !.dropped = D]
              n == NewCommand(saved, st, c, g)
  <2>2. Continue(n, "project", {}) BY <2>1 DEF NewCommand
  <2>3. saved.cmd \in Dict(UserKey) /\ saved.given \in Given /\ saved.given.dropped \in SUBSET Sub
    BY <1>0, RunType
  <2>4. c \in Dict(UserKey) BY <2>3, WithDict
  <2>5. D \in SUBSET Sub BY <2>3
  <2>6. /\ WF(st) /\ SameDecls(saved.store, st) /\ st.subprojects = saved.store.subprojects
        /\ kind # "project" => Frame(saved.store, st, key)
    BY <1>0, ConfigureSet
  <2>7. D \subseteq saved.given.dropped /\ key \notin D OBVIOUS
  <2>. HIDE DEF st, c, D
  <2>8. g \in Given /\ g.dropped = D BY <2>3, <2>5, GivenDropped
  <2>. HIDE DEF g
  <2>9. n \in Run /\ n.store = st /\ n.cmd = c /\ n.given = g
    BY <1>0, <2>4, <2>6, <2>8, RunCommand DEF WF
  <2>. HIDE DEF n
  <2>10. DroppedOK(n)
    <3>1. kind # "project" => /\ OtherKeys(saved.store, n.store, key)
                              /\ saved.store.subprojects \subseteq n.store.subprojects
                              /\ n.given.dropped \subseteq saved.given.dropped /\ key \notin n.given.dropped
      BY <2>6, <2>7, <2>8, <2>9, Zenon DEF Frame
    <3>. QED BY <1>0, <3>1, DroppedKept, Zenon
  <2>11. ~edited => Agree(n.store) BY <1>0, <2>6, <2>9, AgreeSame
  <2>12. n.store.ok \in BOOLEAN BY <2>6, <2>9, StoreType, Zenon DEF WF
  <2>13. n.store.ok = TRUE => StepOK(n, "project", {})
    BY <1>0, <2>6, <2>9, <2>10, <2>11 DEF StepOK, RunOK, SoundRun
  <2>14. "project" \in {"project", "body"} /\ {} \in SUBSET Project OBVIOUS
  <2>. QED BY <1>1, <2>2, <2>12, <2>13, <2>14, Continued, Zenon
<1>. QED BY <1>2, <1>3, Zenon DEF Reconfigure


\* meson configure
LEMMA ConfigureIInv == IInv /\ Configure => IInv'
<1>. SUFFICES ASSUME IInv, Configure PROVE IInv' OBVIOUS
<1>0. /\ kind \in Kind /\ RunOK(saved) /\ FileOK /\ configured /\ phase = "idle"
      /\ Root \in DOMAIN saved.store.options_files
  BY DEF IInv, Basic, Configure, Command
<1>1. saved \in Run /\ WF(saved.store) /\ DroppedOK(saved) /\ (~edited => Agree(saved.store)) /\ saved.store.ok
  BY <1>0 DEF RunOK, SoundRun
<1>2. UNCHANGED <<kind, file, configured, machine, phase, called, edited>> /\ run' = saved' BY DEF Configure
<1>. DEFINE loaded == Conf(saved.store)
            set(key, v) == set_from_configure_command(loaded, key, v)
            kept(key, v) == loaded.ok /\ set(key, v).ok /\ dirty(loaded, key, v)
            drop(key, v) == IF v = Nothing
                            THEN saved.given.dropped \cup (({key} \cap loaded.subprojects) \ DOMAIN loaded.pending_options)
                            ELSE saved.given.dropped \ {key}
<1>3. PICK key \in UserKey, v \in Value \cup {Nothing} :
          saved' = IF ~set(key, v).ok THEN saved
                   ELSE [store |-> IF kept(key, v) THEN set(key, v) ELSE saved.store,
                         cmd |-> IF v = Nothing THEN pop(saved.cmd, key) ELSE With(saved.cmd, key, v),
                         given |-> [saved.given EXCEPT !.dropped = drop(key, v)]]
  BY Zenon DEF Configure
<1>. DEFINE s == set(key, v)
            st == IF kept(key, v) THEN s ELSE saved.store
            c == IF v = Nothing THEN pop(saved.cmd, key) ELSE With(saved.cmd, key, v)
            D == drop(key, v)
            g == [saved.given EXCEPT !.dropped = D]
            n == [store |-> st, cmd |-> c, given |-> g]
<1>4. saved' = IF ~s.ok THEN saved ELSE n BY <1>3
<1>5. /\ WF(loaded) /\ loaded.augments = saved.store.augments
      /\ loaded.pending_options = saved.store.pending_options
      /\ loaded.subprojects = saved.store.subprojects /\ Root \in DOMAIN loaded.options_files
      /\ (~edited /\ Agree(saved.store) => Agree(loaded))
      /\ kind # "project" => loaded.options = saved.store.options
  BY <1>0, <1>1, ConfWF
<1>6. loaded.subprojects \subseteq Sub /\ s.ok \in BOOLEAN /\ loaded.ok \in BOOLEAN
  <2>1. WF(s) BY <1>0, <1>5, ConfigureSet
  <2>. QED BY <1>5, <2>1, StoreType, Zenon DEF WF
<1>7. /\ D \subseteq Sub
      /\ v # Nothing => D \subseteq saved.given.dropped /\ key \notin D
      /\ v = Nothing => D \subseteq saved.given.dropped \cup
                                    (({key} \cap saved.store.subprojects) \ DOMAIN saved.store.pending_options)
  <2>1. saved.given.dropped \subseteq Sub BY <1>1, RunType, Zenon
  <2>. QED BY <1>5, <1>6, <2>1, Zenon
<1>8. v = Nothing /\ ~dirty(loaded, key, v) => key \notin DOMAIN loaded.augments BY Zenon DEF dirty
<1>9. /\ kept(key, v) => st = s
      /\ ~kept(key, v) => st = saved.store
      /\ s.ok /\ ~kept(key, v) => ~loaded.ok \/ ~dirty(loaded, key, v)
  OBVIOUS
<1>. HIDE DEF D, loaded
<1>10. /\ WF(s) /\ SameDecls(loaded, s) /\ (s.ok => loaded.ok) /\ s.subprojects = loaded.subprojects
       /\ kind # "project" => Frame(loaded, s, key)
       /\ kind # "project" /\ v = Nothing =>
             s.pending_options = loaded.pending_options /\ (s.ok /\ key \in Sub => key \notin DOMAIN s.augments)
  BY <1>0, <1>5, ConfigureSet
<1>. HIDE DEF s, kept
<1>11. WF(st) /\ Root \in DOMAIN st.options_files /\ (~edited => Agree(st))
  <2>1. CASE st = s
    <3>1. ~edited => Agree(s) BY <1>1, <1>5, <1>10, AgreeSame
    <3>. QED BY <1>5, <1>10, <2>1, <3>1 DEF SameDecls
  <2>2. CASE st = saved.store BY <1>0, <1>1, <2>2
  <2>. QED BY <1>9, <2>1, <2>2
<1>12. c \in Dict(UserKey)
  <2>1. saved.cmd \in Dict(UserKey) BY <1>1, RunType
  <2>2. v # Nothing => v \in Value OBVIOUS
  <2>. QED BY <2>1, <2>2, popDict, WithDict
<1>13. g \in Given /\ g.dropped = D
  <2>1. saved.given \in Given BY <1>1, RunType
  <2>. QED BY <1>7, <2>1, GivenDropped
<1>14. st \in Store BY <1>11 DEF WF
<1>16. s.ok => \A k \in D : kind # "project" =>
          k \in st.subprojects /\ k \notin DOMAIN st.augments /\ k \notin DOMAIN st.pending_options
  <2>. SUFFICES ASSUME s.ok, NEW k \in D, kind # "project"
                PROVE  k \in st.subprojects /\ k \notin DOMAIN st.augments /\ k \notin DOMAIN st.pending_options
    OBVIOUS
  <2>0. k \in Key BY <1>7 DEF Key, Project
  <2>1. k \in saved.given.dropped => /\ k \in saved.store.subprojects /\ k \notin DOMAIN saved.store.augments
                                     /\ k \notin DOMAIN saved.store.pending_options
    BY <1>1 DEF DroppedOK
  <2>2. CASE v # Nothing
    <3>1. k \in saved.given.dropped /\ k # key BY <1>7, <2>2
    <3>2. CASE st = saved.store BY <2>1, <3>1, <3>2
    <3>3. CASE st = s
      <4>1. OtherKeys(loaded, s, key) BY <1>10 DEF Frame
      <4>. QED BY <1>5, <1>10, <2>0, <2>1, <3>1, <3>3, <4>1, Zenon DEF OtherKeys
    <3>. QED BY <1>9, <3>2, <3>3, Zenon
  <2>3. CASE v = Nothing /\ k # key
    <3>1. k \in saved.given.dropped BY <1>7, <2>3
    <3>2. CASE st = saved.store BY <2>1, <3>1, <3>2
    <3>3. CASE st = s
      <4>1. OtherKeys(loaded, s, key) BY <1>10 DEF Frame
      <4>. QED BY <1>5, <1>10, <2>0, <2>1, <2>3, <3>1, <3>3, <4>1, Zenon DEF OtherKeys
    <3>. QED BY <1>9, <3>2, <3>3, Zenon
  <2>4. CASE v = Nothing /\ k = key
    <3>1. k \in saved.store.subprojects /\ k \notin DOMAIN saved.store.pending_options BY <1>7, <2>1, <2>4
    <3>2. key \in Sub BY <1>7, <2>4
    <3>3. CASE kept(key, v)
      <4>1. st = s BY <1>9, <3>3
      <4>. QED BY <1>5, <1>10, <2>4, <3>1, <3>2, <4>1, Zenon
    <3>4. CASE ~kept(key, v)
      <4>1. st = saved.store /\ ~dirty(loaded, key, v) BY <1>6, <1>9, <1>10, <3>4, Zenon
      <4>. QED BY <1>5, <1>8, <2>4, <3>1, <4>1, Zenon
    <3>. QED BY <3>3, <3>4
  <2>. QED BY <2>2, <2>3, <2>4
<1>17. st.ok = TRUE \/ ~s.ok
  <2>1. saved.store.ok = TRUE BY <1>1, StoreType DEF WF
  <2>. QED BY <1>6, <1>9, <2>1
<1>. HIDE DEF st, c, g
<1>18. n \in Run /\ n.store = st /\ n.cmd = c /\ n.given = g BY <1>12, <1>13, <1>14 DEF Run
<1>. HIDE DEF n
<1>19. RunOK(saved') /\ Root \in DOMAIN saved'.store.options_files
  <2>1. CASE s.ok
    <3>1. saved' = n BY <1>4, <2>1
    <3>2. DroppedOK(n) BY <1>13, <1>16, <1>18, <2>1 DEF DroppedOK
    <3>. QED BY <1>11, <1>17, <1>18, <2>1, <3>1, <3>2 DEF RunOK, SoundRun
  <2>2. CASE ~s.ok
    <3>1. saved' = saved BY <1>4, <2>2
    <3>. QED BY <1>0, <3>1
  <2>. QED BY <2>1, <2>2
<1>20. RunOK(run)'
  <2>1. RunOK(run') BY <1>2, <1>19
  <2>. QED BY <1>2, <2>1, RunKept
<1>21. RunOK(saved)' BY <1>2, <1>19, SavedKept
<1>22. FileOK' BY <1>0, <1>2 DEF FileOK
<1>23. Basic' BY <1>0, <1>2, <1>19, <1>20, <1>21, <1>22 DEF IInv, Basic
<1>24. FirstRun' BY <1>0, <1>2 DEF FirstRun
<1>. QED BY <1>23, <1>24 DEF IInv

\* The end of a setup
LEMMA FinishIInv == IInv /\ Finish => IInv'
<1>. SUFFICES ASSUME IInv, Finish PROVE IInv' OBVIOUS
<1>0. kind \in Kind /\ RunOK(run) /\ FileOK /\ Root \in DOMAIN run.store.options_files
  BY DEF IInv, Basic, Finish
<1>1. run \in Run /\ WF(run.store) /\ DroppedOK(run) /\ (~edited => Agree(run.store)) /\ run.store.ok
  BY <1>0 DEF RunOK, SoundRun
<1>. DEFINE D == run.given.dropped
            g == [NoGiven EXCEPT !.dropped = D]
            n == [run EXCEPT !.given = g]
<1>2. /\ saved' = n /\ run' = n /\ configured' = TRUE /\ phase' = "idle" /\ called' = {}
      /\ UNCHANGED <<kind, file, machine, edited, events>>
  BY DEF Finish
<1>3. g \in Given /\ g.dropped = D
  <2>1. D \in SUBSET Sub BY <1>1, RunType
  <2>2. NoGiven \in Given BY <1>0, BlankOK
  <2>. HIDE DEF D
  <2>. QED BY <2>1, <2>2, GivenDropped
<1>. HIDE DEF g
<1>4. n \in Run /\ n.store = run.store /\ n.given = g
  <2>1. n \in Run BY <1>1, <1>3, Zenon DEF Run
  <2>. QED BY <1>1, <2>1 DEF Run
<1>. HIDE DEF n
<1>5. RunOK(n)
  <2>1. DroppedOK(n) BY <1>1, <1>3, <1>4 DEF DroppedOK
  <2>. QED BY <1>1, <1>4, <2>1 DEF RunOK, SoundRun
<1>6. RunOK(run)'
  <2>1. RunOK(run') BY <1>2, <1>5
  <2>. QED BY <1>2, <2>1, RunKept
<1>7. RunOK(saved)'
  <2>1. RunOK(saved') BY <1>2, <1>5
  <2>. QED BY <1>2, <2>1, SavedKept
<1>8. FileOK' BY <1>0, <1>2 DEF FileOK
<1>9. Basic' BY <1>0, <1>2, <1>4, <1>6, <1>7, <1>8 DEF IInv, Basic
<1>10. FirstRun' BY <1>2 DEF FirstRun
<1>. QED BY <1>9, <1>10 DEF IInv

\* An option file is edited.
LEMMA EditIInv == ASSUME IInv, NEW p \in Project, Edit(p) PROVE IInv'
<1>0. /\ kind = "project" /\ configured /\ phase = "idle" /\ edited' = TRUE
      /\ UNCHANGED <<kind, run, saved, configured, machine, phase, called>>
  BY DEF Edit, Command
<1>1. RunOK(run) /\ RunOK(saved) /\ FileOK BY DEF IInv, Basic
<1>2. FileOK'
  <2>1. PICK d \in (Decls \cup {Nothing, NoFile}) \ {file[p]} : file' = [file EXCEPT ![p] = d] BY Zenon DEF Edit
  <2>2. file' \in [Project -> Decls \cup {Nothing, NoFile}] BY <1>1, <2>1 DEF FileOK
  <2>. QED BY <1>0, <2>2 DEF FileOK
<1>3. RunOK(run)' BY <1>0, <1>1, Zenon DEF RunOK, SoundRun, WF, KindOK, LiveOK, DroppedOK
<1>4. RunOK(saved)' BY <1>0, <1>1, Zenon DEF RunOK, SoundRun, WF, KindOK, LiveOK, DroppedOK
<1>5. Basic' BY <1>0, <1>2, <1>3, <1>4 DEF IInv, Basic
<1>6. FirstRun' BY <1>0 DEF FirstRun
<1>. QED BY <1>5, <1>6 DEF IInv

\* Nothing happens.
LEMMA StutterIInv == IInv /\ UNCHANGED vars => IInv'
<1>. SUFFICES ASSUME IInv, UNCHANGED vars PROVE IInv' OBVIOUS
<1>0. UNCHANGED <<kind, file, run, saved, configured, machine, phase, called, edited>> BY DEF vars
<1>1. RunOK(run) /\ RunOK(saved) /\ FileOK BY DEF IInv, Basic
<1>2. FileOK' BY <1>0, <1>1 DEF FileOK
<1>3. RunOK(run)'
  <2>1. RunOK(run') BY <1>0, <1>1
  <2>. QED BY <1>0, <2>1, RunKept
<1>4. RunOK(saved)'
  <2>1. RunOK(saved') BY <1>0, <1>1
  <2>. QED BY <1>0, <2>1, SavedKept
<1>5. Basic' BY <1>0, <1>2, <1>3, <1>4 DEF IInv, Basic
<1>6. ~configured /\ phase = "body" => Body(run, called)'
  <2>1. ~configured /\ phase = "body" => Body(run', called') BY <1>0 DEF IInv, FirstRun
  <2>. QED BY <1>0, <2>1, BodyKept
<1>7. OptionStore' = OptionStore /\ NoGiven' = NoGiven BY <1>0, Zenon DEF OptionStore, NoGiven
<1>8. FirstRun' BY <1>0, <1>6, <1>7 DEF IInv, FirstRun
<1>. QED BY <1>5, <1>8 DEF IInv

-----------------------------------------------------------------------------
(* Evaluating the build files keeps it too *)

\* project() of the toplevel project when its store was saved before.
LEMMA ReloadedIInv ==
    ASSUME IInv, UNCHANGED <<kind, file, saved, configured, machine, edited>>, phase = "project", configured,
           Continue([run EXCEPT !.store = _load_option_file(run.store, Root)], "body", {Root})
    PROVE  IInv'
<1>. DEFINE st == _load_option_file(run.store, Root)
            n == [run EXCEPT !.store = st]
<1>0. kind \in Kind /\ RunOK(run) /\ FileOK BY DEF IInv, Basic
<1>1. run \in Run /\ WF(run.store) /\ DroppedOK(run) /\ (~edited => Agree(run.store))
  BY <1>0 DEF RunOK, SoundRun
<1>2. Root \in Project BY DEF Project
<1>3. /\ LoadResult(run.store, st, Root) /\ Root \in DOMAIN st.options_files
      /\ (~edited /\ Agree(run.store) => LoadAgrees(run.store, st, file[Root], Root))
  BY <1>0, <1>1, <1>2, LoadFile
<1>4. Continue(n, "body", {Root}) OBVIOUS
<1>. HIDE DEF st
<1>5. WF(st) /\ st \in Store /\ st.ok \in BOOLEAN BY <1>3 DEF LoadResult, WF
<1>6. n \in Run /\ n.store = st /\ n.cmd = run.cmd /\ n.given = run.given BY <1>1, <1>5, RunStore
<1>. HIDE DEF n
<1>7. DroppedOK(n) BY <1>1, <1>3, <1>6 DEF DroppedOK, LoadResult
<1>8. ~edited => Agree(n.store) BY <1>1, <1>3, <1>6 DEF LoadAgrees
<1>9. n.store.ok = TRUE => StepOK(n, "body", {Root})
  BY <1>3, <1>5, <1>6, <1>7, <1>8 DEF StepOK, RunOK, SoundRun
<1>10. "body" \in {"project", "body"} /\ {Root} \in SUBSET Project /\ n.store.ok \in BOOLEAN BY <1>2, <1>5, <1>6
<1>. QED BY <1>4, <1>9, <1>10, Continued, Zenon

\* The store after the toplevel project's option file is read in the first run.
LEMMA TopLoaded ==
    ASSUME kind \in Kind, FileOK, ~edited
    PROVE  LET st == _load_option_file(OptionStore, Root) IN
           /\ WF(st) /\ st.ok = TRUE /\ TopIs(st, TopDefault) /\ Agree(st)
           /\ st.augments = None /\ st.pending_options = None /\ st.subprojects = {}
           /\ Root \in DOMAIN st.options_files
           /\ DOMAIN st.options \subseteq {Global, Root}
           /\ kind = "project" => IF Root \in DOMAIN st.options
                                  THEN file[Root] \in Decls /\ st.options[Root].type = file[Root].type
                                  ELSE file[Root] = NoFile
<1>. DEFINE st == _load_option_file(OptionStore, Root)
            o == OptionStore
<1>1. Root \in Project /\ Root \notin Sub /\ Global # Root BY KeysAssumption DEF Project
<1>2. /\ WF(o) /\ o.ok = TRUE /\ o.augments = None /\ o.pending_options = None
      /\ o.subprojects = {} /\ o.options_files = None /\ Agree(o)
      /\ o.options = IF kind \in {"builtin", "readonly"} THEN [k \in {Global} |-> Builtin] ELSE None
  BY BlankOK, Zenon
<1>3. DOMAIN None = {} BY NoneDict
<1>. HIDE DEF o
<1>4. /\ LoadResult(o, st, Root) /\ Root \in DOMAIN st.options_files
      /\ (kind # "project" => st.options = o.options /\ st.ok = o.ok)
      /\ LoadAgrees(o, st, file[Root], Root)
  <2>1. st = _load_option_file(o, Root) BY DEF o
  <2>. QED BY <1>1, <1>2, <2>1, LoadFile
<1>. HIDE DEF st
<1>5. /\ WF(st) /\ st.ok = TRUE /\ Agree(st) /\ st.augments = None /\ st.pending_options = None
      /\ st.subprojects = {}
  BY <1>2, <1>4, Zenon DEF LoadResult, LoadAgrees
<1>6. kind # "project" => st.options = o.options /\ DOMAIN st.options \subseteq {Global}
                          /\ \A k \in DOMAIN st.options : st.options[k].value = Default
  <2>1. Builtin.value = Default BY DEF Builtin, UserOption
  <2>2. kind # "project" => st.options = o.options BY <1>4
  <2>. QED BY <1>2, <1>3, <2>1, <2>2
<1>7. kind = "project" => IF file[Root] # NoFile
                          THEN /\ DOMAIN st.options = {Root} /\ st.options[Root].value = file[Root].value
                               /\ st.options[Root].yielding = FALSE /\ st.options[Root].type = file[Root].type
                          ELSE DOMAIN st.options = {}
  <2>1. kind = "project" => DOMAIN o.options = {} BY <1>2, <1>3
  <2>. QED BY <1>1, <1>4, <2>1 DEF LoadAgrees, Added
<1>8. file[Root] \in Decls \cup {NoFile} BY <1>1 DEF FileOK
<1>9. TopIs(st, TopDefault)
  <2>1. kind # "project" => IF Global \in DOMAIN st.options
                            THEN st.options[Global].value = Default /\ Global \notin DOMAIN st.pending_options
                            ELSE get(st.pending_options, Global, Default) = Default
    BY <1>3, <1>5, <1>6 DEF get
  <2>2. kind = "project" /\ Root \in DOMAIN st.options =>
            st.options[Root].value = file[Root].value /\ ~st.options[Root].yielding
    BY <1>7
  <2>. QED BY <2>1, <2>2 DEF TopIs, TopDefault
<1>10. DOMAIN st.options \subseteq {Global, Root} BY <1>6, <1>7
<1>11. kind = "project" => IF Root \in DOMAIN st.options
                           THEN file[Root] \in Decls /\ st.options[Root].type = file[Root].type
                           ELSE file[Root] = NoFile
  BY <1>7, <1>8
<1>. QED BY <1>4, <1>5, <1>9, <1>10, <1>11, Zenon DEF st

\* project() of the toplevel project in the first run.
LEMMA FirstProjectIInv ==
    ASSUME IInv, UNCHANGED <<kind, file, saved, configured, machine, edited>>, phase = "project", ~configured,
           NEW d \in Dict(UserKey),
           Continue([run EXCEPT
                        !.store = initialize_from_top_level_project_call(_load_option_file(run.store, Root), d, run.cmd),
                        !.given = [run.given EXCEPT !.project = Only(d, {Global}),
                                                    !.parent = Only(d, Sub)]], "body", {Root})
    PROVE  IInv'
<1>. DEFINE st == _load_option_file(run.store, Root)
            r == initialize_from_top_level_project_call(st, d, run.cmd)
            x == Only(d, {Global})
            y == Only(d, Sub)
            g == TopGiven(run.given, x, y)
            n == NewRun(run, r, g)
<1>0. /\ kind \in Kind /\ RunOK(run) /\ FileOK /\ ~edited /\ machine \in Dict(UserKey)
      /\ run.store = OptionStore /\ run.given = NoGiven
  BY DEF IInv, Basic, FirstRun
<1>1. run \in Run /\ run.cmd \in Dict(UserKey) /\ run.given \in Given BY <1>0, RunType DEF RunOK, SoundRun
<1>2. Continue(n, "body", {Root}) BY DEF NewRun, TopGiven
<1>3. /\ WF(st) /\ st.ok = TRUE /\ TopIs(st, TopDefault) /\ Agree(st)
      /\ st.augments = None /\ st.pending_options = None /\ st.subprojects = {}
      /\ Root \in DOMAIN st.options_files
      /\ DOMAIN st.options \subseteq {Global, Root}
      /\ kind = "project" => IF Root \in DOMAIN st.options
                             THEN file[Root] \in Decls /\ st.options[Root].type = file[Root].type
                             ELSE file[Root] = NoFile
  BY <1>0, TopLoaded, Zenon
<1>. HIDE DEF st
<1>. DEFINE v == get(run.cmd, Global, get(machine, Global, get(d, Global, TopDefault)))
<1>4. /\ WF(r) /\ SameDecls(st, r) /\ OtherKeys(st, r, Target(Global))
      /\ r.augments = st.augments /\ r.subprojects = st.subprojects
      /\ r.pending_subproject_options = Only(d, Sub)
      /\ r.ok => /\ TopIs(r, v)
                 /\ kind = "project" /\ Root \notin DOMAIN st.options =>
                       Global \notin DOMAIN run.cmd \cup DOMAIN machine
  BY <1>0, <1>1, <1>3, TopCall
<1>5. x \in Dict({Global}) /\ y \in Dict(Sub) BY OnlyDict
<1>6. get(d, Global, TopDefault) = get(x, Global, TopDefault) BY GetOnly
<1>. HIDE DEF r, x
<1>7. g \in Given /\ g.project = x /\ g.parent = y /\ g.dropped = {}
  <2>1. g \in Given /\ g.project = x /\ g.parent = y /\ g.dropped = run.given.dropped
    BY <1>1, <1>5, GivenTop, Zenon
  <2>. QED BY <1>0, <2>1, BlankOK
<1>. HIDE DEF g
<1>8. n \in Run /\ n.store = r /\ n.cmd = run.cmd /\ n.given = g
  <2>1. r \in Store BY <1>4 DEF WF
  <2>. QED BY <1>1, <1>7, <2>1, RunGiven
<1>. HIDE DEF n
<1>9. RootDoc(n) = v BY <1>6, <1>7, <1>8 DEF RootDoc
<1>. HIDE DEF v
<1>10. DroppedOK(n) BY <1>7, <1>8 DEF DroppedOK
<1>11. Agree(r) BY <1>3, <1>4, AgreeSame
<1>12. r.ok \in BOOLEAN BY <1>4, StoreType DEF WF
<1>13. ASSUME r.ok = TRUE PROVE Body(n, {Root})
  <2>1. DOMAIN r.options = DOMAIN st.options BY <1>4 DEF SameDecls
  <2>2. TopOK(n)
    <3>1. kind # "project" =>
             IF Global \in DOMAIN r.options
             THEN r.options[Global].value = v /\ Global \notin DOMAIN r.pending_options
             ELSE get(r.pending_options, Global, Default) = v
      BY <1>4, <1>13 DEF TopIs
    <3>2. kind = "project" =>
             IF Root \in DOMAIN r.options
             THEN /\ file[Root] \in Decls /\ r.options[Root].type = file[Root].type
                  /\ r.options[Root].value = v /\ ~r.options[Root].yielding
             ELSE file[Root] = NoFile /\ Global \notin DOMAIN run.cmd \cup DOMAIN machine
      BY <1>3, <1>4, <1>13, <2>1 DEF TopIs, SameDecls
    <3>. QED BY <1>8, <1>9, <3>1, <3>2 DEF TopOK
  <2>3. ASSUME NEW s \in Sub PROVE UntouchedOK(n, s) /\ s \notin n.store.subprojects
    <3>1. s \in Key /\ s # Global /\ s # Root BY KeysAssumption DEF Key, Project
    <3>2. s # Target(Global) BY <3>1 DEF Target
    <3>3. s \notin DOMAIN None BY NoneDict
    <3>4. s \notin DOMAIN r.options \cup DOMAIN r.augments \cup DOMAIN r.pending_options
      BY <1>3, <1>4, <2>1, <3>1, <3>2, <3>3 DEF OtherKeys
    <3>. QED BY <1>3, <1>4, <1>7, <1>8, <3>4 DEF UntouchedOK
  <2>. QED BY <2>2, <2>3 DEF Body
<1>14. r.ok = TRUE => StepOK(n, "body", {Root})
  <2>1. Root \in DOMAIN r.options_files BY <1>3, <1>4 DEF SameDecls
  <2>. QED BY <1>4, <1>8, <1>10, <1>11, <1>13, <2>1, Zenon DEF StepOK, RunOK, SoundRun
<1>15. "body" \in {"project", "body"} /\ {Root} \in SUBSET Project BY DEF Project
<1>16. n.store.ok \in BOOLEAN /\ (n.store.ok = TRUE => StepOK(n, "body", {Root})) BY <1>8, <1>12, <1>14
<1>. QED BY <1>2, <1>15, <1>16, Continued, Zenon

\* project() of the toplevel project.
LEMMA ProjectIInv == IInv /\ func_project => IInv'
<1>. SUFFICES ASSUME IInv, func_project PROVE IInv' OBVIOUS
<1>1. UNCHANGED <<kind, file, saved, configured, machine, edited>> /\ phase = "project" BY Zenon DEF func_project
<1>2. CASE configured
  <2>1. Continue([run EXCEPT !.store = _load_option_file(run.store, Root)], "body", {Root})
    BY <1>2 DEF func_project
  <2>. QED BY <1>1, <1>2, <2>1, ReloadedIInv
<1>3. CASE ~configured
  <2>1. PICK d \in Dict(UserKey) :
          Continue([run EXCEPT
                        !.store = initialize_from_top_level_project_call(_load_option_file(run.store, Root), d, run.cmd),
                        !.given = [run.given EXCEPT !.project = Only(d, {Global}),
                                                    !.parent = Only(d, Sub)]], "body", {Root})
    BY <1>3, Zenon DEF func_project
  <2>. QED BY <1>1, <1>3, <2>1, FirstProjectIInv, Zenon
<1>. QED BY <1>2, <1>3


\* add_languages() in a project.
LEMMA LanguagesIInv == ASSUME IInv, NEW p \in Project, add_languages(p) PROVE IInv'
<1>. DEFINE key == IF p = Root THEN Global ELSE p
            st == add_system_option_internal(run.store, key)
            n == [run EXCEPT !.store = st]
<1>0. /\ kind = "compiler" /\ RunOK(run) /\ phase = "body" /\ Root \in DOMAIN run.store.options_files
      /\ called \subseteq Project /\ (~configured => Body(run, called))
  BY DEF IInv, Basic, FirstRun, add_languages
<1>1. run \in Run /\ WF(run.store) /\ run.store.ok = TRUE /\ DroppedOK(run)
  BY <1>0, StoreType, Zenon DEF RunOK, SoundRun, WF
<1>2. UNCHANGED <<kind, file, saved, configured, machine, edited>> /\ Continue(n, "body", called)
  BY DEF add_languages
<1>3. key \in UserKey BY DEF UserKey, Project
<1>4. AddResult(run.store, st, key)
  <2>. HIDE DEF key
  <2>. QED BY <1>0, <1>1, <1>3, AddSystem, Zenon
<1>. HIDE DEF key, st
<1>5. n \in Run /\ n.store = st /\ n.cmd = run.cmd /\ n.given = run.given
  <2>1. st \in Store BY <1>4, Zenon DEF WF, AddResult
  <2>. QED BY <1>1, <2>1, RunStore
<1>. HIDE DEF n
<1>6. DroppedOK(n)
  <2>1. run.given.dropped \subseteq Sub BY <1>1, RunType, Zenon
  <2>. QED BY <1>0, <1>1, <1>4, <1>5, <2>1, Zenon DEF DroppedOK, AddResult
<1>7. Agree(n.store) BY <1>0 DEF Agree
<1>8. RootDoc(n) = RootDoc(run) BY <1>5 DEF RootDoc
<1>9. \A s : Doc(n, s) = Doc(run, s) BY <1>5, <1>8 DEF Doc, SharedDoc, OwnDoc
<1>10. ASSUME ~configured PROVE Body(n, called)
  <2>1. TopOK(n) BY <1>0, <1>4, <1>5, <1>8, <1>10, Zenon DEF Body, TopOK, AddResult
  <2>2. ASSUME NEW s \in Sub, ConfiguredOK(run, s) PROVE ConfiguredOK(n, s)
    BY <1>0, <1>4, <1>5, <1>8, <1>9, <2>2, Zenon DEF ConfiguredOK, AddResult
  <2>3. ASSUME NEW s \in Sub, UntouchedOK(run, s) PROVE UntouchedOK(n, s)
    <3>1. s # Global /\ DOMAIN st.options \subseteq {Global} BY <1>0, <1>4, KeysAssumption DEF Project, WF, KindOK, AddResult
    <3>. QED BY <1>4, <1>5, <2>3, <3>1 DEF UntouchedOK, AddResult
  <2>. QED BY <1>0, <1>4, <1>5, <1>10, <2>1, <2>2, <2>3 DEF Body, AddResult
<1>11. StepOK(n, "body", called)
  BY <1>0, <1>1, <1>4, <1>5, <1>6, <1>7, <1>10, Zenon DEF StepOK, RunOK, SoundRun, AddResult
<1>12. "body" \in {"project", "body"} /\ n.store.ok \in BOOLEAN /\ called \in SUBSET Project
  BY <1>0, <1>1, <1>4, <1>5, Zenon DEF AddResult
<1>. QED BY <1>2, <1>11, <1>12, Continued, Zenon

\* The outcomes of evaluating a subproject: it goes on, the whole command
\* raises, or the subproject raises and is disabled.
Outcome(n, done) ==
    \/ Continue(n, "body", done)
    \/ ~n.store.ok /\ Continue([n EXCEPT !.store.ok = TRUE], "body", done)

\* A sound record is sound whether or not the subproject raised.
LEMMA OutcomeIInv ==
    ASSUME IInv, UNCHANGED <<kind, file, saved, configured, machine, edited>>,
           NEW n, NEW done \in SUBSET Project, Outcome(n, done),
           SoundRun(n), Root \in DOMAIN n.store.options_files, ~configured => Body(n, done)
    PROVE  IInv'
<1>1. n \in Run /\ WF(n.store) BY DEF SoundRun
<1>2. n.store.ok \in BOOLEAN /\ "body" \in {"project", "body"} BY <1>1, StoreType DEF WF
<1>3. n.store.ok = TRUE => StepOK(n, "body", done) BY DEF StepOK, RunOK
<1>4. CASE Continue(n, "body", done) BY <1>2, <1>3, <1>4, Continued, Zenon
<1>5. CASE Continue([n EXCEPT !.store.ok = TRUE], "body", done)
  <2>. DEFINE m == [n EXCEPT !.store.ok = TRUE]
  <2>1. /\ m \in Run /\ m.cmd = n.cmd /\ m.given = n.given
        /\ m.store.options = n.store.options /\ m.store.augments = n.store.augments
        /\ m.store.pending_options = n.store.pending_options
        /\ m.store.pending_subproject_options = n.store.pending_subproject_options
        /\ m.store.subprojects = n.store.subprojects
        /\ m.store.options_files = n.store.options_files /\ m.store.ok = TRUE
    BY <1>1, Disabled, Zenon
  <2>2. Continue(m, "body", done) BY <1>5
  <2>. HIDE DEF m
  <2>3. WF(m.store)
    <3>1. m.store \in Store BY <2>1, RunType
    <3>2. KindOK(n.store) /\ LiveOK(n.store) BY <1>1 DEF WF
    <3>. QED BY <2>1, <3>1, <3>2 DEF WF, KindOK, LiveOK
  <2>4. DroppedOK(m) BY <2>1 DEF DroppedOK, SoundRun
  <2>5. ~edited => Agree(m.store) BY <2>1 DEF Agree, SoundRun
  <2>6. RootDoc(m) = RootDoc(n) BY <2>1 DEF RootDoc
  <2>7. \A s : Doc(m, s) = Doc(n, s) BY <2>1, <2>6, Zenon DEF Doc, SharedDoc, OwnDoc
  <2>8. ~configured => Body(m, done)
    <3>1. TopOK(n) => TopOK(m) BY <2>1, <2>6, Zenon DEF TopOK
    <3>2. ASSUME NEW s PROVE ConfiguredOK(n, s) => ConfiguredOK(m, s) BY <2>1, <2>6, <2>7, Zenon DEF ConfiguredOK
    <3>3. ASSUME NEW s PROVE UntouchedOK(n, s) => UntouchedOK(m, s) BY <2>1, Zenon DEF UntouchedOK
    <3>. QED BY <2>1, <3>1, <3>2, <3>3, Zenon DEF Body
  <2>9. StepOK(m, "body", done) BY <2>1, <2>3, <2>4, <2>5, <2>8 DEF StepOK, RunOK, SoundRun
  <2>10. m.store.ok \in BOOLEAN BY <2>1, Zenon
  <2>. QED BY <1>2, <2>2, <2>9, <2>10, Continued, Zenon
<1>. QED BY <1>4, <1>5 DEF Outcome

\* Entries of one subproject change: the other projects keep their values.
LEMMA OthersKept ==
    ASSUME NEW r, NEW n, r \in Run, n \in Run, NEW s \in Sub, OtherKeys(r.store, n.store, s),
           n.cmd = r.cmd, n.given.project = r.given.project,
           \A t \in Sub \ {s} : \A e : /\ get(n.given.call, t, e) = get(r.given.call, t, e)
                                       /\ get(n.given.own, t, e) = get(r.given.own, t, e)
    PROVE  /\ TopOK(r) => TopOK(n)
           /\ \A t \in Sub \ {s} :
                 (\A e : get(n.given.parent, t, e) = get(r.given.parent, t, e)) /\ ConfiguredOK(r, t) => ConfiguredOK(n, t)
<1>1. RootDoc(n) = RootDoc(r) BY DEF RootDoc
<1>2. Global \in Key \ {s} /\ Root \in Key \ {s} BY KeysAssumption DEF Key, Project
<1>3. TopOK(r) => TopOK(n)
  <2>1. get(n.store.pending_options, Global, Default) = get(r.store.pending_options, Global, Default)
    BY <1>2 DEF OtherKeys, get
  <2>2. /\ Global \in DOMAIN n.store.options <=> Global \in DOMAIN r.store.options
        /\ Global \in DOMAIN r.store.options => n.store.options[Global] = r.store.options[Global]
        /\ Root \in DOMAIN n.store.options <=> Root \in DOMAIN r.store.options
        /\ Root \in DOMAIN r.store.options => n.store.options[Root] = r.store.options[Root]
        /\ Global \in DOMAIN n.store.pending_options <=> Global \in DOMAIN r.store.pending_options
    BY <1>2 DEF OtherKeys
  <2>. QED BY <1>1, <2>1, <2>2 DEF TopOK
<1>4. ASSUME NEW t \in Sub \ {s}, \A e : get(n.given.parent, t, e) = get(r.given.parent, t, e), ConfiguredOK(r, t)
      PROVE  ConfiguredOK(n, t)
  <2>1. t \in Key \ {s} BY DEF Key, Project
  <2>2. SharedDoc(n, t) = SharedDoc(r, t) BY DEF SharedDoc
  <2>3. OwnDoc(n, t) = OwnDoc(r, t) BY <1>1 DEF OwnDoc
  <2>4. Doc(n, t) = Doc(r, t)
    <3>1. \A e : get(n.given.call, t, get(n.given.parent, t, e)) = get(r.given.call, t, get(r.given.parent, t, e))
      BY <1>4
    <3>. QED BY <2>2, <2>3, <3>1 DEF Doc
  <2>5. /\ t \in DOMAIN n.store.options <=> t \in DOMAIN r.store.options
        /\ t \in DOMAIN r.store.options => n.store.options[t] = r.store.options[t]
        /\ t \in DOMAIN n.store.augments <=> t \in DOMAIN r.store.augments
        /\ t \in DOMAIN r.store.augments => n.store.augments[t] = r.store.augments[t]
        /\ t \in DOMAIN n.store.pending_options <=> t \in DOMAIN r.store.pending_options
        /\ t \in DOMAIN r.store.pending_options => n.store.pending_options[t] = r.store.pending_options[t]
    BY <2>1 DEF OtherKeys
  <2>. QED BY <1>1, <1>4, <2>4, <2>5, Zenon DEF ConfiguredOK
<1>. QED BY <1>3, <1>4, Zenon


\* Reading a subproject's option file changes the subproject's entries only.
LEMMA LoadOthers ==
    ASSUME NEW st, NEW r, NEW s \in Sub, LoadResult(st, r, s)
    PROVE  OtherKeys(st, r, s)
<1>1. s # Root BY KeysAssumption
<1>. QED BY <1>1 DEF LoadResult, OthersDeclared, OtherKeys

\* Raising after the option file was read.
LEMMA FailedLoad ==
    ASSUME NEW st, NEW r, NEW key, LoadResult(st, r, key)
    PROVE  /\ LoadResult(st, Fail(r), key) /\ (Agree(r) => Agree(Fail(r)))
           /\ Fail(r).options = r.options /\ Fail(r).augments = r.augments
<1>. DEFINE n == Fail(r)
<1>1. r \in Store /\ WF(r) BY DEF LoadResult, WF
<1>2. /\ n.options = r.options /\ n.augments = r.augments /\ n.pending_options = r.pending_options
      /\ n.pending_subproject_options = r.pending_subproject_options /\ n.subprojects = r.subprojects
      /\ n.options_files = r.options_files /\ n.ok = FALSE
  BY <1>1, PutOk, Zenon DEF Fail
<1>3. WF(n) BY <1>1, FailWF, Zenon
<1>. HIDE DEF n
<1>4. LoadResult(st, n, key) BY <1>2, <1>3, Zenon DEF LoadResult, OthersDeclared
<1>5. Agree(r) => Agree(n) BY <1>2 DEF Agree
<1>. QED BY <1>2, <1>4, <1>5 DEF n

\* subproject() when nothing more happens to the store than that the option
\* file is read: the store knows the subproject, the file is bad, or the
\* default_options name the subproject itself.
LEMMA LoadedSubprojectIInv ==
    ASSUME IInv, UNCHANGED <<kind, file, saved, configured, machine, edited>>, phase = "body",
           NEW s \in Sub, s \notin called, NEW st, LoadResult(run.store, st, s), ~edited => Agree(st),
           Outcome([run EXCEPT !.store = st], called \cup {s})
    PROVE  IInv'
<1>. DEFINE n == [run EXCEPT !.store = st]
            done == called \cup {s}
<1>0. /\ kind \in Kind /\ RunOK(run) /\ called \subseteq Project /\ Root \in DOMAIN run.store.options_files
      /\ ~configured => Body(run, called)
  BY DEF IInv, Basic, FirstRun
<1>1. run \in Run /\ DroppedOK(run)
  BY <1>0 DEF RunOK, SoundRun
<1>2. s \in Project BY DEF Project
<1>4. Outcome(n, done) OBVIOUS
<1>. HIDE DEF done
<1>5. /\ WF(st) /\ st \in Store /\ st.subprojects = run.store.subprojects
      /\ st.pending_subproject_options = run.store.pending_subproject_options
      /\ OtherKeys(run.store, st, s)
  BY LoadOthers DEF LoadResult, WF
<1>6. n \in Run /\ n.store = st /\ n.cmd = run.cmd /\ n.given = run.given BY <1>1, <1>5, RunStore
<1>. HIDE DEF n
<1>7. DroppedOK(n) BY <1>1, <1>6 DEF DroppedOK, LoadResult
<1>9. SoundRun(n) /\ Root \in DOMAIN n.store.options_files
  BY <1>0, <1>5, <1>6, <1>7 DEF SoundRun, LoadResult
<1>10. ASSUME ~configured PROVE Body(n, done)
  <2>0. Body(run, called) BY <1>0, <1>10
  <2>1. /\ TopOK(run) => TopOK(n)
        /\ \A t \in Sub \ {s} : ConfiguredOK(run, t) => ConfiguredOK(n, t)
    BY <1>1, <1>5, <1>6, OthersKept, Zenon
  <2>2. ASSUME NEW t \in Sub \ {s}, UntouchedOK(run, t) PROVE UntouchedOK(n, t)
    <3>1. t \in Key \ {s} BY DEF Key, Project
    <3>. QED BY <1>5, <1>6, <2>2, <3>1, Zenon DEF OtherKeys, UntouchedOK
  <2>3. ASSUME NEW t \in Sub
        PROVE  IF t \in n.store.subprojects THEN t \in done /\ ConfiguredOK(n, t)
               ELSE t \in done \/ UntouchedOK(n, t)
    <3>1. CASE t \in run.store.subprojects
      <4>1. t \in called /\ ConfiguredOK(run, t) BY <2>0, <3>1, Zenon DEF Body
      <4>2. t # s BY <4>1
      <4>. QED BY <1>5, <1>6, <2>1, <3>1, <4>1, <4>2, Zenon DEF done
    <3>2. CASE t \notin run.store.subprojects
      <4>1. t \in called \/ UntouchedOK(run, t) BY <2>0, <3>2, Zenon DEF Body
      <4>. QED BY <1>5, <1>6, <2>2, <3>2, <4>1, Zenon DEF done
    <3>. QED BY <3>1, <3>2
  <2>. QED BY <2>0, <2>1, <2>3, Zenon DEF Body
<1>11. done \in SUBSET Project BY <1>0, <1>2 DEF done
<1>. QED BY <1>4, <1>9, <1>10, <1>11, OutcomeIInv

\* What the settings selected for a subproject say of its documented value.
SelectedDoc(n, s, o) ==
    /\ s \in DOMAIN o => o[s] = Doc(n, s)
    /\ s \notin DOMAIN o /\ kind # "project" => Doc(n, s) = RootDoc(n)
    /\ s \notin DOMAIN o /\ kind = "project" => Doc(n, s) = IF Yields(s) THEN RootDoc(n) ELSE file[s].value

\* The value that the merged settings select for the subproject, when it was
\* untouched and the toplevel project's value is the documented one: its
\* documented value, or the toplevel project's when no source names it.
LEMMA SelectedIsDocumented ==
    ASSUME NEW r, NEW n, NEW s \in Sub, r \in Run, n \in Run, TopOK(r), UntouchedOK(r, s),
           NEW st \in Store, st.pending_subproject_options = r.store.pending_subproject_options,
           (Root \in DOMAIN st.options) <=> (Root \in DOMAIN r.store.options),
           kind # "project" => Root \notin DOMAIN st.options,
           machine \in Dict(UserKey), NEW call \in Dict(Sub), NEW own \in Dict(Sub),
           n.cmd = r.cmd, n.given.project = r.given.project,
           \A e : /\ get(n.given.call, s, e) = get(call, s, e) /\ get(n.given.own, s, e) = get(own, s, e)
                  /\ get(n.given.parent, s, e) = get(r.given.parent, s, e)
    PROVE  SelectedDoc(n, s, SubprojectOptions(st, s, call, own, r.cmd))
<1>. DEFINE o == SubprojectOptions(st, s, call, own, r.cmd)
            rest(e) == IF Hidden(st, r.cmd) THEN e ELSE get(own, s, e)
<1>1. r.cmd \in Dict(UserKey) /\ r.given.parent \in Dict(Sub) /\ r.store.pending_subproject_options \in Dict(Sub)
  BY RunType, StoreType
<1>2. \A e : get(o, s, e) = get(r.cmd, s, get(machine, s, get(call, s, get(st.pending_subproject_options, s, rest(e)))))
  <2>1. Selected(o, st, s, call, own, r.cmd) BY <1>1, SubprojectOptionsAre
  <2>. HIDE DEF o
  <2>. QED BY <2>1 DEF Selected
<1>4. \A e : get(st.pending_subproject_options, s, e) = get(r.given.parent, s, e)
  <2>1. get(r.store.pending_subproject_options, s, Nothing) = get(r.given.parent, s, Nothing) BY DEF UntouchedOK
  <2>2. Nothing \notin Value BY ValuesAssumption
  <2>3. \A x \in DOMAIN r.given.parent : r.given.parent[x] \in Value BY <1>1, DictDef
  <2>4. \A x \in DOMAIN r.store.pending_subproject_options : r.store.pending_subproject_options[x] \in Value
    BY <1>1, DictDef
  <2>. QED BY <2>1, <2>2, <2>3, <2>4 DEF get
<1>. DEFINE base == IF kind = "project" THEN IF Yields(s) THEN RootDoc(n) ELSE file[s].value ELSE RootDoc(n)
<1>. HIDE DEF o
<1>5. RootDoc(n) = RootDoc(r) BY DEF RootDoc
<1>6. (IF kind = "project" THEN OwnDoc(n, s) ELSE SharedDoc(n, s)) = rest(base)
  <2>1. CASE kind = "project"
    <3>1. ~Hidden(st, r.cmd) BY <2>1 DEF Hidden, TopOK
    <3>. QED BY <2>1, <3>1, Zenon DEF OwnDoc
  <2>2. CASE kind # "project"
    <3>1. Hidden(st, r.cmd) <=> Global \in DOMAIN machine \cup DOMAIN r.cmd BY <2>2, Zenon DEF Hidden
    <3>2. TopDefault = Default BY <2>2 DEF TopDefault
    <3>3. RootDoc(n) = get(r.cmd, Global, get(machine, Global, get(r.given.project, Global, Default)))
      BY <3>2 DEF RootDoc
    <3>4. SharedDoc(n, s) = get(r.cmd, Global, get(machine, Global, get(own, s, get(r.given.project, Global, Default))))
      BY DEF SharedDoc
    <3>5. CASE Hidden(st, r.cmd)
      <4>1. SharedDoc(n, s) = RootDoc(n) BY <3>1, <3>3, <3>4, <3>5 DEF get
      <4>. QED BY <2>2, <3>5, <4>1
    <3>6. CASE ~Hidden(st, r.cmd)
      <4>1. \A e : get(r.cmd, Global, get(machine, Global, e)) = e BY <3>1, <3>6, Zenon DEF get
      <4>2. RootDoc(n) = get(r.given.project, Global, Default) BY <3>3, <4>1, Zenon
      <4>3. SharedDoc(n, s) = get(own, s, RootDoc(n)) BY <3>4, <4>1, <4>2, Zenon
      <4>4. rest(base) = get(own, s, RootDoc(n)) BY <2>2, <3>6
      <4>. QED BY <2>2, <4>3, <4>4, Zenon
    <3>. QED BY <3>5, <3>6, Zenon
  <2>. QED BY <2>1, <2>2, Zenon
<1>7. Doc(n, s) = get(o, s, base)
  <2>1. Doc(n, s) = get(r.cmd, s, get(machine, s, get(call, s, get(r.given.parent, s, rest(base)))))
    <3>. HIDE DEF rest, base
    <3>. QED BY <1>6 DEF Doc
  <2>. HIDE DEF rest, base
  <2>. QED BY <1>2, <1>4, <2>1, Zenon
<1>8. s \in DOMAIN o => Doc(n, s) = o[s]
  <2>. HIDE DEF base
  <2>. QED BY <1>7 DEF get
<1>9. s \notin DOMAIN o => Doc(n, s) = base
  <2>. HIDE DEF base
  <2>. QED BY <1>7 DEF get
<1>. QED BY <1>8, <1>9, Zenon DEF o, SelectedDoc


\* The record of what subproject() and the subproject's project() gave.
SubGivenIs(g, n, s, call, own, K) ==
    /\ n \in Given /\ n.project = g.project /\ n.dropped = g.dropped
    /\ \A e : get(n.call, s, e) = get(call, s, e) /\ get(n.own, s, e) = get(own, s, e)
    /\ \A t \in Sub \ {s} : \A e : /\ get(n.call, t, e) = get(g.call, t, e)
                                   /\ get(n.own, t, e) = get(g.own, t, e)
    /\ \A t, e : get(n.parent, t, e) = IF t \in K THEN get(Update(own, call), t, get(g.parent, t, e))
                                       ELSE get(g.parent, t, e)

\* Only the subproject's entries change, and those it waits with for others.
LEMMA SubGivenAre ==
    ASSUME NEW g \in Given, NEW s \in Sub, NEW call \in Dict(Sub), NEW own \in Dict(Sub), NEW K
    PROVE  SubGivenIs(g, SubGiven(g, Update(pop(g.call, s), Only(call, {s})), Update(pop(g.own, s), Only(own, {s})),
                                  Update(g.parent, Only(Update(own, call), K))), s, call, own, K)
<1>. DEFINE x == Update(pop(g.call, s), Only(call, {s}))
            y == Update(pop(g.own, s), Only(own, {s}))
            z == Update(g.parent, Only(Update(own, call), K))
            n == SubGiven(g, x, y, z)
<1>1. g.call \in Dict(Sub) /\ g.own \in Dict(Sub) /\ g.parent \in Dict(Sub) BY DEF Given
<1>2. x \in Dict(Sub)
  <2>1. pop(g.call, s) \in Dict(Sub) BY <1>1, popDict
  <2>2. Only(call, {s}) \in Dict(Sub) BY OnlyDict
  <2>. QED BY <2>1, <2>2, UpdateDict
<1>3. y \in Dict(Sub)
  <2>1. pop(g.own, s) \in Dict(Sub) BY <1>1, popDict
  <2>2. Only(own, {s}) \in Dict(Sub) BY OnlyDict
  <2>. QED BY <2>1, <2>2, UpdateDict
<1>4. z \in Dict(Sub)
  <2>1. Update(own, call) \in Dict(Sub) BY UpdateDict
  <2>2. Only(Update(own, call), K) \in Dict(Sub) BY <2>1, OnlyDict
  <2>. QED BY <1>1, <2>2, UpdateDict
<1>5. \A t, e : get(x, t, e) = IF t = s THEN get(call, t, e) ELSE get(g.call, t, e)
  <2>. TAKE t, e
  <2>1. get(x, t, e) = get(Only(call, {s}), t, get(pop(g.call, s), t, e)) BY GetUpdate
  <2>. HIDE DEF x
  <2>2. \A f : get(Only(call, {s}), t, f) = IF t = s THEN get(call, t, f) ELSE f BY GetOnly
  <2>3. get(pop(g.call, s), t, e) = IF t = s THEN e ELSE get(g.call, t, e) BY GetPop
  <2>. QED BY <2>1, <2>2, <2>3
<1>6. \A t, e : get(y, t, e) = IF t = s THEN get(own, t, e) ELSE get(g.own, t, e)
  <2>. TAKE t, e
  <2>1. get(y, t, e) = get(Only(own, {s}), t, get(pop(g.own, s), t, e)) BY GetUpdate
  <2>. HIDE DEF y
  <2>2. \A f : get(Only(own, {s}), t, f) = IF t = s THEN get(own, t, f) ELSE f BY GetOnly
  <2>3. get(pop(g.own, s), t, e) = IF t = s THEN e ELSE get(g.own, t, e) BY GetPop
  <2>. QED BY <2>1, <2>2, <2>3
<1>7. \A t, e : get(z, t, e) = IF t \in K THEN get(Update(own, call), t, get(g.parent, t, e))
                               ELSE get(g.parent, t, e)
  <2>. TAKE t, e
  <2>1. get(z, t, e) = get(Only(Update(own, call), K), t, get(g.parent, t, e)) BY GetUpdate
  <2>. HIDE DEF z
  <2>. QED BY <2>1, GetOnly
<1>. HIDE DEF x, y, z
<1>8. n \in Given /\ n.project = g.project /\ n.parent = z /\ n.call = x /\ n.own = y /\ n.dropped = g.dropped
  BY <1>2, <1>3, <1>4, GivenSub
<1>. HIDE DEF n
<1>9. \A e : get(n.call, s, e) = get(call, s, e) /\ get(n.own, s, e) = get(own, s, e) BY <1>5, <1>6, <1>8
<1>10. \A t \in Sub \ {s} : \A e : get(n.call, t, e) = get(g.call, t, e) /\ get(n.own, t, e) = get(g.own, t, e)
  BY <1>5, <1>6, <1>8
<1>11. \A t, e : get(n.parent, t, e) = IF t \in K THEN get(Update(own, call), t, get(g.parent, t, e))
                                       ELSE get(g.parent, t, e)
  BY <1>7, <1>8
<1>12. SubGivenIs(g, n, s, call, own, K) BY <1>8, <1>9, <1>10, <1>11 DEF SubGivenIs
<1>. QED BY <1>12 DEF n, x, y, z


\* A subproject's option in the first run, once its settings are merged.
LEMMA NewlyConfigured ==
    ASSUME NEW r, NEW n, NEW s \in Sub, r \in Run, n \in Run, TopOK(r), UntouchedOK(r, s),
           NEW st, WF(st), st.augments = r.store.augments, st.pending_options = r.store.pending_options,
           LoadAgrees(r.store, st, file[s], s),
           NEW o, NEW keys, InitResult(st, n.store, s, o, keys), n.store.ok = TRUE, SelectedDoc(n, s, o)
    PROVE  ConfiguredOK(n, s)
<1>1. s # Global BY KeysAssumption DEF Project
<1>2. s \notin DOMAIN st.augments /\ s \notin DOMAIN st.pending_options BY DEF UntouchedOK
<1>3. IF s \in DOMAIN o THEN SetTo(st, n.store, s, o[s])
      ELSE n.store.options = st.options /\ n.store.augments = st.augments /\ n.store.pending_options = st.pending_options
  BY <1>2, Zenon DEF InitResult
<1>4. CASE kind # "project"
  <2>1. s \notin DOMAIN st.options BY <1>1, <1>4 DEF WF, KindOK
  <2>2. CASE s \in DOMAIN o
    BY <1>2, <1>3, <1>4, <2>1, <2>2, Zenon DEF SetTo, ConfiguredOK, SelectedDoc
  <2>3. CASE s \notin DOMAIN o
    BY <1>2, <1>3, <1>4, <2>1, <2>3, Zenon DEF ConfiguredOK, SelectedDoc
  <2>. QED BY <2>2, <2>3, Zenon
<1>5. CASE kind = "project" /\ s \in DOMAIN n.store.options
  <2>1. s \in DOMAIN st.options BY <1>5, Zenon DEF InitResult, SameDecls
  <2>2. s \notin DOMAIN r.store.options BY Zenon DEF UntouchedOK
  <2>3. Added(r.store, st, file[s], s) BY <1>5, <2>1, <2>2 DEF LoadAgrees
  <2>4. CASE s \in DOMAIN o
    <3>1. n.store.options[s].value = o[s] /\ ~n.store.options[s].yielding BY <1>3, <2>1, <2>4, Zenon DEF SetTo
    <3>. QED BY <1>5, <2>4, <3>1, Zenon DEF ConfiguredOK, SelectedDoc
  <2>5. CASE s \notin DOMAIN o
    <3>1. n.store.options[s] = st.options[s] BY <1>3, <2>5, Zenon
    <3>2. st.options[s].value = file[s].value BY <2>3 DEF Added
    <3>3. Yields(s) => st.options[s].yielding = TRUE /\ st.options[s].parent = Live
      <4>1. Yields(s) => Root \in DOMAIN r.store.options /\ r.store.options[Root].type = file[s].type
        BY <1>5, FilesAssumption, Zenon DEF Yields, TopOK
      <4>. QED BY <2>3, <4>1, Zenon DEF Added, Yields
    <3>4. ~Yields(s) => st.options[s].yielding = FALSE
      <4>1. Root \in DOMAIN r.store.options => file[Root] \in Decls /\ r.store.options[Root].type = file[Root].type
        BY <1>5, Zenon DEF TopOK
      <4>. QED BY <2>3, <4>1, Zenon DEF Added, Yields
    <3>. QED BY <1>5, <2>5, <3>1, <3>2, <3>3, <3>4, Zenon DEF ConfiguredOK, SelectedDoc
  <2>. QED BY <2>4, <2>5, Zenon
<1>6. CASE kind = "project" /\ s \notin DOMAIN n.store.options BY <1>6, Zenon DEF ConfiguredOK
<1>. QED BY <1>4, <1>5, <1>6


\* subproject() of a subproject that the store does not know yet.
LEMMA NewSubprojectIInv ==
    ASSUME IInv, UNCHANGED <<kind, file, saved, configured, machine, edited>>, phase = "body",
           NEW s \in Sub, s \notin called, NEW st, st = _load_option_file(run.store, s),
           s \notin st.subprojects, st.ok,
           NEW call \in Dict(Sub), NEW own \in Dict(Sub),
           NEW o, o = SubprojectOptions(st, s, call, own, run.cmd),
           NEW keys \in Merged(st, s, o),
           NEW g, SubGivenIs(run.given, g, s, call, own, keys \ (st.subprojects \cup {s})),
           Outcome(NewRun(run, initialize_from_subproject_call(st, s, o, keys), g), called \cup {s})
    PROVE  IInv'
<1>. DEFINE r == initialize_from_subproject_call(st, s, o, keys)
            n == NewRun(run, r, g)
            done == called \cup {s}
            K == keys \ (st.subprojects \cup {s})
<1>0. /\ kind \in Kind /\ RunOK(run) /\ FileOK /\ called \subseteq Project /\ Root \in DOMAIN run.store.options_files
      /\ machine \in Dict(UserKey)
      /\ ~configured => ~edited /\ Body(run, called)
  BY Zenon DEF IInv, Basic, FirstRun
<1>1. /\ run \in Run /\ WF(run.store) /\ run.store.ok = TRUE /\ DroppedOK(run)
      /\ ~edited => Agree(run.store)
  BY <1>0, StoreType, Zenon DEF RunOK, SoundRun, WF
<1>2. s \in Project /\ s # Global /\ s # Root /\ s \in Key BY KeysAssumption DEF Project, Key
<1>3. LoadResult(run.store, st, s) /\ (~edited /\ Agree(run.store) => LoadAgrees(run.store, st, file[s], s))
  BY <1>0, <1>1, <1>2, LoadFile, Zenon
<1>4. /\ WF(st) /\ st \in Store /\ st.ok = TRUE /\ st.subprojects = run.store.subprojects
      /\ st.augments = run.store.augments /\ st.pending_options = run.store.pending_options
      /\ st.pending_subproject_options = run.store.pending_subproject_options
      /\ Root \in DOMAIN st.options_files
  BY <1>0, <1>3, Zenon DEF LoadResult, WF
<1>5. OtherKeys(run.store, st, s) BY <1>3, LoadOthers, Zenon
<1>6. run.cmd \in Dict(UserKey) /\ run.given \in Given /\ run.given.dropped \subseteq Sub BY <1>1, RunType, Zenon
<1>7. Selected(o, st, s, call, own, run.cmd) BY <1>0, <1>4, <1>6, SubprojectOptionsAre, Zenon
<1>8. o \in Dict(Sub) BY <1>7, Zenon DEF Selected
<1>9. InitResult(st, r, s, o, keys) BY <1>0, <1>4, <1>8, InitSub, Zenon
<1>10. Outcome(n, done) BY Zenon
<1>. HIDE DEF r
<1>11. WF(r) /\ r \in Store /\ SameDecls(st, r) /\ OtherKeys(st, r, s) BY <1>9, Zenon DEF InitResult, WF
<1>12. n \in Run /\ n.store = r /\ n.cmd = run.cmd /\ n.given = g
  <2>1. g \in Given BY Zenon DEF SubGivenIs
  <2>. QED BY <1>1, <1>11, <2>1, RunGiven, Zenon
<1>. HIDE DEF n, done
<1>13. OtherKeys(run.store, r, s) BY <1>5, <1>11, Zenon DEF OtherKeys
<1>14. r.subprojects = IF r.ok = TRUE THEN st.subprojects \cup {s} ELSE st.subprojects BY <1>9, Zenon DEF InitResult
<1>15. DroppedOK(n)
  <2>1. g.dropped = run.given.dropped BY Zenon DEF SubGivenIs
  <2>2. kind # "project" => s \notin g.dropped BY <1>1, <1>4, <2>1, Zenon DEF DroppedOK
  <2>3. kind # "project" => /\ OtherKeys(run.store, n.store, s) /\ run.store.subprojects \subseteq n.store.subprojects
                            /\ n.given.dropped \subseteq run.given.dropped /\ s \notin n.given.dropped
    BY <1>4, <1>12, <1>13, <1>14, <2>1, <2>2, Zenon
  <2>. QED BY <1>1, <2>3, DroppedKept, Zenon
<1>16. ~edited => Agree(r) BY <1>1, <1>3, <1>11, AgreeSame, Zenon DEF LoadAgrees
<1>17. SoundRun(n) /\ Root \in DOMAIN n.store.options_files
  BY <1>4, <1>11, <1>12, <1>15, <1>16, Zenon DEF SoundRun, SameDecls
<1>18. ASSUME ~configured PROVE Body(n, done)
  <2>0. Body(run, called) /\ ~edited BY <1>0, <1>18, Zenon
  <2>1. /\ TopOK(run) => TopOK(n)
        /\ \A t \in Sub \ {s} : (\A e : get(n.given.parent, t, e) = get(run.given.parent, t, e))
                                /\ ConfiguredOK(run, t) => ConfiguredOK(n, t)
    <3>1. n.given.project = run.given.project BY <1>12, Zenon DEF SubGivenIs
    <3>2. \A t \in Sub \ {s} : \A e : /\ get(n.given.call, t, e) = get(run.given.call, t, e)
                                      /\ get(n.given.own, t, e) = get(run.given.own, t, e)
      BY <1>12, Zenon DEF SubGivenIs
    <3>. QED BY <1>1, <1>12, <1>13, <3>1, <3>2, OthersKept, Zenon
  <2>2. TopOK(n) BY <2>0, <2>1, Zenon DEF Body
  <2>3. ASSUME NEW t \in Sub \ {s}, t \in r.subprojects PROVE t \in done /\ ConfiguredOK(n, t)
    <3>1. t \in run.store.subprojects BY <1>4, <1>14, <2>3, Zenon
    <3>2. t \in called /\ ConfiguredOK(run, t) BY <2>0, <3>1, Zenon DEF Body
    <3>3. t \notin K BY <1>4, <3>1, Zenon
    <3>4. \A e : get(n.given.parent, t, e) = get(run.given.parent, t, e) BY <1>12, <3>3, Zenon DEF SubGivenIs
    <3>. QED BY <2>1, <3>2, <3>4, Zenon DEF done
  <2>4. ASSUME NEW t \in Sub \ {s}, t \notin r.subprojects, UntouchedOK(run, t) PROVE UntouchedOK(n, t)
    <3>1. t \notin st.subprojects /\ t \in Key BY <1>14, <2>4, Zenon DEF Key, Project
    <3>2. t \notin DOMAIN r.options \cup DOMAIN r.augments \cup DOMAIN r.pending_options
      BY <1>13, <2>4, <3>1, Zenon DEF OtherKeys, UntouchedOK
    <3>3. get(r.pending_subproject_options, t, Nothing) =
             IF t \in keys THEN o[t] ELSE get(st.pending_subproject_options, t, Nothing)
      BY <1>9, <3>1, Zenon DEF InitResult
    <3>4. get(st.pending_subproject_options, t, Nothing) = get(run.given.parent, t, Nothing)
      BY <1>4, <2>4, Zenon DEF UntouchedOK
    <3>5. get(g.parent, t, Nothing) = IF t \in keys THEN get(Update(own, call), t, get(run.given.parent, t, Nothing))
                                      ELSE get(run.given.parent, t, Nothing)
      BY <3>1, Zenon DEF SubGivenIs
    <3>6. t \in keys => get(Update(own, call), t, get(run.given.parent, t, Nothing)) = o[t]
      <4>1. \A e : get(o, t, e) = get(Update(own, call), t, e) BY <1>7, Zenon DEF Selected
      <4>2. t \in keys => t \in DOMAIN o BY Zenon DEF Merged
      <4>. QED BY <4>1, <4>2, Zenon DEF get
    <3>. QED BY <1>12, <2>4, <3>2, <3>3, <3>4, <3>5, <3>6, Zenon DEF UntouchedOK
  <2>5. ASSUME s \in r.subprojects PROVE ConfiguredOK(n, s)
    <3>1. s \notin run.store.subprojects BY <1>4, Zenon
    <3>2. UntouchedOK(run, s) /\ TopOK(run) BY <2>0, <3>1, Zenon DEF Body
    <3>3. r.ok = TRUE BY <1>14, <2>5
    <3>4. (Root \in DOMAIN st.options) <=> (Root \in DOMAIN run.store.options)
      <4>1. Root \in Key \ {s} BY <1>2, Zenon DEF Key, Project
      <4>. QED BY <1>5, <4>1, Zenon DEF OtherKeys
    <3>5. kind # "project" => Root \notin DOMAIN st.options
      <4>1. Root # Global BY KeysAssumption DEF Project
      <4>. QED BY <1>4, <4>1, Zenon DEF WF, KindOK
    <3>6. \A e : /\ get(n.given.call, s, e) = get(call, s, e) /\ get(n.given.own, s, e) = get(own, s, e)
                 /\ get(n.given.parent, s, e) = get(run.given.parent, s, e)
      BY <1>12, Zenon DEF SubGivenIs
    <3>7. n.cmd = run.cmd /\ n.given.project = run.given.project BY <1>12, Zenon DEF SubGivenIs
    <3>8. SelectedDoc(n, s, o)
      BY <1>0, <1>1, <1>4, <1>12, <3>2, <3>4, <3>5, <3>6, <3>7, SelectedIsDocumented, Zenon
    <3>9. LoadAgrees(run.store, st, file[s], s) BY <1>1, <1>3, <2>0, Zenon
    <3>10. InitResult(st, n.store, s, o, keys) /\ n.store.ok = TRUE BY <1>9, <1>12, <3>3, Zenon
    <3>. QED BY <1>1, <1>4, <1>12, <3>2, <3>8, <3>9, <3>10, NewlyConfigured, Zenon
  <2>6. ASSUME NEW t \in Sub
        PROVE  IF t \in r.subprojects THEN t \in done /\ ConfiguredOK(n, t) ELSE t \in done \/ UntouchedOK(n, t)
    <3>1. CASE t = s BY <2>5, <3>1, Zenon DEF done
    <3>2. CASE t # s /\ t \in r.subprojects BY <2>3, <3>2, Zenon
    <3>3. CASE t # s /\ t \notin r.subprojects
      <4>1. t \notin run.store.subprojects BY <1>4, <1>14, <3>3, Zenon
      <4>2. t \in called \/ UntouchedOK(run, t) BY <2>0, <4>1, Zenon DEF Body
      <4>. QED BY <2>4, <3>3, <4>2, Zenon DEF done
    <3>. QED BY <3>1, <3>2, <3>3, Zenon
  <2>. QED BY <1>12, <2>2, <2>6, Zenon DEF Body
<1>19. done \in SUBSET Project BY <1>0, <1>2, Zenon DEF done
<1>. QED BY <1>10, <1>17, <1>18, <1>19, OutcomeIInv, Zenon


\* subproject()
LEMMA SubprojectIInv == ASSUME IInv, NEW s \in Sub, do_subproject(s) PROVE IInv'
<1>. DEFINE st == _load_option_file(run.store, s)
            done == called \cup {s}
            o(call, own) == SubprojectOptions(st, s, call, own, run.cmd)
            g(call, own, keys) ==
               SubGiven(run.given, Update(pop(run.given.call, s), Only(call, {s})),
                        Update(pop(run.given.own, s), Only(own, {s})),
                        Update(run.given.parent, Only(Update(own, call), keys \ (st.subprojects \cup {s}))))
<1>1. /\ UNCHANGED <<kind, file, saved, configured, machine, edited>> /\ phase = "body" /\ s \notin called
  BY Zenon DEF do_subproject
<1>2. \/ Outcome([run EXCEPT !.store = st], done)
      \/ Outcome([run EXCEPT !.store = Fail(st)], done)
      \/ /\ s \notin st.subprojects /\ st.ok
         /\ \E call \in Dict(Sub), own \in Dict(Sub) : \E keys \in Merged(st, s, o(call, own)) :
               Outcome(NewRun(run, initialize_from_subproject_call(st, s, o(call, own), keys), g(call, own, keys)), done)
  BY Zenon DEF do_subproject, Outcome, NewRun, SubGiven
<1>3. CASE Outcome([run EXCEPT !.store = st], done) \/ Outcome([run EXCEPT !.store = Fail(st)], done)
  <2>1. LoadResult(run.store, st, s) /\ (~edited => Agree(st))
    <3>1. kind \in Kind /\ RunOK(run) /\ FileOK /\ s \in Project BY DEF IInv, Basic, Project
    <3>2. WF(run.store) /\ (~edited => Agree(run.store)) BY <3>1 DEF RunOK, SoundRun
    <3>. QED BY <3>1, <3>2, LoadFile DEF LoadAgrees
  <2>2. LoadResult(run.store, Fail(st), s) /\ (~edited => Agree(Fail(st))) BY <2>1, FailedLoad
  <2>. HIDE DEF st
  <2>. QED BY <1>1, <1>3, <2>1, <2>2, LoadedSubprojectIInv
<1>4. CASE /\ s \notin st.subprojects /\ st.ok
           /\ \E call \in Dict(Sub), own \in Dict(Sub) : \E keys \in Merged(st, s, o(call, own)) :
                 Outcome(NewRun(run, initialize_from_subproject_call(st, s, o(call, own), keys), g(call, own, keys)), done)
  <2>1. PICK call \in Dict(Sub), own \in Dict(Sub) : \E keys \in Merged(st, s, o(call, own)) :
                 Outcome(NewRun(run, initialize_from_subproject_call(st, s, o(call, own), keys), g(call, own, keys)), done)
    BY <1>4, Zenon
  <2>2. PICK keys \in Merged(st, s, o(call, own)) :
                 Outcome(NewRun(run, initialize_from_subproject_call(st, s, o(call, own), keys), g(call, own, keys)), done)
    BY <2>1, Zenon
  <2>3. run.given \in Given BY RunType DEF IInv, Basic, RunOK, SoundRun
  <2>4. SubGivenIs(run.given, g(call, own, keys), s, call, own, keys \ (st.subprojects \cup {s}))
    BY <2>3, SubGivenAre, Zenon
  <2>. HIDE DEF g
  <2>. QED BY <1>1, <1>4, <2>2, <2>4, NewSubprojectIInv, Zenon
<1>. QED BY <1>2, <1>3, <1>4, Zenon

\* Every step keeps the invariant.
LEMMA NextIInv == IInv /\ [Next]_vars => IInv'
<1>. SUFFICES ASSUME IInv, [Next]_vars PROVE IInv' OBVIOUS
<1>1. CASE Setup BY <1>1, SetupIInv
<1>2. CASE Reconfigure BY <1>2, ReconfigureIInv
<1>3. CASE Configure BY <1>3, ConfigureIInv
<1>4. CASE func_project BY <1>4, ProjectIInv
<1>5. CASE Finish BY <1>5, FinishIInv
<1>6. CASE Done BY <1>6, StutterIInv DEF Done
<1>7. ASSUME NEW s \in Sub, do_subproject(s) PROVE IInv' BY <1>7, SubprojectIInv
<1>8. ASSUME NEW p \in Project, add_languages(p) PROVE IInv' BY <1>8, LanguagesIInv
<1>9. ASSUME NEW p \in Project, Edit(p) PROVE IInv' BY <1>9, EditIInv
<1>10. CASE UNCHANGED vars BY <1>10, StutterIInv
<1>. QED BY <1>1, <1>2, <1>3, <1>4, <1>5, <1>6, <1>7, <1>8, <1>9, <1>10 DEF Next

\* The inductive invariant holds in every state the commands reach.
THEOREM Invariance == Spec => []IInv
<1>1. Init => IInv BY InitIInv
<1>2. IInv /\ [Next]_vars => IInv' BY NextIInv
<1>. QED BY <1>1, <1>2, PTL DEF Spec

----------------------------------------------------------------------------
(* The properties *)

\* The store, the command line and the phases have their types, and a command
\* that raised leaves no store behind that records it (OptionStore,
\* MesonException).
THEOREM TypeCorrect == Spec => []TypeOK
<1>1. IInv => TypeOK
  <2>. SUFFICES ASSUME IInv PROVE TypeOK OBVIOUS
  <2>1. /\ run \in Run /\ WF(run.store) /\ run.store.ok /\ saved \in Run /\ kind \in Kind
        /\ phase \in {"idle", "project", "body"} /\ called \subseteq Project
    BY DEF IInv, Basic, RunOK, SoundRun
  <2>2. run.store \in Store /\ saved.cmd \in Dict(UserKey) BY <2>1, RunType
  <2>3. DOMAIN run.store.options \subseteq Key /\ KindOK(run.store) BY <2>1, <2>2, StoreType DEF WF
  <2>4. DOMAIN run.store.options \subseteq (IF kind = "project" THEN Project ELSE {Global})
    BY <2>3 DEF KindOK, Key
  <2>. QED BY <2>1, <2>2, <2>4, StoreType DEF TypeOK
<1>. QED BY <1>1, Invariance, PTL

\* The value of a project that has the option, by what is behind it.
LEMMA ValueIs ==
    ASSUME NEW st, WF(st), NEW p \in Project, has_option(st, p)
    PROVE  /\ kind # "project" => Global \in DOMAIN st.options /\
                get_option_and_value_for(st, p) = IF p \in DOMAIN st.augments THEN st.augments[p]
                                                  ELSE st.options[Global].value
           /\ kind = "project" => p \in DOMAIN st.options /\
                get_option_and_value_for(st, p) = IF ~st.options[p].yielding THEN st.options[p].value
                                                  ELSE IF st.options[p].parent = NoParent THEN Crash
                                                  ELSE IF st.options[p].parent = Live THEN st.options[Root].value
                                                  ELSE st.options[p].parent
<1>1. p # Global BY KeysAssumption
<1>2. KindOK(st) BY DEF WF
<1>3. CASE kind # "project"
  <2>1. Global \in DOMAIN st.options /\ p \notin DOMAIN st.options BY <1>1, <1>2, <1>3 DEF has_option, KindOK
  <2>2. ~st.options[Global].yielding BY <1>2, <1>3, <2>1 DEF KindOK
  <2>. QED BY <1>3, <2>1, <2>2 DEF get_option_and_value_for
<1>4. CASE kind = "project"
  <2>1. p \in DOMAIN st.options /\ p \notin DOMAIN st.augments BY <1>2, <1>4 DEF has_option, KindOK
  <2>. QED BY <1>4, <2>1 DEF get_option_and_value_for
<1>. QED BY <1>3, <1>4, Zenon

\* After `meson configure -Usub:opt` the subproject follows the toplevel
\* project's value in this and every later run, until the user sets it again
\* (set_from_configure_command, initialize_from_subproject_call).
THEOREM RemovedFollows == Spec => []RemovedFollowsRoot
<1>1. IInv => RemovedFollowsRoot
  <2>. SUFFICES ASSUME IInv, NEW s \in Settled(run) \cap run.given.dropped \cap Sub, kind # "project"
                PROVE  value_of(run, s) = value_of(run, Root)
    BY DEF RemovedFollowsRoot
  <2>1. run \in Run /\ WF(run.store) /\ DroppedOK(run) BY DEF IInv, Basic, RunOK, SoundRun
  <2>2. s \notin DOMAIN run.store.augments BY <2>1 DEF DroppedOK
  <2>3. has_option(run.store, s) /\ s \in Project /\ Root \in Project BY DEF Settled, Project
  <2>4. Global \in DOMAIN run.store.options /\ get_option_and_value_for(run.store, s) = run.store.options[Global].value
    BY <2>1, <2>2, <2>3, ValueIs
  <2>5. has_option(run.store, Root) BY <2>4 DEF has_option
  <2>6. Root \notin DOMAIN run.store.augments
    <3>1. run.store \in Store BY <2>1 DEF WF
    <3>. QED BY <3>1, StoreType, KeysAssumption
  <2>7. get_option_and_value_for(run.store, Root) = run.store.options[Global].value BY <2>1, <2>3, <2>5, <2>6, ValueIs
  <2>. QED BY <2>4, <2>7 DEF value_of
<1>. QED BY <1>1, Invariance, PTL

\* After the first setup every project sees the value that the documented
\* order of the sources selects, whichever project adds the language when and
\* whichever subproject is configured first
\* (initialize_from_top_level_project_call, initialize_from_subproject_call).
THEOREM OrderIsDocumented == Spec => []DocumentedOrder
<1>1. IInv => DocumentedOrder
  <2>. SUFFICES ASSUME IInv, ~configured, phase = "body", NEW p \in Settled(run)
                PROVE  value_of(run, p) = IF p = Root THEN RootDocumented ELSE Documented(p)
    BY DEF DocumentedOrder
  <2>1. WF(run.store) /\ Body(run, called) BY DEF IInv, Basic, FirstRun, RunOK, SoundRun
  <2>2. RootDocumented = RootDoc(run) BY DEF RootDocumented, RootDoc, TopDefault
  <2>3. Documented(p) = Doc(run, p)
    BY <2>2 DEF Documented, Doc, SharedDocumented, SharedDoc, OwnDocumented, OwnDoc, Yields
  <2>4. run.store \in Store BY <2>1 DEF WF
  <2>5. p \in Project /\ has_option(run.store, p) /\ {p, Global} \cap DOMAIN run.store.pending_options = {}
    BY <2>4, StoreType DEF Settled, Project
  <2>6. Root \notin DOMAIN run.store.augments BY <2>4, StoreType, KeysAssumption
  <2>7. TopOK(run) BY <2>1 DEF Body
  <2>8. CASE p = Root
    <3>1. CASE kind # "project" BY <2>1, <2>2, <2>5, <2>6, <2>7, <2>8, <3>1, ValueIs, Zenon DEF TopOK, value_of
    <3>2. CASE kind = "project" BY <2>1, <2>2, <2>5, <2>7, <2>8, <3>2, ValueIs, Zenon DEF TopOK, value_of
    <3>. QED BY <3>1, <3>2
  <2>9. CASE p # Root
    <3>0. p \in Sub /\ ConfiguredOK(run, p) BY <2>1, <2>4, <2>9, StoreType, Zenon DEF Settled, Body
    <3>1. CASE kind # "project"
      BY <2>1, <2>3, <2>5, <2>7, <2>9, <3>0, <3>1, ValueIs, Zenon DEF TopOK, ConfiguredOK, value_of
    <3>2. CASE kind = "project"
      <4>1. p \in DOMAIN run.store.options BY <2>1, <2>5, <3>2, ValueIs
      <4>2. CASE ~run.store.options[p].yielding
        BY <2>1, <2>3, <2>5, <2>9, <3>0, <3>2, <4>1, <4>2, ValueIs, Zenon DEF ConfiguredOK, value_of
      <4>3. CASE run.store.options[p].yielding
        <5>1. run.store.options[p].parent = Live /\ Doc(run, p) = RootDoc(run) BY <3>0, <3>2, <4>1, <4>3 DEF ConfiguredOK
        <5>2. Root \in DOMAIN run.store.options BY <2>1, <4>1, <5>1 DEF WF, LiveOK
        <5>3. run.store.options[Root].value = RootDoc(run) BY <2>7, <3>2, <5>2 DEF TopOK
        <5>4. Live # NoParent BY ValuesAssumption
        <5>5. get_option_and_value_for(run.store, p) = run.store.options[Root].value
          BY <2>1, <2>5, <3>2, <4>3, <5>1, <5>4, ValueIs, Zenon
        <5>. QED BY <2>3, <2>9, <5>1, <5>3, <5>5, Zenon DEF value_of
      <4>. QED BY <4>2, <4>3
    <3>. QED BY <3>1, <3>2
  <2>. QED BY <2>8, <2>9
<1>. QED BY <1>1, Invariance, PTL


\* A store with the same options and augments gives the same values.
LEMMA SameValue ==
    ASSUME NEW st, NEW r, NEW p, r.options = st.options, r.augments = st.augments
    PROVE  get_option_and_value_for(r, p) = get_option_and_value_for(st, p)
BY DEF get_option_and_value_for

\* Reading an option file that was not edited changes no value.
LEMMA LoadValue ==
    ASSUME NEW st, NEW r, NEW decl, NEW key \in Project, WF(st), WF(r), LoadAgrees(st, r, decl, key),
           r.augments = st.augments, NEW p \in Project, has_option(st, p)
    PROVE  get_option_and_value_for(r, p) = get_option_and_value_for(st, p)
<1>1. CASE r.options = st.options BY <1>1, SameValue
<1>2. CASE r.options # st.options
  <2>1. kind = "project" /\ key \notin DOMAIN st.options /\ Added(st, r, decl, key) BY <1>2 DEF LoadAgrees
  <2>2. p \in DOMAIN st.options BY <2>1, ValueIs
  <2>3. p \in DOMAIN r.options /\ r.options[p] = st.options[p] BY <2>1, <2>2 DEF Added
  <2>4. has_option(r, p) BY <2>3 DEF has_option
  <2>5. st.options[p].parent = Live => r.options[Root] = st.options[Root]
    BY <2>1, <2>2 DEF WF, LiveOK, Added
  <2>6. get_option_and_value_for(st, p) = IF ~st.options[p].yielding THEN st.options[p].value
                                          ELSE IF st.options[p].parent = NoParent THEN Crash
                                          ELSE IF st.options[p].parent = Live THEN st.options[Root].value
                                          ELSE st.options[p].parent
    BY <2>1, ValueIs
  <2>7. get_option_and_value_for(r, p) = IF ~r.options[p].yielding THEN r.options[p].value
                                         ELSE IF r.options[p].parent = NoParent THEN Crash
                                         ELSE IF r.options[p].parent = Live THEN r.options[Root].value
                                         ELSE r.options[p].parent
    BY <2>1, <2>4, ValueIs, Zenon
  <2>. QED BY <2>3, <2>5, <2>6, <2>7
<1>. QED BY <1>1, <1>2

\* Changing one subproject's entries changes no other project's value.
LEMMA OtherValue ==
    ASSUME NEW st, NEW r, NEW s \in Sub, WF(st), WF(r), OtherKeys(st, r, s),
           NEW p \in Project, p # s, has_option(st, p)
    PROVE  get_option_and_value_for(r, p) = get_option_and_value_for(st, p)
<1>1. {p, Global, Root} \subseteq Key \ {s} BY KeysAssumption DEF Key, Project
<1>2. /\ \A k \in {p, Global, Root} : /\ k \in DOMAIN r.options <=> k \in DOMAIN st.options
                                      /\ k \in DOMAIN st.options => r.options[k] = st.options[k]
      /\ p \in DOMAIN r.augments <=> p \in DOMAIN st.augments
      /\ p \in DOMAIN st.augments => r.augments[p] = st.augments[p]
  BY <1>1 DEF OtherKeys
<1>3. has_option(r, p) BY <1>2 DEF has_option
<1>4. CASE kind # "project"
  <2>1. Global \in DOMAIN st.options /\
        get_option_and_value_for(st, p) = IF p \in DOMAIN st.augments THEN st.augments[p] ELSE st.options[Global].value
    BY <1>4, ValueIs
  <2>2. get_option_and_value_for(r, p) = IF p \in DOMAIN r.augments THEN r.augments[p] ELSE r.options[Global].value
    BY <1>3, <1>4, ValueIs
  <2>. QED BY <1>2, <2>1, <2>2
<1>5. CASE kind = "project"
  <2>1. p \in DOMAIN st.options /\
        get_option_and_value_for(st, p) = IF ~st.options[p].yielding THEN st.options[p].value
                                          ELSE IF st.options[p].parent = NoParent THEN Crash
                                          ELSE IF st.options[p].parent = Live THEN st.options[Root].value
                                          ELSE st.options[p].parent
    BY <1>5, ValueIs
  <2>2. get_option_and_value_for(r, p) = IF ~r.options[p].yielding THEN r.options[p].value
                                         ELSE IF r.options[p].parent = NoParent THEN Crash
                                         ELSE IF r.options[p].parent = Live THEN r.options[Root].value
                                         ELSE r.options[p].parent
    BY <1>3, <1>5, ValueIs, Zenon
  <2>3. st.options[p].parent = Live => r.options[Root] = st.options[Root]
    BY <1>2, <2>1 DEF WF, LiveOK
  <2>4. r.options[p] = st.options[p]
    BY <1>2, <2>1, Zenon
  <2>5. CASE st.options[p].yielding /\ st.options[p].parent = Live
    BY <2>1, <2>2, <2>3, <2>4, <2>5
  <2>6. CASE ~(st.options[p].yielding /\ st.options[p].parent = Live)
    BY <2>1, <2>2, <2>4, <2>6
  <2>. QED BY <2>5, <2>6
<1>. QED BY <1>4, <1>5

\* A step that goes on with values of a new record, or raises.
LEMMA ContinuedValue ==
    ASSUME NEW n, NEW next, NEW done, NEW p, Continue(n, next, done),
           get_option_and_value_for(n.store, p) = value_of(run, p)
    PROVE  value_of(run', p) \in {value_of(run, p), value_of(saved, p)}
BY DEF Continue, value_of

\* The same for a subproject that may be disabled.
LEMMA OutcomeValue ==
    ASSUME NEW n \in Run, NEW done, NEW p, Outcome(n, done),
           get_option_and_value_for(n.store, p) = value_of(run, p)
    PROVE  value_of(run', p) \in {value_of(run, p), value_of(saved, p)}
<1>1. CASE Continue(n, "body", done) BY <1>1, ContinuedValue
<1>2. CASE Continue([n EXCEPT !.store.ok = TRUE], "body", done)
  <2>. DEFINE m == [n EXCEPT !.store.ok = TRUE]
  <2>1. m.store.options = n.store.options /\ m.store.augments = n.store.augments BY Disabled, Zenon
  <2>2. Continue(m, "body", done) BY <1>2
  <2>. HIDE DEF m
  <2>3. get_option_and_value_for(m.store, p) = value_of(run, p) BY <2>1, SameValue
  <2>. QED BY <2>2, <2>3, ContinuedValue
<1>. QED BY <1>1, <1>2 DEF Outcome

\* What the steps of a run say of a project that has its value.
LEMMA SettledFacts ==
    ASSUME IInv, NEW p \in Settled(run)
    PROVE  /\ p \in Project /\ has_option(run.store, p) /\ p \in run.store.subprojects \cup {Root}
           /\ run \in Run /\ WF(run.store) /\ run.store.ok = TRUE /\ kind \in Kind /\ FileOK
           /\ run.cmd \in Dict(UserKey) /\ run.given \in Given /\ machine \in Dict(UserKey)
           /\ ~edited => Agree(run.store)
<1>1. run \in Run /\ WF(run.store) /\ run.store.ok /\ kind \in Kind /\ FileOK /\ machine \in Dict(UserKey)
      /\ (~edited => Agree(run.store))
  BY DEF IInv, Basic, RunOK, SoundRun
<1>2. run.store \in Store /\ run.cmd \in Dict(UserKey) /\ run.given \in Given BY <1>1, RunType
<1>3. run.store.subprojects \subseteq Sub /\ run.store.ok \in BOOLEAN BY <1>2, StoreType
<1>. QED BY <1>1, <1>2, <1>3 DEF Settled, Project


\* project() of the toplevel project, with a saved store.
LEMMA ProjectValue ==
    ASSUME IInv, func_project, configured, ~edited, NEW p \in Settled(run)
    PROVE  value_of(run', p) \in {value_of(run, p), value_of(saved, p)}
<1>. DEFINE st == _load_option_file(run.store, Root)
            n == [run EXCEPT !.store = st]
<1>1. /\ p \in Project /\ has_option(run.store, p) /\ run \in Run /\ WF(run.store) /\ FileOK
      /\ Agree(run.store)
  BY SettledFacts, Zenon
<1>2. Continue(n, "body", {Root}) BY DEF func_project
<1>3. Root \in Project BY DEF Project
<1>4. LoadResult(run.store, st, Root) /\ LoadAgrees(run.store, st, file[Root], Root) BY <1>1, <1>3, LoadFile, Zenon
<1>. HIDE DEF st
<1>5. WF(st) /\ st \in Store /\ st.augments = run.store.augments BY <1>4 DEF LoadResult, WF
<1>6. n.store = st BY <1>1, <1>5, RunStore
<1>7. get_option_and_value_for(st, p) = get_option_and_value_for(run.store, p) BY <1>1, <1>3, <1>4, <1>5, LoadValue
<1>. HIDE DEF n
<1>. QED BY <1>2, <1>6, <1>7, ContinuedValue DEF value_of

\* subproject()
LEMMA SubprojectValue ==
    ASSUME IInv, NEW s \in Sub, do_subproject(s), ~edited, NEW p \in Settled(run)
    PROVE  value_of(run', p) \in {value_of(run, p), value_of(saved, p)}
<1>. DEFINE st == _load_option_file(run.store, s)
            done == called \cup {s}
            o(call, own) == SubprojectOptions(st, s, call, own, run.cmd)
            g(call, own, keys) ==
               SubGiven(run.given, Update(pop(run.given.call, s), Only(call, {s})),
                        Update(pop(run.given.own, s), Only(own, {s})),
                        Update(run.given.parent, Only(Update(own, call), keys \ (st.subprojects \cup {s}))))
<1>1. \/ Outcome([run EXCEPT !.store = st], done)
      \/ Outcome([run EXCEPT !.store = Fail(st)], done)
      \/ /\ s \notin st.subprojects /\ st.ok
         /\ \E call \in Dict(Sub), own \in Dict(Sub) : \E keys \in Merged(st, s, o(call, own)) :
               Outcome(NewRun(run, initialize_from_subproject_call(st, s, o(call, own), keys), g(call, own, keys)), done)
  BY Zenon DEF do_subproject, Outcome, NewRun, SubGiven
<1>2. /\ p \in Project /\ has_option(run.store, p) /\ p \in run.store.subprojects \cup {Root}
      /\ run \in Run /\ WF(run.store) /\ run.store.ok = TRUE /\ kind \in Kind /\ FileOK
      /\ run.cmd \in Dict(UserKey) /\ run.given \in Given /\ machine \in Dict(UserKey)
      /\ Agree(run.store)
  BY SettledFacts, Zenon
<1>3. s \in Project /\ s # Root BY KeysAssumption DEF Project
<1>4. LoadResult(run.store, st, s) /\ LoadAgrees(run.store, st, file[s], s) BY <1>2, <1>3, LoadFile, Zenon
<1>. HIDE DEF st
<1>5. WF(st) /\ st \in Store /\ st.augments = run.store.augments /\ st.subprojects = run.store.subprojects
      /\ st.ok = TRUE
  BY <1>2, <1>4, Zenon DEF LoadResult, LoadAgrees, WF
<1>6. CASE Outcome([run EXCEPT !.store = st], done)
  <2>. DEFINE n == [run EXCEPT !.store = st]
  <2>1. n \in Run /\ n.store = st BY <1>2, <1>5, RunStore
  <2>2. get_option_and_value_for(st, p) = get_option_and_value_for(run.store, p)
    BY <1>2, <1>3, <1>4, <1>5, LoadValue, Zenon
  <2>3. Outcome(n, done) BY <1>6
  <2>. HIDE DEF n
  <2>4. get_option_and_value_for(n.store, p) = value_of(run, p) BY <2>1, <2>2 DEF value_of
  <2>. QED BY <2>1, <2>3, <2>4, OutcomeValue
<1>8. CASE Outcome([run EXCEPT !.store = Fail(st)], done)
  <2>. DEFINE n == [run EXCEPT !.store = Fail(st)]
  <2>1. Fail(st).options = st.options /\ Fail(st).augments = st.augments /\ Fail(st) \in Store
    BY <1>4, FailedLoad, Zenon DEF LoadResult, WF
  <2>2. n \in Run /\ n.store = Fail(st) BY <1>2, <2>1, RunStore
  <2>3. get_option_and_value_for(st, p) = get_option_and_value_for(run.store, p)
    BY <1>2, <1>3, <1>4, <1>5, LoadValue, Zenon
  <2>4. get_option_and_value_for(Fail(st), p) = get_option_and_value_for(st, p) BY <2>1, SameValue
  <2>5. Outcome(n, done) BY <1>8
  <2>. HIDE DEF n
  <2>6. get_option_and_value_for(n.store, p) = value_of(run, p) BY <2>2, <2>3, <2>4 DEF value_of
  <2>. QED BY <2>2, <2>5, <2>6, OutcomeValue
<1>7. ASSUME s \notin st.subprojects, NEW call \in Dict(Sub), NEW own \in Dict(Sub),
             NEW keys \in Merged(st, s, o(call, own)),
             Outcome(NewRun(run, initialize_from_subproject_call(st, s, o(call, own), keys), g(call, own, keys)), done)
      PROVE  value_of(run', p) \in {value_of(run, p), value_of(saved, p)}
  <2>. DEFINE oo == o(call, own)
              gg == g(call, own, keys)
              r == initialize_from_subproject_call(st, s, oo, keys)
              n == NewRun(run, r, gg)
  <2>1. SubGivenIs(run.given, gg, s, call, own, keys \ (st.subprojects \cup {s})) BY <1>2, SubGivenAre, Zenon
  <2>2. gg \in Given BY <2>1, Zenon DEF SubGivenIs
  <2>3. Selected(oo, st, s, call, own, run.cmd) BY <1>2, <1>5, SubprojectOptionsAre, Zenon
  <2>4. keys \in Merged(st, s, oo) /\ Outcome(n, done) BY <1>7, Zenon
  <2>. HIDE DEF oo, gg
  <2>5. oo \in Dict(Sub) BY <2>3, Zenon DEF Selected
  <2>6. InitResult(st, r, s, oo, keys) BY <1>2, <1>5, <2>4, <2>5, InitSub, Zenon
  <2>. HIDE DEF r
  <2>7. WF(r) /\ r \in Store /\ OtherKeys(st, r, s) BY <2>6, Zenon DEF InitResult, WF
  <2>8. n \in Run /\ n.store = r BY <1>2, <2>2, <2>7, RunGiven, Zenon
  <2>. HIDE DEF n
  <2>9. OtherKeys(run.store, r, s)
    <3>1. OtherKeys(run.store, st, s) BY <1>4, LoadOthers
    <3>. QED BY <2>7, <3>1, Zenon DEF OtherKeys
  <2>10. p # s BY <1>2, <1>3, <1>5, <1>7, Zenon
  <2>11. get_option_and_value_for(r, p) = get_option_and_value_for(run.store, p)
    BY <1>2, <2>7, <2>9, <2>10, OtherValue, Zenon
  <2>12. get_option_and_value_for(n.store, p) = value_of(run, p) BY <2>8, <2>11 DEF value_of
  <2>. QED BY <2>4, <2>8, <2>12, OutcomeValue
<1>. QED BY <1>1, <1>6, <1>7, <1>8, Zenon

\* add_languages()
LEMMA LanguagesValue ==
    ASSUME IInv, NEW q \in Project, add_languages(q), NEW p \in Settled(run)
    PROVE  value_of(run', p) \in {value_of(run, p), value_of(saved, p)}
<1>. DEFINE key == IF q = Root THEN Global ELSE q
            st == add_system_option_internal(run.store, key)
            n == [run EXCEPT !.store = st]
<1>1. /\ p \in Project /\ has_option(run.store, p) /\ p \in run.store.subprojects \cup {Root}
      /\ run \in Run /\ WF(run.store) /\ run.store.ok = TRUE
  BY SettledFacts, Zenon
<1>2. {p, Global} \cap DOMAIN run.store.pending_options = {} BY DEF Settled
<1>3. kind = "compiler" /\ Continue(n, "body", called) BY DEF add_languages
<1>4. key \in UserKey BY DEF UserKey, Project
<1>. HIDE DEF key
<1>5. AddResult(run.store, st, key) BY <1>1, <1>3, <1>4, AddSystem, Zenon
<1>. HIDE DEF st
<1>6. n.store = st
  <2>1. st \in Store BY <1>5 DEF WF, AddResult
  <2>. QED BY <1>1, <2>1, RunStore
<1>. HIDE DEF n
<1>7. /\ p \in DOMAIN st.augments <=> p \in DOMAIN run.store.augments
      /\ p \in DOMAIN run.store.augments => st.augments[p] = run.store.augments[p]
  <2>1. CASE p \in Sub BY <1>2, <1>5, <2>1 DEF AddResult
  <2>2. CASE p \notin Sub
    <3>1. run.store \in Store /\ st \in Store BY <1>1, <1>5 DEF WF, AddResult
    <3>. QED BY <2>2, <3>1, StoreType
  <2>. QED BY <2>1, <2>2
<1>8. has_option(st, p) BY <1>5 DEF has_option, AddResult
<1>9. kind # "project" BY <1>3
<1>10. Global \in DOMAIN run.store.options /\
       get_option_and_value_for(run.store, p) = IF p \in DOMAIN run.store.augments THEN run.store.augments[p]
                                                ELSE run.store.options[Global].value
  BY <1>1, <1>9, ValueIs
<1>11. get_option_and_value_for(st, p) = IF p \in DOMAIN st.augments THEN st.augments[p] ELSE st.options[Global].value
  BY <1>1, <1>5, <1>8, <1>9, ValueIs, Zenon DEF AddResult
<1>12. get_option_and_value_for(n.store, p) = value_of(run, p) BY <1>5, <1>6, <1>7, <1>10, <1>11 DEF value_of, AddResult
<1>. QED BY <1>3, <1>12, ContinuedValue

\* Once a project is configured, evaluating project() and subproject() again
\* never changes its value of an option that was not waiting to exist, unless
\* an option file was edited: only -D and -U do (func_project,
\* initialize_from_subproject_call, add_system_option_internal).
THEOREM EvaluationKeepsValues == Spec => ValuesStay
<1>. DEFINE A == \A p \in Settled(run) \cap Settled(run') :
                    /\ configured /\ ~edited /\ phase # "idle"
                    /\ p \in Settled(saved)
                    => value_of(run', p) \in {value_of(run, p), value_of(saved, p)}
<1>1. IInv /\ [Next]_vars => [A]_vars
  <2>. SUFFICES ASSUME IInv, Next, NEW p \in Settled(run), configured, ~edited, phase # "idle"
                PROVE  value_of(run', p) \in {value_of(run, p), value_of(saved, p)}
    OBVIOUS
  <2>1. CASE Setup BY <2>1 DEF Setup
  <2>2. CASE Reconfigure BY <2>2, Zenon DEF Reconfigure, Command
  <2>3. CASE Configure BY <2>3 DEF Configure, Command
  <2>4. CASE func_project BY <2>4, ProjectValue
  <2>5. CASE Finish
    <3>1. run \in Run BY SettledFacts, Zenon
    <3>2. run'.store = run.store BY <2>5, <3>1 DEF Finish, Run
    <3>. QED BY <3>2 DEF value_of
  <2>6. CASE Done BY <2>6 DEF Done
  <2>7. ASSUME NEW s \in Sub, do_subproject(s)
        PROVE  value_of(run', p) \in {value_of(run, p), value_of(saved, p)}
    BY <2>7, SubprojectValue
  <2>8. ASSUME NEW q \in Project, add_languages(q)
        PROVE  value_of(run', p) \in {value_of(run, p), value_of(saved, p)}
    BY <2>8, LanguagesValue
  <2>9. ASSUME NEW q \in Project, Edit(q) PROVE FALSE BY <2>9 DEF Edit, Command
  <2>. QED BY <2>1, <2>2, <2>3, <2>4, <2>5, <2>6, <2>7, <2>8, <2>9 DEF Next
<1>. QED BY <1>1, Invariance, PTL DEF Spec, ValuesStay
============================================================================
