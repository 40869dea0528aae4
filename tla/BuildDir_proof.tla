--------------------------- MODULE BuildDir_proof ---------------------------
(***************************************************************************)
(* Proofs about BuildDir for any number of processes, values and commands: *)
(* type correctness of all of it; that, as long as nobody uses --wipe, the *)
(* directory lock admits one command to _generate() at a time; and that,   *)
(* among commands that take the lock, coredata.dat is never torn and a     *)
(* failed command puts back the one it found.  Then, for one command at a  *)
(* time: cmd_line.txt survives whatever --wipe does, a --wipe that         *)
(* succeeds leaves cmd_line.txt and coredata.dat agreeing, and they always *)
(* agree between commands that are neither --wipe nor stopped.             *)
(***************************************************************************)
EXTENDS BuildDir, TLAPS

DirTypes ==
    /\ disk \in [File -> Stored]
    /\ private \in BOOLEAN /\ pristine \in BOOLEAN
    /\ lock \in Nat /\ locks \in Nat /\ lock <= locks

ProcTypes ==
    /\ pc \in [Proc -> Step]
    /\ me \in [Proc -> Local]
    /\ held \in [Proc -> Nat]
    /\ ended \in [Proc -> {"none", "ok", "failed", "stopped"}]
    /\ \A p \in Proc : held[p] # 0 <=> Generating(p)

BoundTypes == commands \in 0..MaxCommands /\ stops \in 0..MaxStops

\* The part of the command on the way to the lock is never `meson configure`,
\* and what Conf.__init__ is reached by always is.
Early == {"validate", "wipe_read", "wipe_delete", "environment", "lock"}
KindInv ==
    \A p \in Proc : /\ pc[p] \in Early => me[p].kind # "configure"
                    /\ pc[p] = "conf_load" => me[p].kind = "configure"

\* The inductive form of TypeOK.
TypeInv == DirTypes /\ ProcTypes /\ BoundTypes /\ KindInv

\* What one process may do to the locks outside DirectoryLock: give up its own.
HeldShrinks == \A q \in Proc : held'[q] \in {held[q], 0}

LEMMA BlankType == Blank \in Local
  BY DEF Blank, Local, Options, Stored

LEMMA UpdateType ==
  ASSUME NEW d \in Options, NEW new \in Options
  PROVE  update(d, new) \in Options
  BY DEF update

\* Moving on keeps the types if it does not enter or leave the locked region.
LEMMA GotoType ==
  ASSUME ProcTypes, KindInv, NEW p \in Proc, NEW step \in Step, NEW local \in Local,
         GotoWith(p, step, local),
         held[p] # 0 <=> step \in Locked /\ local.kind # "configure",
         step \in Early => local.kind # "configure",
         step = "conf_load" => local.kind = "configure"
  PROVE  ProcTypes' /\ KindInv' /\ HeldShrinks
  BY DEF ProcTypes, KindInv, HeldShrinks, GotoWith, Generating

\* Ending a command keeps the types.
LEMMA EndType ==
  ASSUME ProcTypes, KindInv, NEW p \in Proc, NEW how \in {"ok", "failed", "stopped"},
         End(p, how)
  PROVE  ProcTypes' /\ KindInv' /\ HeldShrinks
<1>1. "idle" \in Step /\ "idle" \notin Locked /\ "idle" \notin Early /\ "idle" # "conf_load"
  BY DEF Step, Locked, Early, SaveSteps, UndoneOnError
<1>2. pc' \in [Proc -> Step] /\ me' \in [Proc -> Local] /\ held' \in [Proc -> Nat]
      /\ ended' \in [Proc -> {"none", "ok", "failed", "stopped"}]
  BY <1>1, BlankType DEF ProcTypes, End
<1> QED
  BY <1>1, <1>2 DEF ProcTypes, KindInv, HeldShrinks, End, Generating

\* So does an exception, through the rollback or not.
LEMMA RaiseType ==
  ASSUME ProcTypes, KindInv, NEW p \in Proc, Raise(p)
  PROVE  ProcTypes' /\ KindInv' /\ HeldShrinks
<1>1. CASE me[p].kind # "configure" /\ pc[p] \in UndoneOnError
  <2>1. GotoWith(p, "rollback", me[p])
    BY <1>1 DEF Raise, Goto
  <2>2. "rollback" \in Step /\ "rollback" \in Locked /\ "rollback" \notin Early
    BY DEF Step, Locked, Early, SaveSteps, UndoneOnError
  <2>3. me[p] \in Local /\ held[p] # 0
    BY <1>1 DEF ProcTypes, Generating, Locked
  <2> QED
    BY <1>1, <2>1, <2>2, <2>3, GotoType
<1>2. CASE ~(me[p].kind # "configure" /\ pc[p] \in UndoneOnError)
  BY <1>2, EndType DEF Raise
<1> QED
  BY <1>1, <1>2
\* open(f, 'w'), provided the step it leads to is on the same side of the lock.
LEMMA OpenType ==
  ASSUME DirTypes, ProcTypes, KindInv, NEW p \in Proc, NEW f \in File,
         NEW step \in Step, NEW local \in Local, OpenToWrite(p, f, step, local),
         UNCHANGED dirVars,
         held[p] # 0 <=> step \in Locked /\ local.kind # "configure",
         step \notin Early, step # "conf_load"
  PROVE  DirTypes' /\ ProcTypes' /\ KindInv' /\ HeldShrinks
<1>1. CASE private /\ disk' = [disk EXCEPT ![f] = Torn] /\ GotoWith(p, step, local)
  <2>1. ProcTypes' /\ KindInv' /\ HeldShrinks
    BY <1>1, GotoType
  <2>2. DirTypes'
    BY <1>1 DEF DirTypes, dirVars, Stored
  <2> QED
    BY <2>1, <2>2
<1>2. CASE ~private /\ Raise(p) /\ UNCHANGED disk
  BY <1>2, RaiseType DEF DirTypes, dirVars
<1> QED
  BY <1>1, <1>2 DEF OpenToWrite

LEMMA WriteType ==
  ASSUME DirTypes, NEW f \in File, NEW content \in Stored, Write(f, content),
         UNCHANGED dirVars
  PROVE  DirTypes'
  BY DEF DirTypes, Write, dirVars

\* The initial state has the types.
LEMMA InitType == Init => TypeInv
<1> SUFFICES ASSUME Init PROVE TypeInv
  OBVIOUS
<1>1. DirTypes
  <2>1. private \in BOOLEAN /\ pristine \in BOOLEAN
    BY Zenon DEF Init
  <2>2. disk \in [File -> Stored]
    BY DEF Init, Stored
  <2>3. lock \in Nat /\ locks \in Nat /\ lock <= locks
    BY DEF Init
  <2> QED
    BY <2>1, <2>2, <2>3, Zenon DEF DirTypes
<1>2. ProcTypes
  BY BlankType DEF Init, ProcTypes, Step, Generating, Locked, SaveSteps, UndoneOnError
<1>3. BoundTypes
  BY ConstantsAssumption DEF Init, BoundTypes
<1>4. KindInv
  BY DEF Init, KindInv, Early
<1> QED
  BY <1>1, <1>2, <1>3, <1>4 DEF TypeInv

\* All the steps of one process except starting a command and taking the lock.
Continue(p) ==
    \/ validate_dirs(p) \/ WipeRead(p) \/ WipeDelete(p) \/ WipeRestore(p)
    \/ Environment(p) \/ Interpret(p)
    \/ SavePrev(p) \/ SaveCopy(p) \/ SaveOpen(p) \/ SaveDump(p) \/ SaveReplace(p)
    \/ Generate(p) \/ BuildSave(p) \/ BuildDump(p)
    \/ CmdLineOpen(p) \/ CmdLineWrite(p) \/ PostConfScripts(p) \/ Rollback(p)
    \/ ConfLoad(p) \/ Stopped(p) \/ Interrupted(p)

\* A command that goes on keeps the types and takes no lock.
LEMMA ContinueType ==
  ASSUME TypeInv, NEW p \in Proc, Continue(p)
  PROVE  TypeInv' /\ HeldShrinks
<1> USE DEF TypeInv
<1>0. me[p] \in Local /\ pc[p] \in Step /\ (held[p] # 0 <=> Generating(p))
      /\ me[p].opts \in Options /\ me[p].mem \in Options /\ me[p].copy \in Stored
      /\ Options \subseteq Stored /\ \A f \in File : disk[f] \in Stored
  BY DEF ProcTypes, DirTypes, Local, Stored
<1>00. \A d \in Options, e \in Options : update(d, e) \in Options
  BY UpdateType
<1>k. \A q \in Proc : /\ pc[q] \in Early => me[q].kind # "configure"
                      /\ pc[q] = "conf_load" => me[q].kind = "configure"
  BY DEF KindInv
<1>s. /\ {"validate", "wipe_read", "wipe_delete", "environment", "lock"} \subseteq Step \ Locked
      /\ "conf_load" \in Step \ Locked /\ "idle" \in Step \ Locked
      /\ {"conf_load", "idle"} \cap Early = {}
      /\ {"interpret", "prev", "copy", "temp", "dump", "replace", "generate", "build",
          "build_dump", "cmdline", "cmdline_write", "postconf", "rollback"}
            \subseteq (Step \cap Locked) \ (Early \cup {"conf_load"})
      /\ {"validate", "wipe_read", "wipe_delete", "environment", "lock"} \subseteq Early
  BY DEF Step, Locked, Early, SaveSteps, UndoneOnError
<1>b. commands \in Nat /\ stops \in Nat /\ commands <= MaxCommands /\ stops <= MaxStops
  BY ConstantsAssumption DEF BoundTypes
<1>d. ASSUME UNCHANGED <<disk, dirVars>> PROVE DirTypes'
  BY <1>d DEF DirTypes, dirVars
<1>e. ASSUME UNCHANGED boundVars PROVE BoundTypes'
  BY <1>e DEF BoundTypes, boundVars
<1>f. ASSUME stops < MaxStops, stops' = stops + 1, UNCHANGED commands PROVE BoundTypes'
  BY <1>f, <1>b, ConstantsAssumption DEF BoundTypes
<1>1. CASE validate_dirs(p)
  <2>1. DirTypes' /\ BoundTypes'
    BY <1>1, <1>e, Zenon DEF validate_dirs, DirTypes
  <2>2. held[p] = 0 /\ me[p].kind # "configure"
    BY <1>0, <1>1, <1>k, <1>s DEF validate_dirs, Generating
  <2>3. CASE GotoWith(p, "wipe_read", me[p])
    BY <2>3, <1>0, <1>s, <2>1, <2>2, GotoType
  <2>4. CASE GotoWith(p, "environment", me[p])
    BY <2>4, <1>0, <1>s, <2>1, <2>2, GotoType
  <2>5. CASE GotoWith(p, "conf_load", [me[p] EXCEPT !.kind = "configure"])
    <3>1. [me[p] EXCEPT !.kind = "configure"] \in Local
          /\ [me[p] EXCEPT !.kind = "configure"].kind = "configure"
      BY <1>0 DEF Local
    <3> QED
      BY <2>5, <3>1, <1>s, <2>1, <2>2, GotoType, Zenon
  <2>6. CASE End(p, "ok") \/ End(p, "failed")
    BY <2>6, <2>1, EndType
  <2> QED
    BY <1>1, <2>3, <2>4, <2>5, <2>6 DEF validate_dirs, Goto
<1>2. CASE WipeRead(p)
  <2>1. DirTypes' /\ BoundTypes'
    BY <1>2, <1>d, <1>e DEF WipeRead
  <2>2. held[p] = 0 /\ me[p].kind # "configure"
    BY <1>0, <1>2, <1>k, <1>s DEF WipeRead, Generating
  <2>3. CASE End(p, "failed")
    BY <2>3, <2>1, EndType
  <2>4. CASE disk[CmdLine] # Torn /\ ~End(p, "failed")
    <3> DEFINE local == [me[p] EXCEPT !.copy = disk[CmdLine],
                                      !.opts = IF disk[CmdLine] = Missing THEN @
                                               ELSE update(disk[CmdLine], @)]
    <3>1. disk[CmdLine] \in Stored
      BY <1>0 DEF File
    <3>2. disk[CmdLine] # Missing => disk[CmdLine] \in Options
      BY <2>4, <3>1 DEF Stored
    <3>3. local \in Local /\ local.kind = me[p].kind
      BY <3>1, <3>2, <1>0, <1>00, Zenon DEF Local
    <3>4. GotoWith(p, "wipe_delete", local)
      BY <1>2, <2>4 DEF WipeRead
    <3> HIDE DEF local
    <3> QED
      BY <3>3, <3>4, <1>s, <2>1, <2>2, GotoType
  <2> QED
    BY <1>2, <2>3, <2>4 DEF WipeRead
<1>3. CASE WipeDelete(p)
  <2>1. DirTypes'
    BY <1>3 DEF WipeDelete, DirTypes, Stored
  <2>2. BoundTypes'
    BY <1>3, <1>e DEF WipeDelete
  <2> QED
    BY <1>3, <2>1, <2>2 DEF WipeDelete, ProcTypes, Generating, KindInv, HeldShrinks
<1>4. CASE WipeRestore(p)
  <2>1. DirTypes'
    BY <1>4, <1>0, Zenon DEF WipeRestore, RestoreCmdLine, DirTypes
  <2>2. BoundTypes'
    BY <1>4, <1>e DEF WipeRestore
  <2>3. held[p] = 0 /\ me[p].kind # "configure" /\ GotoWith(p, "environment", me[p])
    BY <1>0, <1>4, <1>k, <1>s DEF WipeRestore, Generating, Goto
  <2> QED
    BY <2>1, <2>2, <2>3, <1>0, <1>s, GotoType
<1>5. CASE Environment(p)
  <2>1. DirTypes' /\ BoundTypes'
    BY <1>5, <1>e DEF Environment, DirTypes
  <2>2. held[p] = 0 /\ me[p].kind # "configure"
    BY <1>0, <1>5, <1>k, <1>s DEF Environment, Generating
  <2>3. ASSUME NEW local \in Local, local.kind = me[p].kind, GotoWith(p, "lock", local)
        PROVE  TypeInv' /\ HeldShrinks
    BY <2>3, <2>1, <2>2, <1>s, GotoType
  <2>4. CASE End(p, "failed")
    BY <2>4, <2>1, EndType
  <2>5. CASE GotoWith(p, "lock", [me[p] EXCEPT !.first = TRUE])
    <3>1. [me[p] EXCEPT !.first = TRUE] \in Local
          /\ [me[p] EXCEPT !.first = TRUE].kind = me[p].kind
      BY <1>0, Zenon DEF Local
    <3> QED
      BY <3>1, <2>5, <2>3, Zenon
  <2>6. CASE disk[CmdLine] \notin {Missing, Torn}
             /\ GotoWith(p, "lock", [me[p] EXCEPT !.first = TRUE,
                                                  !.opts = update(disk[CmdLine], @)])
    <3>1. disk[CmdLine] \in Options
      BY <2>6, <1>0 DEF File, Stored
    <3>2. [me[p] EXCEPT !.first = TRUE, !.opts = update(disk[CmdLine], @)] \in Local
          /\ [me[p] EXCEPT !.first = TRUE, !.opts = update(disk[CmdLine], @)].kind = me[p].kind
      BY <1>0, <1>00, <3>1, Zenon DEF Local
    <3> QED
      BY <3>2, <2>6, <2>3, Zenon
  <2>7. CASE disk[Core] \in Options
             /\ GotoWith(p, "lock", [me[p] EXCEPT !.mem = update(disk[Core], me[p].opts)])
    <3>1. [me[p] EXCEPT !.mem = update(disk[Core], me[p].opts)] \in Local
          /\ [me[p] EXCEPT !.mem = update(disk[Core], me[p].opts)].kind = me[p].kind
      BY <1>0, <1>00, <2>7 DEF Local
    <3> QED
      BY <3>1, <2>7, <2>3, Zenon
  <2> QED
    BY <1>5, <2>4, <2>5, <2>6, <2>7 DEF Environment
\* From here on the process is between two steps of the locked region.
<1>in. ASSUME pc[p] \in Locked, pc[p] \notin Early \cup {"conf_load"},
              NEW step \in {"prev", "copy", "temp", "dump", "replace", "generate", "build",
                            "build_dump", "cmdline", "cmdline_write", "postconf"},
              NEW local \in Local, local.kind = me[p].kind
       PROVE  /\ step \in Step /\ step \notin Early /\ step # "conf_load"
              /\ held[p] # 0 <=> step \in Locked /\ local.kind # "configure"
              /\ GotoWith(p, step, local) => ProcTypes' /\ KindInv' /\ HeldShrinks
  <2>1. step \in Step /\ step \notin Early /\ step # "conf_load" /\ step \in Locked
    BY <1>s
  <2>2. held[p] # 0 <=> local.kind # "configure"
    BY <1>in, <1>0 DEF Generating
  <2> QED
    BY <2>1, <2>2, GotoType
<1>6. CASE Interpret(p)
  <2>1. DirTypes' /\ BoundTypes'
    BY <1>6, <1>d, <1>e DEF Interpret
  <2>2. CASE Raise(p)
    BY <2>2, <2>1, RaiseType
  <2>3. CASE ~Raise(p)
    <3> DEFINE user == IF disk[CmdLine] = Missing THEN me[p].opts
                       ELSE update(disk[CmdLine], me[p].opts)
               local == [me[p] EXCEPT !.mem = IF me[p].first THEN user ELSE @]
    <3>1. user \in Options
      BY <1>6, <2>3, <1>0, <1>00 DEF Interpret, File, Stored
    <3>2. local \in Local /\ local.kind = me[p].kind
      BY <3>1, <1>0 DEF Local
    <3>3. GotoWith(p, "prev", local)
      BY <1>6, <2>3 DEF Interpret
    <3> HIDE DEF local, user
    <3>4. pc[p] \in Locked /\ pc[p] \notin Early \cup {"conf_load"}
      BY <1>6, <1>s DEF Interpret
    <3> QED
      BY <3>2, <3>3, <3>4, <2>1, <1>in
  <2> QED
    BY <2>2, <2>3
<1>7. CASE SavePrev(p)
  <2>1. BoundTypes' /\ UNCHANGED dirVars
    BY <1>7, <1>e DEF SavePrev
  <2>2. pc[p] \in Locked /\ pc[p] \notin Early \cup {"conf_load"}
    BY <1>7, <1>s DEF SavePrev
  <2>3. CASE GotoWith(p, "temp", me[p]) /\ UNCHANGED disk
    BY <2>3, <2>1, <2>2, <1>0, <1>d, <1>in
  <2>4. CASE OpenToWrite(p, Prev, "copy", [me[p] EXCEPT !.copy = disk[Core]])
    <3> DEFINE local == [me[p] EXCEPT !.copy = disk[Core]]
    <3>1. local \in Local /\ local.kind = me[p].kind
      BY <1>0 DEF Local, File
    <3> HIDE DEF local
    <3>2. "copy" \in Step /\ "copy" \notin Early /\ "copy" # "conf_load"
          /\ (held[p] # 0 <=> "copy" \in Locked /\ local.kind # "configure")
      BY <3>1, <2>2, <1>in
    <3>3. OpenToWrite(p, Prev, "copy", local) /\ Prev \in File
      BY <2>4 DEF local, File
    <3> QED
      BY <3>1, <3>2, <3>3, <2>1, OpenType
  <2> QED
    BY <1>7, <2>3, <2>4 DEF SavePrev, Goto
<1>8. CASE SaveCopy(p)
  <2>1. pc[p] \in Locked /\ pc[p] \notin Early \cup {"conf_load"} /\ GotoWith(p, "temp", me[p])
    BY <1>8, <1>s DEF SaveCopy, Goto
  <2>2. DirTypes'
    BY <1>8, <1>0, WriteType DEF SaveCopy, File
  <2> QED
    BY <1>8, <2>1, <2>2, <1>0, <1>e, <1>in DEF SaveCopy
<1>9. CASE SaveOpen(p)
  <2>1. pc[p] \in Locked /\ pc[p] \notin Early \cup {"conf_load"}
    BY <1>9, <1>s DEF SaveOpen
  <2>2. "dump" \in Step /\ "dump" \notin Early /\ "dump" # "conf_load"
        /\ (held[p] # 0 <=> "dump" \in Locked /\ me[p].kind # "configure")
    BY <2>1, <1>0, <1>in
  <2>3. OpenToWrite(p, Temp, "dump", me[p]) /\ Temp \in File /\ UNCHANGED <<dirVars, boundVars>>
    BY <1>9 DEF SaveOpen, File
  <2> QED
    BY <2>2, <2>3, <1>0, <1>e, OpenType
<1>10. CASE SaveDump(p)
  <2>1. pc[p] \in Locked /\ pc[p] \notin Early \cup {"conf_load"} /\ GotoWith(p, "replace", me[p])
    BY <1>10, <1>s DEF SaveDump, Goto
  <2>2. DirTypes'
    BY <1>10, <1>0, WriteType DEF SaveDump, File
  <2> QED
    BY <1>10, <2>1, <2>2, <1>0, <1>e, <1>in DEF SaveDump
<1>11. CASE SaveReplace(p)
  <2>1. pc[p] \in Locked /\ pc[p] \notin Early \cup {"conf_load"} /\ BoundTypes'
    BY <1>11, <1>s, <1>e DEF SaveReplace
  <2>2. DirTypes'
    <3>1. {Core, Temp} \subseteq File /\ disk[Temp] \in Stored /\ Missing \in Stored
      BY <1>0 DEF File, Stored
    <3> QED
      BY <1>11, <3>1 DEF SaveReplace, DirTypes, dirVars
  <2>3. CASE Raise(p)
    BY <2>1, <2>2, <2>3, RaiseType
  <2>4. CASE End(p, "ok")
    BY <2>1, <2>2, <2>4, EndType
  <2>5. CASE GotoWith(p, "generate", me[p])
    BY <2>1, <2>2, <2>5, <1>0, <1>in
  <2> QED
    BY <1>11, <2>3, <2>4, <2>5 DEF SaveReplace, Goto
<1>12. CASE Generate(p)
  <2>1. pc[p] \in Locked /\ pc[p] \notin Early \cup {"conf_load"} /\ BoundTypes'
    BY <1>12, <1>s, <1>e DEF Generate
  <2>2. DirTypes'
    BY <1>12, <1>0 DEF Generate, DirTypes, dirVars
  <2>3. CASE Raise(p)
    BY <2>1, <2>2, <2>3, RaiseType
  <2>4. CASE GotoWith(p, "build", me[p])
    BY <2>1, <2>2, <2>4, <1>0, <1>in
  <2> QED
    BY <1>12, <2>3, <2>4 DEF Generate, Goto
<1>13. CASE BuildSave(p)
  <2>1. pc[p] \in Locked /\ pc[p] \notin Early \cup {"conf_load"}
    BY <1>13, <1>s DEF BuildSave
  <2>2. "build_dump" \in Step /\ "build_dump" \notin Early /\ "build_dump" # "conf_load"
        /\ (held[p] # 0 <=> "build_dump" \in Locked /\ me[p].kind # "configure")
    BY <2>1, <1>0, <1>in
  <2>3. OpenToWrite(p, Build, "build_dump", me[p]) /\ Build \in File
        /\ UNCHANGED <<dirVars, boundVars>>
    BY <1>13 DEF BuildSave, File
  <2> QED
    BY <2>2, <2>3, <1>0, <1>e, OpenType
<1>14. CASE BuildDump(p)
  <2>1. pc[p] \in Locked /\ pc[p] \notin Early \cup {"conf_load"} /\ GotoWith(p, "cmdline", me[p])
    BY <1>14, <1>s DEF BuildDump, Goto
  <2>2. DirTypes'
    BY <1>14, <1>0, WriteType DEF BuildDump, File
  <2> QED
    BY <1>14, <2>1, <2>2, <1>0, <1>e, <1>in DEF BuildDump
<1>15. CASE CmdLineOpen(p)
  <2> DEFINE local == [me[p] EXCEPT !.copy = CmdLineText(p)]
  <2>1. pc[p] \in Locked /\ pc[p] \notin Early \cup {"conf_load"}
    BY <1>15, <1>s DEF CmdLineOpen
  <2>2. CmdLineText(p) \in Options
    BY <1>0, <1>00 DEF CmdLineText, File, Stored
  <2>3. local \in Local /\ local.kind = me[p].kind
    BY <2>2, <1>0 DEF Local
  <2>4. OpenToWrite(p, CmdLine, "cmdline_write", local) /\ CmdLine \in File
        /\ UNCHANGED <<dirVars, boundVars>>
    BY <1>15 DEF CmdLineOpen, File
  <2> HIDE DEF local
  <2>5. "cmdline_write" \in Step /\ "cmdline_write" \notin Early /\ "cmdline_write" # "conf_load"
        /\ (held[p] # 0 <=> "cmdline_write" \in Locked /\ local.kind # "configure")
    BY <2>1, <2>3, <1>in
  <2> QED
    BY <2>3, <2>4, <2>5, <1>e, OpenType
<1>16. CASE CmdLineWrite(p)
  <2>1. pc[p] \in Locked /\ pc[p] \notin Early \cup {"conf_load"} /\ BoundTypes'
    BY <1>16, <1>s, <1>e DEF CmdLineWrite
  <2>2. DirTypes'
    BY <1>16, <1>0, WriteType DEF CmdLineWrite, File
  <2>3. CASE GotoWith(p, "postconf", me[p])
    BY <2>1, <2>2, <2>3, <1>0, <1>in
  <2>4. CASE GotoWith(p, "prev", me[p])
    BY <2>1, <2>2, <2>4, <1>0, <1>in
  <2>5. CASE End(p, "ok")
    BY <2>1, <2>2, <2>5, EndType
  <2> QED
    BY <1>16, <2>3, <2>4, <2>5 DEF CmdLineWrite, Goto
<1>17. CASE PostConfScripts(p)
  <2>1. DirTypes' /\ BoundTypes'
    BY <1>17, <1>d, <1>e DEF PostConfScripts
  <2>2. CASE Raise(p)
    BY <2>1, <2>2, RaiseType
  <2>3. CASE End(p, "ok")
    BY <2>1, <2>3, EndType
  <2> QED
    BY <1>17, <2>2, <2>3 DEF PostConfScripts
<1>18. CASE Rollback(p)
  <2>1. {Core, Prev} \subseteq File /\ disk[Prev] \in Stored /\ Missing \in Stored
    BY <1>0 DEF File, Stored
  <2>2. DirTypes'
    BY <1>18, <2>1 DEF Rollback, DirTypes, dirVars
  <2> QED
    BY <1>18, <2>2, <1>e, EndType DEF Rollback
<1>19. CASE ConfLoad(p)
  <2>1. DirTypes' /\ BoundTypes'
    BY <1>19, <1>d, <1>e DEF ConfLoad
  <2>2. CASE End(p, "failed")
    BY <2>1, <2>2, EndType
  <2>3. CASE ~End(p, "failed")
    <3> DEFINE local == [me[p] EXCEPT !.mem = update(disk[Core], me[p].opts),
                                      !.base = disk[Core]]
    <3>1. disk[Core] \in Options /\ GotoWith(p, "cmdline", local)
      BY <1>19, <2>3 DEF ConfLoad
    <3>2. local \in Local /\ local.kind = me[p].kind
      BY <3>1, <1>0, <1>00, Zenon DEF Local
    <3> HIDE DEF local
    <3>3. me[p].kind = "configure" /\ held[p] = 0
      BY <1>19, <1>0, <1>k DEF ConfLoad, Generating
    <3> QED
      BY <3>1, <3>2, <3>3, <2>1, <1>s, GotoType
  <2> QED
    BY <2>2, <2>3
<1>20. CASE Stopped(p)
  <2>1. DirTypes' /\ BoundTypes'
    BY <1>20, <1>d, <1>f DEF Stopped
  <2> QED
    BY <1>20, <2>1, EndType DEF Stopped
<1>21. CASE Interrupted(p)
  <2>1. DirTypes'
    BY <1>21, <1>0, Zenon DEF Interrupted, RestoreCmdLine, DirTypes
  <2>2. BoundTypes'
    BY <1>21, <1>e, <1>f DEF Interrupted, boundVars
  <2>3. End(p, "stopped") \/ End(p, "failed")
    BY <1>21 DEF Interrupted
  <2> QED
    BY <2>1, <2>2, <2>3, EndType
<1> QED
  BY <1>1, <1>2, <1>3, <1>4, <1>5, <1>6, <1>7, <1>8, <1>9, <1>10, <1>11, <1>12, <1>13,
     <1>14, <1>15, <1>16, <1>17, <1>18, <1>19, <1>20, <1>21 DEF Continue
\* Starting a command keeps the types.
LEMMA BeginType ==
  ASSUME TypeInv, NEW p \in Proc, Begin(p)
  PROVE  TypeInv' /\ HeldShrinks
<1>1. PICK kind \in Kinds, v \in Options :
         GotoWith(p, IF kind = "configure" THEN "conf_load" ELSE "validate",
                  [Blank EXCEPT !.kind = kind, !.opts = v])
  BY Zenon DEF Begin
<1> DEFINE local == [Blank EXCEPT !.kind = kind, !.opts = v]
           step == IF kind = "configure" THEN "conf_load" ELSE "validate"
<1>2. local \in Local /\ local.kind = kind
  BY BlankType, ConstantsAssumption, Zenon DEF Blank, Local, Options, Stored
<1>3. step \in Step /\ step \notin Locked /\ (step \in Early => kind # "configure")
      /\ (step = "conf_load" => kind = "configure")
  BY DEF Step, Locked, Early, SaveSteps, UndoneOnError
<1>4. held[p] = 0
  BY DEF TypeInv, ProcTypes, Begin, Generating, Locked, SaveSteps, UndoneOnError
<1>5. GotoWith(p, step, local)
  BY <1>1
<1> HIDE DEF local, step
<1>6. ProcTypes' /\ KindInv' /\ HeldShrinks
  BY <1>2, <1>3, <1>4, <1>5, GotoType DEF TypeInv
<1>7. DirTypes'
  BY DEF TypeInv, DirTypes, Begin, dirVars
<1>8. BoundTypes'
  BY ConstantsAssumption DEF TypeInv, BoundTypes, Begin
<1> QED
  BY <1>6, <1>7, <1>8 DEF TypeInv

\* What taking the lock, or failing to, does.
LEMMA LockTaken ==
  ASSUME TypeInv, NEW p \in Proc, DirectoryLock(p)
  PROVE  /\ TypeInv'
         /\ disk' = disk
         /\ \/ End(p, "failed")
            \/ /\ lock' \notin {held[q] : q \in Proc}
               /\ lock' = IF lock = 0 THEN locks + 1 ELSE lock
               /\ pc' = [pc EXCEPT ![p] = "interpret"]
               /\ held' = [held EXCEPT ![p] = lock']
               /\ me' = [me EXCEPT ![p].base = disk[Core]]
         /\ ~End(p, "failed") => private
         /\ lock' \in {lock, locks + 1} /\ (lock # 0 => lock' = lock)
<1> DEFINE file == IF lock = 0 THEN locks + 1 ELSE lock
<1>0. lock \in Nat /\ locks \in Nat /\ lock <= locks /\ file \in Nat /\ file # 0
  BY DEF TypeInv, DirTypes
<1>1. disk' = disk /\ UNCHANGED <<private, pristine, boundVars>>
  BY DEF DirectoryLock, DirectoryLockUnless
<1>2. /\ lock' \in {lock, file}
      /\ lock' \in Nat /\ locks' \in Nat /\ lock' <= locks'
      /\ ~End(p, "failed") => lock' = file
  BY <1>0 DEF DirectoryLock, DirectoryLockUnless
<1>3. DirTypes' /\ BoundTypes'
  BY <1>1, <1>2 DEF TypeInv, DirTypes, BoundTypes, boundVars
<1>4. CASE End(p, "failed")
  BY <1>0, <1>1, <1>2, <1>3, <1>4, EndType DEF TypeInv
<1>5. CASE ~End(p, "failed")
  <2>1. /\ private
        /\ file \notin {held[q] : q \in Proc}
        /\ lock' = file
        /\ pc' = [pc EXCEPT ![p] = "interpret"]
        /\ held' = [held EXCEPT ![p] = file]
        /\ me' = [me EXCEPT ![p].base = disk[Core]]
        /\ UNCHANGED ended
    BY <1>5 DEF DirectoryLock, DirectoryLockUnless
  <2>2. "interpret" \in Step /\ "interpret" \in Locked /\ "interpret" \notin Early
        /\ pc[p] \in Early /\ me[p].kind # "configure"
    BY DEF Step, Locked, Early, SaveSteps, UndoneOnError, DirectoryLock,
           DirectoryLockUnless, TypeInv, KindInv
  <2>3. disk[Core] \in Stored
    BY DEF TypeInv, DirTypes, File
  <2>4. me' \in [Proc -> Local] /\ \A q \in Proc : me'[q].kind = me[q].kind
    BY <2>1, <2>3 DEF TypeInv, ProcTypes, Local
  <2>5. ProcTypes'
    <3>1. pc' \in [Proc -> Step] /\ held' \in [Proc -> Nat]
          /\ ended' \in [Proc -> {"none", "ok", "failed", "stopped"}]
      BY <1>0, <2>1, <2>2 DEF TypeInv, ProcTypes
    <3>2. \A q \in Proc : held'[q] # 0 <=> Generating(q)'
      BY <1>0, <2>1, <2>2, <2>4 DEF TypeInv, ProcTypes, Generating
    <3> QED
      BY <2>4, <3>1, <3>2 DEF ProcTypes
  <2>6. KindInv'
    BY <2>1, <2>2, <2>4 DEF TypeInv, ProcTypes, KindInv
  <2> QED
    BY <1>0, <1>1, <1>3, <2>1, <2>5, <2>6 DEF TypeInv
<1> QED
  BY <1>4, <1>5

LEMMA NextCases ==
  ASSUME Next
  PROVE  \/ \E p \in Proc : Begin(p) \/ DirectoryLock(p) \/ Continue(p)
         \/ UNCHANGED vars
  BY DEF Next, Continue, Finished

LEMMA StutterType ==
  ASSUME TypeInv, UNCHANGED vars
  PROVE  TypeInv'
  BY DEF TypeInv, DirTypes, ProcTypes, BoundTypes, KindInv, Generating, vars

LEMMA NextType ==
  ASSUME TypeInv, [Next]_vars
  PROVE  TypeInv'
<1>1. CASE UNCHANGED vars
  BY <1>1, StutterType
<1>2. ASSUME NEW p \in Proc, Begin(p) \/ DirectoryLock(p) \/ Continue(p) PROVE TypeInv'
  BY <1>2, BeginType, LockTaken, ContinueType
<1> QED
  BY <1>1, <1>2, NextCases

LEMMA TypesInvariant == Spec => []TypeInv
<1>1. TypeInv /\ [Next]_vars => TypeInv'
  BY NextType
<1> QED
  BY <1>1, InitType, PTL DEF Spec

\* The types are an invariant whatever commands are run and however they end:
\* in particular a process has flock() exactly while it is in _generate().
THEOREM TypeCorrect == Spec => []TypeOK
<1>1. TypeInv => TypeOK
  BY DEF TypeInv, DirTypes, ProcTypes, BoundTypes, TypeOK
<1> QED
  BY <1>1, TypesInvariant, PTL
-----------------------------------------------------------------------------
(* One command in _generate() at a time, as long as nobody wipes *)

NoWipe == \A p \in Proc : me[p].kind # "wipe" /\ pc[p] \notin {"wipe_read", "wipe_delete"}

\* There is one lock file for good, the locks held are on it, and one process
\* holds it at most.
LockInv ==
    /\ TypeInv
    /\ NoWipe
    /\ \A p \in Proc : held[p] # 0 => held[p] = lock
    /\ \A p, q \in Proc : held[p] # 0 /\ held[q] # 0 => p = q

LEMMA LockIsOne == LockInv => OneGenerator
  BY DEF LockInv, TypeInv, ProcTypes, OneGenerator

LEMMA NoWipeStep ==
  ASSUME "wipe" \notin Kinds, TypeInv, NoWipe, NEW p \in Proc, Begin(p) \/ Continue(p)
  PROVE  NoWipe' /\ lock' = lock
<1>0. me[p] \in Local /\ me \in [Proc -> Local] /\ pc \in [Proc -> Step]
  BY DEF TypeInv, ProcTypes
<1>1. ASSUME NEW step, NEW local, GotoWith(p, step, local),
             step \notin {"wipe_read", "wipe_delete"}, local.kind # "wipe"
      PROVE  NoWipe'
  BY <1>0, <1>1 DEF NoWipe, GotoWith
<1>2. ASSUME NEW how, End(p, how) PROVE NoWipe'
  BY <1>0, <1>2 DEF NoWipe, End, Blank
<1>3. ASSUME Raise(p) PROVE NoWipe'
  BY <1>1, <1>2, <1>3 DEF Raise, Goto, NoWipe
<1>5. me[p].kind # "wipe" /\ pc[p] \notin {"wipe_read", "wipe_delete"}
  BY DEF NoWipe
<1>7. ASSUME Begin(p) PROVE NoWipe' /\ lock' = lock
  <2>1. PICK kind \in Kinds, v \in Options :
           GotoWith(p, IF kind = "configure" THEN "conf_load" ELSE "validate",
                    [Blank EXCEPT !.kind = kind, !.opts = v])
    BY <1>7, Zenon DEF Begin
  <2> DEFINE local == [Blank EXCEPT !.kind = kind, !.opts = v]
             step == IF kind = "configure" THEN "conf_load" ELSE "validate"
  <2>2. local.kind # "wipe" /\ step \notin {"wipe_read", "wipe_delete"}
    BY DEF Blank
  <2>3. GotoWith(p, step, local)
    BY <2>1
  <2> HIDE DEF local, step
  <2> QED
    BY <1>1, <1>7, <2>2, <2>3, Zenon DEF Begin, dirVars
<1>8. ASSUME validate_dirs(p) PROVE NoWipe' /\ lock' = lock
  BY <1>0, <1>3, <1>5, <1>8 DEF validate_dirs, Goto, GotoWith, End, NoWipe, Blank, Local, dirVars
<1>9. ASSUME WipeRead(p) PROVE NoWipe' /\ lock' = lock
  BY <1>5, <1>9 DEF WipeRead
<1>10. ASSUME WipeDelete(p) PROVE NoWipe' /\ lock' = lock
  BY <1>5, <1>10 DEF WipeDelete
<1>11. ASSUME WipeRestore(p) PROVE NoWipe' /\ lock' = lock
  BY <1>5, <1>11 DEF WipeRestore
<1>12. ASSUME Interrupted(p) PROVE NoWipe' /\ lock' = lock
  BY <1>5, <1>12 DEF Interrupted
<1>13. ASSUME Environment(p) PROVE NoWipe' /\ lock' = lock
  <2>1. PICK local : /\ End(p, "failed") \/ GotoWith(p, "lock", local)
                     /\ local.kind = me[p].kind
    <3>1. [me[p] EXCEPT !.first = TRUE].kind = me[p].kind
      BY <1>0 DEF Local
    <3>2. [me[p] EXCEPT !.first = TRUE, !.opts = update(disk[CmdLine], @)].kind = me[p].kind
      BY <1>0 DEF Local
    <3>3. [me[p] EXCEPT !.mem = update(disk[Core], me[p].opts)].kind = me[p].kind
      BY <1>0 DEF Local
    <3> QED
      BY <1>13, <3>1, <3>2, <3>3, Zenon DEF Environment
  <2> QED
    BY <1>1, <1>2, <1>5, <1>13, <2>1 DEF Environment
<1>14. ASSUME ConfLoad(p) PROVE NoWipe' /\ lock' = lock
  <2> DEFINE local == [me[p] EXCEPT !.mem = update(disk[Core], me[p].opts), !.base = disk[Core]]
  <2>1. End(p, "failed") \/ GotoWith(p, "cmdline", local)
    BY <1>14 DEF ConfLoad
  <2>2. local.kind = me[p].kind
    BY <1>0 DEF Local
  <2> HIDE DEF local
  <2> QED
    BY <1>1, <1>2, <1>5, <1>14, <2>1, <2>2 DEF ConfLoad, dirVars
<1>15. ASSUME Stopped(p) PROVE NoWipe' /\ lock' = lock
  BY <1>0, <1>3, <1>5, <1>15 DEF Stopped, End, NoWipe, Blank, Local, dirVars
<1>16. ASSUME Interpret(p) PROVE NoWipe' /\ lock' = lock
  BY <1>0, <1>3, <1>5, <1>16 DEF Interpret, GotoWith, NoWipe, Blank, Local, dirVars
<1>17. ASSUME SavePrev(p) PROVE NoWipe' /\ lock' = lock
  BY <1>0, <1>3, <1>5, <1>17 DEF SavePrev, Goto, GotoWith, OpenToWrite, NoWipe, Blank, Local, dirVars
<1>18. ASSUME SaveCopy(p) PROVE NoWipe' /\ lock' = lock
  BY <1>0, <1>3, <1>5, <1>18 DEF SaveCopy, Goto, GotoWith, NoWipe, Blank, Local, dirVars
<1>19. ASSUME SaveOpen(p) PROVE NoWipe' /\ lock' = lock
  BY <1>0, <1>3, <1>5, <1>19 DEF SaveOpen, OpenToWrite, GotoWith, NoWipe, Blank, Local, dirVars
<1>20. ASSUME SaveDump(p) PROVE NoWipe' /\ lock' = lock
  BY <1>0, <1>3, <1>5, <1>20 DEF SaveDump, Goto, GotoWith, NoWipe, Blank, Local, dirVars
<1>21. ASSUME SaveReplace(p) PROVE NoWipe' /\ lock' = lock
  BY <1>0, <1>3, <1>5, <1>21 DEF SaveReplace, Goto, GotoWith, End, NoWipe, Blank, Local, dirVars
<1>22. ASSUME Generate(p) PROVE NoWipe' /\ lock' = lock
  BY <1>0, <1>3, <1>5, <1>22 DEF Generate, Goto, GotoWith, NoWipe, Blank, Local, dirVars
<1>23. ASSUME BuildSave(p) PROVE NoWipe' /\ lock' = lock
  BY <1>0, <1>3, <1>5, <1>23 DEF BuildSave, OpenToWrite, GotoWith, NoWipe, Blank, Local, dirVars
<1>24. ASSUME BuildDump(p) PROVE NoWipe' /\ lock' = lock
  BY <1>0, <1>3, <1>5, <1>24 DEF BuildDump, Goto, GotoWith, NoWipe, Blank, Local, dirVars
<1>25. ASSUME CmdLineOpen(p) PROVE NoWipe' /\ lock' = lock
  BY <1>0, <1>3, <1>5, <1>25 DEF CmdLineOpen, OpenToWrite, GotoWith, NoWipe, Blank, Local, dirVars
<1>26. ASSUME CmdLineWrite(p) PROVE NoWipe' /\ lock' = lock
  BY <1>0, <1>3, <1>5, <1>26 DEF CmdLineWrite, Goto, GotoWith, End, NoWipe, Blank, Local, dirVars
<1>27. ASSUME PostConfScripts(p) PROVE NoWipe' /\ lock' = lock
  BY <1>0, <1>3, <1>5, <1>27 DEF PostConfScripts, End, NoWipe, Blank, Local, dirVars
<1>28. ASSUME Rollback(p) PROVE NoWipe' /\ lock' = lock
  BY <1>0, <1>3, <1>5, <1>28 DEF Rollback, End, NoWipe, Blank, Local, dirVars
<1> QED
  BY <1>7, <1>8, <1>9, <1>10, <1>11, <1>12, <1>13, <1>14, <1>15, <1>16, <1>17,
     <1>18, <1>19, <1>20, <1>21, <1>22, <1>23, <1>24, <1>25, <1>26, <1>27, <1>28 DEF Continue

LEMMA LockStep ==
  ASSUME "wipe" \notin Kinds, LockInv, [Next]_vars
  PROVE  LockInv'
<1>1. CASE UNCHANGED vars
  BY <1>1, StutterType DEF LockInv, NoWipe, vars
<1>2. ASSUME NEW p \in Proc, Begin(p) \/ Continue(p) PROVE LockInv'
  <2>1. TypeInv' /\ HeldShrinks
    BY <1>2, BeginType, ContinueType DEF LockInv
  <2>2. NoWipe' /\ lock' = lock
    BY <1>2, NoWipeStep DEF LockInv
  <2> QED
    BY <2>1, <2>2 DEF LockInv, HeldShrinks
<1>3. ASSUME NEW p \in Proc, DirectoryLock(p) PROVE LockInv'
  <2>0. TypeInv' /\ held \in [Proc -> Nat] /\ me \in [Proc -> Local] /\ pc \in [Proc -> Step]
        /\ lock \in Nat
    BY <1>3, LockTaken DEF LockInv, TypeInv, ProcTypes, DirTypes
  <2>1. \A q \in Proc : held[q] # 0 => lock # 0 /\ held[q] = lock
    BY DEF LockInv
  <2>2. lock # 0 => lock' = lock
    BY <1>3, LockTaken DEF LockInv
  <2>3. CASE End(p, "failed")
    <3>1. \A q \in Proc : held'[q] \in {held[q], 0}
      BY <2>0, <2>3 DEF End
    <3>2. NoWipe'
      BY <2>0, <2>3 DEF LockInv, NoWipe, End, Blank
    <3> QED
      BY <2>0, <2>1, <2>2, <3>1, <3>2 DEF LockInv
  <2>4. CASE ~End(p, "failed")
    <3>1. /\ lock' \notin {held[q] : q \in Proc}
          /\ pc' = [pc EXCEPT ![p] = "interpret"]
          /\ held' = [held EXCEPT ![p] = lock']
          /\ me' = [me EXCEPT ![p].base = disk[Core]]
      BY <1>3, <2>4, LockTaken DEF LockInv
    <3>2. \A q \in Proc : held[q] = 0
      BY <2>1, <2>2, <3>1
    <3>3. NoWipe'
      BY <2>0, <3>1 DEF LockInv, NoWipe, Local
    <3> QED
      BY <2>0, <3>1, <3>2, <3>3 DEF LockInv
  <2> QED
    BY <2>3, <2>4
<1> QED
  BY <1>1, <1>2, <1>3, NextCases

\* As long as nobody runs --wipe, which deletes the lock file, no two commands
\* are inside _generate() together, whatever fails or is killed.
THEOREM LockExcludes == "wipe" \notin Kinds => (Spec => []OneGenerator)
<1> SUFFICES ASSUME "wipe" \notin Kinds PROVE Spec => []OneGenerator
  OBVIOUS
<1>1. Init => LockInv
  BY InitType DEF LockInv, Init, NoWipe, Blank
<1>2. LockInv /\ [Next]_vars => LockInv'
  BY LockStep
<1> QED
  BY <1>1, <1>2, LockIsOne, PTL DEF Spec
-----------------------------------------------------------------------------
(* coredata.dat among commands that take the lock *)

LockingKinds == Kinds \subseteq {"reconfigure"}
KindsTaken == \A p \in Proc : me[p].kind \in {"none", "reconfigure"}

\* What a process in _generate() knows of the files, by where it is in it.
\* me[p].base is the coredata.dat it found when it took the lock.
FilesAt(p) ==
    /\ pc[p] \in Locked => me[p].base # Torn
    /\ pc[p] \in {"interpret"} \cup SaveSteps => disk[Core] = me[p].base
    /\ pc[p] = "copy" => disk[Prev] # Missing /\ me[p].copy = disk[Core]
    /\ pc[p] \in {"temp", "dump", "replace", "rollback"} \cup UndoneOnError
          => disk[Prev] = me[p].base
    /\ pc[p] = "dump" => disk[Temp] # Missing
    /\ pc[p] = "replace" => disk[Temp] = me[p].mem
    /\ pc[p] \in UndoneOnError => disk[Core] = me[p].mem
    /\ pc[p] \in UndoneOnError \ {"generate"} => disk[Ninja] = me[p].mem
    /\ pc[p] = "build_dump" => disk[Build] # Missing
    /\ pc[p] \in {"cmdline", "cmdline_write", "postconf"} => disk[Build] = me[p].mem
    /\ pc[p] = "cmdline_write" => disk[CmdLine] # Missing /\ me[p].copy \in Options
    /\ pc[p] = "postconf" => disk[CmdLine] \in Options

\* No coredata.dat.prev is left over from a configuration that is gone.
CoreFiles == disk[Core] # Torn /\ (disk[Core] = Missing => disk[Prev] = Missing)

CoreInv == LockInv /\ KindsTaken /\ CoreFiles /\ \A p \in Proc : FilesAt(p)

\* Only process p moved.
Alone(p) == \A q \in Proc : q # p => pc'[q] = pc[q] /\ me'[q] = me[q]

LEMMA GotoAlone ==
  ASSUME TypeInv, NEW p \in Proc, NEW step, NEW local, GotoWith(p, step, local)
  PROVE  Alone(p) /\ pc'[p] = step /\ me'[p] = local
  BY DEF TypeInv, ProcTypes, GotoWith, Alone

LEMMA EndAlone ==
  ASSUME TypeInv, NEW p \in Proc, NEW how, End(p, how)
  PROVE  Alone(p) /\ pc'[p] = "idle" /\ me'[p] = Blank /\ FilesAt(p)' /\ ended'[p] = how
<1>1. Alone(p) /\ pc'[p] = "idle" /\ me'[p] = Blank /\ ended'[p] = how
  BY DEF TypeInv, ProcTypes, End, Alone
<1> QED
  BY <1>1 DEF FilesAt, Locked, SaveSteps, UndoneOnError
LEMMA RaiseAlone ==
  ASSUME CoreInv, NEW p \in Proc, Raise(p), disk' = disk
  PROVE  Alone(p) /\ FilesAt(p)' /\ me'[p].kind \in {"none", "reconfigure"}
<1>0. TypeInv /\ FilesAt(p) /\ me[p].kind \in {"none", "reconfigure"}
  BY DEF CoreInv, LockInv, KindsTaken
<1>1. CASE me[p].kind # "configure" /\ pc[p] \in UndoneOnError
  <2>1. Alone(p) /\ pc'[p] = "rollback" /\ me'[p] = me[p]
    BY <1>0, <1>1, GotoAlone, Zenon DEF Raise, Goto
  <2> QED
    BY <1>0, <1>1, <2>1, Zenon DEF FilesAt, Locked, SaveSteps, UndoneOnError
<1>2. CASE ~(me[p].kind # "configure" /\ pc[p] \in UndoneOnError)
  BY <1>0, <1>2, EndAlone DEF Raise, Blank
<1> QED
  BY <1>1, <1>2

\* One step of a command: what it knows of the files afterwards.
LEMMA FilesStep ==
  ASSUME LockingKinds, CoreInv, NEW p \in Proc, Begin(p) \/ DirectoryLock(p) \/ Continue(p)
  PROVE  /\ FilesAt(p)' /\ CoreFiles' /\ Alone(p)
         /\ me'[p].kind \in {"none", "reconfigure"}
         /\ disk' = disk \/ pc[p] \in Locked
<1> DEFINE Kept == me'[p].kind \in {"none", "reconfigure"}
           Quiet == disk' = disk
<1>0. /\ TypeInv /\ FilesAt(p) /\ CoreFiles /\ me[p].kind \in {"none", "reconfigure"}
      /\ pc[p] \notin {"wipe_read", "wipe_delete", "conf_load"}
      /\ me[p] \in Local /\ me[p].opts \in Options /\ me[p].mem \in Options
  BY DEF CoreInv, LockInv, KindsTaken, NoWipe, TypeInv, KindInv, ProcTypes, Local
<1>t. /\ disk \in [File -> Stored] /\ Torn \notin Options /\ Missing \notin Options
      /\ Torn # Missing
  BY <1>0, ConstantsAssumption, Zenon DEF TypeInv, DirTypes, Options
<1>c. Blank.kind = "none"
  BY Zenon DEF Blank
<1>e. ASSUME NEW how, End(p, how) PROVE FilesAt(p)' /\ Alone(p) /\ Kept
  BY <1>e, <1>0, <1>c, EndAlone
<1>r. ASSUME Raise(p), disk' = disk PROVE FilesAt(p)' /\ Alone(p) /\ Kept /\ CoreFiles'
  BY <1>r, <1>0, RaiseAlone DEF CoreFiles
<1>q. ASSUME disk' = disk PROVE CoreFiles'
  BY <1>q, <1>0 DEF CoreFiles
<1>g. ASSUME NEW step, NEW local, GotoWith(p, step, local), local.kind = me[p].kind
      PROVE  Alone(p) /\ pc'[p] = step /\ me'[p] = local /\ Kept
  BY <1>g, <1>0, GotoAlone, Zenon
<1>n. ASSUME pc'[p] \notin Locked PROVE FilesAt(p)'
  BY <1>n DEF FilesAt, Locked, SaveSteps, UndoneOnError
<1>l. /\ {"validate", "environment", "lock", "wipe_read"} \cap Locked = {}
      /\ {"interpret", "prev", "copy", "temp", "dump", "replace", "generate", "build",
          "build_dump", "cmdline", "cmdline_write", "postconf", "rollback"} \subseteq Locked
  BY DEF Locked, SaveSteps, UndoneOnError
<1>1. CASE Begin(p)
  <2>1. PICK kind \in Kinds, v \in Options :
           GotoWith(p, IF kind = "configure" THEN "conf_load" ELSE "validate",
                    [Blank EXCEPT !.kind = kind, !.opts = v])
    BY <1>1, Zenon DEF Begin
  <2> DEFINE local == [Blank EXCEPT !.kind = kind, !.opts = v]
  <2>2. kind = "reconfigure" /\ local.kind = kind
    BY DEF Blank, LockingKinds
  <2>3. GotoWith(p, "validate", local)
    BY <2>1, <2>2
  <2> HIDE DEF local
  <2>4. Alone(p) /\ pc'[p] = "validate" /\ me'[p] = local
    BY <2>3, <1>0, GotoAlone
  <2>5. disk' = disk
    BY <1>1, Zenon DEF Begin
  <2> QED
    BY <2>2, <2>4, <2>5, <1>n, <1>l, <1>q
<1>2. CASE validate_dirs(p)
  <2>1. disk' = disk /\ CoreFiles'
    BY <1>2, <1>q DEF validate_dirs
  <2>2. \/ End(p, "ok") \/ End(p, "failed")
        \/ GotoWith(p, "wipe_read", me[p]) \/ GotoWith(p, "environment", me[p])
    BY <1>2, <1>0 DEF validate_dirs, Goto
  <2> QED
    BY <2>1, <2>2, <1>e, <1>g, <1>n, <1>l
<1>3. CASE WipeRead(p) \/ WipeDelete(p) \/ WipeRestore(p) \/ Interrupted(p) \/ ConfLoad(p)
  BY <1>3, <1>0 DEF WipeRead, WipeDelete, WipeRestore, Interrupted, ConfLoad
<1>4. CASE Environment(p)
  <2>1. disk' = disk /\ CoreFiles'
    BY <1>4, <1>q DEF Environment
  <2>2. PICK local : /\ End(p, "failed") \/ GotoWith(p, "lock", local)
                     /\ local.kind = me[p].kind
    <3>1. [me[p] EXCEPT !.first = TRUE].kind = me[p].kind
      BY <1>0 DEF Local
    <3>2. [me[p] EXCEPT !.first = TRUE, !.opts = update(disk[CmdLine], @)].kind = me[p].kind
      BY <1>0 DEF Local
    <3>3. [me[p] EXCEPT !.mem = update(disk[Core], me[p].opts)].kind = me[p].kind
      BY <1>0 DEF Local
    <3> QED
      BY <1>4, <3>1, <3>2, <3>3, Zenon DEF Environment
  <2> QED
    BY <2>1, <2>2, <1>e, <1>g, <1>n, <1>l
<1>5. CASE DirectoryLock(p)
  <2>1. disk' = disk /\ CoreFiles'
    BY <1>5, <1>0, <1>q, LockTaken
  <2>2. CASE End(p, "failed")
    BY <2>1, <2>2, <1>e
  <2>3. CASE pc' = [pc EXCEPT ![p] = "interpret"] /\ me' = [me EXCEPT ![p].base = disk[Core]]
    <3>1. pc'[p] = "interpret" /\ me'[p].base = disk[Core] /\ me'[p].kind = me[p].kind
          /\ Alone(p)
      BY <2>3, <1>0, Zenon DEF TypeInv, ProcTypes, Alone, Local
    <3>2. FilesAt(p)'
      BY <2>1, <3>1, <1>0, Zenon DEF FilesAt, CoreFiles, Locked, SaveSteps, UndoneOnError
    <3> QED
      BY <2>1, <3>1, <3>2, <1>0
  <2> QED
    BY <1>5, <1>0, <2>2, <2>3, LockTaken
<1>6. CASE Interpret(p)
  <2>1. disk' = disk /\ CoreFiles'
    BY <1>6, <1>q DEF Interpret
  <2>2. CASE Raise(p)
    BY <2>1, <2>2, <1>r
  <2>3. CASE ~Raise(p)
    <3> DEFINE user == IF disk[CmdLine] = Missing THEN me[p].opts
                       ELSE update(disk[CmdLine], me[p].opts)
               local == [me[p] EXCEPT !.mem = IF me[p].first THEN user ELSE @]
    <3>1. GotoWith(p, "prev", local)
      BY <1>6, <2>3 DEF Interpret
    <3>2. local.kind = me[p].kind /\ local.base = me[p].base
      BY <1>0, Zenon DEF Local
    <3> HIDE DEF local, user
    <3>3. Alone(p) /\ pc'[p] = "prev" /\ me'[p] = local /\ Kept
      BY <3>1, <3>2, <1>g
    <3>4. FilesAt(p)'
      BY <1>6, <2>1, <3>2, <3>3, <1>0
         DEF Interpret, FilesAt, Locked, SaveSteps, UndoneOnError
    <3> QED
      BY <2>1, <3>3, <3>4
  <2> QED
    BY <2>2, <2>3
<1>7. CASE SavePrev(p)
  <2>1. pc[p] = "prev" /\ pc[p] \in Locked /\ disk[Core] = me[p].base /\ me[p].base # Torn
    BY <1>7, <1>0 DEF SavePrev, FilesAt, Locked, SaveSteps
  <2>2. CASE disk[Core] = Missing
    <3>1. disk' = disk /\ Alone(p) /\ pc'[p] = "temp" /\ me'[p] = me[p] /\ Kept
      BY <1>7, <2>2, <1>g DEF SavePrev, Goto
    <3>2. FilesAt(p)'
      BY <2>1, <2>2, <3>1, <1>0, Zenon DEF FilesAt, CoreFiles, Locked, SaveSteps, UndoneOnError
    <3> QED
      BY <2>1, <3>1, <3>2, <1>q
  <2>3. CASE disk[Core] # Missing
    <3> DEFINE local == [me[p] EXCEPT !.copy = disk[Core]]
    <3>1. OpenToWrite(p, Prev, "copy", local)
      BY <1>7, <2>3 DEF SavePrev
    <3>2. local.kind = me[p].kind /\ local.base = me[p].base /\ local.copy = disk[Core]
      BY <1>0, Zenon DEF Local
    <3> HIDE DEF local
    <3>3. CASE Raise(p) /\ UNCHANGED disk
      BY <3>3, <2>1, <1>r
    <3>4. CASE disk' = [disk EXCEPT ![Prev] = Torn] /\ GotoWith(p, "copy", local)
      <4>1. Alone(p) /\ pc'[p] = "copy" /\ me'[p] = local /\ Kept
        BY <3>2, <3>4, <1>g
      <4>2. disk'[Core] = disk[Core] /\ disk'[Prev] = Torn
        BY <3>4, <1>t, Zenon DEF Core, Prev, File
      <4>3. FilesAt(p)' /\ CoreFiles'
        BY <2>1, <2>3, <3>2, <4>1, <4>2, <1>t, Zenon
           DEF FilesAt, CoreFiles, Locked, SaveSteps, UndoneOnError
      <4> QED
        BY <2>1, <4>1, <4>3
    <3> QED
      BY <3>1, <3>3, <3>4, Zenon DEF OpenToWrite
  <2> QED
    BY <2>2, <2>3
<1>8. CASE SaveCopy(p)
  <2>1. /\ pc[p] = "copy" /\ pc[p] \in Locked /\ disk[Core] = me[p].base /\ me[p].base # Torn
        /\ disk[Prev] # Missing /\ me[p].copy = disk[Core]
    BY <1>8, <1>0, Zenon DEF SaveCopy, FilesAt, Locked, SaveSteps
  <2>2. Alone(p) /\ pc'[p] = "temp" /\ me'[p] = me[p] /\ Kept
    BY <1>8, <1>g, Zenon DEF SaveCopy, Goto
  <2>3. disk'[Core] = disk[Core] /\ disk'[Prev] = disk[Core]
    BY <1>8, <2>1, <1>t, Zenon DEF SaveCopy, Write, Core, Prev, File
  <2>4. FilesAt(p)' /\ CoreFiles'
    BY <2>1, <2>2, <2>3, Zenon DEF FilesAt, CoreFiles, Locked, SaveSteps, UndoneOnError
  <2> QED
    BY <2>1, <2>2, <2>4
<1>9. CASE SaveOpen(p)
  <2>1. /\ pc[p] = "temp" /\ pc[p] \in Locked /\ disk[Core] = me[p].base /\ me[p].base # Torn
        /\ disk[Prev] = me[p].base
    BY <1>9, <1>0, Zenon DEF SaveOpen, FilesAt, Locked, SaveSteps
  <2>2. CASE Raise(p) /\ UNCHANGED disk
    BY <2>1, <2>2, <1>r, Zenon
  <2>3. CASE disk' = [disk EXCEPT ![Temp] = Torn] /\ GotoWith(p, "dump", me[p])
    <3>1. Alone(p) /\ pc'[p] = "dump" /\ me'[p] = me[p] /\ Kept
      BY <2>3, <1>g
    <3>2. disk'[Core] = disk[Core] /\ disk'[Prev] = disk[Prev] /\ disk'[Temp] = Torn
      BY <2>3, <1>t, Zenon DEF Core, Prev, Temp, File
    <3>3. FilesAt(p)' /\ CoreFiles'
      BY <2>1, <3>1, <3>2, <1>0, <1>t DEF FilesAt, CoreFiles, Locked, SaveSteps, UndoneOnError
    <3> QED
      BY <2>1, <3>1, <3>3
  <2> QED
    BY <1>9, <2>2, <2>3, Zenon DEF SaveOpen, OpenToWrite
<1>10. CASE SaveDump(p)
  <2>1. /\ pc[p] = "dump" /\ pc[p] \in Locked /\ disk[Core] = me[p].base /\ me[p].base # Torn
        /\ disk[Prev] = me[p].base /\ disk[Temp] # Missing
    BY <1>10, <1>0, Zenon DEF SaveDump, FilesAt, Locked, SaveSteps
  <2>2. Alone(p) /\ pc'[p] = "replace" /\ me'[p] = me[p] /\ Kept
    BY <1>10, <1>g, Zenon DEF SaveDump, Goto
  <2>3. disk'[Core] = disk[Core] /\ disk'[Prev] = disk[Prev] /\ disk'[Temp] = me[p].mem
    BY <1>10, <2>1, <1>t DEF SaveDump, Write, Core, Prev, Temp, File
  <2>4. FilesAt(p)' /\ CoreFiles'
    BY <2>1, <2>2, <2>3, <1>0, Zenon DEF FilesAt, CoreFiles, Locked, SaveSteps, UndoneOnError
  <2> QED
    BY <2>1, <2>2, <2>4, Zenon
<1>11. CASE SaveReplace(p)
  <2>1. /\ pc[p] = "replace" /\ pc[p] \in Locked /\ me[p].base # Torn
        /\ disk[Prev] = me[p].base /\ disk[Temp] = me[p].mem
    BY <1>11, <1>0, Zenon DEF SaveReplace, FilesAt, Locked, SaveSteps
  <2>2. disk[Temp] # Missing /\ disk[Temp] # Torn
    BY <2>1, <1>0, <1>t, Zenon
  <2>3. disk' = [disk EXCEPT ![Core] = disk[Temp], ![Temp] = Missing]
        /\ GotoWith(p, "generate", me[p])
    BY <1>11, <2>2, <1>0 DEF SaveReplace, Goto
  <2>4. Alone(p) /\ pc'[p] = "generate" /\ me'[p] = me[p] /\ Kept
    BY <2>3, <1>g
  <2>5. disk'[Core] = me[p].mem /\ disk'[Prev] = disk[Prev]
    BY <2>1, <2>3, <1>t, Zenon DEF Core, Prev, Temp, File
  <2>6. FilesAt(p)' /\ CoreFiles'
    BY <2>1, <2>2, <2>4, <2>5, Zenon DEF FilesAt, CoreFiles, Locked, SaveSteps, UndoneOnError
  <2> QED
    BY <2>1, <2>4, <2>6, Zenon
\* What holds from the renaming on, until the command ends.
<1>u. ASSUME pc[p] \in UndoneOnError
      PROVE  /\ pc[p] \in Locked /\ me[p].base # Torn /\ disk[Prev] = me[p].base
             /\ disk[Core] = me[p].mem /\ disk[Core] \in Options
  BY <1>u, <1>0, Zenon DEF FilesAt, Locked
<1>v. ASSUME pc[p] \in UndoneOnError, disk'[Core] = disk[Core] PROVE CoreFiles'
  BY <1>u, <1>v, <1>t DEF CoreFiles
<1>12. CASE Generate(p)
  <2>1. pc[p] = "generate" /\ pc[p] \in UndoneOnError /\ pc[p] \in Locked
    BY <1>12, <1>l, Zenon DEF Generate, UndoneOnError
  <2>2. CASE Raise(p) /\ UNCHANGED disk
    BY <2>1, <2>2, <1>r
  <2>3. CASE disk' = [disk EXCEPT ![Ninja] = me[p].mem] /\ GotoWith(p, "build", me[p])
    <3>1. Alone(p) /\ pc'[p] = "build" /\ me'[p] = me[p] /\ Kept
      BY <2>3, <1>g
    <3>2. disk'[Core] = disk[Core] /\ disk'[Prev] = disk[Prev] /\ disk'[Ninja] = me[p].mem
      BY <2>3, <1>t, Zenon DEF Core, Prev, Ninja, File
    <3>3. FilesAt(p)'
      BY <2>1, <3>1, <3>2, <1>u DEF FilesAt, Locked, SaveSteps, UndoneOnError
    <3> QED
      BY <2>1, <3>1, <3>2, <3>3, <1>v, Zenon
  <2> QED
    BY <1>12, <2>2, <2>3 DEF Generate, Goto
<1>13. CASE BuildSave(p)
  <2>1. /\ pc[p] = "build" /\ pc[p] \in UndoneOnError /\ pc[p] \in Locked
        /\ disk[Ninja] = me[p].mem
    BY <1>13, <1>0, <1>l DEF BuildSave, UndoneOnError, FilesAt
  <2>2. CASE Raise(p) /\ UNCHANGED disk
    BY <2>1, <2>2, <1>r, Zenon
  <2>3. CASE disk' = [disk EXCEPT ![Build] = Torn] /\ GotoWith(p, "build_dump", me[p])
    <3>1. Alone(p) /\ pc'[p] = "build_dump" /\ me'[p] = me[p] /\ Kept
      BY <2>3, <1>g, Zenon
    <3>2. /\ disk'[Core] = disk[Core] /\ disk'[Prev] = disk[Prev] /\ disk'[Ninja] = disk[Ninja]
          /\ disk'[Build] = Torn
      BY <2>3, <1>t, Zenon DEF Core, Prev, Ninja, Build, File
    <3>3. FilesAt(p)'
      BY <2>1, <3>1, <3>2, <1>t, <1>u DEF FilesAt, Locked, SaveSteps, UndoneOnError
    <3> QED
      BY <2>1, <3>1, <3>2, <3>3, <1>v, Zenon
  <2> QED
    BY <1>13, <2>2, <2>3, Zenon DEF BuildSave, OpenToWrite
<1>14. CASE BuildDump(p)
  <2>1. /\ pc[p] = "build_dump" /\ pc[p] \in UndoneOnError /\ pc[p] \in Locked
        /\ disk[Ninja] = me[p].mem /\ disk[Build] # Missing
    BY <1>14, <1>0, <1>l, Zenon DEF BuildDump, UndoneOnError, FilesAt
  <2>2. Alone(p) /\ pc'[p] = "cmdline" /\ me'[p] = me[p] /\ Kept
    BY <1>14, <1>g, Zenon DEF BuildDump, Goto
  <2>3. /\ disk'[Core] = disk[Core] /\ disk'[Prev] = disk[Prev] /\ disk'[Ninja] = disk[Ninja]
        /\ disk'[Build] = me[p].mem
    BY <1>14, <2>1, <1>t, Zenon DEF BuildDump, Write, Core, Prev, Ninja, Build, File
  <2>4. FilesAt(p)'
    BY <2>1, <2>2, <2>3, <1>u, Zenon DEF FilesAt, Locked, SaveSteps, UndoneOnError
  <2> QED
    BY <2>1, <2>2, <2>3, <2>4, <1>v, Zenon
<1>15. CASE CmdLineOpen(p)
  <2> DEFINE local == [me[p] EXCEPT !.copy = CmdLineText(p)]
  <2>1. /\ pc[p] = "cmdline" /\ pc[p] \in UndoneOnError /\ pc[p] \in Locked
        /\ disk[Ninja] = me[p].mem /\ disk[Build] = me[p].mem
    BY <1>15, <1>0, <1>l, Zenon DEF CmdLineOpen, UndoneOnError, FilesAt
  <2>2. CmdLineText(p) \in Options
    <3>1. disk[CmdLine] \in Stored
      BY <1>t DEF File
    <3>2. disk[CmdLine] \notin {Missing, Torn} => update(disk[CmdLine], me[p].opts) \in Options
      BY <3>1, <1>0, UpdateType, Zenon DEF Stored
    <3> QED
      BY <3>2, <1>0 DEF CmdLineText
  <2>3. /\ local.kind = me[p].kind /\ local.base = me[p].base /\ local.mem = me[p].mem
        /\ local.copy \in Options
    BY <1>0, <2>2 DEF Local
  <2>4. OpenToWrite(p, CmdLine, "cmdline_write", local)
    BY <1>15 DEF CmdLineOpen
  <2> HIDE DEF local
  <2>5. CASE Raise(p) /\ UNCHANGED disk
    BY <2>1, <2>5, <1>r
  <2>6. CASE disk' = [disk EXCEPT ![CmdLine] = Torn] /\ GotoWith(p, "cmdline_write", local)
    <3>1. Alone(p) /\ pc'[p] = "cmdline_write" /\ me'[p] = local /\ Kept
      BY <2>3, <2>6, <1>g
    <3>2. /\ disk'[Core] = disk[Core] /\ disk'[Prev] = disk[Prev] /\ disk'[Ninja] = disk[Ninja]
          /\ disk'[Build] = disk[Build] /\ disk'[CmdLine] = Torn
      BY <2>6, <1>t DEF Core, Prev, Ninja, Build, CmdLine, File
    <3>3. FilesAt(p)'
      BY <2>1, <2>3, <3>1, <3>2, <1>t, <1>u, Zenon DEF FilesAt, Locked, SaveSteps, UndoneOnError
    <3> QED
      BY <2>1, <3>1, <3>2, <3>3, <1>v
  <2> QED
    BY <2>4, <2>5, <2>6, Zenon DEF OpenToWrite
<1>16. CASE CmdLineWrite(p)
  <2>1. /\ pc[p] = "cmdline_write" /\ pc[p] \in UndoneOnError /\ pc[p] \in Locked
        /\ disk[Ninja] = me[p].mem /\ disk[Build] = me[p].mem
        /\ disk[CmdLine] # Missing /\ me[p].copy \in Options
    BY <1>16, <1>0, <1>l, Zenon DEF CmdLineWrite, UndoneOnError, FilesAt
  <2>2. GotoWith(p, "postconf", me[p])
    BY <1>16, <1>0, Zenon DEF CmdLineWrite, Goto
  <2>3. Alone(p) /\ pc'[p] = "postconf" /\ me'[p] = me[p] /\ Kept
    BY <2>2, <1>g, Zenon
  <2>4. /\ disk'[Core] = disk[Core] /\ disk'[Prev] = disk[Prev] /\ disk'[Ninja] = disk[Ninja]
        /\ disk'[Build] = disk[Build] /\ disk'[CmdLine] = me[p].copy
    BY <1>16, <2>1, <1>t, Zenon DEF CmdLineWrite, Write, Core, Prev, Ninja, Build, CmdLine, File
  <2>5. FilesAt(p)'
    BY <2>1, <2>3, <2>4, <1>u, Zenon DEF FilesAt, Locked, SaveSteps, UndoneOnError
  <2> QED
    BY <2>1, <2>3, <2>4, <2>5, <1>v, Zenon
<1>17. CASE PostConfScripts(p)
  <2>1. disk' = disk /\ (Raise(p) \/ End(p, "ok"))
    BY <1>17 DEF PostConfScripts
  <2> QED
    BY <2>1, <1>r, <1>e, <1>q
<1>18. CASE Rollback(p)
  <2>1. /\ pc[p] = "rollback" /\ pc[p] \in Locked /\ me[p].base # Torn
        /\ disk[Prev] = me[p].base
    BY <1>18, <1>0, <1>l, Zenon DEF Rollback, FilesAt
  <2>2. disk'[Core] = me[p].base /\ disk'[Prev] = Missing
    BY <1>18, <2>1, <1>t DEF Rollback, Core, Prev, File
  <2> QED
    BY <1>18, <2>1, <2>2, <1>e DEF Rollback, CoreFiles
<1>19. CASE Stopped(p)
  BY <1>19, <1>e, <1>q, Zenon DEF Stopped
<1> QED
  BY <1>1, <1>2, <1>3, <1>4, <1>5, <1>6, <1>7, <1>8, <1>9, <1>10, <1>11, <1>12, <1>13,
     <1>14, <1>15, <1>16, <1>17, <1>18, <1>19, Zenon DEF Continue

\* The others either see the same files or are not in _generate().
LEMMA CoreStep ==
  ASSUME LockingKinds, CoreInv, [Next]_vars
  PROVE  CoreInv'
<1>0. LockInv'
  BY LockStep DEF LockingKinds, CoreInv
<1>1. CASE UNCHANGED vars
  BY <1>0, <1>1, Zenon DEF CoreInv, KindsTaken, CoreFiles, FilesAt, vars
<1>2. ASSUME NEW p \in Proc, Begin(p) \/ DirectoryLock(p) \/ Continue(p) PROVE CoreInv'
  <2>1. /\ FilesAt(p)' /\ CoreFiles' /\ Alone(p)
        /\ me'[p].kind \in {"none", "reconfigure"}
        /\ disk' = disk \/ pc[p] \in Locked
    BY <1>2, FilesStep
  <2>2. KindsTaken'
    BY <2>1 DEF Alone, KindsTaken, CoreInv
  <2>3. ASSUME NEW q \in Proc, q # p PROVE FilesAt(q)'
    <3>1. pc'[q] = pc[q] /\ me'[q] = me[q] /\ FilesAt(q)
      BY <2>1, <2>3, Zenon DEF Alone, CoreInv
    <3>2. CASE disk' = disk
      BY <3>1, <3>2, Zenon DEF FilesAt
    <3>3. CASE pc[p] \in Locked
      <4>1. Generating(p)
        BY <3>3 DEF Generating, CoreInv, KindsTaken
      <4>2. pc[q] \notin Locked
        BY <4>1, <2>3, LockIsOne DEF OneGenerator, Generating, CoreInv, KindsTaken
      <4> QED
        BY <3>1, <4>2 DEF FilesAt, Locked, SaveSteps, UndoneOnError
    <3> QED
      BY <2>1, <3>2, <3>3
  <2> QED
    BY <1>0, <2>1, <2>2, <2>3, Zenon DEF CoreInv
<1> QED
  BY <1>1, <1>2, NextCases

\* Among commands that take the lock, the files are as FilesAt says.
THEOREM CoreInvariant == LockingKinds => (Spec => []CoreInv)
<1> SUFFICES ASSUME LockingKinds PROVE Spec => []CoreInv
  OBVIOUS
<1>1. Init => CoreInv
  <2> SUFFICES ASSUME Init PROVE CoreInv
    OBVIOUS
  <2>1. LockInv
    BY InitType DEF LockInv, Init, NoWipe, Blank
  <2>2. KindsTaken /\ CoreFiles
    BY ConstantsAssumption, Zenon DEF Init, KindsTaken, CoreFiles, Blank, File, Core, Prev
  <2>3. \A p \in Proc : FilesAt(p)
    BY DEF Init, FilesAt, Locked, SaveSteps, UndoneOnError
  <2> QED
    BY <2>1, <2>2, <2>3 DEF CoreInv
<1>2. CoreInv /\ [Next]_vars => CoreInv'
  BY CoreStep
<1> QED
  BY <1>1, <1>2, PTL DEF Spec

\* Among commands that take the lock, coredata.dat is never torn, wherever they
\* are stopped.
THEOREM CoreStaysIntact == LockingKinds => (Spec => []CoreIntact)
<1> SUFFICES ASSUME LockingKinds PROVE Spec => []CoreIntact
  OBVIOUS
<1>1. CoreInv => CoreIntact
  BY Zenon DEF CoreInv, CoreFiles, CoreIntact
<1> QED
  BY <1>1, CoreInvariant, PTL

\* What one step from an invariant state may do to a command that ends.
LEMMA EndingStep ==
  ASSUME LockingKinds, CoreInv, [Next]_vars, NEW p \in Proc, pc'[p] = "idle"
  PROVE  /\ pc[p] = "rollback" /\ ended'[p] = "failed" => disk'[Core] = me[p].base
         /\ pc[p] = "postconf" /\ ended'[p] = "ok"
               => /\ \A f \in {Core, Ninja, Build} : disk'[f] = me[p].mem
                  /\ disk'[CmdLine] \in Options
<1> SUFFICES ASSUME pc[p] \in {"rollback", "postconf"}
             PROVE  /\ pc[p] = "rollback" /\ ended'[p] = "failed" => disk'[Core] = me[p].base
                    /\ pc[p] = "postconf" /\ ended'[p] = "ok"
                          => /\ \A f \in {Core, Ninja, Build} : disk'[f] = me[p].mem
                             /\ disk'[CmdLine] \in Options
  OBVIOUS
<1>0. TypeInv /\ FilesAt(p) /\ disk \in [File -> Stored]
  BY DEF CoreInv, LockInv, TypeInv, DirTypes
<1>1. ~UNCHANGED vars
  BY DEF vars
<1>2. PICK q \in Proc : Begin(q) \/ DirectoryLock(q) \/ Continue(q)
  BY <1>1, NextCases
<1>3. q = p
  BY <1>2, FilesStep DEF Alone
<1>4. \/ Rollback(p) /\ pc[p] = "rollback"
      \/ PostConfScripts(p) /\ pc[p] = "postconf"
      \/ Stopped(p)
  BY <1>2, <1>3, Zenon DEF Begin, DirectoryLock, DirectoryLockUnless, Continue, validate_dirs,
     WipeRead, WipeDelete, WipeRestore, Environment, Interpret, SavePrev, SaveCopy, SaveOpen,
     SaveDump, SaveReplace, Generate, BuildSave, BuildDump, CmdLineOpen, CmdLineWrite,
     PostConfScripts, Rollback, ConfLoad, Interrupted
<1>5. CASE Rollback(p) /\ pc[p] = "rollback"
  <2>1. disk[Prev] = me[p].base
    BY <1>0, <1>5 DEF FilesAt
  <2> QED
    BY <1>0, <1>5, <2>1, Zenon DEF Rollback, Core, Prev, File
<1>6. CASE PostConfScripts(p) /\ pc[p] = "postconf"
  BY <1>0, <1>6, Zenon DEF PostConfScripts, FilesAt, UndoneOnError
<1>7. CASE Stopped(p)
  <2>1. End(p, "stopped")
    BY <1>7 DEF Stopped
  <2>2. ended'[p] = "stopped"
    BY <1>0, <2>1, EndAlone
  <2> QED
    BY <2>2
<1> QED
  BY <1>4, <1>5, <1>6, <1>7, Zenon

\* Among commands that take the lock, a failed one puts back the coredata.dat it
\* found when it took the lock.
THEOREM FailedRestores == LockingKinds => (Spec => RollbackRestores)
<1> SUFFICES ASSUME LockingKinds PROVE Spec => RollbackRestores
  OBVIOUS
<1>1. CoreInv /\ [Next]_vars
         => [\A p \in Proc :
               pc[p] = "rollback" /\ pc'[p] = "idle" /\ ended'[p] = "failed"
                  => disk'[Core] = me[p].base]_vars
  BY EndingStep
<1> QED
  BY <1>1, CoreInvariant, PTL DEF Spec, RollbackRestores

\* Among commands that take the lock, one that succeeds leaves the files of its
\* own configuration, all of them.
THEOREM SuccessCompletes == LockingKinds => (Spec => SuccessIsComplete)
<1> SUFFICES ASSUME LockingKinds PROVE Spec => SuccessIsComplete
  OBVIOUS
<1>1. CoreInv /\ [Next]_vars
         => [\A p \in Proc :
               pc[p] = "postconf" /\ pc'[p] = "idle" /\ ended'[p] = "ok"
                  => /\ \A f \in {Core, Ninja, Build} : disk'[f] = me[p].mem
                     /\ disk'[CmdLine] \in Options]_vars
  BY EndingStep
<1> QED
  BY <1>1, CoreInvariant, PTL DEF Spec, SuccessIsComplete

-----------------------------------------------------------------------------
(* One command at a time                                                   *)

OneAtATime == \A p, q \in Proc : p = q

\* The options given on top of what a file has.
Merged(content, opts) == IF content = Missing THEN opts ELSE update(content, opts)

-----------------------------------------------------------------------------
(* What a step does to coredata.dat, its two copies, cmd_line.txt and the  *)
(* local variables                                                         *)

\* The command is over.
Ends(p) == pc'[p] = "idle" /\ me'[p] = Blank

\* It goes on with the same local variables.
Goes(p, step) == pc'[p] = step /\ me'[p] = me[p]

\* The same, but for me[p].copy.
SameButCopy(p) ==
    /\ me'[p].kind = me[p].kind /\ me'[p].opts = me[p].opts /\ me'[p].mem = me[p].mem
    /\ me'[p].first = me[p].first /\ me'[p].base = me[p].base

\* The files that stay as they are.
Stay(files) == \A f \in files : disk'[f] = disk[f]

\* An exception before dump_coredata() has returned ends the command; after it,
\* it leads to the rollback.
Raises(p) ==
    /\ disk' = disk
    /\ \/ Ends(p) /\ ~(me[p].kind # "configure" /\ pc[p] \in UndoneOnError)
       \/ Goes(p, "rollback") /\ me[p].kind # "configure" /\ pc[p] \in UndoneOnError

LEMMA LocalFields ==
  ASSUME TypeInv, NEW p \in Proc
  PROVE  /\ me[p] \in Local /\ me[p].opts \in Options /\ me[p].mem \in Options
         /\ me[p].first \in BOOLEAN /\ me[p].copy \in Stored /\ me[p].base \in Stored
         /\ disk \in [File -> Stored]
         /\ Torn \notin Options /\ Missing \notin Options /\ Torn # Missing
<1>1. me[p] \in Local /\ disk \in [File -> Stored]
  BY DEF TypeInv, ProcTypes, DirTypes
<1>2. Torn \notin Options /\ Missing \notin Options /\ Torn # Missing
  BY ConstantsAssumption, Zenon DEF Options
<1> QED
  BY <1>1, <1>2 DEF Local

LEMMA EndsIs ==
  ASSUME TypeInv, NEW p \in Proc, NEW how, End(p, how)
  PROVE  Ends(p)
  BY EndAlone DEF Ends

LEMMA GoesIs ==
  ASSUME TypeInv, NEW p \in Proc, NEW step, NEW local, GotoWith(p, step, local)
  PROVE  pc'[p] = step /\ me'[p] = local
  BY GotoAlone

LEMMA RaisesIs ==
  ASSUME TypeInv, NEW p \in Proc, Raise(p), disk' = disk
  PROVE  Raises(p)
<1>1. CASE me[p].kind # "configure" /\ pc[p] \in UndoneOnError
  BY <1>1, GoesIs DEF Raise, Raises, Goto, Goes
<1>2. CASE ~(me[p].kind # "configure" /\ pc[p] \in UndoneOnError)
  BY <1>2, EndsIs DEF Raise, Raises
<1> QED
  BY <1>1, <1>2

\* open(f, 'w') truncates f, or raises.
LEMMA OpensIs ==
  ASSUME TypeInv, NEW p \in Proc, NEW f \in File, NEW step, NEW local,
         OpenToWrite(p, f, step, local)
  PROVE  \/ ~private /\ Raises(p)
         \/ /\ private /\ pc'[p] = step /\ me'[p] = local
            /\ disk'[f] = Torn /\ Stay(File \ {f})
<1>1. disk \in [File -> Stored]
  BY DEF TypeInv, DirTypes
<1>2. CASE private /\ disk' = [disk EXCEPT ![f] = Torn] /\ GotoWith(p, step, local)
  BY <1>1, <1>2, GoesIs DEF Stay
<1>3. CASE ~private /\ Raise(p) /\ UNCHANGED disk
  BY <1>3, RaisesIs
<1> QED
  BY <1>2, <1>3 DEF OpenToWrite

LEMMA WritesIs ==
  ASSUME TypeInv, NEW f \in File, NEW content, Write(f, content)
  PROVE  /\ disk'[f] = IF disk[f] = Missing THEN Missing ELSE content
         /\ Stay(File \ {f})
<1>1. disk \in [File -> Stored]
  BY DEF TypeInv, DirTypes
<1> QED
  BY <1>1 DEF Write, Stay

-----------------------------------------------------------------------------

LEMMA BeginIs ==
  ASSUME TypeInv, NEW p \in Proc, Begin(p)
  PROVE  /\ pc[p] = "idle" /\ disk' = disk /\ private' = private
         /\ me'[p].kind \in Kinds /\ me'[p].first = FALSE
         /\ pc'[p] = IF me'[p].kind = "configure" THEN "conf_load" ELSE "validate"
<1>1. PICK kind \in Kinds, v \in Options :
         GotoWith(p, IF kind = "configure" THEN "conf_load" ELSE "validate",
                  [Blank EXCEPT !.kind = kind, !.opts = v])
  BY Zenon DEF Begin
<1> DEFINE local == [Blank EXCEPT !.kind = kind, !.opts = v]
<1>2. local.kind = kind /\ local.first = FALSE
  BY DEF Blank
<1> HIDE DEF local
<1>3. /\ pc'[p] = IF kind = "configure" THEN "conf_load" ELSE "validate"
      /\ me'[p] = local
  BY <1>1, GoesIs DEF local
<1>4. pc[p] = "idle" /\ disk' = disk /\ private' = private
  BY Zenon DEF Begin, dirVars
<1> QED
  BY <1>2, <1>3, <1>4

LEMMA ValidateIs ==
  ASSUME TypeInv, NEW p \in Proc, validate_dirs(p)
  PROVE  /\ pc[p] = "validate" /\ disk' = disk /\ private' = private
         /\ \/ Ends(p)
            \/ Goes(p, "wipe_read") /\ me[p].kind = "wipe"
            \/ Goes(p, "environment") /\ me[p].kind # "wipe"
            \/ /\ pc'[p] = "conf_load" /\ me'[p].kind = "configure"
               /\ me'[p].first = me[p].first
<1>1. pc[p] = "validate" /\ disk' = disk /\ private' = private
  BY DEF validate_dirs
<1> DEFINE local == [me[p] EXCEPT !.kind = "configure"]
<1>2. \/ End(p, "ok") \/ End(p, "failed")
      \/ GotoWith(p, "wipe_read", me[p]) /\ me[p].kind = "wipe"
      \/ GotoWith(p, "environment", me[p]) /\ me[p].kind # "wipe"
      \/ GotoWith(p, "conf_load", local)
  BY DEF validate_dirs, Goto
<1>3. local.kind = "configure" /\ local.first = me[p].first
  BY LocalFields DEF Local
<1> HIDE DEF local
<1>4. CASE End(p, "ok") \/ End(p, "failed")
  BY <1>1, <1>4, EndsIs
<1>5. CASE GotoWith(p, "wipe_read", me[p]) /\ me[p].kind = "wipe"
  BY <1>1, <1>5, GoesIs DEF Goes
<1>6. CASE GotoWith(p, "environment", me[p]) /\ me[p].kind # "wipe"
  BY <1>1, <1>6, GoesIs DEF Goes
<1>7. CASE GotoWith(p, "conf_load", local)
  BY <1>1, <1>3, <1>7, GoesIs
<1> QED
  BY <1>2, <1>4, <1>5, <1>6, <1>7


LEMMA WipeReadIs ==
  ASSUME TypeInv, NEW p \in Proc, WipeRead(p)
  PROVE  /\ pc[p] = "wipe_read" /\ disk' = disk /\ private' = private
         /\ \/ Ends(p)
            \/ /\ pc'[p] = "wipe_delete" /\ me'[p].kind = me[p].kind
               /\ disk[CmdLine] # Torn /\ me'[p].copy = disk[CmdLine]
               /\ me'[p].opts = IF disk[CmdLine] = Missing THEN me[p].opts
                                ELSE update(disk[CmdLine], me[p].opts)
<1>1. pc[p] = "wipe_read" /\ disk' = disk /\ private' = private
  BY DEF WipeRead, dirVars
<1> DEFINE local == [me[p] EXCEPT !.copy = disk[CmdLine],
                                  !.opts = IF disk[CmdLine] = Missing THEN @
                                           ELSE update(disk[CmdLine], @)]
<1>2. \/ End(p, "failed")
      \/ disk[CmdLine] # Torn /\ GotoWith(p, "wipe_delete", local)
  BY DEF WipeRead
<1>3. /\ local.kind = me[p].kind /\ local.copy = disk[CmdLine]
      /\ local.opts = IF disk[CmdLine] = Missing THEN me[p].opts
                      ELSE update(disk[CmdLine], me[p].opts)
  BY LocalFields DEF Local
<1> HIDE DEF local
<1>4. CASE End(p, "failed")
  BY <1>1, <1>4, EndsIs
<1>5. CASE disk[CmdLine] # Torn /\ GotoWith(p, "wipe_delete", local)
  BY <1>1, <1>3, <1>5, GoesIs
<1> QED
  BY <1>2, <1>4, <1>5

LEMMA WipeDeleteIs ==
  ASSUME TypeInv, NEW p \in Proc, WipeDelete(p)
  PROVE  /\ pc[p] = "wipe_delete" /\ Goes(p, "wipe_delete")
         /\ \A f \in File : disk'[f] \in {disk[f], Missing}
<1>1. pc[p] = "wipe_delete" /\ pc' = pc /\ me' = me
  BY DEF WipeDelete
<1>2. \/ \E f \in File : disk' = [disk EXCEPT ![f] = Missing]
      \/ disk' = disk
  BY DEF WipeDelete
<1> QED
  BY <1>1, <1>2, LocalFields DEF Goes

LEMMA WipeRestoreIs ==
  ASSUME TypeInv, NEW p \in Proc, WipeRestore(p)
  PROVE  /\ pc[p] = "wipe_delete" /\ Goes(p, "environment")
         /\ disk'[CmdLine] = me[p].copy /\ disk'[Core] = Missing
<1>1. /\ pc[p] = "wipe_delete" /\ RestoreCmdLine(p)
      /\ GotoWith(p, "environment", me[p])
      /\ \A f \in File : disk[f] = Missing
  BY DEF WipeRestore, Goto
<1>2. Goes(p, "environment")
  BY <1>1, GoesIs DEF Goes
<1>3. disk'[CmdLine] = me[p].copy /\ disk'[Core] = Missing
  BY <1>1, LocalFields DEF RestoreCmdLine, Core, CmdLine, File
<1> QED
  BY <1>1, <1>2, <1>3

LEMMA EnvironmentIs ==
  ASSUME TypeInv, NEW p \in Proc, Environment(p)
  PROVE  /\ pc[p] = "environment" /\ disk' = disk /\ private' = TRUE
         /\ \/ Ends(p)
            \/ /\ pc'[p] = "lock" /\ me'[p].kind = me[p].kind
               /\ \/ /\ disk[Core] = Missing
                     /\ me'[p].first = TRUE /\ me'[p].opts = me[p].opts
                  \/ disk[Core] = Torn
                  \/ /\ disk[Core] \in Options /\ me[p].kind = "reconfigure"
                     /\ me'[p].first = me[p].first /\ me'[p].opts = me[p].opts
                     /\ me'[p].mem = update(disk[Core], me[p].opts)
<1>1. pc[p] = "environment" /\ disk' = disk /\ private' = TRUE
  BY DEF Environment
<1> DEFINE a == [me[p] EXCEPT !.first = TRUE]
           b == [me[p] EXCEPT !.first = TRUE, !.opts = update(disk[CmdLine], @)]
           c == [me[p] EXCEPT !.mem = update(disk[Core], me[p].opts)]
<1>2. \/ End(p, "failed")
      \/ disk[Core] = Missing /\ GotoWith(p, "lock", a)
      \/ disk[Core] = Torn /\ GotoWith(p, "lock", b)
      \/ disk[Core] \in Options /\ me[p].kind = "reconfigure" /\ GotoWith(p, "lock", c)
  BY Zenon DEF Environment
<1>3. a.kind = me[p].kind /\ a.first = TRUE /\ a.opts = me[p].opts
  BY LocalFields DEF Local
<1>4. b.kind = me[p].kind
  BY LocalFields DEF Local
<1>5. /\ c.kind = me[p].kind /\ c.first = me[p].first /\ c.opts = me[p].opts
      /\ c.mem = update(disk[Core], me[p].opts)
  BY LocalFields DEF Local
<1> HIDE DEF a, b, c
<1>6. CASE End(p, "failed")
  BY <1>1, <1>6, EndsIs
<1>7. CASE disk[Core] = Missing /\ GotoWith(p, "lock", a)
  BY <1>1, <1>3, <1>7, GoesIs
<1>8. CASE disk[Core] = Torn /\ GotoWith(p, "lock", b)
  BY <1>1, <1>4, <1>8, GoesIs
<1>9. CASE disk[Core] \in Options /\ me[p].kind = "reconfigure" /\ GotoWith(p, "lock", c)
  BY <1>1, <1>5, <1>9, GoesIs
<1> QED
  BY <1>2, <1>6, <1>7, <1>8, <1>9, Zenon

LEMMA LockIs ==
  ASSUME TypeInv, NEW p \in Proc, DirectoryLock(p)
  PROVE  /\ pc[p] = "lock" /\ disk' = disk /\ private' = private
         /\ \/ Ends(p)
            \/ /\ pc'[p] = "interpret" /\ me'[p].base = disk[Core]
               /\ me'[p].kind = me[p].kind /\ me'[p].opts = me[p].opts
               /\ me'[p].mem = me[p].mem /\ me'[p].first = me[p].first
<1>1. pc[p] = "lock" /\ disk' = disk /\ private' = private
  BY DEF DirectoryLock, DirectoryLockUnless
<1>2. \/ End(p, "failed")
      \/ /\ pc' = [pc EXCEPT ![p] = "interpret"]
         /\ me' = [me EXCEPT ![p].base = disk[Core]]
  BY LockTaken
<1>3. CASE End(p, "failed")
  BY <1>1, <1>3, EndsIs
<1>4. CASE /\ pc' = [pc EXCEPT ![p] = "interpret"]
           /\ me' = [me EXCEPT ![p].base = disk[Core]]
  BY <1>1, <1>4, LocalFields DEF TypeInv, ProcTypes, Local
<1> QED
  BY <1>2, <1>3, <1>4

LEMMA InterpretIs ==
  ASSUME TypeInv, NEW p \in Proc, Interpret(p)
  PROVE  /\ pc[p] = "interpret" /\ disk' = disk /\ private' = private
         /\ \/ Raises(p)
            \/ /\ pc'[p] = "prev" /\ me'[p].kind = me[p].kind
               /\ me'[p].opts = me[p].opts /\ me'[p].first = me[p].first
               /\ me'[p].base = me[p].base
               /\ me'[p].mem = IF me[p].first THEN Merged(disk[CmdLine], me[p].opts)
                                              ELSE me[p].mem
<1>1. pc[p] = "interpret" /\ disk' = disk /\ private' = private
  BY DEF Interpret, dirVars
<1> DEFINE user == IF disk[CmdLine] = Missing THEN me[p].opts
                   ELSE update(disk[CmdLine], me[p].opts)
           local == [me[p] EXCEPT !.mem = IF me[p].first THEN user ELSE @]
<1>2. Raise(p) \/ GotoWith(p, "prev", local)
  BY DEF Interpret
<1>3. /\ local.kind = me[p].kind /\ local.opts = me[p].opts
      /\ local.first = me[p].first /\ local.base = me[p].base
      /\ local.mem = IF me[p].first THEN Merged(disk[CmdLine], me[p].opts) ELSE me[p].mem
  BY LocalFields DEF Local, Merged
<1> HIDE DEF local
<1>4. CASE Raise(p)
  BY <1>1, <1>4, RaisesIs
<1>5. CASE GotoWith(p, "prev", local)
  BY <1>1, <1>3, <1>5, GoesIs
<1> QED
  BY <1>2, <1>4, <1>5

-----------------------------------------------------------------------------
(* From save() on: what is said of the files is said of the four of them   *)

LEMMA SavePrevIs ==
  ASSUME TypeInv, NEW p \in Proc, SavePrev(p)
  PROVE  /\ pc[p] = "prev" /\ private' = private
         /\ \/ disk[Core] = Missing /\ disk' = disk /\ Goes(p, "temp")
            \/ ~private /\ Raises(p)
            \/ /\ disk[Core] # Missing /\ pc'[p] = "copy" /\ SameButCopy(p)
               /\ me'[p].copy = disk[Core]
               /\ disk'[Prev] = Torn /\ Stay({Core, Temp, CmdLine})
<1>1. pc[p] = "prev" /\ private' = private
  BY DEF SavePrev, dirVars
<1> DEFINE local == [me[p] EXCEPT !.copy = disk[Core]]
<1>2. \/ disk[Core] = Missing /\ GotoWith(p, "temp", me[p]) /\ disk' = disk
      \/ disk[Core] # Missing /\ OpenToWrite(p, Prev, "copy", local)
  BY DEF SavePrev, Goto
<1>3. /\ local.kind = me[p].kind /\ local.opts = me[p].opts /\ local.mem = me[p].mem
      /\ local.first = me[p].first /\ local.base = me[p].base /\ local.copy = disk[Core]
  BY LocalFields DEF Local
<1> HIDE DEF local
<1>4. CASE disk[Core] = Missing /\ GotoWith(p, "temp", me[p]) /\ disk' = disk
  BY <1>1, <1>4, GoesIs DEF Goes
<1>5. CASE disk[Core] # Missing /\ OpenToWrite(p, Prev, "copy", local)
  <2>1. \/ ~private /\ Raises(p)
        \/ /\ pc'[p] = "copy" /\ me'[p] = local
           /\ disk'[Prev] = Torn /\ Stay(File \ {Prev})
    BY <1>5, OpensIs DEF File
  <2>2. Stay(File \ {Prev}) => Stay({Core, Temp, CmdLine})
    BY DEF Stay, File, Core, Prev, Temp, CmdLine
  <2> QED
    BY <1>1, <1>3, <1>5, <2>1, <2>2 DEF SameButCopy
<1> QED
  BY <1>2, <1>4, <1>5

LEMMA SaveCopyIs ==
  ASSUME TypeInv, NEW p \in Proc, SaveCopy(p)
  PROVE  /\ pc[p] = "copy" /\ private' = private /\ Goes(p, "temp")
         /\ disk'[Prev] = IF disk[Prev] = Missing THEN Missing ELSE me[p].copy
         /\ Stay({Core, Temp, CmdLine})
<1>1. pc[p] = "copy" /\ private' = private /\ Write(Prev, me[p].copy)
      /\ GotoWith(p, "temp", me[p])
  BY DEF SaveCopy, dirVars, Goto
<1>2. Prev \in File /\ {Core, Temp, CmdLine} \subseteq File \ {Prev}
  BY DEF File, Core, Prev, Temp, CmdLine
<1> QED
  BY <1>1, <1>2, GoesIs, WritesIs DEF Goes, Stay

LEMMA SaveOpenIs ==
  ASSUME TypeInv, NEW p \in Proc, SaveOpen(p)
  PROVE  /\ pc[p] = "temp" /\ private' = private
         /\ \/ ~private /\ Raises(p)
            \/ Goes(p, "dump") /\ disk'[Temp] = Torn /\ Stay({Core, Prev, CmdLine})
<1>1. pc[p] = "temp" /\ private' = private /\ OpenToWrite(p, Temp, "dump", me[p])
  BY DEF SaveOpen, dirVars
<1>2. Temp \in File /\ {Core, Prev, CmdLine} \subseteq File \ {Temp}
  BY DEF File, Core, Prev, Temp, CmdLine
<1> QED
  BY <1>1, <1>2, OpensIs DEF Goes, Stay

LEMMA SaveDumpIs ==
  ASSUME TypeInv, NEW p \in Proc, SaveDump(p)
  PROVE  /\ pc[p] = "dump" /\ private' = private /\ Goes(p, "replace")
         /\ disk'[Temp] = IF disk[Temp] = Missing THEN Missing ELSE me[p].mem
         /\ Stay({Core, Prev, CmdLine})
<1>1. pc[p] = "dump" /\ private' = private /\ Write(Temp, me[p].mem)
      /\ GotoWith(p, "replace", me[p])
  BY DEF SaveDump, dirVars, Goto
<1>2. Temp \in File /\ {Core, Prev, CmdLine} \subseteq File \ {Temp}
  BY DEF File, Core, Prev, Temp, CmdLine
<1> QED
  BY <1>1, <1>2, GoesIs, WritesIs DEF Goes, Stay

LEMMA SaveReplaceIs ==
  ASSUME TypeInv, NEW p \in Proc, SaveReplace(p)
  PROVE  /\ pc[p] = "replace" /\ private' = private
         /\ \/ disk[Temp] = Missing /\ Raises(p)
            \/ /\ disk[Temp] # Missing
               /\ disk'[Core] = disk[Temp] /\ Stay({Prev, CmdLine})
               /\ IF me[p].kind = "configure" THEN Ends(p) ELSE Goes(p, "generate")
<1>1. pc[p] = "replace" /\ private' = private
  BY DEF SaveReplace, dirVars
<1>2. CASE disk[Temp] = Missing
  <2>1. Raise(p) /\ disk' = disk
    BY <1>2 DEF SaveReplace
  <2> QED
    BY <1>1, <1>2, <2>1, RaisesIs
<1>3. CASE disk[Temp] # Missing
  <2>1. disk' = [disk EXCEPT ![Core] = disk[Temp], ![Temp] = Missing]
    BY <1>3 DEF SaveReplace
  <2>2. disk'[Core] = disk[Temp] /\ Stay({Prev, CmdLine})
    BY <2>1, LocalFields DEF Stay, File, Core, Prev, Temp, CmdLine
  <2>3. IF me[p].kind = "configure" THEN End(p, "ok") ELSE GotoWith(p, "generate", me[p])
    BY <1>3 DEF SaveReplace, Goto
  <2>4. IF me[p].kind = "configure" THEN Ends(p) ELSE Goes(p, "generate")
    BY <2>3, EndsIs, GoesIs DEF Goes
  <2> QED
    BY <1>1, <1>3, <2>2, <2>4
<1> QED
  BY <1>2, <1>3

LEMMA BuildIs ==
  ASSUME TypeInv, NEW p \in Proc, Generate(p) \/ BuildSave(p) \/ BuildDump(p)
  PROVE  /\ pc[p] \in {"generate", "build", "build_dump"} /\ private' = private
         /\ \/ Raises(p) /\ (pc[p] = "generate" \/ ~private)
            \/ /\ Stay({Core, Prev, CmdLine})
               /\ \/ pc[p] = "generate" /\ Goes(p, "build")
                  \/ pc[p] = "build" /\ Goes(p, "build_dump")
                  \/ pc[p] = "build_dump" /\ Goes(p, "cmdline")
<1>1. pc[p] \in {"generate", "build", "build_dump"} /\ private' = private
  BY DEF Generate, BuildSave, BuildDump, dirVars
<1>2. {Core, Prev, CmdLine} \subseteq File \ {Build}
      /\ {Core, Prev, CmdLine} \subseteq File \ {Ninja} /\ Build \in File /\ Ninja \in File
  BY DEF File, Core, Prev, Temp, CmdLine, Build, Ninja
<1>3. CASE Generate(p)
  <2>1. CASE Raise(p) /\ disk' = disk
    BY <1>1, <1>3, <2>1, RaisesIs DEF Generate
  <2>2. CASE disk' = [disk EXCEPT ![Ninja] = me[p].mem] /\ GotoWith(p, "build", me[p])
    <3>1. Stay({Core, Prev, CmdLine})
      BY <1>2, <2>2, LocalFields DEF Stay
    <3> QED
      BY <1>1, <1>3, <2>2, <3>1, GoesIs DEF Generate, Goes
  <2> QED
    BY <1>3, <2>1, <2>2 DEF Generate, Goto
<1>4. CASE BuildSave(p)
  <2>1. pc[p] = "build" /\ OpenToWrite(p, Build, "build_dump", me[p])
    BY <1>4 DEF BuildSave
  <2>2. \/ ~private /\ Raises(p)
        \/ pc'[p] = "build_dump" /\ me'[p] = me[p] /\ Stay(File \ {Build})
    BY <1>2, <2>1, OpensIs
  <2>3. Stay(File \ {Build}) => Stay({Core, Prev, CmdLine})
    BY <1>2, Zenon DEF Stay
  <2> QED
    BY <1>1, <2>1, <2>2, <2>3, Zenon DEF Goes
<1>5. CASE BuildDump(p)
  <2>1. pc[p] = "build_dump" /\ Write(Build, me[p].mem) /\ GotoWith(p, "cmdline", me[p])
    BY <1>5 DEF BuildDump, Goto
  <2> QED
    BY <1>1, <1>2, <2>1, WritesIs, GoesIs DEF Goes, Stay
<1> QED
  BY <1>3, <1>4, <1>5

LEMMA CmdLineOpenIs ==
  ASSUME TypeInv, NEW p \in Proc, CmdLineOpen(p)
  PROVE  /\ pc[p] = "cmdline" /\ private' = private
         /\ \/ ~private /\ Raises(p)
            \/ /\ pc'[p] = "cmdline_write" /\ SameButCopy(p)
               /\ me'[p].copy = CmdLineText(p)
               /\ disk'[CmdLine] = Torn /\ Stay({Core, Prev})
<1> DEFINE local == [me[p] EXCEPT !.copy = CmdLineText(p)]
<1>1. pc[p] = "cmdline" /\ private' = private
      /\ OpenToWrite(p, CmdLine, "cmdline_write", local)
  BY DEF CmdLineOpen, dirVars
<1>2. CmdLine \in File /\ {Core, Prev} \subseteq File \ {CmdLine}
  BY DEF File, Core, Prev, CmdLine
<1>3. /\ local.kind = me[p].kind /\ local.opts = me[p].opts /\ local.mem = me[p].mem
      /\ local.first = me[p].first /\ local.base = me[p].base
      /\ local.copy = CmdLineText(p)
  BY LocalFields DEF Local
<1> HIDE DEF local
<1> QED
  BY <1>1, <1>2, <1>3, OpensIs DEF SameButCopy, Stay

LEMMA CmdLineWriteIs ==
  ASSUME TypeInv, NEW p \in Proc, CmdLineWrite(p)
  PROVE  /\ pc[p] = "cmdline_write" /\ private' = private
         /\ disk'[CmdLine] = IF disk[CmdLine] = Missing THEN Missing ELSE me[p].copy
         /\ Stay({Core, Prev})
         /\ \/ me[p].kind # "configure" /\ Goes(p, "postconf")
            \/ me[p].kind = "configure" /\ Goes(p, "prev")
            \/ me[p].kind = "configure" /\ me[p].mem = me[p].base /\ Ends(p)
<1>1. pc[p] = "cmdline_write" /\ private' = private /\ Write(CmdLine, me[p].copy)
  BY DEF CmdLineWrite, dirVars
<1>2. CmdLine \in File /\ {Core, Prev} \subseteq File \ {CmdLine}
  BY DEF File, Core, Prev, CmdLine
<1>3. \/ me[p].kind # "configure" /\ GotoWith(p, "postconf", me[p])
      \/ me[p].kind = "configure" /\ GotoWith(p, "prev", me[p])
      \/ me[p].kind = "configure" /\ me[p].mem = me[p].base /\ End(p, "ok")
  BY DEF CmdLineWrite, Goto
<1>4. \/ me[p].kind # "configure" /\ Goes(p, "postconf")
      \/ me[p].kind = "configure" /\ Goes(p, "prev")
      \/ me[p].kind = "configure" /\ me[p].mem = me[p].base /\ Ends(p)
  BY <1>3, GoesIs, EndsIs DEF Goes
<1> QED
  BY <1>1, <1>2, <1>4, WritesIs DEF Stay

LEMMA LastIs ==
  ASSUME TypeInv, NEW p \in Proc, PostConfScripts(p) \/ Rollback(p)
  PROVE  /\ private' = private
         /\ \/ pc[p] = "postconf" /\ disk' = disk /\ (Ends(p) \/ (PostConf /\ Raises(p)))
            \/ /\ pc[p] = "rollback" /\ Ends(p) /\ disk'[CmdLine] = disk[CmdLine]
               /\ disk'[Core] = disk[Prev] /\ disk'[Prev] = Missing
<1>1. CASE PostConfScripts(p)
  <2>1. pc[p] = "postconf" /\ disk' = disk /\ private' = private
    BY <1>1 DEF PostConfScripts, dirVars
  <2>2. CASE PostConf /\ Raise(p)
    BY <2>1, <2>2, RaisesIs
  <2>3. CASE End(p, "ok")
    BY <2>1, <2>3, EndsIs
  <2> QED
    BY <1>1, <2>2, <2>3 DEF PostConfScripts
<1>2. CASE Rollback(p)
  <2>1. pc[p] = "rollback" /\ Ends(p) /\ private' = private
    BY <1>2, EndsIs DEF Rollback, dirVars
  <2>2. /\ disk'[CmdLine] = disk[CmdLine]
        /\ disk'[Core] = disk[Prev] /\ disk'[Prev] = Missing
    BY <1>2, LocalFields DEF Rollback, File, Core, Prev, CmdLine
  <2> QED
    BY <2>1, <2>2
<1> QED
  BY <1>1, <1>2

LEMMA ConfLoadIs ==
  ASSUME TypeInv, NEW p \in Proc, ConfLoad(p)
  PROVE  /\ pc[p] = "conf_load" /\ disk' = disk /\ private' = private
         /\ \/ Ends(p)
            \/ /\ private /\ disk[Core] \in Options /\ pc'[p] = "cmdline"
               /\ me'[p].kind = me[p].kind /\ me'[p].opts = me[p].opts
               /\ me'[p].mem = update(disk[Core], me[p].opts)
               /\ me'[p].base = disk[Core] /\ me'[p].first = me[p].first
<1> DEFINE local == [me[p] EXCEPT !.mem = update(disk[Core], me[p].opts),
                                  !.base = disk[Core]]
<1>1. pc[p] = "conf_load" /\ disk' = disk /\ private' = private
  BY DEF ConfLoad, dirVars
<1>2. \/ End(p, "failed")
      \/ private /\ disk[Core] \in Options /\ GotoWith(p, "cmdline", local)
  BY DEF ConfLoad
<1>3. /\ local.kind = me[p].kind /\ local.opts = me[p].opts
      /\ local.mem = update(disk[Core], me[p].opts)
      /\ local.base = disk[Core] /\ local.first = me[p].first
  BY LocalFields DEF Local
<1> HIDE DEF local
<1>4. CASE End(p, "failed")
  BY <1>1, <1>4, EndsIs
<1>5. CASE private /\ disk[Core] \in Options /\ GotoWith(p, "cmdline", local)
  BY <1>1, <1>3, <1>5, GoesIs
<1> QED
  BY <1>2, <1>4, <1>5

-----------------------------------------------------------------------------
(* cmd_line.txt survives *)

\* While --wipe deletes, what it has not deleted of cmd_line.txt it has copied.
Kept == \A p \in Proc :
    /\ pc[p] = "wipe_delete" /\ disk[CmdLine] # Missing => me[p].copy # Missing
    /\ pc[p] = "cmdline_write" => me[p].copy # Missing

\* cmd_line.txt exists, or a --wipe that is deleting has a copy of it.
Safe ==
    \/ disk[CmdLine] # Missing
    \/ \E p \in Proc : pc[p] = "wipe_delete" /\ me[p].copy # Missing

\* One step of one command, seen from cmd_line.txt.
LEMMA CmdLineSteps ==
  ASSUME TypeInv, NEW p \in Proc, Begin(p) \/ DirectoryLock(p) \/ Continue(p)
  PROVE  \/ /\ pc[p] = "wipe_delete" /\ Goes(p, "wipe_delete")
            /\ disk'[CmdLine] \in {disk[CmdLine], Missing}
         \/ /\ pc[p] = "wipe_delete" /\ pc'[p] \notin {"wipe_delete", "cmdline_write"}
            /\ \/ disk'[CmdLine] = me[p].copy
               \/ me[p].copy = Missing /\ disk' = disk
               \/ MayKill /\ disk' = disk
         \/ /\ pc[p] = "wipe_read" /\ disk' = disk /\ pc'[p] # "cmdline_write"
            /\ pc'[p] = "wipe_delete" => me'[p].copy = disk[CmdLine]
         \/ /\ pc[p] # "wipe_delete" /\ pc'[p] # "wipe_delete"
            /\ disk[CmdLine] # Missing
                  => \/ disk'[CmdLine] # Missing
                     \/ pc[p] = "cmdline_write" /\ disk'[CmdLine] = me[p].copy
            /\ pc'[p] = "cmdline_write" => me'[p].copy # Missing
<1> USE LocalFields
<1>1. CASE Begin(p) \/ DirectoryLock(p) \/ validate_dirs(p) \/ Environment(p)
             \/ Interpret(p) \/ ConfLoad(p)
  <2>1. /\ pc[p] \in {"idle", "lock", "validate", "environment", "interpret", "conf_load"}
        /\ disk' = disk
    BY <1>1, BeginIs, LockIs, ValidateIs, EnvironmentIs, InterpretIs, ConfLoadIs, Zenon
  <2>2. pc'[p] \notin {"wipe_delete", "cmdline_write"}
    BY <1>1, BeginIs, LockIs, ValidateIs, EnvironmentIs, InterpretIs, ConfLoadIs, Zenon
    DEF Ends, Goes, Raises
  <2> QED
    BY <2>1, <2>2
<1>2. CASE WipeRead(p)
  BY <1>2, WipeReadIs, Zenon DEF Ends
<1>3. CASE WipeDelete(p)
  BY <1>3, WipeDeleteIs DEF File
<1>4. CASE WipeRestore(p)
  BY <1>4, WipeRestoreIs DEF Goes
<1>5. CASE Interrupted(p)
  <2>1. pc[p] = "wipe_delete" /\ RestoreCmdLine(p) /\ Ends(p)
    BY <1>5, EndsIs DEF Interrupted
  <2> QED
    BY <2>1 DEF RestoreCmdLine, Ends, File
<1>6. CASE Stopped(p)
  BY <1>6, EndsIs DEF Stopped, Ends
<1>7. CASE SavePrev(p) \/ SaveCopy(p) \/ SaveOpen(p) \/ SaveDump(p) \/ SaveReplace(p)
  <2>1. /\ pc[p] \in {"prev", "copy", "temp", "dump", "replace"}
        /\ disk'[CmdLine] = disk[CmdLine]
    BY <1>7, SavePrevIs, SaveCopyIs, SaveOpenIs, SaveDumpIs, SaveReplaceIs, Zenon
    DEF Stay, Raises
  <2>2. pc'[p] \notin {"wipe_delete", "cmdline_write"}
    BY <1>7, SavePrevIs, SaveCopyIs, SaveOpenIs, SaveDumpIs, SaveReplaceIs, Zenon
    DEF Ends, Goes, Raises
  <2> QED
    BY <2>1, <2>2
<1>8. CASE Generate(p) \/ BuildSave(p) \/ BuildDump(p)
  BY <1>8, BuildIs, Zenon DEF Ends, Goes, Raises, Stay
<1>9. CASE CmdLineOpen(p)
  <2>1. CmdLineText(p) # Missing
    BY DEF CmdLineText, update, Options, Stored, File
  <2> QED
    BY <1>9, <2>1, CmdLineOpenIs, Zenon DEF Ends, Goes, Raises
<1>10. CASE CmdLineWrite(p)
  <2>1. pc[p] = "cmdline_write" /\ pc'[p] \notin {"wipe_delete", "cmdline_write"}
    BY <1>10, CmdLineWriteIs, Zenon DEF Ends, Goes
  <2> QED
    BY <1>10, <2>1, CmdLineWriteIs
<1>11. CASE PostConfScripts(p) \/ Rollback(p)
  BY <1>11, LastIs DEF Ends, Goes, Raises
<1> QED
  BY <1>1, <1>2, <1>3, <1>4, <1>5, <1>6, <1>7, <1>8, <1>9, <1>10, <1>11, Zenon
  DEF Continue


LEMMA KeptStep ==
  ASSUME OneAtATime, TypeInv, Kept, [Next]_vars
  PROVE  Kept'
<1>1. CASE UNCHANGED vars
  BY <1>1 DEF Kept, vars
<1>2. ASSUME NEW p \in Proc, Begin(p) \/ DirectoryLock(p) \/ Continue(p) PROVE Kept'
  <2> SUFFICES /\ pc'[p] = "wipe_delete" /\ disk'[CmdLine] # Missing
                    => me'[p].copy # Missing
               /\ pc'[p] = "cmdline_write" => me'[p].copy # Missing
    BY DEF OneAtATime, Kept
  <2> QED
    BY <1>2, CmdLineSteps DEF Kept, Goes
<1> QED
  BY <1>1, <1>2, NextCases

LEMMA SafeStep ==
  ASSUME OneAtATime, ~MayKill, TypeInv, Kept, Safe, [Next]_vars
  PROVE  Safe'
<1>1. CASE UNCHANGED vars
  BY <1>1 DEF Safe, vars
<1>2. ASSUME NEW p \in Proc, Begin(p) \/ DirectoryLock(p) \/ Continue(p) PROVE Safe'
  <2>1. \/ disk[CmdLine] # Missing
        \/ pc[p] = "wipe_delete" /\ me[p].copy # Missing
    BY DEF OneAtATime, Safe
  <2>2. /\ pc[p] = "wipe_delete" /\ disk[CmdLine] # Missing => me[p].copy # Missing
        /\ pc[p] = "cmdline_write" => me[p].copy # Missing
    BY DEF Kept
  <2>3. \/ disk'[CmdLine] # Missing
        \/ pc'[p] = "wipe_delete" /\ me'[p].copy # Missing
    BY <1>2, <2>1, <2>2, CmdLineSteps DEF Goes
  <2> QED
    BY <2>3 DEF Safe
<1> QED
  BY <1>1, <1>2, NextCases

\* When one command runs at a time and --wipe is not killed outright while it
\* deletes, cmd_line.txt is there again whenever no command runs, whatever
\* failed or was interrupted.
THEOREM CmdLineIsRestored == OneAtATime /\ ~MayKill => (Spec => CmdLineSurvives)
<1> SUFFICES ASSUME OneAtATime, ~MayKill PROVE Spec => CmdLineSurvives
  OBVIOUS
<1>1. Init => Kept
  BY DEF Init, Kept
<1>2. TypeInv /\ Kept /\ [Next]_vars => Kept'
  BY KeptStep
<1>3. TypeInv /\ Kept /\ Safe /\ [Next]_vars => Safe'
  BY SafeStep
<1>4. disk[CmdLine] \in Options => Safe
  BY ConstantsAssumption DEF Safe, Options
<1>5. Safe => (AllIdle => disk[CmdLine] # Missing)
  BY DEF Safe, AllIdle
<1> QED
  BY <1>1, <1>2, <1>3, <1>4, <1>5, TypesInvariant, PTL DEF Spec, CmdLineSurvives


-----------------------------------------------------------------------------
(* A --wipe that succeeds leaves the two files agreeing *)

\* The options already have what a content of cmd_line.txt says.
Has(opts, content) ==
    content # Torn /\ (content \in Options => update(content, opts) = opts)

\* How far a --wipe is, and what it relies on there: it has taken over the
\* options of the cmd_line.txt it puts back, and finds no coredata.dat.
WipeAt(p) == me[p].kind = "wipe" =>
    /\ pc[p] \notin {"copy", "conf_load"}
    /\ pc[p] = "wipe_delete" => Has(me[p].opts, me[p].copy)
    /\ pc[p] \in {"environment", "lock", "interpret"} => Has(me[p].opts, disk[CmdLine])
    /\ pc[p] \in {"environment", "lock", "interpret", "prev"} => disk[Core] = Missing
    /\ pc[p] \in {"lock"} \cup (Locked \ {"rollback"}) => me[p].first
    /\ pc[p] \in SaveSteps \cup UndoneOnError => me[p].mem = me[p].opts
    /\ pc[p] = "dump" => disk[Temp] # Missing
    /\ pc[p] = "replace" => disk[Temp] = me[p].mem
    /\ pc[p] \in UndoneOnError => disk[Core] = me[p].mem
    /\ pc[p] = "cmdline_write" => disk[CmdLine] # Missing /\ me[p].copy = me[p].opts
    /\ pc[p] = "postconf" => disk[CmdLine] = me[p].opts

LEMMA WipeOver ==
  ASSUME TypeInv, NEW p \in Proc, Ends(p) \/ (me[p].kind # "wipe" /\ me'[p].kind = me[p].kind)
                                  \/ Raises(p)
  PROVE  WipeAt(p)'
<1>1. CASE Ends(p)
  BY <1>1 DEF Ends, Blank, WipeAt
<1>2. CASE me[p].kind # "wipe" /\ me'[p].kind = me[p].kind
  BY <1>2, Zenon DEF WipeAt
<1>3. CASE Goes(p, "rollback") /\ disk' = disk
  BY <1>3, Zenon DEF Goes, WipeAt, Locked, SaveSteps, UndoneOnError
<1> QED
  BY <1>1, <1>2, <1>3 DEF Raises

LEMMA WipeEarly ==
  ASSUME TypeInv, NEW p \in Proc, WipeAt(p),
         \/ Begin(p) \/ validate_dirs(p) \/ WipeRead(p) \/ WipeDelete(p) \/ WipeRestore(p)
         \/ Environment(p) \/ DirectoryLock(p) \/ Interpret(p) \/ ConfLoad(p)
  PROVE  WipeAt(p)'
<1> USE DEF WipeAt, Locked, SaveSteps, UndoneOnError
<1>0. disk[CmdLine] \in Stored
  BY LocalFields, Zenon DEF File
<1>1. CASE Begin(p)
  BY <1>1, BeginIs, Zenon
<1>2. CASE validate_dirs(p)
  <2>1. CASE Ends(p)
    BY <2>1, WipeOver, Zenon
  <2>2. CASE Goes(p, "environment") /\ me[p].kind # "wipe"
    BY <2>2, Zenon DEF Goes
  <2> QED
    BY <1>2, <2>1, <2>2, ValidateIs, Zenon DEF Goes
<1>3. CASE WipeRead(p)
  <2>1. CASE Ends(p)
    BY <2>1, WipeOver, Zenon
  <2>2. Has(IF disk[CmdLine] = Missing THEN me[p].opts
            ELSE update(disk[CmdLine], me[p].opts), disk[CmdLine]) \/ disk[CmdLine] = Torn
    BY LocalFields, Zenon DEF Has, update
  <2> QED
    BY <1>3, <2>1, <2>2, WipeReadIs, Zenon
<1>4. CASE WipeDelete(p)
  BY <1>4, WipeDeleteIs, Zenon DEF Goes
<1>5. CASE WipeRestore(p)
  BY <1>5, WipeRestoreIs, Zenon DEF Goes
<1>6. CASE Environment(p)
  <2>1. CASE Ends(p)
    BY <2>1, WipeOver, Zenon
  <2>2. CASE me[p].kind # "wipe" /\ me'[p].kind = me[p].kind
    BY <2>2, WipeOver, Zenon
  <2> QED
    BY <1>6, <2>1, <2>2, EnvironmentIs, LocalFields, Zenon
<1>7. CASE DirectoryLock(p)
  <2>1. CASE Ends(p)
    BY <2>1, WipeOver, Zenon
  <2> QED
    BY <1>7, <2>1, LockIs, Zenon
<1>8. CASE Interpret(p)
  <2>1. CASE Raises(p)
    BY <2>1, WipeOver, Zenon
  <2>2. Has(me[p].opts, disk[CmdLine]) => Merged(disk[CmdLine], me[p].opts) = me[p].opts
    BY <1>0, Zenon DEF Has, Merged, Stored
  <2> QED
    BY <1>8, <2>1, <2>2, InterpretIs, Zenon
<1>9. CASE ConfLoad(p)
  <2>1. CASE Ends(p)
    BY <2>1, WipeOver, Zenon
  <2> QED
    BY <1>9, <2>1, ConfLoadIs, Zenon
<1> QED
  BY <1>1, <1>2, <1>3, <1>4, <1>5, <1>6, <1>7, <1>8, <1>9, Zenon

LEMMA WipeLate ==
  ASSUME TypeInv, NEW p \in Proc, WipeAt(p),
         \/ SavePrev(p) \/ SaveCopy(p) \/ SaveOpen(p) \/ SaveDump(p) \/ SaveReplace(p)
         \/ Generate(p) \/ BuildSave(p) \/ BuildDump(p)
         \/ CmdLineOpen(p) \/ CmdLineWrite(p) \/ PostConfScripts(p) \/ Rollback(p)
         \/ Stopped(p) \/ Interrupted(p)
  PROVE  WipeAt(p)'
<1> USE DEF WipeAt, Locked, SaveSteps, UndoneOnError, Stay
<1>1. CASE Raises(p) \/ Ends(p)
  BY <1>1, WipeOver, Zenon
<1>2. CASE SavePrev(p)
  BY <1>1, <1>2, SavePrevIs, Zenon DEF Goes, SameButCopy
<1>3. CASE SaveCopy(p)
  BY <1>1, <1>3, SaveCopyIs, Zenon DEF Goes
<1>4. CASE SaveOpen(p)
  BY <1>1, <1>4, SaveOpenIs, LocalFields, Zenon DEF Goes
<1>5. CASE SaveDump(p)
  BY <1>1, <1>5, SaveDumpIs, Zenon DEF Goes
<1>6. CASE SaveReplace(p)
  BY <1>1, <1>6, SaveReplaceIs, Zenon DEF Goes
<1>7. CASE Generate(p) \/ BuildSave(p) \/ BuildDump(p)
  BY <1>1, <1>7, BuildIs, Zenon DEF Goes
<1>8. CASE CmdLineOpen(p)
  BY <1>1, <1>8, CmdLineOpenIs, LocalFields, Zenon DEF SameButCopy, CmdLineText
<1>9. CASE CmdLineWrite(p)
  BY <1>1, <1>9, CmdLineWriteIs, Zenon DEF Goes
<1>10. CASE PostConfScripts(p) \/ Rollback(p)
  BY <1>1, <1>10, LastIs, Zenon
<1>11. CASE Stopped(p) \/ Interrupted(p)
  BY <1>1, <1>11, EndsIs, Zenon DEF Stopped, Interrupted
<1> QED
  BY <1>2, <1>3, <1>4, <1>5, <1>6, <1>7, <1>8, <1>9, <1>10, <1>11, Zenon

LEMMA WipeStep ==
  ASSUME OneAtATime, TypeInv, \A p \in Proc : WipeAt(p), [Next]_vars
  PROVE  \A p \in Proc : WipeAt(p)'
<1>1. CASE UNCHANGED vars
  BY <1>1, Zenon DEF WipeAt, vars
<1>2. ASSUME NEW p \in Proc, Begin(p) \/ DirectoryLock(p) \/ Continue(p) PROVE WipeAt(p)'
  BY <1>2, WipeEarly, WipeLate, Zenon DEF Continue
<1> QED
  BY <1>1, <1>2, NextCases, Zenon DEF OneAtATime

\* A command that has written cmd_line.txt writes nothing more unless it fails.
LEMMA LastStep ==
  ASSUME TypeInv, NEW p \in Proc, Begin(p) \/ DirectoryLock(p) \/ Continue(p),
         pc[p] = "postconf"
  PROVE  disk' = disk
<1>1. PostConfScripts(p) \/ Stopped(p)
  BY DEF Begin, DirectoryLock, DirectoryLockUnless, Continue, validate_dirs, WipeRead, WipeDelete,
         WipeRestore, Environment, Interpret, SavePrev, SaveCopy, SaveOpen, SaveDump, SaveReplace,
         Generate, BuildSave, BuildDump, CmdLineOpen, CmdLineWrite, Rollback, ConfLoad, Interrupted
<1> QED
  BY <1>1, Zenon DEF PostConfScripts, Stopped

\* When one command runs at a time, a --wipe that succeeds leaves cmd_line.txt
\* and coredata.dat agreeing, whatever stopped and failed commands left behind:
\* the next --wipe starts from what this one configured.
THEOREM WipeLeavesAgreement == OneAtATime => (Spec => WipeAgrees)
<1> SUFFICES ASSUME OneAtATime PROVE Spec => WipeAgrees
  OBVIOUS
<1> DEFINE Inv == \A p \in Proc : WipeAt(p)
           Agreeing == \A p \in Proc :
               me[p].kind = "wipe" /\ pc[p] = "postconf" /\ pc'[p] = "idle" /\ ended'[p] = "ok"
                  => disk'[CmdLine] = disk'[Core]
<1>1. Init => Inv
  BY DEF Init, Blank, WipeAt
<1>2. TypeInv /\ Inv /\ [Next]_vars => Inv'
  BY WipeStep
<1>3. TypeInv /\ Inv /\ [Next]_vars => [Agreeing]_vars
  <2> SUFFICES ASSUME TypeInv, Inv, Next, ~UNCHANGED vars,
                      NEW p \in Proc, me[p].kind = "wipe", pc[p] = "postconf"
               PROVE  disk'[CmdLine] = disk'[Core]
    OBVIOUS
  <2>1. Begin(p) \/ DirectoryLock(p) \/ Continue(p)
    BY NextCases DEF OneAtATime
  <2>2. disk' = disk
    BY <2>1, LastStep
  <2>3. disk[CmdLine] = disk[Core]
    BY Zenon DEF WipeAt, UndoneOnError
  <2> QED
    BY <2>2, <2>3
<1> QED
  BY <1>1, <1>2, <1>3, TypesInvariant, PTL DEF Spec, WipeAgrees


-----------------------------------------------------------------------------
(* Without --wipe and without a stop, the two files always agree *)

\* Between commands: coredata.dat is there exactly when cmd_line.txt is, with
\* the same options, and no stale copy of it could be put back.
Agree ==
    /\ disk[Core] # Torn /\ disk[CmdLine] = disk[Core]
    /\ disk[Core] = Missing => disk[Prev] = Missing
    /\ disk[Core] # Missing => private

\* The steps of a command that has written nothing yet.
Untouched == {"idle", "validate", "conf_load", "environment", "lock", "interpret"}

\* Where the options in memory come from: base is the coredata.dat found.
MemoryAt(p) ==
    /\ pc[p] \in {"validate", "environment", "conf_load"} => ~me[p].first
    /\ pc[p] \in {"lock", "interpret"} =>
          /\ me[p].first <=> disk[Core] = Missing
          /\ ~me[p].first => me[p].mem = update(disk[Core], me[p].opts)
    /\ pc[p] = "interpret" => me[p].base = disk[Core]
    /\ pc[p] \in Locked => me[p].base # Torn /\ private
    /\ pc[p] = "lock" => private
    /\ pc[p] \in SaveSteps \cup UndoneOnError =>
          /\ me[p].mem = Merged(me[p].base, me[p].opts)
          /\ me[p].first <=> me[p].base = Missing

\* What coredata.dat and its two copies hold while save() runs and after it.
SavedAt(p) ==
    /\ pc[p] \in SaveSteps => disk[Core] = me[p].base
    /\ pc[p] = "prev" /\ disk[Core] = Missing => disk[Prev] = Missing
    /\ pc[p] = "copy" => disk[Prev] # Missing /\ me[p].copy = me[p].base
    /\ pc[p] = "dump" => disk[Temp] # Missing
    /\ pc[p] = "replace" => disk[Temp] = me[p].mem
    /\ pc[p] = "cmdline_write" => disk[CmdLine] # Missing /\ me[p].copy = me[p].mem

\* The order of `meson setup`: coredata.dat first, cmd_line.txt last.
SetupAt(p) == me[p].kind # "configure" =>
    /\ pc[p] \in SaveSteps \cup {"generate", "build", "build_dump", "cmdline", "rollback"}
          => disk[CmdLine] = me[p].base
    /\ pc[p] \in {"temp", "dump", "replace", "rollback"} \cup UndoneOnError
          => disk[Prev] = me[p].base
    /\ pc[p] \in UndoneOnError => disk[Core] = me[p].mem
    /\ pc[p] = "postconf" => disk[CmdLine] = me[p].mem

\* The order of `meson configure`: cmd_line.txt first, coredata.dat last.
ConfigureAt(p) == me[p].kind = "configure" =>
    /\ pc[p] \in {"conf_load", "cmdline", "cmdline_write"} \cup SaveSteps
    /\ pc[p] # "conf_load" => me[p].base # Missing
    /\ pc[p] \in SaveSteps => disk[CmdLine] = me[p].mem
    /\ pc[p] \in {"cmdline", "cmdline_write"} => disk[Core] = me[p].base
    /\ pc[p] = "cmdline" => disk[CmdLine] = me[p].base

CommandAt(p) ==
    /\ pc[p] \notin {"wipe_read", "wipe_delete"} /\ me[p].kind # "wipe"
    /\ pc[p] \in Untouched => Agree
    /\ MemoryAt(p) /\ SavedAt(p) /\ SetupAt(p) /\ ConfigureAt(p)


\* A command ends well where the two files agree.
LEMMA CommandOver ==
  ASSUME NEW p \in Proc, Ends(p), Agree'
  PROVE  CommandAt(p)'
<1>1. pc'[p] = "idle" /\ me'[p].kind = "none"
  BY DEF Ends, Blank
<1>2. MemoryAt(p)'
  BY <1>1 DEF MemoryAt, Locked, SaveSteps, UndoneOnError
<1>3. SavedAt(p)' /\ ConfigureAt(p)'
  BY <1>1 DEF SavedAt, ConfigureAt, SaveSteps
<1>4. SetupAt(p)'
  BY <1>1 DEF SetupAt, SaveSteps, UndoneOnError
<1> QED
  BY <1>1, <1>2, <1>3, <1>4 DEF CommandAt

LEMMA CommandEarly ==
  ASSUME "wipe" \notin Kinds, TypeInv, NEW p \in Proc, CommandAt(p),
         \/ Begin(p) \/ validate_dirs(p) \/ Environment(p) \/ DirectoryLock(p)
         \/ Interpret(p) \/ ConfLoad(p)
  PROVE  CommandAt(p)'
<1>1. pc[p] \in Untouched /\ disk' = disk /\ private' \in {private, TRUE}
  BY BeginIs, ValidateIs, EnvironmentIs, LockIs, InterpretIs, ConfLoadIs, Zenon DEF Untouched
<1>2. Agree /\ Agree'
  <2>1. Agree
    BY <1>1 DEF CommandAt
  <2>2. CASE private' = private
    BY <1>1, <2>1, <2>2, Zenon DEF Agree
  <2>3. CASE private' = TRUE
    BY <1>1, <2>1, <2>3, Zenon DEF Agree
  <2> QED
    BY <1>1, <2>1, <2>2, <2>3, Zenon
<1>3. ASSUME Ends(p) PROVE CommandAt(p)'
  BY <1>2, <1>3, CommandOver
<1>4. /\ private \in BOOLEAN /\ disk[Core] \in Stored /\ disk[CmdLine] \in Stored
      /\ me[p].first \in BOOLEAN /\ me[p].kind # "wipe"
  BY LocalFields, Zenon DEF TypeInv, DirTypes, File, CommandAt
<1>5. MemoryAt(p) /\ ConfigureAt(p)
  BY Zenon DEF CommandAt
<1> USE DEF Locked, SaveSteps, UndoneOnError
<1>6. CASE Begin(p)
  <2>1. /\ pc'[p] \in {"conf_load", "validate"} /\ me'[p].first = FALSE
        /\ me'[p].kind # "wipe" /\ (me'[p].kind = "configure" => pc'[p] = "conf_load")
    BY <1>6, BeginIs, Zenon
  <2> QED
    BY <1>2, <2>1, Zenon DEF CommandAt, MemoryAt, SavedAt, SetupAt, ConfigureAt
<1>7. CASE validate_dirs(p)
  <2>1. pc[p] = "validate" /\ me[p].first = FALSE /\ me[p].kind # "configure"
    BY <1>4, <1>5, <1>7, ValidateIs, Zenon DEF MemoryAt, ConfigureAt
  <2>2. CASE /\ pc'[p] \in {"conf_load", "environment"} /\ me'[p].first = FALSE
             /\ me'[p].kind # "wipe" /\ (me'[p].kind = "configure" => pc'[p] = "conf_load")
    BY <1>2, <2>2, Zenon DEF CommandAt, MemoryAt, SavedAt, SetupAt, ConfigureAt
  <2> QED
    BY <1>3, <1>4, <1>7, <2>1, <2>2, ValidateIs, Zenon DEF Goes
<1>8. CASE Environment(p)
  <2>1. pc[p] = "environment" /\ me[p].first = FALSE /\ me[p].kind # "configure"
    BY <1>4, <1>5, <1>8, EnvironmentIs, Zenon DEF MemoryAt, ConfigureAt
  <2>2. CASE /\ pc'[p] = "lock" /\ me'[p].kind = me[p].kind /\ private' = TRUE
             /\ me'[p].first <=> disk[Core] = Missing
             /\ disk[Core] # Missing => me'[p].mem = update(disk[Core], me'[p].opts)
    <3>1. MemoryAt(p)'
      BY <1>1, <2>2, Zenon DEF MemoryAt
    <3> QED
      BY <1>2, <1>4, <2>1, <2>2, <3>1, Zenon DEF CommandAt, SavedAt, SetupAt, ConfigureAt
  <2>3. disk[Core] # Torn /\ disk[Core] \in Stored /\ Missing \notin Options
    BY <1>2, <1>4, LocalFields DEF Agree
  <2> QED
    BY <1>3, <1>8, <2>1, <2>2, <2>3, EnvironmentIs, Zenon
<1>9. CASE DirectoryLock(p)
  <2>1. pc[p] = "lock" /\ me[p].kind # "configure"
    BY <1>5, <1>9, LockIs DEF ConfigureAt
  <2>2. CASE /\ pc'[p] = "interpret" /\ me'[p].base = disk[Core]
             /\ me'[p].kind = me[p].kind /\ me'[p].opts = me[p].opts
             /\ me'[p].mem = me[p].mem /\ me'[p].first = me[p].first
    <3>1. private' = private /\ disk[Core] # Torn
      BY <1>2, <1>9, LockIs, Zenon DEF Agree
    <3>2. MemoryAt(p)'
      BY <1>1, <1>4, <1>5, <2>1, <2>2, <3>1, Zenon DEF MemoryAt
    <3> QED
      BY <1>2, <1>4, <2>1, <2>2, <3>2, Zenon DEF CommandAt, SavedAt, SetupAt, ConfigureAt
  <2> QED
    BY <1>3, <1>9, <2>2, LockIs, Zenon
<1>10. CASE Interpret(p)
  <2>1. pc[p] = "interpret" /\ me[p].kind # "configure" /\ private' = private
    BY <1>5, <1>10, InterpretIs, Zenon DEF ConfigureAt
  <2>2. CASE Raises(p)
    BY <1>3, <2>1, <2>2, Zenon DEF Raises
  <2>3. CASE /\ pc'[p] = "prev" /\ me'[p].kind = me[p].kind
             /\ me'[p].opts = me[p].opts /\ me'[p].first = me[p].first
             /\ me'[p].base = me[p].base
             /\ me'[p].mem = IF me[p].first THEN Merged(disk[CmdLine], me[p].opts)
                                            ELSE me[p].mem
    <3>1. /\ me[p].base = disk[Core] /\ disk[CmdLine] = disk[Core] /\ private
          /\ me[p].first <=> disk[Core] = Missing
          /\ ~me[p].first => me[p].mem = update(disk[Core], me[p].opts)
          /\ disk[Core] # Torn /\ (disk[Core] = Missing => disk[Prev] = Missing)
      BY <1>2, <1>5, <2>1, Zenon DEF MemoryAt, Agree
    <3>2. MemoryAt(p)'
      BY <1>1, <1>4, <2>1, <2>3, <3>1, Zenon DEF MemoryAt, Merged
    <3>3. SavedAt(p)' /\ SetupAt(p)' /\ ConfigureAt(p)'
      BY <1>1, <2>1, <2>3, <3>1, Zenon DEF SavedAt, SetupAt, ConfigureAt
    <3> QED
      BY <1>4, <2>3, <3>2, <3>3, Zenon DEF CommandAt, Untouched
  <2> QED
    BY <1>10, <2>2, <2>3, InterpretIs, Zenon
<1>11. CASE ConfLoad(p)
  <2>1. CASE /\ private /\ disk[Core] \in Options /\ pc'[p] = "cmdline"
             /\ me'[p].kind = me[p].kind /\ me'[p].opts = me[p].opts
             /\ me'[p].mem = update(disk[Core], me[p].opts)
             /\ me'[p].base = disk[Core] /\ me'[p].first = me[p].first
    <3>1. /\ pc[p] = "conf_load" /\ me[p].kind = "configure" /\ private' = private
          /\ me[p].first = FALSE
      BY <1>4, <1>5, <1>11, ConfLoadIs, Zenon DEF TypeInv, KindInv, MemoryAt
    <3>2. MemoryAt(p)'
      BY <2>1, <3>1, LocalFields, Zenon DEF MemoryAt, Merged
    <3>3. SavedAt(p)' /\ SetupAt(p)' /\ ConfigureAt(p)'
      BY <1>1, <1>2, <2>1, <3>1, LocalFields, Zenon DEF Agree, SavedAt, SetupAt, ConfigureAt
    <3> QED
      BY <2>1, <3>1, <3>2, <3>3, Zenon DEF CommandAt, Untouched
  <2> QED
    BY <1>3, <1>11, <2>1, ConfLoadIs, Zenon
<1> QED
  BY <1>6, <1>7, <1>8, <1>9, <1>10, <1>11

\* The same command, further on: what its local variables say is kept.
LEMMA SameMemory ==
  ASSUME NEW p \in Proc, CommandAt(p), pc[p] \in SaveSteps \cup UndoneOnError,
         pc'[p] \in SaveSteps \cup UndoneOnError \cup {"rollback"},
         Goes(p, pc'[p]) \/ SameButCopy(p), private' = private
  PROVE  MemoryAt(p)'
<1>1. /\ me'[p].mem = me[p].mem /\ me'[p].opts = me[p].opts /\ me'[p].first = me[p].first
      /\ me'[p].base = me[p].base
  BY Zenon DEF Goes, SameButCopy
<1>2. /\ me[p].base # Torn /\ private /\ me[p].mem = Merged(me[p].base, me[p].opts)
      /\ me[p].first <=> me[p].base = Missing
  BY Zenon DEF CommandAt, MemoryAt, Locked
<1>3. pc'[p] \notin {"validate", "environment", "conf_load", "lock", "interpret"}
  BY Zenon DEF SaveSteps, UndoneOnError
<1> QED
  BY <1>1, <1>2, <1>3, Zenon DEF MemoryAt

LEMMA CommandSaves ==
  ASSUME TypeInv, NEW p \in Proc, CommandAt(p),
         SavePrev(p) \/ SaveCopy(p) \/ SaveOpen(p) \/ SaveDump(p) \/ SaveReplace(p)
  PROVE  CommandAt(p)'
<1>1. pc[p] \in SaveSteps /\ private' = private
  BY SavePrevIs, SaveCopyIs, SaveOpenIs, SaveDumpIs, SaveReplaceIs, Zenon DEF SaveSteps
<1>2. /\ private /\ me[p].kind # "wipe" /\ MemoryAt(p) /\ SavedAt(p) /\ SetupAt(p) /\ ConfigureAt(p)
  BY <1>1, Zenon DEF CommandAt, MemoryAt, Locked
<1>3. /\ disk[Core] = me[p].base
      /\ me[p].kind # "configure" => disk[CmdLine] = me[p].base
      /\ me[p].kind = "configure" => disk[CmdLine] = me[p].mem /\ me[p].base # Missing
  BY <1>1, <1>2, Zenon DEF SavedAt, SetupAt, ConfigureAt, SaveSteps
<1> USE DEF Stay, SaveSteps, UndoneOnError
<1>4. CASE SavePrev(p)
  <2>1. CASE disk[Core] = Missing /\ disk' = disk /\ Goes(p, "temp")
    <3>1. MemoryAt(p)'
      BY <1>1, <2>1, SameMemory, Zenon DEF Goes
    <3>2. SavedAt(p)' /\ SetupAt(p)' /\ ConfigureAt(p)'
      BY <1>2, <1>3, <1>4, <2>1, SavePrevIs, Zenon DEF Goes, SavedAt, SetupAt, ConfigureAt
    <3> QED
      BY <1>2, <2>1, <3>1, <3>2, Zenon DEF CommandAt, Goes, Untouched
  <2>2. CASE /\ disk[Core] # Missing /\ pc'[p] = "copy" /\ SameButCopy(p)
             /\ me'[p].copy = disk[Core]
             /\ disk'[Prev] = Torn /\ Stay({Core, Temp, CmdLine})
    <3>1. MemoryAt(p)'
      BY <1>1, <2>2, SameMemory
    <3>2. SavedAt(p)' /\ SetupAt(p)' /\ ConfigureAt(p)'
      BY <1>3, <2>2, LocalFields, Zenon DEF SameButCopy, SavedAt, SetupAt, ConfigureAt
    <3> QED
      BY <1>2, <2>2, <3>1, <3>2 DEF CommandAt, SameButCopy, Untouched
  <2> QED
    BY <1>2, <1>4, <2>1, <2>2, SavePrevIs, Zenon
<1>5. CASE SaveCopy(p)
  <2>1. /\ Goes(p, "temp") /\ disk'[Prev] = me[p].base
        /\ Stay({Core, Temp, CmdLine})
    BY <1>2, <1>5, SaveCopyIs, Zenon DEF SavedAt
  <2>2. MemoryAt(p)'
    BY <1>1, <2>1, SameMemory, Zenon DEF Goes
  <2>3. SavedAt(p)' /\ SetupAt(p)' /\ ConfigureAt(p)'
    BY <1>3, <2>1, Zenon DEF Goes, SavedAt, SetupAt, ConfigureAt
  <2> QED
    BY <1>2, <2>1, <2>2, <2>3, Zenon DEF CommandAt, Goes, Untouched
<1>6. CASE SaveOpen(p) \/ SaveDump(p)
  <2>1. /\ pc[p] \in {"temp", "dump"} /\ me'[p] = me[p]
        /\ \/ pc'[p] = "dump" /\ disk'[Temp] # Missing
           \/ pc'[p] = "replace" /\ disk'[Temp] = me[p].mem
        /\ Stay({Core, Prev, CmdLine})
    BY <1>2, <1>6, SaveOpenIs, SaveDumpIs, LocalFields, Zenon DEF SavedAt, Goes
  <2>2. MemoryAt(p)'
    BY <1>1, <2>1, SameMemory, Zenon DEF Goes
  <2>3. SavedAt(p)' /\ SetupAt(p)' /\ ConfigureAt(p)'
    BY <1>2, <1>3, <2>1, Zenon DEF SavedAt, SetupAt, ConfigureAt
  <2> QED
    BY <1>2, <2>1, <2>2, <2>3, Zenon DEF CommandAt, Untouched
<1>7. CASE SaveReplace(p)
  <2>1. /\ pc[p] = "replace" /\ disk'[Core] = me[p].mem /\ Stay({Prev, CmdLine})
        /\ IF me[p].kind = "configure" THEN Ends(p) ELSE Goes(p, "generate")
    BY <1>2, <1>7, SaveReplaceIs, LocalFields, Zenon DEF SavedAt
  <2>2. CASE me[p].kind = "configure"
    <3>1. Agree'
      BY <1>1, <1>2, <1>3, <2>1, <2>2, LocalFields, Zenon DEF Agree
    <3> QED
      BY <2>1, <2>2, <3>1, CommandOver, Zenon
  <2>3. CASE me[p].kind # "configure"
    <3>1. MemoryAt(p)'
      BY <1>1, <2>1, <2>3, SameMemory, Zenon DEF Goes
    <3>2. SavedAt(p)' /\ SetupAt(p)' /\ ConfigureAt(p)'
      BY <1>2, <1>3, <2>1, <2>3, Zenon DEF Goes, SavedAt, SetupAt, ConfigureAt
    <3> QED
      BY <1>2, <2>1, <2>3, <3>1, <3>2, Zenon DEF CommandAt, Goes, Untouched
  <2> QED
    BY <2>2, <2>3
<1> QED
  BY <1>4, <1>5, <1>6, <1>7

LEMMA CommandBuilds ==
  ASSUME PostConf = FALSE, TypeInv, NEW p \in Proc, CommandAt(p),
         \/ Generate(p) \/ BuildSave(p) \/ BuildDump(p)
         \/ CmdLineOpen(p) \/ CmdLineWrite(p) \/ PostConfScripts(p) \/ Rollback(p)
  PROVE  CommandAt(p)'
<1>1. pc[p] \in UndoneOnError \cup {"rollback"} /\ private' = private
  BY BuildIs, CmdLineOpenIs, CmdLineWriteIs, LastIs, Zenon DEF UndoneOnError
<1>2. /\ private /\ me[p].kind # "wipe" /\ me[p].base # Torn
      /\ MemoryAt(p) /\ SavedAt(p) /\ SetupAt(p) /\ ConfigureAt(p)
  BY <1>1, Zenon DEF CommandAt, MemoryAt, Locked
<1> USE DEF Stay, SaveSteps, UndoneOnError
<1>3. CASE Generate(p) \/ BuildSave(p) \/ BuildDump(p)
  <2>1. /\ pc[p] \in {"generate", "build", "build_dump"} /\ me[p].kind # "configure"
        /\ disk[CmdLine] = me[p].base /\ disk[Prev] = me[p].base /\ disk[Core] = me[p].mem
    BY <1>2, <1>3, BuildIs, Zenon DEF SetupAt, ConfigureAt
  <2>2. /\ pc'[p] \in {"rollback", "build", "build_dump", "cmdline"} /\ me'[p] = me[p]
        /\ disk'[CmdLine] = me[p].base /\ disk'[Prev] = me[p].base
        /\ pc'[p] # "rollback" => disk'[Core] = me[p].mem
    BY <1>3, <2>1, BuildIs, Zenon DEF Raises, Goes
  <2>3. MemoryAt(p)'
    BY <1>1, <2>1, <2>2, SameMemory, Zenon DEF Goes
  <2>4. SavedAt(p)' /\ SetupAt(p)' /\ ConfigureAt(p)'
    BY <2>1, <2>2, Zenon DEF SavedAt, SetupAt, ConfigureAt
  <2> QED
    BY <1>2, <2>2, <2>3, <2>4, Zenon DEF CommandAt, Untouched
<1>4. CASE CmdLineOpen(p)
  <2>1. pc[p] = "cmdline" /\ disk[CmdLine] = me[p].base
    BY <1>2, <1>4, CmdLineOpenIs, Zenon DEF SetupAt, ConfigureAt
  <2>2. CmdLineText(p) = me[p].mem
    BY <1>2, <2>1, Zenon DEF CmdLineText, MemoryAt, Merged
  <2>3. /\ pc'[p] = "cmdline_write" /\ SameButCopy(p) /\ me'[p].copy = me[p].mem
        /\ disk'[CmdLine] = Torn /\ Stay({Core, Prev})
    BY <1>2, <1>4, <2>2, CmdLineOpenIs, Zenon
  <2>4. MemoryAt(p)'
    BY <1>1, <2>1, <2>3, SameMemory, Zenon
  <2>5. SavedAt(p)' /\ SetupAt(p)' /\ ConfigureAt(p)'
    BY <1>2, <2>1, <2>3, LocalFields, Zenon DEF SavedAt, SetupAt, ConfigureAt, SameButCopy
  <2> QED
    BY <1>2, <2>3, <2>4, <2>5, Zenon DEF CommandAt, SameButCopy, Untouched
<1>5. CASE CmdLineWrite(p)
  <2>1. /\ pc[p] = "cmdline_write" /\ disk'[CmdLine] = me[p].mem /\ Stay({Core, Prev})
    BY <1>2, <1>5, CmdLineWriteIs, Zenon DEF SavedAt
  <2>2. CASE Ends(p) /\ me[p].kind = "configure" /\ me[p].mem = me[p].base
    <3>1. disk[Core] = me[p].mem
      BY <1>2, <2>1, <2>2, Zenon DEF ConfigureAt
    <3>2. Agree'
      BY <1>1, <1>2, <2>1, <3>1, LocalFields, Zenon DEF Agree
    <3> QED
      BY <2>2, <3>2, CommandOver, Zenon
  <2>3. CASE me[p].kind # "configure" /\ Goes(p, "postconf")
    <3>1. MemoryAt(p)'
      BY <1>1, <2>1, <2>3, SameMemory, Zenon DEF Goes
    <3>2. SavedAt(p)' /\ SetupAt(p)' /\ ConfigureAt(p)'
      BY <1>2, <2>1, <2>3, Zenon DEF Goes, SavedAt, SetupAt, ConfigureAt
    <3> QED
      BY <1>2, <2>3, <3>1, <3>2, Zenon DEF CommandAt, Goes, Untouched
  <2>4. CASE me[p].kind = "configure" /\ Goes(p, "prev")
    <3>1. MemoryAt(p)'
      BY <1>1, <2>1, <2>4, SameMemory, Zenon DEF Goes
    <3>2. SavedAt(p)' /\ SetupAt(p)' /\ ConfigureAt(p)'
      BY <1>2, <2>1, <2>4, Zenon DEF Goes, SavedAt, SetupAt, ConfigureAt
    <3> QED
      BY <1>2, <2>4, <3>1, <3>2, Zenon DEF CommandAt, Goes, Untouched
  <2> QED
    BY <1>5, <2>2, <2>3, <2>4, CmdLineWriteIs, Zenon
<1>6. CASE PostConfScripts(p) \/ Rollback(p)
  <2>1. Ends(p) /\ me[p].kind # "configure"
    BY <1>2, <1>6, LastIs, Zenon DEF ConfigureAt
  <2>2. ASSUME pc[p] = "postconf", disk' = disk PROVE Agree'
    BY <1>1, <1>2, <2>1, <2>2, LocalFields, Zenon DEF SetupAt, Agree
  <2>3. ASSUME pc[p] = "rollback", disk'[CmdLine] = disk[CmdLine],
               disk'[Core] = disk[Prev], disk'[Prev] = Missing
        PROVE  Agree'
    BY <1>1, <1>2, <2>1, <2>3, Zenon DEF SetupAt, Agree
  <2>4. Agree'
    BY <1>6, <2>2, <2>3, LastIs
  <2> QED
    BY <2>1, <2>4, CommandOver, Zenon
<1> QED
  BY <1>3, <1>4, <1>5, <1>6

LEMMA CommandStep ==
  ASSUME OneAtATime, "wipe" \notin Kinds, PostConf = FALSE, MaxStops = 0,
         TypeInv, \A p \in Proc : CommandAt(p), [Next]_vars
  PROVE  \A p \in Proc : CommandAt(p)'
<1>1. CASE UNCHANGED vars
  <2> SUFFICES ASSUME NEW p \in Proc PROVE CommandAt(p)'
    OBVIOUS
  <2>1. disk' = disk /\ private' = private /\ pc' = pc /\ me' = me
    BY <1>1 DEF vars
  <2>2. CommandAt(p) /\ (Agree => Agree')
    BY <2>1, Zenon DEF Agree
  <2>3. (MemoryAt(p) => MemoryAt(p)') /\ (SavedAt(p) => SavedAt(p)')
    BY <2>1, Zenon DEF MemoryAt, SavedAt
  <2>4. (SetupAt(p) => SetupAt(p)') /\ (ConfigureAt(p) => ConfigureAt(p)')
    BY <2>1, Zenon DEF SetupAt, ConfigureAt
  <2> QED
    BY <2>1, <2>2, <2>3, <2>4, Zenon DEF CommandAt
<1>2. ASSUME NEW p \in Proc, Begin(p) \/ DirectoryLock(p) \/ Continue(p) PROVE CommandAt(p)'
  <2>1. ~Stopped(p)
    BY DEF Stopped, TypeInv, BoundTypes
  <2>2. ~(WipeRead(p) \/ WipeDelete(p) \/ WipeRestore(p) \/ Interrupted(p))
    BY DEF CommandAt, WipeRead, WipeDelete, WipeRestore, Interrupted
  <2> QED
    BY <1>2, <2>1, <2>2, CommandEarly, CommandSaves, CommandBuilds, Zenon DEF Continue
<1> QED
  BY <1>1, <1>2, NextCases DEF OneAtATime

\* When one command runs at a time, none is --wipe, none is killed or
\* interrupted and no post-configuration script fails, cmd_line.txt has the
\* options of coredata.dat between commands, however many of them failed: a
\* --wipe would configure the same.  setup writes coredata.dat first and
\* cmd_line.txt last, configure the other way round, and a failed setup rolls
\* back the one it has written.
THEOREM WipeWouldReproduce ==
  OneAtATime /\ "wipe" \notin Kinds /\ PostConf = FALSE /\ MaxStops = 0
     => (Spec => []WipeReproduces)
<1> SUFFICES ASSUME OneAtATime, "wipe" \notin Kinds, PostConf = FALSE, MaxStops = 0
             PROVE  Spec => []WipeReproduces
  BY Zenon
<1> DEFINE Inv == /\ \A p \in Proc : CommandAt(p)
                  /\ Proc = {} => disk[Core] = Missing
<1>1. Init => Inv
  <2> SUFFICES ASSUME Init PROVE Inv
    OBVIOUS
  <2>1. disk[Core] = Missing /\ disk[CmdLine] = Missing /\ disk[Prev] = Missing
    BY DEF Init, File, Core, CmdLine, Prev
  <2>2. Agree
    BY <2>1, ConstantsAssumption DEF Agree
  <2>3. ASSUME NEW p \in Proc PROVE CommandAt(p)
    <3>1. pc[p] = "idle" /\ me[p].kind = "none"
      BY DEF Init, Blank
    <3> QED
      BY <2>2, <3>1, Zenon DEF CommandAt, MemoryAt, SavedAt, SetupAt, ConfigureAt, Locked, SaveSteps,
                        UndoneOnError
  <2> QED
    BY <2>1, <2>3
<1>2. TypeInv /\ Inv /\ [Next]_vars => Inv'
  <2> SUFFICES ASSUME TypeInv, Inv, [Next]_vars PROVE Inv'
    OBVIOUS
  <2>1. \A p \in Proc : CommandAt(p)'
    BY CommandStep, Zenon
  <2>2. Proc = {} => disk' = disk
    BY NextCases DEF vars
  <2> QED
    BY <2>1, <2>2
<1>3. Inv => WipeReproduces
  <2> SUFFICES ASSUME Inv, AllIdle, disk[Core] \in Options PROVE disk[CmdLine] = disk[Core]
    BY DEF WipeReproduces
  <2>1. Missing \notin Options
    BY ConstantsAssumption DEF Options
  <2>2. PICK p \in Proc : TRUE
    BY <2>1
  <2> QED
    BY <2>2 DEF AllIdle, CommandAt, Untouched, Agree
<1> QED
  BY <1>1, <1>2, <1>3, TypesInvariant, PTL DEF Spec

=============================================================================
