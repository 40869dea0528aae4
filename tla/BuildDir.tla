------------------------------ MODULE BuildDir ------------------------------
(***************************************************************************)
(* The build directory as a store shared by Meson commands: `meson setup`, *)
(* `setup --reconfigure`, `setup --wipe` (msetup.py) and `meson configure` *)
(* (mconf.py).  A command is a process whose steps are its reads and writes*)
(* of the files under the build directory; it may raise, be interrupted or *)
(* be killed between any two of them, and other commands may run meanwhile.*)
(*                                                                         *)
(* All options together are one value: a command sets it to a member of    *)
(* Value or leaves it alone (Unset).  A file holds such a value, is Missing*)
(* or is Torn: truncated by open(..., 'w') and not written yet.  A write   *)
(* through an open file lands in the file of that name if it still exists. *)
(***************************************************************************)
EXTENDS Naturals, FiniteSets

CONSTANTS
    Proc,         \* Meson processes that may be alive together
    Value,        \* values the user may give with -D
    Unset,        \* no -D given
    Missing,      \* content of a file that does not exist
    Torn,         \* content of a file opened for writing and not written
    Kinds,        \* the commands the users run
    PostConf,     \* TRUE if the project has post-configuration scripts
    MayKill,      \* TRUE if a command may be killed during --wipe's deletion
    MaxCommands,  \* bound on the commands run
    MaxStops      \* bound on the commands killed or interrupted

ASSUME ConstantsAssumption ==
    /\ IsFiniteSet(Proc)
    /\ Kinds \subseteq {"setup", "reconfigure", "wipe", "configure"}
    /\ PostConf \in BOOLEAN /\ MayKill \in BOOLEAN
    /\ MaxCommands \in Nat /\ MaxStops \in Nat
    /\ Unset \notin Value
    /\ {Missing, Torn} \cap (Value \cup {Unset}) = {}
    /\ Missing # Torn

VARIABLES
    disk,     \* content of every file
    private,  \* does meson-private/ exist
    pristine, \* is the build directory empty
    lock,     \* which meson.lock there is: 0 none, n the n-th one created
    locks,    \* how many lock files were created
    pc,       \* what each process does next
    me,       \* the local variables of each process
    held,     \* the lock file each process holds flock() on, 0 for none
    ended,    \* how each process's last command ended
    commands, \* commands run so far
    stops     \* commands killed or interrupted so far

vars == <<disk, private, pristine, lock, locks, pc, me, held, ended, commands, stops>>
dirVars == <<private, pristine, lock, locks>>
boundVars == <<commands, stops>>

Core == "coredata.dat"
Prev == "coredata.dat.prev"
Temp == "coredata.dat~"
Build == "build.dat"
CmdLine == "cmd_line.txt"
Ninja == "build.ninja"
File == {Core, Prev, Temp, Build, CmdLine, Ninja}

Options == Value \cup {Unset}
Stored == Options \cup {Missing, Torn}

\* Between taking the directory lock and leaving `with DirectoryLock`.
SaveSteps == {"prev", "copy", "temp", "dump", "replace"}
UndoneOnError == {"generate", "build", "build_dump", "cmdline", "cmdline_write", "postconf"}
Locked == {"interpret", "rollback"} \cup SaveSteps \cup UndoneOnError
Step == {"idle", "validate", "wipe_read", "wipe_delete", "environment",
         "lock", "conf_load"} \cup Locked

Blank == [kind |-> "none", opts |-> Unset, mem |-> Unset, first |-> FALSE,
          base |-> Missing, copy |-> Missing]

\* dict.update: what the later command line says wins.
update(d, new) == IF new = Unset THEN d ELSE new

Init ==
    /\ disk = [f \in File |-> Missing]
    /\ private = FALSE /\ pristine = TRUE
    /\ lock = 0 /\ locks = 0
    /\ pc = [p \in Proc |-> "idle"]
    /\ me = [p \in Proc |-> Blank]
    /\ held = [p \in Proc |-> 0]
    /\ ended = [p \in Proc |-> "none"]
    /\ commands = 0 /\ stops = 0

-----------------------------------------------------------------------------
(* How a process moves on, writes and ends *)

GotoWith(p, step, local) ==
    /\ pc' = [pc EXCEPT ![p] = step]
    /\ me' = [me EXCEPT ![p] = local]
    /\ UNCHANGED <<held, ended>>

Goto(p, step) == GotoWith(p, step, me[p])

\* The process exits; __exit__ of DirectoryLock, or the kernel, drops the lock.
EndKeepsLock(p, how) ==
    /\ pc' = [pc EXCEPT ![p] = "idle"]
    /\ me' = [me EXCEPT ![p] = Blank]
    /\ ended' = [ended EXCEPT ![p] = how]
    /\ UNCHANGED held

End(p, how) ==
    /\ pc' = [pc EXCEPT ![p] = "idle"]
    /\ me' = [me EXCEPT ![p] = Blank]
    /\ held' = [held EXCEPT ![p] = 0]
    /\ ended' = [ended EXCEPT ![p] = how]

\* An exception leaves the command, through the except clause of _generate
\* when dump_coredata() has returned.
Raise(p) ==
    IF me[p].kind # "configure" /\ pc[p] \in UndoneOnError
    THEN Goto(p, "rollback")
    ELSE End(p, "failed")

\* open(f, 'w') in meson-private, on the way to `step`.
OpenToWrite(p, f, step, local) ==
    \/ /\ private
       /\ disk' = [disk EXCEPT ![f] = Torn]
       /\ GotoWith(p, step, local)
    \/ /\ ~private
       /\ Raise(p)
       /\ UNCHANGED disk

Write(f, content) ==
    disk' = IF disk[f] = Missing THEN disk ELSE [disk EXCEPT ![f] = content]
-----------------------------------------------------------------------------
(* meson setup up to the lock *)

\* The user starts a command, with or without -D.
Begin(p) ==
    /\ pc[p] = "idle"
    /\ commands < MaxCommands
    /\ \E kind \in Kinds, v \in Options :
          /\ kind = "configure" => v # Unset
          /\ GotoWith(p, IF kind = "configure" THEN "conf_load" ELSE "validate",
                      [Blank EXCEPT !.kind = kind, !.opts = v])
    /\ commands' = commands + 1
    /\ UNCHANGED <<disk, dirVars, stops>>

validate_dirs(p) ==
    /\ pc[p] = "validate"
    /\ LET proceed == Goto(p, IF me[p].kind = "wipe" THEN "wipe_read" ELSE "environment")
           configured == disk[Core] # Missing
       IN  \/ pristine /\ proceed
           \/ ~pristine /\ configured /\ me[p].kind # "setup" /\ proceed
           \/ /\ ~pristine /\ configured /\ me[p].kind = "setup"
              /\ IF me[p].opts = Unset
                 THEN End(p, "ok")
                 ELSE GotoWith(p, "conf_load", [me[p] EXCEPT !.kind = "configure"])
           \/ /\ ~pristine /\ ~configured
              /\ IF me[p].kind = "wipe" /\ ~private THEN End(p, "failed") ELSE proceed
    /\ pristine' = FALSE
    /\ UNCHANGED <<disk, private, lock, locks, boundVars>>

\* mutant: cmd_line.txt is kept, its options are not read
WipeReadCopyOnly(p) ==
    /\ pc[p] = "wipe_read"
    /\ GotoWith(p, "wipe_delete", [me[p] EXCEPT !.copy = disk[CmdLine]])
    /\ UNCHANGED <<disk, dirVars, boundVars>>

\* --wipe keeps a copy of cmd_line.txt and takes its options; a torn file has
\* no [options] section, and the KeyError ends the command.
WipeRead(p) ==
    /\ pc[p] = "wipe_read"
    /\ IF disk[CmdLine] = Torn
       THEN End(p, "failed")
       ELSE GotoWith(p, "wipe_delete",
                     [me[p] EXCEPT !.copy = disk[CmdLine],
                                   !.opts = IF disk[CmdLine] = Missing THEN @
                                            ELSE update(disk[CmdLine], @)])
    /\ UNCHANGED <<disk, dirVars, boundVars>>

\* --wipe deletes one file after the other, in the order the directory lists
\* them, and does not hold the lock.
WipeDelete(p) ==
    /\ pc[p] = "wipe_delete"
    /\ \/ \E f \in File :
             /\ disk[f] # Missing
             /\ disk' = [disk EXCEPT ![f] = Missing]
             /\ UNCHANGED lock
       \/ lock # 0 /\ lock' = 0 /\ UNCHANGED disk
    /\ UNCHANGED <<private, pristine, locks, pc, me, held, ended, boundVars>>

\* The finally clause: the copy of cmd_line.txt goes back.
RestoreNothing(p) == UNCHANGED disk

RestoreCmdLine(p) ==
    disk' = IF me[p].copy = Missing THEN disk
            ELSE [disk EXCEPT ![CmdLine] = me[p].copy]

WipeRestore(p) ==
    /\ pc[p] = "wipe_delete"
    /\ lock = 0 /\ \A f \in File : disk[f] = Missing
    /\ RestoreCmdLine(p)
    /\ private' = (me[p].copy # Missing)
    /\ Goto(p, "environment")
    /\ UNCHANGED <<pristine, lock, locks, boundVars>>

\* Environment.__init__ and the first lines of generate(): load coredata.dat
\* and apply the command line to it, before the lock is taken.
Environment(p) ==
    /\ pc[p] = "environment"
    /\ private' = TRUE
    /\ \/ /\ disk[Core] = Missing
          /\ GotoWith(p, "lock", [me[p] EXCEPT !.first = TRUE])
       \/ /\ disk[Core] = Torn
          /\ IF disk[CmdLine] \in {Missing, Torn}
             THEN End(p, "failed")
             ELSE GotoWith(p, "lock", [me[p] EXCEPT !.first = TRUE,
                                                    !.opts = update(disk[CmdLine], @)])
       \/ /\ disk[Core] \in Options
          /\ IF me[p].kind = "reconfigure"
             THEN GotoWith(p, "lock", [me[p] EXCEPT !.mem = update(disk[Core], me[p].opts)])
             ELSE End(p, "failed")      \* assert self.options.reconfigure
    /\ UNCHANGED <<disk, pristine, lock, locks, boundVars>>

\* open(lockpath, 'w+') and flock(LOCK_EX | LOCK_NB); action FAIL.
DirectoryLockUnless(p, busy) ==
    /\ pc[p] = "lock"
    /\ IF ~private
       THEN End(p, "failed") /\ UNCHANGED <<lock, locks>>
       ELSE LET file == IF lock = 0 THEN locks + 1 ELSE lock IN
            /\ lock' = file
            /\ locks' = IF lock = 0 THEN file ELSE locks
            /\ IF file \notin busy
               THEN /\ pc' = [pc EXCEPT ![p] = "interpret"]
                    /\ held' = [held EXCEPT ![p] = file]
                    /\ me' = [me EXCEPT ![p].base = disk[Core]]
                    /\ UNCHANGED ended
               ELSE End(p, "failed")
    /\ UNCHANGED <<disk, private, pristine, boundVars>>

\* mutant: a lock that another process holds is not seen
DirectoryLockIgnored(p) == DirectoryLockUnless(p, {})

DirectoryLock(p) == DirectoryLockUnless(p, {held[q] : q \in Proc})

-----------------------------------------------------------------------------
(* _generate(), under the lock *)

\* intr.run(): on a first invocation the options come from the command line
\* and cmd_line.txt.  A meson.build with an error raises.
Interpret(p) ==
    /\ pc[p] = "interpret"
    /\ \/ Raise(p)
       \/ /\ disk[CmdLine] # Torn
          /\ LET user == IF disk[CmdLine] = Missing THEN me[p].opts
                         ELSE update(disk[CmdLine], me[p].opts)
             IN  GotoWith(p, "prev", [me[p] EXCEPT !.mem = IF me[p].first THEN user ELSE @])
    /\ UNCHANGED <<disk, dirVars, boundVars>>
\* coredata.save(): keep the old file, write the new one aside and rename it.
SavePrevSkipped(p) ==
    /\ pc[p] = "prev"
    /\ Goto(p, "temp")
    /\ UNCHANGED <<disk, dirVars, boundVars>>

SavePrev(p) ==
    /\ pc[p] = "prev"
    /\ IF disk[Core] = Missing
       THEN Goto(p, "temp") /\ UNCHANGED disk
       ELSE OpenToWrite(p, Prev, "copy", [me[p] EXCEPT !.copy = disk[Core]])
    /\ UNCHANGED <<dirVars, boundVars>>

SaveCopy(p) ==
    /\ pc[p] = "copy"
    /\ Write(Prev, me[p].copy)
    /\ Goto(p, "temp")
    /\ UNCHANGED <<dirVars, boundVars>>

\* mutant: coredata.dat itself is opened for writing
SaveOpenInPlace(p) ==
    /\ pc[p] = "temp"
    /\ OpenToWrite(p, Core, "dump", me[p])
    /\ UNCHANGED <<dirVars, boundVars>>

SaveOpen(p) ==
    /\ pc[p] = "temp"
    /\ OpenToWrite(p, Temp, "dump", me[p])
    /\ UNCHANGED <<dirVars, boundVars>>

SaveDump(p) ==
    /\ pc[p] = "dump"
    /\ Write(Temp, me[p].mem)
    /\ Goto(p, "replace")
    /\ UNCHANGED <<dirVars, boundVars>>

SaveReplace(p) ==
    /\ pc[p] = "replace"
    /\ IF disk[Temp] = Missing
       THEN Raise(p) /\ UNCHANGED disk
       ELSE /\ disk' = [disk EXCEPT ![Core] = disk[Temp], ![Temp] = Missing]
            /\ IF me[p].kind = "configure" THEN End(p, "ok") ELSE Goto(p, "generate")
    /\ UNCHANGED <<dirVars, boundVars>>

\* check_unused_options() and backend.generate(): an error raises, otherwise
\* build.ninja~ is renamed to build.ninja.
Generate(p) ==
    /\ pc[p] = "generate"
    /\ \/ Raise(p) /\ UNCHANGED disk
       \/ disk' = [disk EXCEPT ![Ninja] = me[p].mem] /\ Goto(p, "build")
    /\ UNCHANGED <<dirVars, boundVars>>

\* build.save()
BuildSaveOnce(p) ==
    /\ pc[p] = "build"
    /\ IF me[p].first
       THEN OpenToWrite(p, Build, "build_dump", me[p])
       ELSE Goto(p, "cmdline") /\ UNCHANGED disk
    /\ UNCHANGED <<dirVars, boundVars>>

BuildSave(p) ==
    /\ pc[p] = "build"
    /\ OpenToWrite(p, Build, "build_dump", me[p])
    /\ UNCHANGED <<dirVars, boundVars>>

BuildDump(p) ==
    /\ pc[p] = "build_dump"
    /\ Write(Build, me[p].mem)
    /\ Goto(p, "cmdline")
    /\ UNCHANGED <<dirVars, boundVars>>

\* What write_cmd_line_file (first invocation, or no [options] section) and
\* update_cmd_line_file put in the file.
CmdLineRewritten(p) == me[p].opts

CmdLineText(p) ==
    IF me[p].first \/ disk[CmdLine] \in {Missing, Torn}
    THEN me[p].opts
    ELSE update(disk[CmdLine], me[p].opts)

CmdLineOpen(p) ==
    /\ pc[p] = "cmdline"
    /\ OpenToWrite(p, CmdLine, "cmdline_write", [me[p] EXCEPT !.copy = CmdLineText(p)])
    /\ UNCHANGED <<dirVars, boundVars>>

\* `meson configure` goes on to save coredata.dat if an option changed.
CmdLineWrite(p) ==
    /\ pc[p] = "cmdline_write"
    /\ Write(CmdLine, me[p].copy)
    /\ \/ me[p].kind # "configure" /\ Goto(p, "postconf")
       \/ me[p].kind = "configure" /\ me[p].mem # me[p].base /\ Goto(p, "prev")
       \/ me[p].kind = "configure" /\ me[p].mem = me[p].base /\ End(p, "ok")
    /\ UNCHANGED <<dirVars, boundVars>>

\* run_postconf_scripts(): a script that fails raises.
PostConfScripts(p) ==
    /\ pc[p] = "postconf"
    /\ \/ PostConf /\ Raise(p)
       \/ End(p, "ok")
    /\ UNCHANGED <<disk, dirVars, boundVars>>

\* `except Exception`: the previous coredata.dat comes back, or there is none.
Rollback(p) ==
    /\ pc[p] = "rollback"
    /\ disk' = [disk EXCEPT ![Core] = disk[Prev], ![Prev] = Missing]
    /\ End(p, "failed")
    /\ UNCHANGED <<dirVars, boundVars>>

-----------------------------------------------------------------------------
(* meson configure -D..., which takes no lock *)

\* Conf.__init__ loads build.dat and coredata.dat, and the options are set.
ConfLoad(p) ==
    /\ pc[p] = "conf_load"
    /\ IF private /\ {disk[Build], disk[Core]} \subseteq Options
       THEN GotoWith(p, "cmdline", [me[p] EXCEPT !.mem = update(disk[Core], me[p].opts),
                                                 !.base = disk[Core]])
       ELSE End(p, "failed")
    /\ UNCHANGED <<disk, dirVars, boundVars>>

-----------------------------------------------------------------------------
(* Death of a command *)

\* Killed, or interrupted by Ctrl-C: KeyboardInterrupt is no Exception, so
\* _generate() does not roll back and nothing more is written.
Stopped(p) ==
    /\ pc[p] # "idle" /\ stops < MaxStops
    /\ pc[p] = "wipe_delete" => MayKill
    /\ End(p, "stopped")
    /\ stops' = stops + 1
    /\ UNCHANGED <<disk, dirVars, commands>>

\* Ctrl-C or an OSError while --wipe deletes: its finally clause runs.
\* meson-private/ may be gone by then.
Interrupted(p) ==
    /\ pc[p] = "wipe_delete"
    /\ RestoreCmdLine(p)
    /\ private' \in {private, me[p].copy # Missing \/ lock # 0
                                 \/ \E f \in File \ {Ninja} : disk[f] # Missing}
    /\ \/ stops < MaxStops /\ stops' = stops + 1 /\ End(p, "stopped")
       \/ UNCHANGED stops /\ End(p, "failed")
    /\ UNCHANGED <<pristine, lock, locks, commands>>

AllIdle == \A p \in Proc : pc[p] = "idle"

\* The users are done.
Finished == commands = MaxCommands /\ AllIdle /\ UNCHANGED vars

Next ==
    \/ \E p \in Proc :
          \/ Begin(p) \/ validate_dirs(p) \/ WipeRead(p) \/ WipeDelete(p) \/ WipeRestore(p)
          \/ Environment(p) \/ DirectoryLock(p) \/ Interpret(p)
          \/ SavePrev(p) \/ SaveCopy(p) \/ SaveOpen(p) \/ SaveDump(p) \/ SaveReplace(p)
          \/ Generate(p) \/ BuildSave(p) \/ BuildDump(p)
          \/ CmdLineOpen(p) \/ CmdLineWrite(p) \/ PostConfScripts(p) \/ Rollback(p)
          \/ ConfLoad(p) \/ Stopped(p) \/ Interrupted(p)
    \/ Finished

Spec == Init /\ [][Next]_vars
-----------------------------------------------------------------------------
(* Properties *)

Generating(p) == pc[p] \in Locked /\ me[p].kind # "configure"

Local == [kind : {"none", "setup", "reconfigure", "wipe", "configure"},
          opts : Options, mem : Options, first : BOOLEAN,
          base : Stored, copy : Stored]

\* Every variable has its type, and a process has a lock exactly while it is
\* inside `with DirectoryLock(...)`, however it leaves it (platform.py).
TypeOK ==
    /\ disk \in [File -> Stored]
    /\ private \in BOOLEAN /\ pristine \in BOOLEAN
    /\ lock \in Nat /\ locks \in Nat /\ lock <= locks
    /\ pc \in [Proc -> Step]
    /\ me \in [Proc -> Local]
    /\ held \in [Proc -> Nat]
    /\ ended \in [Proc -> {"none", "ok", "failed", "stopped"}]
    /\ commands \in 0..MaxCommands /\ stops \in 0..MaxStops
    /\ \A p \in Proc : held[p] # 0 <=> Generating(p)

\* "Some other Meson process is already using this build directory": two
\* commands are never in _generate() together (msetup.py generate()).
OneGenerator ==
    \A p, q \in Proc : Generating(p) /\ Generating(q) => p = q

\* coredata.dat can always be read: wherever a command is stopped, save() has
\* either replaced the whole file or not touched it (coredata.py save()).
CoreIntact == disk[Core] # Torn

\* A command that fails after it wrote coredata.dat puts back the one it found
\* when it took the lock, or none if there was none (_generate()'s except).
RollbackRestores ==
    [][\A p \in Proc :
          pc[p] = "rollback" /\ pc'[p] = "idle" /\ ended'[p] = "failed"
             => disk'[Core] = me[p].base]_vars

\* A command that succeeds leaves coredata.dat, build.ninja and build.dat of
\* one and the same configuration, its own, and a readable cmd_line.txt,
\* whatever state stopped and failed commands had left (_generate()).
SuccessIsComplete ==
    [][\A p \in Proc :
          pc[p] = "postconf" /\ pc'[p] = "idle" /\ ended'[p] = "ok"
             => /\ \A f \in {Core, Ninja, Build} : disk'[f] = me[p].mem
                /\ disk'[CmdLine] \in Options]_vars

\* `setup --wipe` would rebuild "using the same options as passed when
\* configuring the build": while no command runs, cmd_line.txt has the options
\* coredata.dat has (validate_dirs(), write_cmd_line_file()).
WipeReproduces ==
    AllIdle /\ disk[Core] \in Options => disk[CmdLine] = disk[Core]

\* A --wipe that succeeds leaves cmd_line.txt and coredata.dat agreeing, even if
\* they did not agree before it (MesonApp.__init__, write_cmd_line_file()).
WipeAgrees ==
    [][\A p \in Proc :
          me[p].kind = "wipe" /\ pc[p] = "postconf" /\ pc'[p] = "idle" /\ ended'[p] = "ok"
             => disk'[CmdLine] = disk'[Core]]_vars

\* "We can always restore that file if anything bad happens": once cmd_line.txt
\* was written, it exists whenever no command is running, whatever failed or was
\* interrupted since (MesonApp.__init__).
CmdLineSurvives ==
    [](disk[CmdLine] \in Options => [](AllIdle => disk[CmdLine] # Missing))
=============================================================================
