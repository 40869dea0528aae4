---------------------------- MODULE Subprojects ----------------------------
(***************************************************************************)
(* `meson setup` and the commands `meson subprojects download`, `update`   *)
(* and `purge` on one wrapped subproject (mesonbuild/msubprojects.py),     *)
(* around the resolver of WrapResolver.                                    *)
(*                                                                         *)
(* Only Resolver.resolve takes the lock: the checks, removals and in place *)
(* updates of the subprojects commands run beside it.                      *)
(***************************************************************************)
EXTENDS WrapResolver

(***************************************************************************)
(* The state has its types.  The package cache never holds an archive      *)
(* without an expected hash: get_data_with_backoff's data is checked before*)
(* it is moved there (_download in wrap.py).                               *)
(***************************************************************************)
TypeOK ==
  /\ wrap \in Wraps /\ wrapfile \in Revision
  /\ tree \in [files : {"absent", "growing", "all", "holed"}, rev : Revision \union {Nothing},
               patch : {"none", "some", "all", "stashed"}, build : BOOLEAN, git : BOOLEAN,
               hash : Revision \union {Nothing}]
  /\ cache \in [{"source", "patch"} -> [Revision -> Revision \union {Nothing}]]
  /\ lock \in Proc \union {NoProc}
  /\ \A p \in Proc :
       /\ proc[p].cmd \in {"none", "setup", "download", "update", "purge"}
       /\ proc[p].result \in {"none", "ok", "failed"}
       /\ proc[p].rev \in Revision \union {Nothing} /\ proc[p].attempt \in 0..delays
  /\ commands \in 0..MaxCommands /\ cut \in BOOLEAN

\* a command reads the wrap file once, when its Resolver is made
Start(p, cmd, reset, nodownload) ==
  /\ proc[p].pc \in {"idle", "done"} /\ commands < MaxCommands
  /\ reset => cmd = "update"
  /\ nodownload => cmd = "setup"
  /\ proc' = [proc EXCEPT ![p] =
                [Idle EXCEPT !.pc = IF cmd = "setup" THEN "lock" ELSE "isdir", !.cmd = cmd,
                             !.reset = reset, !.nodownload = nodownload, !.rev = wrapfile]]
  /\ commands' = commands + 1
  /\ UNCHANGED <<wrap, wrapfile, tree, cache, lock, cut>>

\* `meson wrap update` writes the wrap file, whoever has read it already
update_wrapdb ==
  /\ wrapfile < MaxRevision
  /\ wrapfile' = wrapfile + 1
  /\ UNCHANGED <<wrap, tree, cache, lock, proc, commands, cut>>

Runner_download(p) ==
  /\ proc[p].pc = "isdir" /\ proc[p].cmd = "download"
  /\ IF tree.files = "absent" THEN Goto(p, "lock") ELSE Done(p, "ok")
  /\ UNCHANGED <<wrap, wrapfile, tree, cache, lock, commands, cut>>

\* update, update_file and update_git up to the first command that writes, for a wrap
\* with a URL and a revision; a subproject that is not used is no error among all
Runner_update(p) ==
  /\ proc[p].pc = "isdir" /\ proc[p].cmd = "update"
  /\ \/ tree.files = "absent" /\ (Goto(p, "unused") \/ Done(p, "failed"))
     \/ tree.files # "absent" /\ tree.git /\ Goto(p, "move")
     \/ /\ tree.files # "absent" /\ ~tree.git
        /\ IF proc[p].reset THEN Goto(p, "remove") ELSE Done(p, "failed")
  /\ UNCHANGED <<wrap, wrapfile, tree, cache, lock, commands>>
  /\ History(FALSE)

\* `purge --confirm`, with and without --include-cache
Runner_purge(p) ==
  /\ proc[p].pc = "isdir" /\ proc[p].cmd = "purge"
  /\ \/ UNCHANGED cache
     \/ cache' = [what \in DOMAIN cache |->
                     [cache[what] EXCEPT ![filename(proc[p].rev)] = Nothing]]
  /\ Goto(p, "remove")
  /\ UNCHANGED <<wrap, wrapfile, tree, lock, commands>>
  /\ History(FALSE)

(***************************************************************************)
(* update_git in a repository: fetch, then stash and reset with --reset;   *)
(* otherwise rebase, on a detached head or a branch that has an upstream   *)
(* after a checkout that stashes first.  The stash takes the overlay and   *)
(* the changes of the diff files; --reset applies them again.              *)
(***************************************************************************)
Stashed == [tree EXCEPT !.patch = IF @ = "none" THEN @ ELSE "stashed",
                        !.build = @ /\ ~wrap.overlaid]

git_stash(p) ==
  /\ proc[p].pc = "move" /\ tree.files # "absent"
  /\ tree' \in {Stashed} \union (IF proc[p].reset THEN {} ELSE {tree})
  /\ Goto(p, "moving")
  /\ UNCHANGED <<wrap, wrapfile, cache, lock, commands>>
  /\ History(FALSE)

git_reset_or_rebase(p) ==
  /\ proc[p].pc = "moving" /\ tree.files # "absent"
  /\ \E files \in {"all"} \union (IF proc[p].reset THEN {} ELSE {tree.files}) :
       tree' = [tree EXCEPT !.files = files, !.rev = proc[p].rev,
                            !.build = @ \/ (files = "all" /\ ~wrap.overlaid)]
  /\ IF proc[p].reset THEN Goto(p, "patch") /\ UNCHANGED lock ELSE Leave(p, "ok")
  /\ UNCHANGED <<wrap, wrapfile, cache, commands>>
  /\ History(FALSE)

\* mutant: the exit status of git is not looked at
git_failed_ignored(p) ==
  /\ proc[p].pc \in {"move", "moving"}
  /\ Leave(p, "ok")
  /\ UNCHANGED <<wrap, wrapfile, tree, cache, commands>>
  /\ History(proc[p].pc = "moving")

git_failed(p) ==
  /\ proc[p].pc \in {"move", "moving"}
  /\ Leave(p, "failed")
  /\ UNCHANGED <<wrap, wrapfile, tree, cache, commands>>
  /\ History(proc[p].pc = "moving")

\* the submodules cannot be updated: the tree has moved, the hash may not have
update_git_done_failed(p) ==
  /\ proc[p].pc = "hash" /\ wrap.type = "git"
  /\ Done(p, "failed")
  /\ UNCHANGED <<wrap, wrapfile, tree, cache, lock, commands>>
  /\ History(tree.hash # proc[p].rev)

\* the end of Runner.update, which looks for the directory again
update_hash_cache(p) ==
  /\ proc[p].pc \in {"hash", "unused"}
  /\ tree' = IF tree.files = "absent" THEN tree ELSE [tree EXCEPT !.hash = proc[p].rev]
  /\ Done(p, "ok")
  /\ UNCHANGED <<wrap, wrapfile, cache, lock, commands>>
  /\ History(FALSE)

Step(p) ==
  \/ Resolve(p)
  \/ Runner_download(p) \/ Runner_update(p) \/ Runner_purge(p)
  \/ git_stash(p) \/ git_reset_or_rebase(p) \/ git_failed(p)
  \/ update_git_done_failed(p) \/ update_hash_cache(p)

Next ==
  \/ \E p \in Proc :
       \/ \E cmd \in {"setup", "download", "update", "purge"}, reset, nodownload \in BOOLEAN :
            Start(p, cmd, reset, nodownload)
       \/ Step(p)
       \/ Kill(p)
  \/ update_wrapdb

Spec == Init /\ [][Next]_vars

\* a running process keeps running: downloads time out and git returns
FairSpec == Spec /\ \A p \in Proc : WF_vars(Step(p))

-----------------------------------------------------------------------------
\* p's resolve() returns in this step
Resolves(p) == lock = p /\ lock' # p /\ proc'[p].result = "ok"

Undisturbed(p) == ~cut /\ Writers \ {p} = {}

(***************************************************************************)
(* A resolve() that returns hands over all the files of a revision of the  *)
(* wrap file, patched, although it only looks for a build file: a failed   *)
(* download or patch leaves nothing that a later resolve() could accept    *)
(* (_resolve in wrap.py).  Exceptions, kept in `cut` until the tree is     *)
(* removed: a fetch that was killed, could not be unpacked or checked out, *)
(* an update in place that was killed or failed after its first write, and *)
(* commands that write without the lock while another one writes.  A stash *)
(* taken by `update` stays taken.                                          *)
(***************************************************************************)
ResolvedIsWhole ==
  [][\A p \in Proc : (Resolves(p) /\ Undisturbed(p)) =>
        /\ tree.files = "all" /\ tree.rev # Nothing
        /\ wrap.patch # "none" => tree.patch \in {"all", "stashed"}]_vars

(***************************************************************************)
(* The hash kept in the tree, from which validate() tells a tree that is   *)
(* out of date, is that of the wrap file its contents came from, whichever *)
(* order setup, update, purge and changes of the wrap file happen in       *)
(* (update_hash_cache in wrap.py), for a tree whose history has none of    *)
(* the exceptions above.                                                   *)
(***************************************************************************)
RevisionIsKnown ==
  (~cut /\ Writers = {} /\ tree.files = "all" /\ tree.hash # Nothing) => tree.rev = tree.hash

(***************************************************************************)
(* `meson subprojects update` reports success only when the tree has become*)
(* the revision the wrap file asks for (Runner.update), when nobody else   *)
(* wrote it in between.                                                    *)
(***************************************************************************)
UpdateIsExact ==
  [][\A p \in Proc : (proc[p].pc = "hash" /\ proc'[p].pc = "done" /\ proc'[p].result = "ok"
                       /\ Undisturbed(p))
        => /\ tree.files = "all" /\ tree'.rev = proc[p].rev /\ tree'.hash = proc[p].rev]_vars

(***************************************************************************)
(* Every command ends: the retries of a download are finite, and whoever   *)
(* waits for .wraplock gets it, since every way out of resolve(), being    *)
(* killed included, gives it back.                                         *)
(***************************************************************************)
CommandsEnd == \A p \in Proc : proc[p].pc \notin {"idle", "done"} ~> proc[p].pc = "done"
=============================================================================
