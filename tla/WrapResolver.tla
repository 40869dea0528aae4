---------------------------- MODULE WrapResolver ----------------------------
(***************************************************************************)
(* How the source tree of one wrapped subproject gets into subprojects/    *)
(* (Resolver in mesonbuild/wrap/wrap.py), when several meson processes use *)
(* the same source directory.                                              *)
(*                                                                         *)
(* resolve() takes a lock, accepts a directory that has a build file, and  *)
(* otherwise downloads, unpacks and patches one.  Every step in which the  *)
(* directory is half made, half patched or half removed is a step of the   *)
(* model: the process may be killed there, and a command that does not take*)
(* the lock may look or write there.                                       *)
(*                                                                         *)
(* The contents of a tree and of a cached archive are the revision of the  *)
(* wrap file they belong to.                                               *)
(***************************************************************************)
EXTENDS Integers, FiniteSets

CONSTANTS
  Proc,          \* meson processes
  Wraps,         \* the wrap files to look at, without their revision
  MaxRevision,   \* the revisions a wrap file goes through
  delays,        \* attempts that get_data_with_backoff repeats
  MaxCommands    \* bound on the commands that are run

Revision == 1..MaxRevision
Nothing == 0     \* no file, or no revision of the wrap file
Corrupt == -1    \* an archive that has no expected hash
NoProc == "free"

ASSUME ConstantsAssumption ==
  /\ NoProc \notin Proc
  /\ MaxRevision \in Nat \ {0} /\ delays \in Nat /\ MaxCommands \in Nat
  /\ IsFiniteSet(Proc)
  /\ Wraps \subseteq [type : {"file", "git"}, patch : {"none", "archive", "directory"},
                      overlaid : BOOLEAN,    \* the build file comes with the patch
                      fallback : BOOLEAN,    \* *_fallback_url is given
                      url : BOOLEAN,         \* *_url is given, else the file is in packagefiles
                      versioned : BOOLEAN,   \* *_filename names the revision
                      cached_directory : BOOLEAN]

VARIABLES
  wrap,          \* the wrap file
  wrapfile,      \* its revision on disk
  tree,          \* the directory of the subproject
  cache,         \* packagecache: the contents of the file with each name
  lock,          \* .wraplock
  proc,          \* the commands
  commands,      \* how many have been started
  cut            \* history: the tree was left half made, or written by two at once

vars == <<wrap, wrapfile, tree, cache, lock, proc, commands, cut>>

NoTree == [files |-> "absent", rev |-> Nothing, patch |-> "none", build |-> FALSE,
           git |-> FALSE, hash |-> Nothing]

Idle == [pc |-> "idle", cmd |-> "none", reset |-> FALSE, nodownload |-> FALSE,
         rev |-> Nothing, what |-> "none", fallback |-> FALSE, attempt |-> 0,
         result |-> "none"]

Init ==
  /\ wrap \in Wraps
  /\ wrapfile = 1
  /\ tree = NoTree
  /\ cache = [what \in {"source", "patch"} |-> [r \in Revision |-> Nothing]]
  /\ lock = NoProc
  /\ proc = [p \in Proc |-> Idle]
  /\ commands = 0
  /\ cut = FALSE

filename(r) == IF wrap.versioned THEN r ELSE 1

Writing(p) ==
  \/ proc[p].pc \in {"unpacking", "cloning", "checkout", "patch", "patching", "final",
                     "remove", "removing", "move", "moving", "hash", "unused"}
  \/ proc[p].pc \in {"get", "fetch", "unpack"} /\ proc[p].what = "patch"
Writers == {p \in Proc : Writing(p)}

\* part of every step that writes the tree or its writers
History(abandoned) ==
  cut' = /\ cut \/ abandoned \/ Cardinality(Writers') > 1
         /\ tree'.files = "absent" => Writers' # {}

Goto(p, pc) == proc' = [proc EXCEPT ![p].pc = pc]

(***************************************************************************)
(* Leaving resolve(): the with statement gives the lock back.  `update`    *)
(* goes on to write the hash.                                              *)
(***************************************************************************)
\* what the command reports: every exception is a failure
Done(p, result) ==
  proc' = [proc EXCEPT ![p] = [Idle EXCEPT !.pc = "done",
                                           !.result = IF result = "ok" THEN "ok" ELSE "failed"]]

\* mutant: an exception leaves without the lock being given back
Leave_keeps_lock(p, result) ==
  /\ lock' = IF lock = p /\ result = "ok" THEN NoProc ELSE lock
  /\ IF result = "ok" /\ proc[p].cmd = "update"
     THEN proc' = [proc EXCEPT ![p].pc = "hash", ![p].what = "none", ![p].result = "ok"]
     ELSE Done(p, result)

Leave(p, result) ==
  /\ lock' = IF lock = p THEN NoProc ELSE lock
  /\ IF result = "ok" /\ proc[p].cmd = "update"
     THEN proc' = [proc EXCEPT ![p].pc = "hash", ![p].what = "none", ![p].result = "ok"]
     ELSE Done(p, result)

\* mutant: the directory is not removed
Raise_keeps_tree(p, exception) == Leave(p, exception)

\* an exception; while it patches a new tree, _resolve removes the tree first
Raise(p, exception) ==
  IF proc[p].what = "patch" /\ lock = p
  THEN /\ proc' = [proc EXCEPT ![p] =
                    [@ EXCEPT !.pc = "remove", !.result = "failed", !.fallback = FALSE, !.attempt = 0]]
       /\ UNCHANGED lock
  ELSE Leave(p, exception)

\* an update in place has given up: the tree keeps its new files, half patched
GivesUp(p) == proc[p].what = "patch" /\ lock # p /\ proc'[p].pc = "done"

\* .wraplock can be opened; where it cannot, resolve() goes on without it
Acquire(p) ==
  /\ proc[p].pc = "lock" /\ lock = NoProc
  /\ lock' = p
  /\ Goto(p, "look")
  /\ UNCHANGED <<wrap, wrapfile, tree, cache, commands, cut>>

Fetcher ==
  CASE wrap.cached_directory                     -> [pc |-> "unpack", what |-> "directory"]
    [] ~wrap.cached_directory /\ wrap.type = "file" -> [pc |-> "get", what |-> "source"]
    [] ~wrap.cached_directory /\ wrap.type = "git"  -> [pc |-> "clone", what |-> "source"]

\* _resolve up to the fetch; validate() only warns
Look(p) ==
  /\ proc[p].pc = "look"
  /\ \/ tree.build /\ Leave(p, "ok")
     \/ ~tree.build /\ tree.files # "absent" /\ Leave(p, "WrapException")
     \/ /\ ~tree.build /\ tree.files = "absent"
        /\ IF Fetcher.pc = "clone" /\ proc[p].nodownload
           THEN Leave(p, "WrapException")
           ELSE /\ proc' = [proc EXCEPT ![p].pc = Fetcher.pc, ![p].what = Fetcher.what]
                /\ UNCHANGED lock
  /\ UNCHANGED <<wrap, wrapfile, tree, cache, commands>>
  /\ History(tree.build /\ proc[p].cmd = "update")

(***************************************************************************)
(* _get_file_internal, _download and get_data.  The archive goes to a      *)
(* temporary file, and to its name in the cache once its hash is right.    *)
(***************************************************************************)
cached(p) == IF wrap.url THEN cache[proc[p].what][filename(proc[p].rev)] ELSE proc[p].rev

\* mutant: the hash of a cached file is not checked
get_file_internal_trusting(p) ==
  /\ proc[p].pc = "get"
  /\ \/ cached(p) # Nothing /\ Goto(p, "unpack") /\ UNCHANGED lock
     \/ cached(p) = Nothing /\ proc[p].nodownload /\ Raise(p, "WrapException")
     \/ /\ cached(p) = Nothing /\ ~proc[p].nodownload
        /\ Goto(p, "fetch") /\ UNCHANGED lock
  /\ UNCHANGED <<wrap, wrapfile, tree, cache, commands>>
  /\ History(GivesUp(p))

\* a file of packagefiles may be missing or have a wrong hash
get_file_internal(p) ==
  /\ proc[p].pc = "get"
  /\ \/ cached(p) = proc[p].rev /\ Goto(p, "unpack") /\ UNCHANGED lock
     \/ ~wrap.url /\ Raise(p, "WrapException")
     \/ cached(p) \notin {Nothing, proc[p].rev} /\ Raise(p, "WrapException")
     \/ cached(p) = Nothing /\ proc[p].nodownload /\ Raise(p, "WrapException")
     \/ /\ cached(p) = Nothing /\ ~proc[p].nodownload
        /\ Goto(p, "fetch") /\ UNCHANGED lock
  /\ UNCHANGED <<wrap, wrapfile, tree, cache, commands>>
  /\ History(GivesUp(p))

\* the handler of _download: another URL for a WrapException, if there is one
download_failed(p, exception) ==
  IF exception = "WrapException" /\ wrap.fallback /\ ~proc[p].fallback
  THEN /\ proc' = [proc EXCEPT ![p].fallback = TRUE, ![p].attempt = 0]
       /\ UNCHANGED lock
  ELSE Raise(p, exception)

\* mutant: the hash of the data is not checked
download_unchecked(p) ==
  /\ proc[p].pc = "fetch"
  /\ \E data \in {proc[p].rev, Corrupt} :
       cache' = [cache EXCEPT ![proc[p].what][filename(proc[p].rev)] = data]
  /\ Goto(p, "unpack") /\ UNCHANGED lock
  /\ UNCHANGED <<wrap, wrapfile, tree, commands>>
  /\ History(GivesUp(p))

download(p) ==
  /\ proc[p].pc = "fetch"
  /\ \/ \E data \in {proc[p].rev, Corrupt} :
          IF data = proc[p].rev
          THEN /\ cache' = [cache EXCEPT ![proc[p].what][filename(proc[p].rev)] = data]
               /\ proc' = [proc EXCEPT ![p].pc = "unpack", ![p].fallback = FALSE, ![p].attempt = 0]
               /\ UNCHANGED lock
          ELSE download_failed(p, "WrapException") /\ UNCHANGED cache
     \/ /\ proc[p].attempt < delays
        /\ proc' = [proc EXCEPT ![p].attempt = @ + 1]
        /\ UNCHANGED <<lock, cache>>
     \/ /\ proc[p].attempt = delays
        /\ \E exception \in {"WrapException", "raw"} : download_failed(p, exception)
        /\ UNCHANGED cache
  /\ UNCHANGED <<wrap, wrapfile, tree, commands>>
  /\ History(GivesUp(p))

(***************************************************************************)
(* The tree grows while an archive is unpacked into it, or a directory of  *)
(* the cache or of packagefiles copied.  What another process has removed  *)
(* meanwhile stays away.                                                   *)
(***************************************************************************)
Remains == {NoTree} \union {[NoTree EXCEPT !.files = "holed", !.build = b] : b \in BOOLEAN}
Standing == IF tree.files = "absent" THEN [NoTree EXCEPT !.files = "holed"] ELSE tree

unpack(p) ==
  /\ proc[p].pc = "unpack"
  /\ \/ /\ proc[p].what # "directory" /\ cached(p) = Nothing     \* purged
        /\ Raise(p, IF proc[p].what = "source" THEN "WrapException" ELSE "raw")
        /\ UNCHANGED tree
     \/ /\ proc[p].what = "directory" \/ (proc[p].what = "source" /\ cached(p) # Nothing)
        /\ \E b \in BOOLEAN :
             /\ b => ~wrap.overlaid
             /\ tree' = [NoTree EXCEPT !.files = "growing", !.build = b,
                           !.rev = IF proc[p].what = "source" THEN cached(p) ELSE proc[p].rev]
        /\ Goto(p, "unpacking") /\ UNCHANGED lock
     \/ /\ proc[p].what = "patch" /\ cached(p) # Nothing
        /\ tree' = [Standing EXCEPT !.patch = "some"]
        /\ Goto(p, "patching") /\ UNCHANGED lock
  /\ UNCHANGED <<wrap, wrapfile, cache, commands>>
  /\ History(GivesUp(p))

unpacked(p) ==
  /\ proc[p].pc = "unpacking"
  /\ \/ /\ tree.files = "growing"
        /\ tree' = [tree EXCEPT !.files = "all", !.build = ~wrap.overlaid]
        /\ Goto(p, "patch") /\ UNCHANGED lock
        /\ History(FALSE)
     \/ /\ tree.files # "growing"
        /\ IF tree.files = "absent" THEN tree' \in Remains ELSE UNCHANGED tree
        /\ Goto(p, "patch") /\ UNCHANGED lock
        /\ History(FALSE)
     \/ /\ \E exception \in {"WrapException", "raw"} : Leave(p, exception)
        /\ UNCHANGED tree
        /\ History(TRUE)
  /\ UNCHANGED <<wrap, wrapfile, cache, commands>>

\* _get_git: git removes the clone it could not finish, not the repository that a
\* shallow fetch of a commit has initialised, nor a clone at the wrong commit
clone(p) ==
  /\ proc[p].pc \in {"clone", "cloning"}
  /\ \/ /\ proc[p].pc = "clone"
        /\ tree' = [NoTree EXCEPT !.files = "growing", !.git = TRUE]
        /\ Goto(p, "cloning") /\ UNCHANGED lock
        /\ History(FALSE)
     \/ /\ proc[p].pc = "cloning" /\ tree.files = "growing"
        /\ tree' = [tree EXCEPT !.files = "all", !.build = ~wrap.overlaid]
        /\ Goto(p, "checkout") /\ UNCHANGED lock
        /\ History(FALSE)
     \/ proc[p].pc = "cloning" /\ tree' = NoTree /\ Leave(p, "WrapException") /\ History(FALSE)
     \/ /\ proc[p].pc = "cloning" /\ tree.files = "growing"
        /\ tree' = [tree EXCEPT !.files = "holed"]
        /\ Leave(p, "WrapException")
        /\ History(TRUE)
  /\ UNCHANGED <<wrap, wrapfile, cache, commands>>

checkout(p) ==
  /\ proc[p].pc = "checkout"
  /\ \/ /\ tree.files # "absent"
        /\ tree' = [tree EXCEPT !.rev = proc[p].rev]
        /\ Goto(p, "patch") /\ UNCHANGED lock
        /\ History(FALSE)
     \/ Leave(p, "WrapException") /\ UNCHANGED tree /\ History(TRUE)
  /\ UNCHANGED <<wrap, wrapfile, cache, commands>>

\* apply_patch and apply_diff_files; a patch directory stands for diff files too
apply_patch(p) ==
  /\ proc[p].pc = "patch"
  /\ \/ wrap.patch = "none" /\ Goto(p, "final") /\ UNCHANGED tree
     \/ /\ wrap.patch = "archive"
        /\ proc' = [proc EXCEPT ![p].pc = "get", ![p].what = "patch"]
        /\ UNCHANGED tree
     \/ /\ wrap.patch = "directory"
        /\ proc' = [proc EXCEPT ![p].pc = "patching", ![p].what = "patch"]
        /\ tree' = [Standing EXCEPT !.patch = "some"]
  /\ UNCHANGED <<wrap, wrapfile, cache, lock, commands>>
  /\ History(FALSE)

patched(p) ==
  /\ proc[p].pc = "patching"
  /\ \/ /\ tree' = [Standing EXCEPT !.patch = "all", !.build = @ \/ wrap.overlaid]
        /\ Goto(p, "final") /\ UNCHANGED lock
     \/ /\ \E exception \in {"WrapException", "raw"} : Raise(p, exception)
        /\ UNCHANGED tree
  /\ UNCHANGED <<wrap, wrapfile, cache, commands>>
  /\ History(GivesUp(p))

\* the end of _resolve, and of an update in place
final(p) ==
  /\ proc[p].pc = "final"
  /\ IF lock = p /\ tree.build
     THEN tree' = [tree EXCEPT !.hash = proc[p].rev] /\ Leave(p, "ok")
     ELSE UNCHANGED tree /\ Leave(p, IF lock = p THEN "WrapException" ELSE "ok")
  /\ UNCHANGED <<wrap, wrapfile, cache, commands>>
  /\ History(FALSE)

\* windows_proof_rmtree, then what the caller does next
rmtree(p) ==
  /\ proc[p].pc \in {"remove", "removing"}
  /\ \/ /\ proc[p].pc = "remove" /\ tree.files # "absent"
        /\ \E b \in BOOLEAN :
             (b => tree.build) /\ tree' = [tree EXCEPT !.files = "holed", !.build = b]
        /\ Goto(p, "removing") /\ UNCHANGED lock
        /\ History(FALSE)
     \/ /\ proc[p].pc = "removing" \/ tree.files = "absent"
        /\ tree' = NoTree
        /\ \/ lock = p /\ Leave(p, proc[p].result)
           \/ lock # p /\ proc[p].cmd = "update" /\ Goto(p, "lock") /\ UNCHANGED lock
           \/ lock # p /\ proc[p].cmd = "purge" /\ Leave(p, "ok")
        /\ History(FALSE)
     \/ proc[p].pc = "removing" /\ UNCHANGED tree /\ Leave(p, "raw") /\ History(TRUE)
  /\ UNCHANGED <<wrap, wrapfile, cache, commands>>

Resolve(p) ==
  \/ Acquire(p) \/ Look(p)
  \/ get_file_internal(p) \/ download(p)
  \/ unpack(p) \/ unpacked(p) \/ clone(p) \/ checkout(p)
  \/ apply_patch(p) \/ patched(p) \/ final(p) \/ rmtree(p)

(***************************************************************************)
(* A process dies: the system takes its flock away.                        *)
(***************************************************************************)
Kill(p) ==
  /\ proc[p].pc \notin {"idle", "done"}
  /\ Done(p, "killed")
  /\ lock' = IF lock = p THEN NoProc ELSE lock
  /\ UNCHANGED <<wrap, wrapfile, tree, cache, commands>>
  /\ History(Writing(p))
=============================================================================
