------------------------- MODULE Subprojects_proof -------------------------
(***************************************************************************)
(* Proofs about Subprojects: the types, what the hash kept in a tree says, *)
(* what resolve() hands over, and what `update` has done when it succeeds, *)
(* for any number of processes, revisions, retries and commands.           *)
(*                                                                         *)
(* The inductive invariant says who holds .wraplock at which step of a     *)
(* command (LockInv), that a tree whose history is clean has one writer    *)
(* (OneWriter), and what the tree looks like at each of the writer's steps *)
(* and when it has none (TreeInv).                                         *)
(***************************************************************************)
EXTENDS Subprojects, FiniteSetTheorems, TLAPS

Procs ==
  [pc : {"idle", "done", "lock", "isdir", "look", "get", "fetch", "unpack", "unpacking", "clone",
         "cloning", "checkout", "patch", "patching", "final", "remove", "removing", "move",
         "moving", "hash", "unused"},
   cmd : {"none", "setup", "download", "update", "purge"}, reset : BOOLEAN, nodownload : BOOLEAN,
   rev : Revision \union {Nothing}, what : {"none", "source", "directory", "patch"},
   fallback : BOOLEAN, attempt : 0..delays, result : {"none", "ok", "failed"}]

TypeInv == TypeOK /\ proc \in [Proc -> Procs]

\* p has fetched the source, or reset it in place, and is on its way to the end
Patching(p) ==
  \/ proc[p].pc \in {"patch", "patching", "final"}
  \/ proc[p].pc \in {"get", "fetch", "unpack"} /\ proc[p].what = "patch"

Fetching(p) ==
  \/ proc[p].pc \in {"clone", "cloning", "checkout", "unpacking"}
  \/ proc[p].pc \in {"get", "fetch", "unpack"} /\ proc[p].what # "patch"

\* what a command knows at each of its steps, the lock included
LocalInv(p) ==
  /\ (proc[p].pc = "look" \/ Fetching(p)) => lock = p
  /\ lock = p => \/ proc[p].pc = "look" \/ Fetching(p) \/ Patching(p)
                 \/ proc[p].pc \in {"remove", "removing"} /\ proc[p].result = "failed"
  /\ proc[p].pc \in {"move", "moving"} \/ (Patching(p) /\ lock # p) => proc[p].cmd = "update"
  /\ proc[p].pc \notin {"idle", "done"} => proc[p].rev \in Revision
  /\ proc[p].pc \in {"get", "fetch"} => proc[p].what \in {"source", "patch"}
  /\ proc[p].pc = "unpack" => proc[p].what # "none"
  /\ proc[p].pc = "patching" => proc[p].what = "patch"

\* the archive that is about to be unpacked is the one that was asked for, or gone
ArchiveInv(p) ==
  (proc[p].pc = "unpack" /\ proc[p].what = "source") => cached(p) \in {Nothing, proc[p].rev}

LockInv == \A p \in Proc : LocalInv(p) /\ ArchiveInv(p)

OneWriter == ~cut => \A p, q \in Proc : Writing(p) /\ Writing(q) => p = q

AbsentIsNone == tree.files = "absent" => tree = NoTree

Whole ==
  /\ tree.files = "all" /\ tree.rev # Nothing
  /\ wrap.patch # "none" => tree.patch \in {"all", "stashed"}

HashKnown == tree.hash # Nothing => tree.rev = tree.hash

TreeOfWriter(p) ==
  /\ proc[p].pc = "unpacking" =>
       tree.files = "growing" /\ tree.rev = proc[p].rev /\ tree.hash = Nothing
  /\ proc[p].pc = "cloning" => tree.files = "growing" /\ tree.hash = Nothing
  /\ proc[p].pc = "checkout" => tree.files = "all" /\ tree.hash = Nothing
  /\ Patching(p) => tree.files = "all" /\ tree.rev = proc[p].rev
  /\ Patching(p) /\ lock = p => tree.hash = Nothing
  /\ proc[p].pc = "final" /\ wrap.patch # "none" => tree.patch = "all"
  /\ proc[p].pc \in {"move", "moving"} => Whole /\ HashKnown
  /\ proc[p].pc = "hash" => Whole /\ tree.rev = proc[p].rev
  /\ proc[p].pc = "unused" => tree.files = "absent"

TreeAlone == tree.files # "absent" => Whole /\ HashKnown

TreeInv ==
  ~cut => (\A p \in Proc : TreeOfWriter(p)) /\ (Writers = {} => TreeAlone)

Inv == TypeInv /\ LockInv /\ OneWriter /\ AbsentIsNone /\ TreeInv
-----------------------------------------------------------------------------
LEMMA TwoWriters ==
  ASSUME NEW W \in SUBSET Proc, NEW p \in W, NEW q \in W, p # q
  PROVE  Cardinality(W) > 1
<1>1. IsFiniteSet(W)
  BY FS_Subset, ConstantsAssumption
<1>2. {p, q} \subseteq W
  OBVIOUS
<1>3. IsFiniteSet({p, q}) /\ Cardinality({p, q}) = 2
  <2>1. IsFiniteSet({p}) /\ Cardinality({p}) = 1
    BY FS_Singleton, Zenon
  <2>2. {p, q} = {p} \union {q} /\ q \notin {p}
    BY Zenon
  <2> QED
    BY <2>1, <2>2, FS_AddElement
<1>4. Cardinality({p, q}) <= Cardinality(W) /\ Cardinality(W) \in Nat
  BY <1>1, <1>2, FS_Subset, FS_CardinalityType
<1> QED
  BY <1>3, <1>4

\* a clean history after a step: it was clean before, or the tree is gone and left alone
LEMMA CleanHistory ==
  ASSUME NEW a \in BOOLEAN, History(a), cut \in BOOLEAN, ~cut', AbsentIsNone'
  PROVE  /\ \A p, q \in Proc : Writing(p)' /\ Writing(q)' => p = q
         /\ (~cut /\ ~a) \/ (tree' = NoTree /\ Writers' = {})
<1>1. Writers' \in SUBSET Proc /\ \A p \in Proc : Writing(p)' => p \in Writers'
  BY Zenon DEF Writers
<1>2. CASE tree'.files = "absent" /\ Writers' = {}
  BY <1>1, <1>2 DEF AbsentIsNone
<1>3. CASE ~(tree'.files = "absent" /\ Writers' = {})
  <2>1. ~cut /\ ~a /\ ~(Cardinality(Writers') > 1)
    BY <1>3 DEF History
  <2> QED
    BY <1>1, <2>1, TwoWriters, Zenon
<1> QED
  BY <1>2, <1>3

-----------------------------------------------------------------------------
\* what a step of p leaves alone
Frame(p) ==
  /\ wrap' = wrap
  /\ \A q \in Proc \ {p} : proc'[q] = proc[q] /\ (lock' = q <=> lock = q)

\* a step of p takes no archive from under a process that is about to unpack it,
\* unless it leaves none
CacheKept(p) ==
  \A q \in Proc \ {p} : (proc[q].pc = "unpack" /\ proc[q].what = "source") =>
     \/ cache'["source"][filename(proc[q].rev)] = cache["source"][filename(proc[q].rev)]
     \/ cache'["source"][filename(proc[q].rev)] = Nothing

LEMMA LockStep ==
  ASSUME LockInv, NEW p \in Proc, Frame(p), CacheKept(p), LocalInv(p)', ArchiveInv(p)'
  PROVE  LockInv'
<1> SUFFICES ASSUME NEW q \in Proc, q # p
             PROVE  LocalInv(q)' /\ ArchiveInv(q)'
  BY Zenon DEF LockInv
<1>1. proc'[q] = proc[q] /\ (lock' = q <=> lock = q) /\ wrap' = wrap
  BY DEF Frame
<1>2. LocalInv(q) /\ ArchiveInv(q)
  BY DEF LockInv
<1>3. LocalInv(q)'
  BY <1>1, <1>2 DEF LocalInv, Fetching, Patching
<1>4. ArchiveInv(q)'
  BY <1>1, <1>2 DEF ArchiveInv, CacheKept, cached, filename
<1> QED
  BY <1>3, <1>4

(***************************************************************************)
(* A step of p whose history stays clean is judged by what it does to p's  *)
(* own steps and to the tree when p no longer writes: nobody else does.    *)
(***************************************************************************)
LEMMA TreeStep ==
  ASSUME Inv, NEW p \in Proc, Frame(p), AbsentIsNone', NEW a \in BOOLEAN, History(a),
         tree' = tree \/ Writing(p) \/ Writing(p)',
         (~cut /\ ~a /\ ~cut') => TreeOfWriter(p)',
         (~cut /\ ~a /\ ~Writing(p)') => (tree' = tree /\ ~Writing(p)) \/ TreeAlone'
  PROVE  OneWriter' /\ TreeInv'
<1>1. SUFFICES ASSUME ~cut'
               PROVE  /\ \A q, r \in Proc : Writing(q)' /\ Writing(r)' => q = r
                      /\ \A q \in Proc : TreeOfWriter(q)'
                      /\ Writers' = {} => TreeAlone'
  BY Zenon DEF OneWriter, TreeInv
<1>2. /\ \A q, r \in Proc : Writing(q)' /\ Writing(r)' => q = r
      /\ (~cut /\ ~a) \/ (tree' = NoTree /\ Writers' = {})
  BY <1>1, CleanHistory, Zenon DEF Inv, TypeInv, TypeOK
<1>3. CASE tree' = NoTree /\ Writers' = {}
  <2>1. \A q \in Proc : ~Writing(q)'
    BY <1>3, Zenon DEF Writers
  <2>2. \A q \in Proc : TreeOfWriter(q)'
    BY <2>1 DEF TreeOfWriter, Writing, Patching
  <2>3. TreeAlone'
    BY <1>3 DEF TreeAlone, NoTree
  <2> QED
    BY <1>2, <2>2, <2>3
<1>4. CASE ~cut /\ ~a
  <2>1. ASSUME NEW q \in Proc, q # p
        PROVE  TreeOfWriter(q)'
    <3>1. proc'[q] = proc[q] /\ (lock' = q <=> lock = q) /\ wrap' = wrap
      BY <2>1 DEF Frame
    <3>2. CASE Writing(p) \/ Writing(p)'
      <4>1. ~Writing(q)'
        <5>1. CASE Writing(p)
          BY <5>1, <3>1, <1>4, <2>1 DEF Inv, OneWriter, Writing
        <5>2. CASE Writing(p)'
          BY <5>2, <1>2, <2>1
        <5> QED
          BY <3>2, <5>1, <5>2
      <4> QED
        BY <4>1 DEF TreeOfWriter, Writing, Patching
    <3>3. CASE tree' = tree
      <4>1. TreeOfWriter(q)
        BY <1>4 DEF Inv, TreeInv
      <4> QED
        BY <3>1, <3>3, <4>1 DEF TreeOfWriter, Patching, Whole, HashKnown
    <3> QED
      BY <3>2, <3>3
  <2>2. TreeOfWriter(p)'
    BY <1>1, <1>4
  <2>3. ASSUME Writers' = {}
        PROVE  TreeAlone'
    <3>1. \A q \in Proc : ~Writing(q)'
      BY <2>3, Zenon DEF Writers
    <3>2. CASE tree' = tree /\ ~Writing(p)
      <4>1. \A q \in Proc : ~Writing(q)
        BY <3>1, <3>2 DEF Frame, Writing
      <4>2. TreeAlone
        BY <4>1, <1>4 DEF Inv, TreeInv, Writers
      <4> QED
        BY <3>2, <4>2 DEF TreeAlone, Whole, HashKnown, Frame
    <3> QED
      BY <3>1, <3>2, <1>4
  <2> QED
    BY <1>2, <2>1, <2>2, <2>3
<1> QED
  BY <1>2, <1>3, <1>4

LEMMA StepKeeps ==
  ASSUME Inv, NEW p \in Proc, Frame(p), TypeInv', AbsentIsNone',
         CacheKept(p), LocalInv(p)', ArchiveInv(p)',
         NEW a \in BOOLEAN, History(a),
         tree' = tree \/ Writing(p) \/ Writing(p)',
         (~cut /\ ~a /\ ~cut') => TreeOfWriter(p)',
         (~cut /\ ~a /\ ~Writing(p)') => (tree' = tree /\ ~Writing(p)) \/ TreeAlone'
  PROVE  Inv'
<1>1. LockInv'
  BY LockStep, Zenon DEF Inv
<1>2. OneWriter' /\ TreeInv'
  BY TreeStep, Zenon
<1> QED
  BY <1>1, <1>2, Zenon DEF Inv
-----------------------------------------------------------------------------
ProcType == proc \in [Proc -> Procs] /\ lock \in Proc \union {NoProc}

LEMMA TypeInvIs == TypeInv => ProcType
BY DEF TypeInv, TypeOK, ProcType

LEMMA IdleIsProc == Idle \in Procs
<1>1. 0 \in 0..delays
  BY ConstantsAssumption
<1> QED
  BY <1>1 DEF Procs, Idle

\* only p's record changes
LEMMA OneRecord ==
  ASSUME ProcType, NEW p \in Proc, NEW r \in Procs, proc' = [proc EXCEPT ![p] = r]
  PROVE  /\ proc' \in [Proc -> Procs] /\ proc'[p] = r
         /\ \A q \in Proc \ {p} : proc'[q] = proc[q]
BY DEF ProcType

SameBut(p) ==
  /\ proc'[p].cmd = proc[p].cmd /\ proc'[p].rev = proc[p].rev /\ proc'[p].what = proc[p].what
  /\ proc'[p].result = proc[p].result

LEMMA GotoFacts ==
  ASSUME ProcType, NEW p \in Proc, NEW pc, Goto(p, pc),
         pc \in {"lock", "look", "fetch", "unpack", "unpacking", "cloning", "checkout", "patch",
                 "patching", "final", "remove", "removing", "move", "moving", "unused"}
  PROVE  /\ proc' \in [Proc -> Procs] /\ (lock' = lock => ProcType')
         /\ proc'[p].pc = pc /\ SameBut(p)
         /\ \A q \in Proc \ {p} : proc'[q] = proc[q]
<1>1. proc' \in [Proc -> Procs] /\ proc'[p] = [proc[p] EXCEPT !.pc = pc]
  BY DEF ProcType, Procs, Goto
<1>2. \A q \in Proc \ {p} : proc'[q] = proc[q]
  BY DEF ProcType, Goto
<1>3. proc'[p].pc = pc /\ SameBut(p)
  BY <1>1 DEF ProcType, Procs, SameBut
<1> QED
  BY <1>1, <1>2, <1>3 DEF ProcType

LEMMA DoneFacts ==
  ASSUME ProcType, NEW p \in Proc, NEW result, Done(p, result)
  PROVE  /\ proc' \in [Proc -> Procs] /\ proc'[p].pc = "done"
         /\ proc'[p].result = IF result = "ok" THEN "ok" ELSE "failed"
         /\ \A q \in Proc \ {p} : proc'[q] = proc[q]
<1> DEFINE r == [Idle EXCEPT !.pc = "done", !.result = IF result = "ok" THEN "ok" ELSE "failed"]
<1>1. r \in Procs
  BY IdleIsProc, Zenon DEF Procs
<1>2. r.pc = "done" /\ r.result = IF result = "ok" THEN "ok" ELSE "failed"
  BY DEF Idle
<1>3. proc' = [proc EXCEPT ![p] = r]
  BY DEF Done
<1> HIDE DEF r
<1> QED
  BY <1>1, <1>2, <1>3, OneRecord, Zenon

\* resolve() returns or raises: p has no lock then, and `update` goes on when it returned
LEMMA LeaveFacts ==
  ASSUME ProcType, NEW p \in Proc, NEW result, Leave(p, result),
         LocalInv(p), proc[p].pc \notin {"idle", "done"}
  PROVE  /\ ProcType'
         /\ \A q \in Proc \ {p} : proc'[q] = proc[q] /\ (lock' = q <=> lock = q)
         /\ lock' # p
         /\ LocalInv(p)' /\ ArchiveInv(p)'
         /\ \/ /\ ~(result = "ok" /\ proc[p].cmd = "update") /\ proc'[p].pc = "done"
               /\ proc'[p].result = IF result = "ok" THEN "ok" ELSE "failed"
            \/ /\ result = "ok" /\ proc[p].cmd = "update"
               /\ proc'[p].pc = "hash" /\ proc'[p].rev = proc[p].rev
<1>1. /\ lock' \in Proc \union {NoProc} /\ lock' # p
      /\ \A q \in Proc \ {p} : lock' = q <=> lock = q
  BY ConstantsAssumption DEF Leave, ProcType
<1>2. CASE result = "ok" /\ proc[p].cmd = "update"
  <2> DEFINE r == [proc[p] EXCEPT !.pc = "hash", !.what = "none", !.result = "ok"]
  <2>1. proc' = [proc EXCEPT ![p] = r]
    BY <1>2, Zenon DEF Leave
  <2>2. r.pc = "hash" /\ r.rev = proc[p].rev
    BY DEF ProcType, Procs
  <2>3. r \in Procs
    <3>1. proc[p] \in Procs
      BY DEF ProcType
    <3> QED
      BY <3>1, ZenonT(30) DEF Procs
  <2> HIDE DEF r
  <2>4. /\ proc' \in [Proc -> Procs] /\ proc'[p] = r
        /\ \A q \in Proc \ {p} : proc'[q] = proc[q]
    BY <2>1, <2>3, OneRecord, Zenon
  <2>5. LocalInv(p)' /\ ArchiveInv(p)'
    BY <1>1, <2>2, <2>4 DEF LocalInv, ArchiveInv, Fetching, Patching
  <2> QED
    BY <1>1, <1>2, <2>2, <2>4, <2>5, Zenon DEF ProcType
<1>3. CASE ~(result = "ok" /\ proc[p].cmd = "update")
  <2>1. Done(p, result)
    BY <1>3 DEF Leave
  <2>2. LocalInv(p)' /\ ArchiveInv(p)'
    BY <1>1, <2>1, DoneFacts DEF LocalInv, ArchiveInv, Fetching, Patching
  <2> QED
    BY <1>1, <1>3, <2>1, <2>2, DoneFacts DEF ProcType
<1> QED
  BY <1>2, <1>3

\* resolve() raises
LEMMA LeaveFailed ==
  ASSUME ProcType, NEW p \in Proc, Leave(p, "failed"), LocalInv(p),
         proc[p].pc \notin {"idle", "done"}
  PROVE  /\ ProcType' /\ LocalInv(p)' /\ ArchiveInv(p)' /\ proc'[p].pc = "done"
         /\ \A q \in Proc \ {p} : proc'[q] = proc[q] /\ (lock' = q <=> lock = q)
BY LeaveFacts

\* an exception while a tree is patched under the lock leads to its removal, any other one out
LEMMA RaiseFacts ==
  ASSUME ProcType, NEW p \in Proc, NEW exception, exception # "ok",
         Raise(p, exception), LocalInv(p), proc[p].pc \notin {"idle", "done"}
  PROVE  /\ ProcType'
         /\ \A q \in Proc \ {p} : proc'[q] = proc[q] /\ (lock' = q <=> lock = q)
         /\ LocalInv(p)' /\ ArchiveInv(p)'
         /\ IF proc[p].what = "patch" /\ lock = p
            THEN proc'[p].pc = "remove" /\ lock' = p
            ELSE proc'[p].pc = "done" /\ lock' # p
<1>1. CASE proc[p].what = "patch" /\ lock = p
  <2> DEFINE r == [proc[p] EXCEPT !.pc = "remove", !.result = "failed", !.fallback = FALSE,
                                  !.attempt = 0]
  <2>1. proc' = [proc EXCEPT ![p] = r] /\ lock' = lock
    BY <1>1 DEF Raise, ProcType
  <2>2. r.pc = "remove" /\ r.rev = proc[p].rev /\ r.result = "failed"
    BY DEF ProcType, Procs
  <2>3. r \in Procs
    <3>1. proc[p] \in Procs /\ 0 \in 0..delays
      BY ConstantsAssumption DEF ProcType
    <3> QED
      BY <3>1, ZenonT(30) DEF Procs
  <2> HIDE DEF r
  <2>4. /\ proc' \in [Proc -> Procs] /\ proc'[p] = r
        /\ \A q \in Proc \ {p} : proc'[q] = proc[q]
    BY <2>1, <2>3, OneRecord, Zenon
  <2>5. LocalInv(p)' /\ ArchiveInv(p)'
    BY <1>1, <2>1, <2>2, <2>4 DEF LocalInv, ArchiveInv, Fetching, Patching
  <2> QED
    BY <1>1, <2>1, <2>2, <2>4, <2>5 DEF ProcType
<1>2. CASE ~(proc[p].what = "patch" /\ lock = p)
  <2>1. Leave(p, exception)
    BY <1>2 DEF Raise
  <2> QED
    BY <1>2, <2>1, LeaveFacts
<1> QED
  BY <1>1, <1>2

-----------------------------------------------------------------------------
Trees ==
  [files : {"absent", "growing", "all", "holed"}, rev : Revision \union {Nothing},
   patch : {"none", "some", "all", "stashed"}, build : BOOLEAN, git : BOOLEAN,
   hash : Revision \union {Nothing}]

Caches == [{"source", "patch"} -> [Revision -> Revision \union {Nothing}]]

LEMMA TypesAre ==
  ASSUME TypeInv
  PROVE  /\ tree \in Trees /\ cache \in Caches /\ ProcType /\ wrap \in Wraps /\ cut \in BOOLEAN
         /\ wrap.type \in {"file", "git"} /\ wrap.patch \in {"none", "archive", "directory"}
         /\ wrapfile \in Revision
BY ConstantsAssumption DEF TypeInv, TypeOK, Trees, Caches, ProcType

LEMMA HistoryType == ASSUME NEW a, History(a) PROVE cut' \in BOOLEAN
BY Zenon DEF History

LEMMA StepTypes ==
  ASSUME TypeInv, ProcType', tree' \in Trees, cache' \in Caches, cut' \in BOOLEAN,
         UNCHANGED <<wrap, wrapfile, commands>>
  PROVE  TypeInv'
<1>1. \A p \in Proc : proc'[p] \in Procs
  BY DEF ProcType
<1>2. \A p \in Proc :
        /\ proc'[p].cmd \in {"none", "setup", "download", "update", "purge"}
        /\ proc'[p].result \in {"none", "ok", "failed"}
        /\ proc'[p].rev \in Revision \union {Nothing} /\ proc'[p].attempt \in 0..delays
  BY <1>1 DEF Procs
<1> QED
  BY <1>2, Zenon DEF TypeInv, TypeOK, Trees, Caches, ProcType

\* p is not a writer afterwards
LEMMA Idles ==
  ASSUME NEW p \in Proc, ~Writing(p)'
  PROVE  TreeOfWriter(p)'
BY DEF TreeOfWriter, Writing, Patching

\* a step of p that leaves the tree and the cache as they are, and no tree to p
LEMMA QuietStep ==
  ASSUME Inv, NEW p \in Proc, ProcType', UNCHANGED <<wrap, wrapfile, tree, cache, commands>>,
         \A q \in Proc \ {p} : proc'[q] = proc[q] /\ (lock' = q <=> lock = q),
         LocalInv(p)', ArchiveInv(p)', NEW a \in BOOLEAN, History(a),
         (~cut /\ ~a /\ ~cut') => TreeOfWriter(p)',
         (~cut /\ ~a /\ ~Writing(p)') => ~Writing(p) \/ TreeAlone'
  PROVE  Inv'
<1>1. TypeInv' /\ AbsentIsNone'
  BY TypesAre, StepTypes, HistoryType DEF Inv, AbsentIsNone
<1>2. Frame(p) /\ CacheKept(p)
  BY DEF Frame, CacheKept
<1> QED
  BY <1>1, <1>2, StepKeeps, Zenon

\* a step of p that neither writes nor becomes a writer
LEMMA CalmStep ==
  ASSUME Inv, NEW p \in Proc, TypeInv', UNCHANGED <<wrap, tree, cache, cut>>,
         \A q \in Proc \ {p} : proc'[q] = proc[q] /\ (lock' = q <=> lock = q),
         LocalInv(p)', ArchiveInv(p)', ~Writing(p), ~Writing(p)'
  PROVE  Inv'
<1>1. Frame(p) /\ CacheKept(p)
  BY DEF Frame, CacheKept
<1>2. LockInv'
  BY <1>1, LockStep, Zenon DEF Inv
<1>3. \A q \in Proc : Writing(q)' <=> Writing(q)
  BY DEF Writing
<1>4. OneWriter'
  BY <1>3, Zenon DEF OneWriter, Inv
<1>5. TreeInv'
  <2>1. SUFFICES ASSUME ~cut
                 PROVE  (\A q \in Proc : TreeOfWriter(q)') /\ (Writers' = {} => TreeAlone')
    BY Zenon DEF TreeInv
  <2>2. ASSUME NEW q \in Proc, q # p
        PROVE  TreeOfWriter(q)'
    BY <2>1, <2>2 DEF Inv, TreeInv, TreeOfWriter, Patching, Whole, HashKnown
  <2>3. TreeOfWriter(p)'
    BY Idles, Zenon
  <2>4. Writers' = Writers
    BY <1>3, Zenon DEF Writers
  <2>5. TreeAlone' <=> TreeAlone
    BY DEF TreeAlone, Whole, HashKnown
  <2> QED
    BY <2>1, <2>2, <2>3, <2>4, <2>5, Zenon DEF Inv, TreeInv
<1> QED
  BY <1>2, <1>4, <1>5 DEF Inv, AbsentIsNone

LEMMA StartKeeps ==
  ASSUME Inv, NEW p \in Proc, NEW cmd \in {"setup", "download", "update", "purge"},
         NEW reset \in BOOLEAN, NEW nodownload \in BOOLEAN, Start(p, cmd, reset, nodownload)
  PROVE  Inv'
<1> DEFINE r == [Idle EXCEPT !.pc = IF cmd = "setup" THEN "lock" ELSE "isdir", !.cmd = cmd,
                             !.reset = reset, !.nodownload = nodownload, !.rev = wrapfile]
<1>1. r \in Procs
  <2>1. wrapfile \in Revision
    BY TypesAre DEF Inv
  <2>2. (IF cmd = "setup" THEN "lock" ELSE "isdir") \in {"lock", "isdir"}
    OBVIOUS
  <2>3. \A s \in {"lock", "isdir"} :
          [Idle EXCEPT !.pc = s, !.cmd = cmd, !.reset = reset, !.nodownload = nodownload,
                       !.rev = wrapfile] \in Procs
    <3> SUFFICES ASSUME NEW s \in {"lock", "isdir"}
                 PROVE  [Idle EXCEPT !.pc = s, !.cmd = cmd, !.reset = reset,
                                     !.nodownload = nodownload, !.rev = wrapfile] \in Procs
      BY Zenon
    <3> QED
      BY <2>1, IdleIsProc, ZenonT(60) DEF Procs
  <2> QED
    BY <2>2, <2>3, Zenon
<1>2. r.pc \in {"lock", "isdir"} /\ r.rev \in Revision
  BY TypesAre DEF Inv, Idle
<1>3. proc' = [proc EXCEPT ![p] = r]
  BY Zenon DEF Start
<1> HIDE DEF r
<1>4. /\ proc' \in [Proc -> Procs] /\ proc'[p] = r
      /\ \A q \in Proc \ {p} : proc'[q] = proc[q]
  BY <1>1, <1>3, OneRecord, TypesAre, Zenon DEF Inv
<1>5. lock # p /\ ~Writing(p)
  BY DEF Start, Inv, LockInv, LocalInv, Fetching, Patching, Writing
<1>6. LocalInv(p)' /\ ArchiveInv(p)' /\ ~Writing(p)'
  BY <1>2, <1>4, <1>5, Zenon DEF Start, LocalInv, ArchiveInv, Fetching, Patching, Writing
<1>7. TypeInv'
  <2>1. \A q \in Proc :
          /\ proc'[q].cmd \in {"none", "setup", "download", "update", "purge"}
          /\ proc'[q].result \in {"none", "ok", "failed"}
          /\ proc'[q].rev \in Revision \union {Nothing} /\ proc'[q].attempt \in 0..delays
    BY <1>4 DEF Procs
  <2>2. commands' \in 0..MaxCommands
    BY ConstantsAssumption DEF Start, Inv, TypeInv, TypeOK
  <2> QED
    BY <1>4, <2>1, <2>2, Zenon DEF Start, Inv, TypeInv, TypeOK
<1> QED
  BY <1>4, <1>5, <1>6, <1>7, CalmStep DEF Start

LEMMA AcquireKeeps ==
  ASSUME Inv, NEW p \in Proc, Acquire(p)
  PROVE  Inv'
<1>1. /\ proc[p].pc = "lock" /\ lock = NoProc /\ lock' = p
      /\ Goto(p, "look") /\ UNCHANGED <<wrap, wrapfile, tree, cache, commands, cut>>
  BY DEF Acquire
<1>2. /\ proc' \in [Proc -> Procs] /\ proc'[p].pc = "look" /\ SameBut(p)
      /\ \A q \in Proc \ {p} : proc'[q] = proc[q]
  BY <1>1, GotoFacts, TypesAre DEF Inv
<1>3. proc'[p].pc = "look" /\ proc'[p].rev \in Revision
  BY <1>1, <1>2 DEF Inv, LockInv, LocalInv, SameBut
<1>4. LocalInv(p)' /\ ArchiveInv(p)' /\ ~Writing(p) /\ ~Writing(p)'
  BY <1>1, <1>3 DEF LocalInv, ArchiveInv, Fetching, Patching, Writing
<1>5. TypeInv'
  BY <1>1, <1>2, StepTypes, TypesAre DEF ProcType, Inv
<1>6. \A q \in Proc \ {p} : lock' = q <=> lock = q
  BY <1>1, ConstantsAssumption
<1> QED
  BY <1>1, <1>2, <1>4, <1>5, <1>6, CalmStep

LEMMA Runner_downloadKeeps ==
  ASSUME Inv, NEW p \in Proc, Runner_download(p)
  PROVE  Inv'
<1>1. /\ proc[p].pc = "isdir" /\ UNCHANGED <<wrap, wrapfile, tree, cache, lock, commands, cut>>
      /\ Goto(p, "lock") \/ Done(p, "ok")
  BY DEF Runner_download
<1>2. /\ proc' \in [Proc -> Procs] /\ \A q \in Proc \ {p} : proc'[q] = proc[q]
      /\ proc'[p].pc = "done" \/ (proc'[p].pc = "lock" /\ proc'[p].rev = proc[p].rev)
  <2>1. CASE Goto(p, "lock")
    BY <2>1, GotoFacts, TypesAre DEF Inv, SameBut
  <2>2. CASE Done(p, "ok")
    BY <2>2, DoneFacts, TypesAre DEF Inv
  <2> QED
    BY <1>1, <2>1, <2>2
<1>3. LocalInv(p)' /\ ArchiveInv(p)' /\ ~Writing(p) /\ ~Writing(p)'
  BY <1>1, <1>2 DEF Inv, LockInv, LocalInv, ArchiveInv, Fetching, Patching, Writing
<1>4. TypeInv'
  BY <1>1, <1>2, StepTypes, TypesAre DEF ProcType, Inv
<1> QED
  BY <1>1, <1>2, <1>3, <1>4, CalmStep

\* the tree is accepted, refused, or fetched when there is none
LEMMA LookKeeps ==
  ASSUME Inv, NEW p \in Proc, Look(p)
  PROVE  Inv'
<1> DEFINE a == tree.build /\ proc[p].cmd = "update"
<1>1. /\ proc[p].pc = "look" /\ UNCHANGED <<wrap, wrapfile, tree, cache, commands>> /\ History(a)
      /\ ProcType /\ LocalInv(p) /\ tree \in Trees
  BY TypesAre DEF Look, Inv, LockInv
<1>2. a \in BOOLEAN
  BY <1>1 DEF Trees
<1>3. /\ ProcType' /\ LocalInv(p)' /\ ArchiveInv(p)'
      /\ \A q \in Proc \ {p} : proc'[q] = proc[q] /\ (lock' = q <=> lock = q)
      /\ ~a => ~Writing(p)'
  <2>1. ASSUME Leave(p, "ok"), tree.build
        PROVE  <1>3!:
    BY <1>1, <2>1, LeaveFacts DEF Writing
  <2>2. ASSUME Leave(p, "WrapException")
        PROVE  <1>3!:
    BY <1>1, <2>2, LeaveFacts DEF Writing
  <2>3. ASSUME proc' = [proc EXCEPT ![p].pc = Fetcher.pc, ![p].what = Fetcher.what],
               UNCHANGED lock
        PROVE  <1>3!:
    <3> DEFINE r == [proc[p] EXCEPT !.pc = Fetcher.pc, !.what = Fetcher.what]
    <3>1. /\ Fetcher.pc \in {"unpack", "get", "clone"} /\ Fetcher.what \in {"directory", "source"}
          /\ Fetcher.pc = "get" => Fetcher.what = "source"
          /\ Fetcher.pc = "unpack" => Fetcher.what = "directory"
      BY TypesAre DEF Fetcher, Inv
    <3>2. r \in Procs
      <4>1. proc[p] \in Procs
        BY <1>1 DEF ProcType
      <4> QED
        BY <3>1, <4>1, Zenon DEF Procs
    <3>3. r.pc = Fetcher.pc /\ r.what = Fetcher.what /\ r.rev = proc[p].rev
      BY <1>1 DEF ProcType, Procs
    <3>4. proc' = [proc EXCEPT ![p] = r]
      BY <2>3, Zenon
    <3> HIDE DEF r
    <3>5. /\ proc' \in [Proc -> Procs] /\ proc'[p] = r
          /\ \A q \in Proc \ {p} : proc'[q] = proc[q]
      BY <1>1, <3>2, <3>4, OneRecord, Zenon
    <3>6. LocalInv(p)' /\ ArchiveInv(p)' /\ ~Writing(p)'
      BY <1>1, <2>3, <3>1, <3>3, <3>5 DEF LocalInv, ArchiveInv, Fetching, Patching, Writing
    <3> QED
      BY <1>1, <2>3, <3>5, <3>6 DEF ProcType
  <2> QED
    BY <2>1, <2>2, <2>3, Zenon DEF Look
<1>4. ~Writing(p)
  BY <1>1 DEF Writing
<1>5. ~a => TreeOfWriter(p)'
  BY <1>3, Idles, Zenon
<1> HIDE DEF a
<1> QED
  BY <1>1, <1>2, <1>3, <1>4, <1>5, QuietStep, Zenon

-----------------------------------------------------------------------------
\* while an archive is sought or unpacked, an exception removes a tree that was being patched
LEMMA RaiseKeeps ==
  ASSUME Inv, NEW p \in Proc, NEW exception, exception # "ok", Raise(p, exception),
         proc[p].pc \in {"get", "fetch", "unpack", "patching"},
         UNCHANGED <<wrap, wrapfile, tree, cache, commands>>, History(GivesUp(p))
  PROVE  Inv'
<1>1. ProcType /\ LocalInv(p) /\ proc[p].pc \notin {"idle", "done"}
  BY TypesAre DEF Inv, LockInv
<1>2. /\ ProcType' /\ LocalInv(p)' /\ ArchiveInv(p)'
      /\ \A q \in Proc \ {p} : proc'[q] = proc[q] /\ (lock' = q <=> lock = q)
      /\ IF proc[p].what = "patch" /\ lock = p
         THEN proc'[p].pc = "remove" /\ lock' = p
         ELSE proc'[p].pc = "done" /\ lock' # p
  BY <1>1, RaiseFacts
<1>3. GivesUp(p) \in BOOLEAN
  BY DEF GivesUp
<1>4. TreeOfWriter(p)'
  BY <1>2 DEF TreeOfWriter, Patching
<1>5. ASSUME ~GivesUp(p), ~Writing(p)'
      PROVE  ~Writing(p)
  BY <1>1, <1>2, <1>5 DEF GivesUp, Writing, LocalInv
<1> QED
  BY <1>1, <1>2, <1>3, <1>4, <1>5, QuietStep

\* looking for an archive goes on; a tree that is being patched stays as it is
LEMMA SeekKeeps ==
  ASSUME Inv, NEW p \in Proc, ProcType', SameBut(p),
         \A q \in Proc \ {p} : proc'[q] = proc[q],
         proc[p].pc \in {"get", "fetch"}, proc'[p].pc \in {"fetch", "unpack"},
         proc'[p].pc = "unpack" => cached(p) = proc[p].rev,
         UNCHANGED <<wrap, wrapfile, tree, cache, lock, commands>>, History(GivesUp(p))
  PROVE  Inv'
<1>1. LocalInv(p) /\ GivesUp(p) = FALSE
  BY DEF Inv, LockInv, GivesUp
<1>2. LocalInv(p)'
  BY <1>1 DEF LocalInv, SameBut, Fetching, Patching
<1>3. ArchiveInv(p)'
  BY DEF ArchiveInv, SameBut, cached, filename
<1>4. Writing(p)' <=> Writing(p)
  BY DEF Writing, SameBut
<1>5. ASSUME ~cut
      PROVE  TreeOfWriter(p)'
  <2>1. TreeOfWriter(p)
    BY <1>5 DEF Inv, TreeInv
  <2> QED
    BY <2>1 DEF TreeOfWriter, Patching, SameBut
<1> QED
  BY <1>1, <1>2, <1>3, <1>4, <1>5, QuietStep, Zenon

LEMMA get_file_internalKeeps ==
  ASSUME Inv, NEW p \in Proc, get_file_internal(p)
  PROVE  Inv'
<1>1. /\ proc[p].pc = "get" /\ History(GivesUp(p))
      /\ UNCHANGED <<wrap, wrapfile, tree, cache, commands>>
      /\ ProcType
  BY TypesAre DEF get_file_internal, Inv
<1>2. CASE Goto(p, "unpack") /\ UNCHANGED lock /\ cached(p) = proc[p].rev
  <2>1. ProcType' /\ proc'[p].pc = "unpack" /\ SameBut(p) /\ \A q \in Proc \ {p} : proc'[q] = proc[q]
    BY <1>1, <1>2, GotoFacts, Zenon
  <2> QED
    BY <1>1, <1>2, <2>1, SeekKeeps
<1>3. CASE Goto(p, "fetch") /\ UNCHANGED lock
  <2>1. ProcType' /\ proc'[p].pc = "fetch" /\ SameBut(p) /\ \A q \in Proc \ {p} : proc'[q] = proc[q]
    BY <1>1, <1>3, GotoFacts, Zenon
  <2> QED
    BY <1>1, <1>3, <2>1, SeekKeeps
<1>4. CASE Raise(p, "WrapException")
  BY <1>1, <1>4, RaiseKeeps
<1> QED
  BY <1>2, <1>3, <1>4 DEF get_file_internal

\* a retry, or the other URL: only the counters of the download change
LEMMA RetryFacts ==
  ASSUME Inv, NEW p \in Proc, NEW f \in BOOLEAN, NEW n \in 0..delays, proc[p].pc = "fetch",
         proc' = [proc EXCEPT ![p].fallback = f, ![p].attempt = n]
  PROVE  /\ proc' \in [Proc -> Procs] /\ proc'[p].pc = "fetch" /\ SameBut(p)
         /\ \A q \in Proc \ {p} : proc'[q] = proc[q]
<1> DEFINE r == [proc[p] EXCEPT !.fallback = f, !.attempt = n]
<1>1. ProcType /\ proc[p] \in Procs
  BY TypesAre DEF Inv, ProcType
<1>2. r \in Procs
  BY <1>1, Zenon DEF Procs
<1>3. r.pc = proc[p].pc /\ r.cmd = proc[p].cmd /\ r.rev = proc[p].rev
      /\ r.what = proc[p].what /\ r.result = proc[p].result
  BY <1>1 DEF Procs
<1>4. proc' = [proc EXCEPT ![p] = r]
  BY Zenon
<1> HIDE DEF r
<1>5. /\ proc' \in [Proc -> Procs] /\ proc'[p] = r
      /\ \A q \in Proc \ {p} : proc'[q] = proc[q]
  BY <1>1, <1>2, <1>4, OneRecord, Zenon
<1> QED
  BY <1>3, <1>5 DEF SameBut

LEMMA download_failedKeeps ==
  ASSUME Inv, NEW p \in Proc, NEW exception \in {"WrapException", "raw"},
         proc[p].pc = "fetch", download_failed(p, exception),
         UNCHANGED <<wrap, wrapfile, tree, cache, commands>>, History(GivesUp(p))
  PROVE  Inv'
<1>1. CASE proc' = [proc EXCEPT ![p].fallback = TRUE, ![p].attempt = 0] /\ UNCHANGED lock
  <2>1. 0 \in 0..delays /\ ProcType
    BY ConstantsAssumption, TypesAre DEF Inv
  <2>2. ProcType' /\ proc'[p].pc = "fetch" /\ SameBut(p) /\ \A q \in Proc \ {p} : proc'[q] = proc[q]
    BY <1>1, <2>1, RetryFacts, Zenon DEF ProcType
  <2> QED
    BY <1>1, <2>2, SeekKeeps, Zenon
<1>2. CASE Raise(p, exception)
  BY <1>2, RaiseKeeps
<1> QED
  BY <1>1, <1>2, Zenon DEF download_failed

\* the archive is moved to its name: whoever is about to unpack that name has the lock
LEMMA downloadedKeeps ==
  ASSUME Inv, NEW p \in Proc, proc[p].pc = "fetch",
         cache' = [cache EXCEPT ![proc[p].what][filename(proc[p].rev)] = proc[p].rev],
         proc' = [proc EXCEPT ![p].pc = "unpack", ![p].fallback = FALSE, ![p].attempt = 0],
         UNCHANGED <<lock, wrap, wrapfile, tree, commands>>, History(GivesUp(p))
  PROVE  Inv'
<1> DEFINE r == [proc[p] EXCEPT !.pc = "unpack", !.fallback = FALSE, !.attempt = 0]
           f == filename(proc[p].rev)
<1>1. /\ ProcType /\ proc[p] \in Procs /\ LocalInv(p) /\ cache \in Caches /\ tree \in Trees
      /\ proc[p].rev \in Revision /\ proc[p].what \in {"source", "patch"} /\ wrap \in Wraps
  BY TypesAre DEF Inv, LockInv, ProcType, LocalInv
<1>2. r \in Procs
  <2>1. 0 \in 0..delays
    BY ConstantsAssumption
  <2> QED
    BY <1>1, <2>1, Zenon DEF Procs
<1>3. r.pc = "unpack" /\ r.cmd = proc[p].cmd /\ r.rev = proc[p].rev
      /\ r.what = proc[p].what /\ r.result = proc[p].result
  BY <1>1 DEF Procs
<1>4. proc' = [proc EXCEPT ![p] = r]
  BY Zenon
<1> HIDE DEF r
<1>5. /\ proc' \in [Proc -> Procs] /\ proc'[p] = r
      /\ \A q \in Proc \ {p} : proc'[q] = proc[q]
  BY <1>1, <1>2, <1>4, OneRecord, Zenon
<1>6. SameBut(p) /\ proc'[p].pc = "unpack" /\ ProcType'
  BY <1>1, <1>3, <1>5 DEF SameBut, ProcType
<1>7. f \in Revision
  BY <1>1, ConstantsAssumption DEF filename, Revision
<1>8. cache' \in Caches /\ cache'[proc[p].what][f] = proc[p].rev
      /\ \A w \in {"source", "patch"} : w # proc[p].what => cache'[w] = cache[w]
  BY <1>1, <1>7 DEF Caches
<1>9. TypeInv' /\ AbsentIsNone'
  BY <1>1, <1>6, <1>8, StepTypes, HistoryType DEF Inv, AbsentIsNone
<1>10. Frame(p)
  BY <1>5 DEF Frame
<1>11. CacheKept(p)
  <2> SUFFICES ASSUME NEW q \in Proc, q # p, proc[q].pc = "unpack", proc[q].what = "source"
               PROVE  cache'["source"] = cache["source"]
    BY DEF CacheKept
  <2>1. lock = q
    BY DEF Inv, LockInv, LocalInv, Fetching
  <2>2. proc[p].what = "patch"
    BY <1>1, <2>1 DEF LocalInv, Fetching
  <2> QED
    BY <1>8, <2>2
<1>12. LocalInv(p)'
  BY <1>1, <1>6 DEF LocalInv, SameBut, Fetching, Patching
<1>13. ArchiveInv(p)'
  BY <1>1, <1>6, <1>8 DEF ArchiveInv, SameBut, cached, filename
<1>14. (Writing(p)' <=> Writing(p)) /\ GivesUp(p) = FALSE
  BY <1>6 DEF Writing, SameBut, GivesUp
<1>15. ASSUME ~cut
       PROVE  TreeOfWriter(p)'
  <2>1. TreeOfWriter(p)
    BY <1>15 DEF Inv, TreeInv
  <2> QED
    BY <1>6, <2>1 DEF TreeOfWriter, Patching, SameBut
<1> QED
  BY <1>9, <1>10, <1>11, <1>12, <1>13, <1>14, <1>15, StepKeeps, Zenon

LEMMA downloadKeeps ==
  ASSUME Inv, NEW p \in Proc, download(p)
  PROVE  Inv'
<1>1. /\ proc[p].pc = "fetch" /\ History(GivesUp(p))
      /\ UNCHANGED <<wrap, wrapfile, tree, commands>>
      /\ ProcType
  BY TypesAre DEF download, Inv
<1>2. CASE /\ cache' = [cache EXCEPT ![proc[p].what][filename(proc[p].rev)] = proc[p].rev]
           /\ proc' = [proc EXCEPT ![p].pc = "unpack", ![p].fallback = FALSE, ![p].attempt = 0]
           /\ UNCHANGED lock
  BY <1>1, <1>2, downloadedKeeps, Zenon
<1>3. CASE /\ \E exception \in {"WrapException", "raw"} : download_failed(p, exception)
           /\ UNCHANGED cache
  BY <1>1, <1>3, download_failedKeeps
<1>4. CASE /\ proc[p].attempt < delays /\ proc' = [proc EXCEPT ![p].attempt = @ + 1]
           /\ UNCHANGED <<lock, cache>>
  <2> DEFINE r == [proc[p] EXCEPT !.attempt = @ + 1]
  <2>1. proc[p] \in Procs /\ proc[p].attempt + 1 \in 0..delays
    BY <1>1, <1>4, ConstantsAssumption DEF ProcType, Procs
  <2>2. r \in Procs /\ r.pc = proc[p].pc /\ r.cmd = proc[p].cmd /\ r.rev = proc[p].rev
        /\ r.what = proc[p].what /\ r.result = proc[p].result
    BY <2>1 DEF Procs
  <2>3. proc' = [proc EXCEPT ![p] = r]
    BY <1>4, Zenon
  <2> HIDE DEF r
  <2>4. /\ proc' \in [Proc -> Procs] /\ proc'[p] = r
        /\ \A q \in Proc \ {p} : proc'[q] = proc[q]
    BY <1>1, <2>2, <2>3, OneRecord, Zenon
  <2>5. ProcType' /\ SameBut(p) /\ proc'[p].pc = "fetch"
    BY <1>1, <1>4, <2>2, <2>4 DEF ProcType, SameBut
  <2> QED
    BY <1>1, <1>4, <2>4, <2>5, SeekKeeps
<1> QED
  BY <1>2, <1>3, <1>4, Zenon DEF download

-----------------------------------------------------------------------------
\* a step of p that writes the tree, and leaves the cache alone
LEMMA WriteStep ==
  ASSUME Inv, NEW p \in Proc, ProcType', tree' \in Trees,
         tree'.files = "absent" => tree' = NoTree,
         UNCHANGED <<wrap, wrapfile, cache, commands>>,
         \A q \in Proc \ {p} : proc'[q] = proc[q] /\ (lock' = q <=> lock = q),
         LocalInv(p)', ArchiveInv(p)', NEW a \in BOOLEAN, History(a),
         Writing(p) \/ Writing(p)',
         (~cut /\ ~a) => TreeOfWriter(p)',
         (~cut /\ ~a /\ ~Writing(p)') => TreeAlone'
  PROVE  Inv'
<1>1. TypeInv' /\ AbsentIsNone'
  BY TypesAre, StepTypes, HistoryType DEF Inv, AbsentIsNone
<1>2. Frame(p) /\ CacheKept(p)
  BY DEF Frame, CacheKept
<1> QED
  BY <1>1, <1>2, StepKeeps, Zenon

LEMMA NoTreeIsTree == NoTree \in Trees /\ NoTree.files = "absent"
BY DEF NoTree, Trees, Nothing

\* patching starts from the tree, or from what is left of it
LEMMA StandingStands ==
  ASSUME tree \in Trees
  PROVE  /\ Standing \in Trees /\ Standing.files # "absent"
         /\ \A s \in {"some", "all"} : /\ [Standing EXCEPT !.patch = s] \in Trees
                                       /\ [Standing EXCEPT !.patch = s].files # "absent"
<1>1. Standing \in Trees /\ Standing.files # "absent"
  BY NoTreeIsTree DEF Standing, Trees
<1> QED
  BY <1>1 DEF Trees

\* the fetch begins to write: the archive is the one asked for
LEMMA unpackKeeps ==
  ASSUME Inv, NEW p \in Proc, unpack(p)
  PROVE  Inv'
<1>1. /\ proc[p].pc = "unpack" /\ History(GivesUp(p))
      /\ UNCHANGED <<wrap, wrapfile, cache, commands>>
      /\ ProcType /\ LocalInv(p) /\ ArchiveInv(p) /\ tree \in Trees /\ cache \in Caches
      /\ proc[p].rev \in Revision /\ proc[p].what # "none" /\ wrap \in Wraps
  BY TypesAre, Zenon DEF unpack, Inv, LockInv, LocalInv
<1>2. CASE /\ \E exception \in {"WrapException", "raw"} : Raise(p, exception)
           /\ UNCHANGED tree
  BY <1>1, <1>2, RaiseKeeps
<1>3. ASSUME proc[p].what = "directory" \/ (proc[p].what = "source" /\ cached(p) # Nothing),
             NEW b \in BOOLEAN,
             tree' = [NoTree EXCEPT !.files = "growing", !.build = b,
                        !.rev = IF proc[p].what = "source" THEN cached(p) ELSE proc[p].rev],
             Goto(p, "unpacking"), UNCHANGED lock
      PROVE  Inv'
  <2>1. (IF proc[p].what = "source" THEN cached(p) ELSE proc[p].rev) = proc[p].rev
    BY <1>1, <1>3 DEF ArchiveInv
  <2>2. tree' = [NoTree EXCEPT !.files = "growing", !.build = b, !.rev = proc[p].rev]
    BY <1>3, <2>1, Zenon
  <2>3. tree' \in Trees
    BY <1>1, <1>3, <2>2, NoTreeIsTree, Zenon DEF Trees
  <2>4. tree'.files = "growing" /\ tree'.rev = proc[p].rev /\ tree'.hash = Nothing
    BY <2>2 DEF NoTree
  <2>5. /\ ProcType' /\ proc'[p].pc = "unpacking" /\ SameBut(p)
        /\ \A q \in Proc \ {p} : proc'[q] = proc[q]
    BY <1>1, <1>3, GotoFacts, Zenon
  <2>6. lock = p /\ GivesUp(p) = FALSE
    BY <1>1, <1>3, <2>5 DEF LocalInv, Fetching, GivesUp
  <2>7. LocalInv(p)' /\ ArchiveInv(p)' /\ Writing(p)'
    BY <1>1, <1>3, <2>5, <2>6 DEF LocalInv, ArchiveInv, SameBut, Fetching, Patching, Writing
  <2>8. TreeOfWriter(p)'
    BY <2>4, <2>5 DEF TreeOfWriter, Patching, SameBut
  <2> QED
    BY <1>1, <1>3, <2>3, <2>4, <2>5, <2>6, <2>7, <2>8, WriteStep, Zenon
<1>4. ASSUME proc[p].what = "patch", tree' = [Standing EXCEPT !.patch = "some"],
             Goto(p, "patching"), UNCHANGED lock
      PROVE  Inv'
  <2>1. /\ ProcType' /\ proc'[p].pc = "patching" /\ SameBut(p)
        /\ \A q \in Proc \ {p} : proc'[q] = proc[q]
    BY <1>1, <1>4, GotoFacts, Zenon
  <2>2. tree' \in Trees /\ tree'.files # "absent"
    BY <1>1, <1>4, StandingStands
  <2>3. LocalInv(p)' /\ ArchiveInv(p)' /\ Writing(p)' /\ GivesUp(p) = FALSE
    BY <1>1, <1>4, <2>1
       DEF LocalInv, ArchiveInv, SameBut, Fetching, Patching, Writing, GivesUp
  <2>4. ASSUME ~cut
        PROVE  TreeOfWriter(p)'
    <3>1. TreeOfWriter(p) /\ Patching(p)
      BY <1>1, <1>4, <2>4 DEF Inv, TreeInv, Patching
    <3>2. Standing = tree
      BY <3>1 DEF Standing, TreeOfWriter
    <3>3. tree'.files = "all" /\ tree'.rev = tree.rev /\ tree'.hash = tree.hash
      BY <1>1, <1>4, <3>1, <3>2 DEF Trees, TreeOfWriter
    <3> QED
      BY <1>4, <2>1, <3>1, <3>3 DEF TreeOfWriter, Patching, SameBut
  <2> QED
    BY <1>1, <1>4, <2>1, <2>2, <2>3, <2>4, WriteStep, Zenon
<1> QED
  BY <1>2, <1>3, <1>4, Zenon DEF unpack

\* a fetch that cannot be finished is left as it is: the history says so
LEMMA AbandonKeeps ==
  ASSUME Inv, NEW p \in Proc, NEW result, Leave(p, result),
         proc[p].pc \notin {"idle", "done"},
         UNCHANGED <<wrap, wrapfile, tree, cache, commands>>, History(TRUE)
  PROVE  Inv'
<1>1. ProcType /\ LocalInv(p)
  BY TypesAre DEF Inv, LockInv
<1>2. /\ ProcType' /\ LocalInv(p)' /\ ArchiveInv(p)'
      /\ \A q \in Proc \ {p} : proc'[q] = proc[q] /\ (lock' = q <=> lock = q)
  BY <1>1, LeaveFacts, Zenon
<1> QED
  BY <1>1, <1>2, QuietStep, Zenon

LEMMA unpackedKeeps ==
  ASSUME Inv, NEW p \in Proc, unpacked(p)
  PROVE  Inv'
<1>1. /\ proc[p].pc = "unpacking" /\ UNCHANGED <<wrap, wrapfile, cache, commands>>
      /\ ProcType /\ LocalInv(p) /\ tree \in Trees /\ lock = p /\ proc[p].rev \in Revision
      /\ wrap.overlaid \in BOOLEAN
  BY TypesAre, ConstantsAssumption DEF unpacked, Inv, LockInv, LocalInv, Fetching
<1>2. ASSUME Goto(p, "patch"), UNCHANGED lock
      PROVE  /\ ProcType' /\ proc'[p].pc = "patch" /\ SameBut(p)
             /\ \A q \in Proc \ {p} : proc'[q] = proc[q]
             /\ LocalInv(p)' /\ ArchiveInv(p)' /\ Writing(p)'
  <2>1. /\ ProcType' /\ proc'[p].pc = "patch" /\ SameBut(p)
        /\ \A q \in Proc \ {p} : proc'[q] = proc[q]
    BY <1>1, <1>2, GotoFacts, Zenon
  <2> QED
    BY <1>1, <1>2, <2>1 DEF LocalInv, ArchiveInv, SameBut, Fetching, Patching, Writing
<1>3. CASE /\ tree.files = "growing"
           /\ tree' = [tree EXCEPT !.files = "all", !.build = ~wrap.overlaid]
           /\ Goto(p, "patch") /\ UNCHANGED lock /\ History(FALSE)
  <2>1. tree' \in Trees
    <3>1. (~wrap.overlaid) \in BOOLEAN
      OBVIOUS
    <3> QED
      BY <1>1, <1>3, <3>1, Zenon DEF Trees
  <2>2. tree'.files = "all" /\ tree'.rev = tree.rev /\ tree'.hash = tree.hash
    BY <1>1, <1>3 DEF Trees
  <2>3. ASSUME ~cut
        PROVE  TreeOfWriter(p)'
    <3>1. TreeOfWriter(p)
      BY <2>3 DEF Inv, TreeInv
    <3> QED
      BY <1>1, <1>2, <1>3, <2>2, <3>1 DEF TreeOfWriter, Patching, SameBut
  <2> QED
    BY <1>1, <1>2, <1>3, <2>1, <2>2, <2>3, WriteStep, Zenon
<1>4. CASE /\ tree.files # "growing"
           /\ IF tree.files = "absent" THEN tree' \in Remains ELSE UNCHANGED tree
           /\ Goto(p, "patch") /\ UNCHANGED lock /\ History(FALSE)
  <2>1. tree' \in Trees /\ (tree'.files = "absent" => tree' = NoTree)
    <3>1. \A b \in BOOLEAN : [NoTree EXCEPT !.files = "holed", !.build = b] \in Trees
      BY NoTreeIsTree, Zenon DEF Trees
    <3>2. \A b \in BOOLEAN : [NoTree EXCEPT !.files = "holed", !.build = b].files = "holed"
      BY DEF NoTree
    <3> QED
      BY <1>1, <1>4, <3>1, <3>2, NoTreeIsTree, Zenon DEF Remains
  <2>2. cut
    BY <1>1, <1>4 DEF Inv, TreeInv, TreeOfWriter
  <2> QED
    BY <1>1, <1>2, <1>4, <2>1, <2>2, WriteStep, Zenon
<1>5. CASE /\ \E exception \in {"WrapException", "raw"} : Leave(p, exception)
           /\ UNCHANGED tree /\ History(TRUE)
  BY <1>1, <1>5, AbandonKeeps, Zenon
<1> QED
  BY <1>3, <1>4, <1>5, Zenon DEF unpacked

\* a clone that fails is removed by git, or left as a repository: the history says so
LEMMA cloneKeeps ==
  ASSUME Inv, NEW p \in Proc, clone(p)
  PROVE  Inv'
<1>1. /\ proc[p].pc \in {"clone", "cloning"} /\ UNCHANGED <<wrap, wrapfile, cache, commands>>
      /\ ProcType /\ LocalInv(p) /\ tree \in Trees /\ lock = p /\ proc[p].rev \in Revision
      /\ wrap.overlaid \in BOOLEAN
  BY TypesAre, ConstantsAssumption, Zenon DEF clone, Inv, LockInv, LocalInv, Fetching
<1>2. ASSUME NEW pc \in {"cloning", "checkout"}, Goto(p, pc), UNCHANGED lock
      PROVE  /\ ProcType' /\ proc'[p].pc = pc /\ SameBut(p)
             /\ \A q \in Proc \ {p} : proc'[q] = proc[q]
             /\ LocalInv(p)' /\ ArchiveInv(p)' /\ Writing(p)'
  <2>1. /\ ProcType' /\ proc'[p].pc = pc /\ SameBut(p)
        /\ \A q \in Proc \ {p} : proc'[q] = proc[q]
    BY <1>1, <1>2, GotoFacts, Zenon
  <2> QED
    BY <1>1, <1>2, <2>1 DEF LocalInv, ArchiveInv, SameBut, Fetching, Patching, Writing
<1>3. CASE /\ proc[p].pc = "clone"
           /\ tree' = [NoTree EXCEPT !.files = "growing", !.git = TRUE]
           /\ Goto(p, "cloning") /\ UNCHANGED lock /\ History(FALSE)
  <2>1. tree' \in Trees
    BY <1>3, NoTreeIsTree, Zenon DEF Trees
  <2>2. tree'.files = "growing" /\ tree'.hash = Nothing
    BY <1>3 DEF NoTree
  <2>3. TreeOfWriter(p)'
    BY <1>2, <1>3, <2>2 DEF TreeOfWriter, Patching
  <2> QED
    BY <1>1, <1>2, <1>3, <2>1, <2>2, <2>3, WriteStep, Zenon
<1>4. CASE /\ proc[p].pc = "cloning" /\ tree.files = "growing"
           /\ tree' = [tree EXCEPT !.files = "all", !.build = ~wrap.overlaid]
           /\ Goto(p, "checkout") /\ UNCHANGED lock /\ History(FALSE)
  <2>1. tree' \in Trees
    <3>1. (~wrap.overlaid) \in BOOLEAN
      OBVIOUS
    <3> QED
      BY <1>1, <1>4, <3>1, Zenon DEF Trees
  <2>2. tree'.files = "all" /\ tree'.hash = tree.hash
    BY <1>1, <1>4 DEF Trees
  <2>3. ASSUME ~cut
        PROVE  TreeOfWriter(p)'
    <3>1. TreeOfWriter(p)
      BY <2>3 DEF Inv, TreeInv
    <3> QED
      BY <1>2, <1>4, <2>2, <3>1 DEF TreeOfWriter, Patching
  <2> QED
    BY <1>1, <1>2, <1>4, <2>1, <2>2, <2>3, WriteStep, Zenon
<1>5. CASE /\ proc[p].pc = "cloning" /\ tree' = NoTree /\ Leave(p, "WrapException")
           /\ History(FALSE)
  <2>1. /\ ProcType' /\ LocalInv(p)' /\ ArchiveInv(p)' /\ proc'[p].pc = "done"
        /\ \A q \in Proc \ {p} : proc'[q] = proc[q] /\ (lock' = q <=> lock = q)
    BY <1>1, <1>5, LeaveFacts
  <2>2. TreeOfWriter(p)' /\ TreeAlone' /\ Writing(p)
    BY <1>5, <2>1 DEF TreeOfWriter, TreeAlone, Patching, Writing, NoTree
  <2> QED
    BY <1>1, <1>5, <2>1, <2>2, NoTreeIsTree, WriteStep, Zenon
<1>6. CASE /\ proc[p].pc = "cloning" /\ tree.files = "growing"
           /\ tree' = [tree EXCEPT !.files = "holed"]
           /\ Leave(p, "WrapException") /\ History(TRUE)
  <2>1. /\ ProcType' /\ LocalInv(p)' /\ ArchiveInv(p)'
        /\ \A q \in Proc \ {p} : proc'[q] = proc[q] /\ (lock' = q <=> lock = q)
    BY <1>1, <1>6, LeaveFacts
  <2>2. tree' \in Trees /\ tree'.files # "absent" /\ Writing(p)
    BY <1>1, <1>6 DEF Trees, Writing
  <2> QED
    BY <1>1, <1>6, <2>1, <2>2, WriteStep, Zenon
<1> QED
  BY <1>3, <1>4, <1>5, <1>6, Zenon DEF clone

LEMMA checkoutKeeps ==
  ASSUME Inv, NEW p \in Proc, checkout(p)
  PROVE  Inv'
<1>1. /\ proc[p].pc = "checkout" /\ UNCHANGED <<wrap, wrapfile, cache, commands>>
      /\ ProcType /\ LocalInv(p) /\ tree \in Trees /\ lock = p /\ proc[p].rev \in Revision
  BY TypesAre DEF checkout, Inv, LockInv, LocalInv, Fetching
<1>2. CASE /\ tree.files # "absent" /\ tree' = [tree EXCEPT !.rev = proc[p].rev]
           /\ Goto(p, "patch") /\ UNCHANGED lock /\ History(FALSE)
  <2>1. /\ ProcType' /\ proc'[p].pc = "patch" /\ SameBut(p)
        /\ \A q \in Proc \ {p} : proc'[q] = proc[q]
    BY <1>1, <1>2, GotoFacts, Zenon
  <2>2. LocalInv(p)' /\ ArchiveInv(p)' /\ Writing(p)'
    BY <1>1, <1>2, <2>1 DEF LocalInv, ArchiveInv, SameBut, Fetching, Patching, Writing
  <2>3. /\ tree' \in Trees /\ tree'.rev = proc[p].rev
        /\ tree'.files = tree.files /\ tree'.hash = tree.hash
    BY <1>1, <1>2 DEF Trees
  <2>4. ASSUME ~cut
        PROVE  TreeOfWriter(p)'
    <3>1. TreeOfWriter(p)
      BY <2>4 DEF Inv, TreeInv
    <3> QED
      BY <1>1, <2>1, <2>3, <3>1 DEF TreeOfWriter, Patching, SameBut
  <2> QED
    BY <1>1, <1>2, <2>1, <2>2, <2>3, <2>4, WriteStep, Zenon
<1>3. CASE Leave(p, "WrapException") /\ UNCHANGED tree /\ History(TRUE)
  BY <1>1, <1>3, AbandonKeeps, Zenon
<1> QED
  BY <1>2, <1>3, Zenon DEF checkout

\* the step to the patch, with or without the lock
LEMMA apply_patchKeeps ==
  ASSUME Inv, NEW p \in Proc, apply_patch(p)
  PROVE  Inv'
<1>1. /\ proc[p].pc = "patch" /\ UNCHANGED <<wrap, wrapfile, cache, lock, commands>>
      /\ ProcType /\ LocalInv(p) /\ tree \in Trees /\ proc[p].rev \in Revision
      /\ proc[p] \in Procs /\ History(FALSE) /\ Patching(p) /\ Writing(p)
  BY TypesAre, Zenon DEF apply_patch, Inv, LockInv, LocalInv, Patching, ProcType, Writing
<1>2. ~cut => TreeOfWriter(p) /\ tree.files = "all" /\ tree.rev = proc[p].rev
              /\ (lock = p => tree.hash = Nothing)
  BY <1>1, Zenon DEF Inv, TreeInv, TreeOfWriter
<1>3. CASE wrap.patch = "none" /\ Goto(p, "final") /\ UNCHANGED tree
  <2>1. /\ ProcType' /\ proc'[p].pc = "final" /\ SameBut(p)
        /\ \A q \in Proc \ {p} : proc'[q] = proc[q]
    BY <1>1, <1>3, GotoFacts, Zenon
  <2>2. LocalInv(p)' /\ ArchiveInv(p)' /\ Writing(p)'
    BY <1>1, <2>1 DEF LocalInv, ArchiveInv, SameBut, Fetching, Patching, Writing
  <2>3. ~cut => TreeOfWriter(p)'
    BY <1>1, <1>2, <1>3, <2>1 DEF TreeOfWriter, Patching, SameBut
  <2> QED
    BY <1>1, <1>3, <2>1, <2>2, <2>3, QuietStep, Zenon
<1>4. ASSUME NEW pc \in {"get", "patching"},
             proc' = [proc EXCEPT ![p].pc = pc, ![p].what = "patch"]
      PROVE  /\ ProcType' /\ proc'[p].pc = pc /\ proc'[p].rev = proc[p].rev
             /\ \A q \in Proc \ {p} : proc'[q] = proc[q]
             /\ LocalInv(p)' /\ ArchiveInv(p)' /\ Writing(p)' /\ Patching(p)'
  <2> DEFINE r == [proc[p] EXCEPT !.pc = pc, !.what = "patch"]
  <2>1. r \in Procs
    BY <1>1, Zenon DEF Procs
  <2>2. r.pc = pc /\ r.what = "patch" /\ r.rev = proc[p].rev /\ r.cmd = proc[p].cmd
        /\ r.result = proc[p].result
    BY <1>1 DEF Procs
  <2>3. proc' = [proc EXCEPT ![p] = r]
    BY <1>4, Zenon
  <2> HIDE DEF r
  <2>4. /\ proc' \in [Proc -> Procs] /\ proc'[p] = r
        /\ \A q \in Proc \ {p} : proc'[q] = proc[q]
    BY <1>1, <2>1, <2>3, OneRecord, Zenon
  <2>5. LocalInv(p)' /\ ArchiveInv(p)' /\ Writing(p)' /\ Patching(p)'
    BY <1>1, <1>4, <2>2, <2>4 DEF LocalInv, ArchiveInv, Fetching, Patching, Writing
  <2> QED
    BY <1>1, <2>2, <2>4, <2>5 DEF ProcType
<1>5. CASE /\ proc' = [proc EXCEPT ![p].pc = "get", ![p].what = "patch"]
           /\ UNCHANGED tree
  <2>1. ~cut => TreeOfWriter(p)'
    BY <1>1, <1>2, <1>4, <1>5 DEF TreeOfWriter
  <2> QED
    BY <1>1, <1>4, <1>5, <2>1, QuietStep, Zenon
<1>6. CASE /\ proc' = [proc EXCEPT ![p].pc = "patching", ![p].what = "patch"]
           /\ tree' = [Standing EXCEPT !.patch = "some"]
  <2>1. tree' \in Trees /\ tree'.files # "absent"
    BY <1>1, <1>6, StandingStands
  <2>2. ASSUME ~cut
        PROVE  TreeOfWriter(p)'
    <3>1. Standing = tree
      BY <1>2, <2>2 DEF Standing
    <3>2. tree'.files = "all" /\ tree'.rev = tree.rev /\ tree'.hash = tree.hash
      BY <1>1, <1>2, <1>6, <2>2, <3>1 DEF Trees
    <3> QED
      BY <1>1, <1>2, <1>4, <1>6, <2>2, <3>2 DEF TreeOfWriter
  <2> QED
    BY <1>1, <1>4, <1>6, <2>1, <2>2, WriteStep, Zenon
<1> QED
  BY <1>3, <1>5, <1>6, Zenon DEF apply_patch

LEMMA patchedKeeps ==
  ASSUME Inv, NEW p \in Proc, patched(p)
  PROVE  Inv'
<1>1. /\ proc[p].pc = "patching" /\ UNCHANGED <<wrap, wrapfile, cache, commands>>
      /\ ProcType /\ LocalInv(p) /\ tree \in Trees /\ wrap.overlaid \in BOOLEAN
      /\ History(GivesUp(p)) /\ Patching(p) /\ Writing(p)
  BY TypesAre, ConstantsAssumption
     DEF patched, Inv, LockInv, LocalInv, Patching, Writing
<1>2. CASE /\ tree' = [Standing EXCEPT !.patch = "all", !.build = @ \/ wrap.overlaid]
           /\ Goto(p, "final") /\ UNCHANGED lock
  <2>1. /\ ProcType' /\ proc'[p].pc = "final" /\ SameBut(p)
        /\ \A q \in Proc \ {p} : proc'[q] = proc[q]
    BY <1>1, <1>2, GotoFacts, Zenon
  <2>2. LocalInv(p)' /\ ArchiveInv(p)' /\ Writing(p)' /\ GivesUp(p) = FALSE
    BY <1>1, <1>2, <2>1
       DEF LocalInv, ArchiveInv, SameBut, Fetching, Patching, Writing, GivesUp
  <2>3. Standing \in Trees /\ Standing.files # "absent"
    BY <1>1, StandingStands
  <2>4. tree' \in Trees
    <3>1. (Standing.build \/ wrap.overlaid) \in BOOLEAN
      OBVIOUS
    <3> QED
      BY <1>2, <2>3, <3>1, Zenon DEF Trees
  <2>5. /\ tree'.files = Standing.files /\ tree'.rev = Standing.rev /\ tree'.hash = Standing.hash
        /\ tree'.patch = "all"
    BY <1>2, <2>3 DEF Trees
  <2>6. ASSUME ~cut
        PROVE  TreeOfWriter(p)'
    <3>1. TreeOfWriter(p)
      BY <2>6 DEF Inv, TreeInv
    <3>2. Standing = tree
      BY <1>1, <3>1 DEF Standing, TreeOfWriter
    <3> QED
      BY <1>1, <1>2, <2>1, <2>5, <3>1, <3>2 DEF TreeOfWriter, Patching, SameBut
  <2> QED
    BY <1>1, <1>2, <2>1, <2>2, <2>3, <2>4, <2>5, <2>6, WriteStep, Zenon
<1>3. CASE /\ \E exception \in {"WrapException", "raw"} : Raise(p, exception)
           /\ UNCHANGED tree
  BY <1>1, <1>3, RaiseKeeps
<1> QED
  BY <1>2, <1>3, Zenon DEF patched

\* the end of _resolve keeps the hash of the wrap file it began with
LEMMA finalKeeps ==
  ASSUME Inv, NEW p \in Proc, final(p)
  PROVE  Inv'
<1>1. /\ proc[p].pc = "final" /\ UNCHANGED <<wrap, wrapfile, cache, commands>>
      /\ ProcType /\ LocalInv(p) /\ tree \in Trees /\ proc[p].rev \in Revision
      /\ History(FALSE) /\ Patching(p) /\ Writing(p)
  BY TypesAre, Zenon DEF final, Inv, LockInv, LocalInv, Patching, Writing
<1>2. ASSUME ~cut
      PROVE  /\ Whole /\ tree.rev = proc[p].rev
             /\ lock = p => tree.hash = Nothing
  <2>1. TreeOfWriter(p)
    BY <1>2 DEF Inv, TreeInv
  <2> QED
    BY <1>1, <2>1 DEF TreeOfWriter, Whole, Revision, Nothing
<1>3. CASE /\ lock = p /\ tree.build
           /\ tree' = [tree EXCEPT !.hash = proc[p].rev] /\ Leave(p, "ok")
  <2>1. /\ ProcType' /\ LocalInv(p)' /\ ArchiveInv(p)'
        /\ \A q \in Proc \ {p} : proc'[q] = proc[q] /\ (lock' = q <=> lock = q)
        /\ proc'[p].pc = "done" \/ (proc'[p].pc = "hash" /\ proc'[p].rev = proc[p].rev)
    BY <1>1, <1>3, LeaveFacts
  <2>2. /\ tree' \in Trees /\ tree'.hash = proc[p].rev
        /\ tree'.files = tree.files /\ tree'.rev = tree.rev /\ tree'.patch = tree.patch
    BY <1>1, <1>3 DEF Trees
  <2>3. tree'.files = "absent" => tree' = NoTree
    BY <1>3, NoTreeIsTree DEF Inv, AbsentIsNone, NoTree
  <2>4. ~cut => TreeOfWriter(p)' /\ TreeAlone'
    BY <1>1, <1>2, <2>1, <2>2 DEF TreeOfWriter, TreeAlone, Whole, HashKnown, Patching
  <2> QED
    BY <1>1, <2>1, <2>2, <2>3, <2>4, WriteStep, Zenon
<1>4. CASE UNCHANGED tree /\ Leave(p, IF lock = p THEN "WrapException" ELSE "ok")
  <2>1. /\ ProcType' /\ LocalInv(p)' /\ ArchiveInv(p)'
        /\ \A q \in Proc \ {p} : proc'[q] = proc[q] /\ (lock' = q <=> lock = q)
        /\ \/ lock = p /\ proc'[p].pc = "done"
           \/ lock # p /\ proc'[p].pc = "hash" /\ proc'[p].rev = proc[p].rev
    <3>1. CASE lock = p
      BY <1>1, <1>4, <3>1, LeaveFacts
    <3>2. CASE lock # p
      BY <1>1, <1>4, <3>2, LeaveFacts, Zenon DEF LocalInv
    <3> QED
      BY <3>1, <3>2
  <2>2. ~cut => TreeOfWriter(p)'
    BY <1>1, <1>2, <1>4, <2>1 DEF TreeOfWriter, Whole, Patching
  <2>3. ~cut /\ ~Writing(p)' => TreeAlone'
    BY <1>1, <1>2, <1>4, <2>1, Zenon DEF TreeAlone, Whole, HashKnown, Writing
  <2> QED
    BY <1>1, <1>4, <2>1, <2>2, <2>3, QuietStep, Zenon
<1> QED
  BY <1>3, <1>4, Zenon DEF final

LEMMA rmtreeKeeps ==
  ASSUME Inv, NEW p \in Proc, rmtree(p)
  PROVE  Inv'
<1>1. /\ proc[p].pc \in {"remove", "removing"} /\ UNCHANGED <<wrap, wrapfile, cache, commands>>
      /\ ProcType /\ LocalInv(p) /\ tree \in Trees /\ proc[p].rev \in Revision /\ Writing(p)
  BY TypesAre, Zenon DEF rmtree, Inv, LockInv, LocalInv, Writing
<1>2. ASSUME tree.files # "absent", NEW b \in BOOLEAN,
             tree' = [tree EXCEPT !.files = "holed", !.build = b],
             Goto(p, "removing"), UNCHANGED lock, History(FALSE)
      PROVE  Inv'
  <2>1. /\ ProcType' /\ proc'[p].pc = "removing" /\ SameBut(p)
        /\ \A q \in Proc \ {p} : proc'[q] = proc[q]
    BY <1>1, <1>2, GotoFacts, Zenon
  <2>2. LocalInv(p)' /\ ArchiveInv(p)' /\ Writing(p)' /\ TreeOfWriter(p)'
    BY <1>1, <1>2, <2>1
       DEF LocalInv, ArchiveInv, SameBut, Fetching, Patching, Writing, TreeOfWriter
  <2>3. tree' \in Trees
    BY <1>1, <1>2, Zenon DEF Trees
  <2>4. tree'.files = "holed"
    BY <1>1, <1>2 DEF Trees
  <2> QED
    BY <1>1, <1>2, <2>1, <2>2, <2>3, <2>4, WriteStep, Zenon
<1>3. CASE /\ tree' = NoTree /\ History(FALSE)
           /\ \/ lock = p /\ Leave(p, proc[p].result)
              \/ lock # p /\ proc[p].cmd = "update" /\ Goto(p, "lock") /\ UNCHANGED lock
              \/ lock # p /\ proc[p].cmd = "purge" /\ Leave(p, "ok")
  <2>1. /\ ProcType' /\ LocalInv(p)' /\ ArchiveInv(p)'
        /\ \A q \in Proc \ {p} : proc'[q] = proc[q] /\ (lock' = q <=> lock = q)
        /\ proc'[p].pc \in {"done", "lock"}
    <3>1. CASE lock = p /\ Leave(p, proc[p].result)
      <4>1. proc[p].result = "failed"
        BY <1>1, <3>1 DEF LocalInv, Fetching, Patching
      <4> QED
        BY <1>1, <3>1, <4>1, LeaveFacts
    <3>2. CASE lock # p /\ proc[p].cmd = "purge" /\ Leave(p, "ok")
      BY <1>1, <3>2, LeaveFacts
    <3>3. CASE lock # p /\ proc[p].cmd = "update" /\ Goto(p, "lock") /\ UNCHANGED lock
      <4>1. /\ ProcType' /\ proc'[p].pc = "lock" /\ SameBut(p)
            /\ \A q \in Proc \ {p} : proc'[q] = proc[q]
        BY <1>1, <3>3, GotoFacts, Zenon
      <4>2. LocalInv(p)' /\ ArchiveInv(p)'
        BY <1>1, <3>3, <4>1 DEF LocalInv, ArchiveInv, SameBut, Fetching, Patching
      <4> QED
        BY <3>3, <4>1, <4>2
    <3> QED
      BY <1>3, <3>1, <3>2, <3>3
  <2>2. TreeOfWriter(p)' /\ TreeAlone'
    BY <1>3, <2>1, Zenon DEF TreeOfWriter, TreeAlone, Patching, NoTree
  <2> QED
    BY <1>1, <1>3, <2>1, <2>2, NoTreeIsTree, WriteStep, Zenon
<1>4. CASE UNCHANGED tree /\ Leave(p, "raw") /\ History(TRUE)
  BY <1>1, <1>4, AbandonKeeps, Zenon
<1> QED
  BY <1>2, <1>3, <1>4, Zenon DEF rmtree

LEMMA KillKeeps ==
  ASSUME Inv, NEW p \in Proc, Kill(p)
  PROVE  Inv'
<1>1. /\ Done(p, "killed") /\ UNCHANGED <<wrap, wrapfile, tree, cache, commands>>
      /\ History(Writing(p)) /\ ProcType /\ lock' = IF lock = p THEN NoProc ELSE lock
  BY TypesAre DEF Kill, Inv
<1>2. /\ proc' \in [Proc -> Procs] /\ proc'[p].pc = "done"
      /\ \A q \in Proc \ {p} : proc'[q] = proc[q]
  BY <1>1, DoneFacts
<1>3. /\ ProcType' /\ lock' # p /\ \A q \in Proc \ {p} : lock' = q <=> lock = q
  BY <1>1, <1>2, ConstantsAssumption DEF ProcType
<1>4. LocalInv(p)' /\ ArchiveInv(p)' /\ TreeOfWriter(p)'
  BY <1>2, <1>3 DEF LocalInv, ArchiveInv, TreeOfWriter, Fetching, Patching
<1>5. Writing(p) \in BOOLEAN
  BY DEF Writing
<1> QED
  BY <1>1, <1>2, <1>3, <1>4, <1>5, QuietStep, Zenon

-----------------------------------------------------------------------------
\* what `update` and `purge` do first; a tree that nobody writes is whole
LEMMA Runner_updateKeeps ==
  ASSUME Inv, NEW p \in Proc, Runner_update(p)
  PROVE  Inv'
<1>1. /\ proc[p].pc = "isdir" /\ proc[p].cmd = "update" /\ History(FALSE)
      /\ UNCHANGED <<wrap, wrapfile, tree, cache, lock, commands>>
      /\ ProcType /\ LocalInv(p) /\ ~Writing(p) /\ cut \in BOOLEAN
  BY TypesAre, Zenon DEF Runner_update, Inv, LockInv, Writing
<1>2. CASE Done(p, "failed")
  <2>1. /\ proc' \in [Proc -> Procs] /\ proc'[p].pc = "done"
        /\ \A q \in Proc \ {p} : proc'[q] = proc[q]
    BY <1>1, <1>2, DoneFacts
  <2>2. LocalInv(p)' /\ ArchiveInv(p)' /\ TreeOfWriter(p)' /\ ProcType'
    BY <1>1, <2>1, Zenon DEF LocalInv, ArchiveInv, TreeOfWriter, Fetching, Patching, ProcType
  <2> QED
    BY <1>1, <2>1, <2>2, QuietStep, Zenon
<1>3. ASSUME NEW pc \in {"move", "remove"}, Goto(p, pc), tree.files # "absent"
      PROVE  Inv'
  <2>1. /\ ProcType' /\ proc'[p].pc = pc /\ SameBut(p)
        /\ \A q \in Proc \ {p} : proc'[q] = proc[q]
    BY <1>1, <1>3, GotoFacts, Zenon
  <2>2. LocalInv(p)' /\ ArchiveInv(p)' /\ Writing(p)'
    BY <1>1, <1>3, <2>1 DEF LocalInv, ArchiveInv, SameBut, Fetching, Patching, Writing
  <2>3. ASSUME ~cut, ~cut'
        PROVE  TreeOfWriter(p)'
    <3>1. \A q, r \in Proc : Writing(q)' /\ Writing(r)' => q = r
      BY <1>1, <2>3, CleanHistory, Zenon DEF Inv, AbsentIsNone
    <3>2. \A q \in Proc : ~Writing(q)
      BY <1>1, <2>1, <2>2, <3>1, Zenon DEF Writing
    <3>3. Whole /\ HashKnown
      BY <1>3, <2>3, <3>2 DEF Inv, TreeInv, Writers, TreeAlone
    <3> QED
      BY <1>1, <1>3, <2>1, <3>3, Zenon DEF TreeOfWriter, Patching, Whole, HashKnown
  <2> QED
    BY <1>1, <2>1, <2>2, <2>3, QuietStep, Zenon
<1>4. CASE tree.files = "absent" /\ Goto(p, "unused")
  <2>1. /\ ProcType' /\ proc'[p].pc = "unused" /\ SameBut(p)
        /\ \A q \in Proc \ {p} : proc'[q] = proc[q]
    BY <1>1, <1>4, GotoFacts, Zenon
  <2>2. LocalInv(p)' /\ ArchiveInv(p)' /\ Writing(p)'
    BY <1>1, <1>4, <2>1 DEF LocalInv, ArchiveInv, SameBut, Fetching, Patching, Writing
  <2>3. TreeOfWriter(p)'
    BY <1>1, <1>4, <2>1 DEF TreeOfWriter, Patching
  <2> QED
    BY <1>1, <2>1, <2>2, <2>3, QuietStep, Zenon
<1> QED
  BY <1>2, <1>3, <1>4, Zenon DEF Runner_update

LEMMA Runner_purgeKeeps ==
  ASSUME Inv, NEW p \in Proc, Runner_purge(p)
  PROVE  Inv'
<1>1. /\ proc[p].pc = "isdir" /\ History(FALSE) /\ Goto(p, "remove")
      /\ UNCHANGED <<wrap, wrapfile, tree, lock, commands>>
      /\ ProcType /\ LocalInv(p) /\ tree \in Trees /\ cache \in Caches
  BY TypesAre, Zenon DEF Runner_purge, Inv, LockInv
<1>2. /\ ProcType' /\ proc'[p].pc = "remove" /\ SameBut(p)
      /\ \A q \in Proc \ {p} : proc'[q] = proc[q]
  BY <1>1, GotoFacts, Zenon
<1>3. /\ LocalInv(p)' /\ ArchiveInv(p)' /\ Writing(p)' /\ TreeOfWriter(p)'
  BY <1>1, <1>2, Zenon DEF LocalInv, ArchiveInv, SameBut, Fetching, Patching, Writing, TreeOfWriter
<1>4. /\ cache' \in Caches
      /\ \A r \in Revision : cache'["source"][r] \in {cache["source"][r], Nothing}
  <2>1. CASE UNCHANGED cache
    BY <1>1, <2>1
  <2>2. CASE cache' = [what \in DOMAIN cache |->
                         [cache[what] EXCEPT ![filename(proc[p].rev)] = Nothing]]
    BY <1>1, <2>2, Zenon DEF Caches
  <2> QED
    BY <2>1, <2>2 DEF Runner_purge
<1>5. CacheKept(p)
  <2> SUFFICES ASSUME NEW q \in Proc, proc[q].pc = "unpack"
               PROVE  filename(proc[q].rev) \in Revision
    BY <1>4, Zenon DEF CacheKept
  <2> QED
    BY ConstantsAssumption DEF Inv, LockInv, LocalInv, filename, Revision
<1>6. TypeInv' /\ AbsentIsNone' /\ Frame(p)
  BY <1>1, <1>2, <1>4, StepTypes, HistoryType, Zenon DEF Inv, AbsentIsNone, Frame
<1> QED
  BY <1>1, <1>2, <1>3, <1>5, <1>6, StepKeeps, Zenon

LEMMA git_stashKeeps ==
  ASSUME Inv, NEW p \in Proc, git_stash(p)
  PROVE  Inv'
<1>1. /\ proc[p].pc = "move" /\ tree.files # "absent" /\ History(FALSE) /\ Goto(p, "moving")
      /\ UNCHANGED <<wrap, wrapfile, cache, lock, commands>>
      /\ tree' \in {Stashed, tree}
      /\ ProcType /\ LocalInv(p) /\ tree \in Trees /\ Writing(p) /\ wrap.overlaid \in BOOLEAN
  BY TypesAre, ConstantsAssumption, Zenon DEF git_stash, Inv, LockInv, Writing
<1>2. /\ ProcType' /\ proc'[p].pc = "moving" /\ SameBut(p)
      /\ \A q \in Proc \ {p} : proc'[q] = proc[q]
  BY <1>1, GotoFacts, Zenon
<1>3. LocalInv(p)' /\ ArchiveInv(p)' /\ Writing(p)'
  BY <1>1, <1>2 DEF LocalInv, ArchiveInv, SameBut, Fetching, Patching, Writing
<1>4. Stashed \in Trees
  <2>1. /\ (IF tree.patch = "none" THEN tree.patch ELSE "stashed") \in {"none", "stashed"}
        /\ (tree.build /\ ~wrap.overlaid) \in BOOLEAN
    OBVIOUS
  <2>2. \A s \in {"none", "stashed"}, b \in BOOLEAN : [tree EXCEPT !.patch = s, !.build = b] \in Trees
    BY <1>1, Zenon DEF Trees
  <2> QED
    BY <2>1, <2>2, Zenon DEF Stashed
<1>5. /\ Stashed.files = tree.files /\ Stashed.rev = tree.rev /\ Stashed.hash = tree.hash
      /\ Stashed.patch = IF tree.patch = "none" THEN "none" ELSE "stashed"
  BY <1>1 DEF Stashed, Trees
<1>6. tree' \in Trees /\ tree'.files # "absent"
  BY <1>1, <1>4, <1>5
<1>7. ASSUME ~cut
      PROVE  TreeOfWriter(p)'
  <2>1. Whole /\ HashKnown
    BY <1>1, <1>7 DEF Inv, TreeInv, TreeOfWriter
  <2>2. (Whole /\ HashKnown)'
    BY <1>1, <1>5, <2>1 DEF Whole, HashKnown
  <2> QED
    BY <1>2, <2>2 DEF TreeOfWriter, Patching
<1> QED
  BY <1>1, <1>2, <1>3, <1>6, <1>7, WriteStep, Zenon

LEMMA git_reset_or_rebaseKeeps ==
  ASSUME Inv, NEW p \in Proc, git_reset_or_rebase(p)
  PROVE  Inv'
<1>1. /\ proc[p].pc = "moving" /\ tree.files # "absent" /\ History(FALSE)
      /\ UNCHANGED <<wrap, wrapfile, cache, commands>>
      /\ ProcType /\ LocalInv(p) /\ tree \in Trees /\ Writing(p) /\ wrap.overlaid \in BOOLEAN
      /\ proc[p].rev \in Revision /\ proc[p].cmd = "update" /\ lock # p
  BY TypesAre, ConstantsAssumption, Zenon
     DEF git_reset_or_rebase, Inv, LockInv, LocalInv, Fetching, Patching, Writing
<1>2. PICK files \in {"all", tree.files} :
        tree' = [tree EXCEPT !.files = files, !.rev = proc[p].rev,
                             !.build = @ \/ (files = "all" /\ ~wrap.overlaid)]
  BY Zenon DEF git_reset_or_rebase
<1>3. tree' \in Trees
  <2>1. files \in {"absent", "growing", "all", "holed"}
    BY <1>1 DEF Trees
  <2>2. (tree.build \/ (files = "all" /\ ~wrap.overlaid)) \in BOOLEAN
    OBVIOUS
  <2> QED
    BY <1>1, <1>2, <2>1, <2>2, Zenon DEF Trees
<1>4. tree'.files = files /\ tree'.rev = proc[p].rev /\ tree'.patch = tree.patch
      /\ files # "absent"
  BY <1>1, <1>2 DEF Trees
<1>5. ~cut => Whole /\ Whole' /\ tree'.files = "all"
  BY <1>1, <1>4 DEF Inv, TreeInv, TreeOfWriter, Whole, Revision, Nothing
<1>6. CASE Goto(p, "patch") /\ UNCHANGED lock
  <2>1. /\ ProcType' /\ proc'[p].pc = "patch" /\ SameBut(p)
        /\ \A q \in Proc \ {p} : proc'[q] = proc[q]
    BY <1>1, <1>6, GotoFacts, Zenon
  <2>2. LocalInv(p)' /\ ArchiveInv(p)' /\ Writing(p)'
    BY <1>1, <1>6, <2>1 DEF LocalInv, ArchiveInv, SameBut, Fetching, Patching, Writing
  <2>3. ~cut => TreeOfWriter(p)'
    BY <1>1, <1>4, <1>5, <1>6, <2>1, Zenon DEF TreeOfWriter, Patching, SameBut
  <2> QED
    BY <1>1, <1>3, <1>4, <1>6, <2>1, <2>2, <2>3, WriteStep, Zenon
<1>7. CASE Leave(p, "ok")
  <2>1. /\ ProcType' /\ LocalInv(p)' /\ ArchiveInv(p)'
        /\ \A q \in Proc \ {p} : proc'[q] = proc[q] /\ (lock' = q <=> lock = q)
        /\ proc'[p].pc = "hash" /\ proc'[p].rev = proc[p].rev
    BY <1>1, <1>7, LeaveFacts, Zenon
  <2>2. Writing(p)' /\ (~cut => TreeOfWriter(p)')
    BY <1>4, <1>5, <2>1, Zenon DEF TreeOfWriter, Patching, Writing
  <2> QED
    BY <1>1, <1>3, <1>4, <2>1, <2>2, WriteStep, Zenon
<1> QED
  BY <1>6, <1>7, Zenon DEF git_reset_or_rebase

LEMMA git_failedKeeps ==
  ASSUME Inv, NEW p \in Proc, git_failed(p)
  PROVE  Inv'
<1>1. /\ proc[p].pc \in {"move", "moving"} /\ Leave(p, "failed")
      /\ History(proc[p].pc = "moving") /\ ProcType /\ LocalInv(p)
      /\ UNCHANGED <<wrap, wrapfile, tree, cache, commands>>
  BY TypesAre, Zenon DEF git_failed, Inv, LockInv
<1>2. CASE proc[p].pc = "moving"
  BY <1>1, <1>2, AbandonKeeps, Zenon
<1>3. CASE proc[p].pc = "move"
  <2>1. /\ ProcType' /\ LocalInv(p)' /\ ArchiveInv(p)' /\ proc'[p].pc = "done"
        /\ \A q \in Proc \ {p} : proc'[q] = proc[q] /\ (lock' = q <=> lock = q)
    <3>1. proc[p].pc \notin {"idle", "done"}
      BY <1>3
    <3> QED
      BY <1>1, <3>1, LeaveFailed, Zenon
  <2>2. TreeOfWriter(p)'
    BY <2>1 DEF TreeOfWriter, Patching
  <2>3. ~cut => TreeAlone'
    BY <1>1, <1>3 DEF Inv, TreeInv, TreeOfWriter, TreeAlone, Whole, HashKnown
  <2>4. History(FALSE)
    BY <1>1, <1>3, Zenon
  <2> QED
    BY <1>1, <2>1, <2>2, <2>3, <2>4, QuietStep, Zenon
<1> QED
  BY <1>1, <1>2, <1>3

\* the tree has moved; its hash is that of the new revision, or the history says so
LEMMA update_git_done_failedKeeps ==
  ASSUME Inv, NEW p \in Proc, update_git_done_failed(p)
  PROVE  Inv'
<1> DEFINE a == tree.hash # proc[p].rev
<1>1. /\ proc[p].pc = "hash" /\ Done(p, "failed") /\ History(a) /\ a \in BOOLEAN
      /\ UNCHANGED <<wrap, wrapfile, tree, cache, lock, commands>>
      /\ ProcType /\ LocalInv(p)
  BY TypesAre, Zenon DEF update_git_done_failed, Inv, LockInv
<1>2. /\ proc' \in [Proc -> Procs] /\ proc'[p].pc = "done"
      /\ \A q \in Proc \ {p} : proc'[q] = proc[q]
  BY <1>1, DoneFacts
<1>3. LocalInv(p)' /\ ArchiveInv(p)' /\ ProcType' /\ TreeOfWriter(p)'
  BY <1>1, <1>2, Zenon DEF LocalInv, ArchiveInv, TreeOfWriter, Fetching, Patching, ProcType
<1>4. (~cut /\ ~a) => TreeAlone'
  BY <1>1, Zenon DEF Inv, TreeInv, TreeOfWriter, TreeAlone, Whole, HashKnown
<1> HIDE DEF a
<1> QED
  BY <1>1, <1>2, <1>3, <1>4, QuietStep, Zenon

LEMMA update_hash_cacheKeeps ==
  ASSUME Inv, NEW p \in Proc, update_hash_cache(p)
  PROVE  Inv'
<1>1. /\ proc[p].pc \in {"hash", "unused"} /\ Done(p, "ok") /\ History(FALSE)
      /\ UNCHANGED <<wrap, wrapfile, cache, lock, commands>>
      /\ tree' = IF tree.files = "absent" THEN tree ELSE [tree EXCEPT !.hash = proc[p].rev]
      /\ ProcType /\ LocalInv(p) /\ tree \in Trees /\ Writing(p) /\ proc[p].rev \in Revision
  BY TypesAre, Zenon DEF update_hash_cache, Inv, LockInv, LocalInv, Writing
<1>2. /\ proc' \in [Proc -> Procs] /\ proc'[p].pc = "done"
      /\ \A q \in Proc \ {p} : proc'[q] = proc[q]
  BY <1>1, DoneFacts
<1>3. LocalInv(p)' /\ ArchiveInv(p)' /\ ProcType' /\ TreeOfWriter(p)'
  BY <1>1, <1>2 DEF LocalInv, ArchiveInv, TreeOfWriter, Fetching, Patching, ProcType
<1>4. /\ tree' \in Trees /\ tree'.files = tree.files /\ tree'.rev = tree.rev
      /\ tree'.patch = tree.patch /\ (tree.files # "absent" => tree'.hash = proc[p].rev)
      /\ tree'.files = "absent" => tree' = NoTree
  BY <1>1 DEF Trees, Inv, AbsentIsNone
<1>5. ~cut => TreeAlone'
  BY <1>1, <1>4 DEF Inv, TreeInv, TreeOfWriter, TreeAlone, Whole, HashKnown
<1> QED
  BY <1>1, <1>2, <1>3, <1>4, <1>5, WriteStep, Zenon

LEMMA SameKeeps ==
  ASSUME Inv, TypeInv', UNCHANGED <<wrap, tree, cache, lock, proc, cut>>
  PROVE  Inv'
<1>1. LockInv'
  <2>1. \A p \in Proc : LocalInv(p)' <=> LocalInv(p)
    BY DEF LocalInv, Fetching, Patching
  <2>2. \A p \in Proc : ArchiveInv(p)' <=> ArchiveInv(p)
    BY DEF ArchiveInv, cached, filename
  <2> QED
    BY <2>1, <2>2, Zenon DEF Inv, LockInv
<1>2. \A p \in Proc : Writing(p)' <=> Writing(p)
  BY DEF Writing
<1>3. OneWriter' /\ AbsentIsNone'
  BY <1>2 DEF Inv, OneWriter, AbsentIsNone
<1>4. TreeInv'
  <2>1. \A p \in Proc : TreeOfWriter(p)' <=> TreeOfWriter(p)
    BY DEF TreeOfWriter, Patching, Whole, HashKnown
  <2>2. TreeAlone' <=> TreeAlone
    BY DEF TreeAlone, Whole, HashKnown
  <2>3. Writers' = Writers
    BY <1>2, Zenon DEF Writers
  <2> QED
    BY <2>1, <2>2, <2>3, Zenon DEF Inv, TreeInv
<1> QED
  BY <1>1, <1>3, <1>4, Zenon DEF Inv

LEMMA update_wrapdbKeeps ==
  ASSUME Inv, update_wrapdb
  PROVE  Inv'
<1>1. UNCHANGED <<wrap, tree, cache, lock, proc, commands, cut>>
  BY DEF update_wrapdb
<1>2. wrapfile' \in Revision
  BY TypesAre, ConstantsAssumption DEF update_wrapdb, Inv, Revision
<1>3. TypeInv'
  BY <1>1, <1>2 DEF Inv, TypeInv, TypeOK
<1> QED
  BY <1>1, <1>3, SameKeeps
-----------------------------------------------------------------------------
LEMMA InitInv == Init => Inv
<1> SUFFICES ASSUME Init PROVE Inv
  OBVIOUS
<1>1. proc \in [Proc -> Procs] /\ \A p \in Proc : proc[p] = Idle
  BY IdleIsProc DEF Init
<1>2. Idle.pc = "idle"
  BY DEF Idle
<1>3. TypeInv
  <2>1. \A p \in Proc :
          /\ proc[p].cmd \in {"none", "setup", "download", "update", "purge"}
          /\ proc[p].result \in {"none", "ok", "failed"}
          /\ proc[p].rev \in Revision \union {Nothing} /\ proc[p].attempt \in 0..delays
    BY <1>1 DEF Procs
  <2>2. /\ wrap \in Wraps /\ lock \in Proc \union {NoProc} /\ cut \in BOOLEAN
        /\ wrapfile \in Revision /\ commands \in 0..MaxCommands
    <3>1. MaxRevision \in Nat /\ MaxRevision # 0 /\ MaxCommands \in Nat
      BY ConstantsAssumption
    <3>2. 1 \in Revision /\ 0 \in 0..MaxCommands
      BY <3>1 DEF Revision
    <3> QED
      BY <3>2, Zenon DEF Init
  <2>3. cache \in [{"source", "patch"} -> [Revision -> Revision \union {Nothing}]]
    BY DEF Init
  <2>4. tree \in Trees
    BY NoTreeIsTree DEF Init
  <2> QED
    BY <1>1, <2>1, <2>2, <2>3, <2>4, Zenon DEF TypeInv, TypeOK, Trees
<1>4. lock \notin Proc /\ tree = NoTree
  BY ConstantsAssumption DEF Init
<1>5. LockInv
  BY <1>1, <1>2, <1>4 DEF LockInv, LocalInv, ArchiveInv, Fetching, Patching
<1>6. OneWriter /\ AbsentIsNone
  BY <1>1, <1>2, <1>4 DEF OneWriter, AbsentIsNone, Writing
<1>7. TreeInv
  BY <1>1, <1>2, <1>4, NoTreeIsTree DEF TreeInv, TreeOfWriter, TreeAlone, Patching
<1> QED
  BY <1>3, <1>5, <1>6, <1>7, Zenon DEF Inv

LEMMA NextInv == Inv /\ [Next]_vars => Inv'
<1> SUFFICES ASSUME Inv, [Next]_vars PROVE Inv'
  OBVIOUS
<1>1. ASSUME NEW p \in Proc, Resolve(p)
      PROVE  Inv'
  BY <1>1, AcquireKeeps, LookKeeps, get_file_internalKeeps, downloadKeeps, unpackKeeps,
     unpackedKeeps, cloneKeeps, checkoutKeeps, apply_patchKeeps, patchedKeeps, finalKeeps,
     rmtreeKeeps, Zenon DEF Resolve
<1>2. ASSUME NEW p \in Proc, Step(p)
      PROVE  Inv'
  BY <1>1, <1>2, Runner_downloadKeeps, Runner_updateKeeps, Runner_purgeKeeps, git_stashKeeps,
     git_reset_or_rebaseKeeps, git_failedKeeps, update_git_done_failedKeeps,
     update_hash_cacheKeeps, Zenon DEF Step
<1>3. CASE Next
  BY <1>2, <1>3, StartKeeps, KillKeeps, update_wrapdbKeeps, Zenon DEF Next
<1>4. CASE UNCHANGED vars
  <2>1. TypeInv'
    BY <1>4 DEF vars, Inv, TypeInv, TypeOK
  <2> QED
    BY <1>4, <2>1, SameKeeps DEF vars
<1> QED
  BY <1>3, <1>4

LEMMA Invariant == Spec => []Inv
BY InitInv, NextInv, PTL DEF Spec

\* The state has its types, and the package cache never holds an archive without an
\* expected hash, for any number of meson processes on one source directory.
THEOREM TypeCorrect == Spec => []TypeOK
<1>1. Inv => TypeOK
  BY DEF Inv, TypeInv
<1> QED
  BY <1>1, Invariant, PTL

\* The hash kept in a tree that nobody is writing is that of the wrap file its
\* contents came from, whichever order setup, update, purge and changes of the wrap
\* file come in (update_hash_cache and validate in wrap.py).
THEOREM HashTellsRevision == Spec => []RevisionIsKnown
<1>1. Inv => RevisionIsKnown
  BY DEF Inv, TreeInv, TreeAlone, HashKnown, RevisionIsKnown
<1> QED
  BY <1>1, Invariant, PTL

-----------------------------------------------------------------------------
\* a step of q is none of p's
LEMMA OthersStay ==
  ASSUME Inv, NEW q \in Proc, Step(q) \/ Kill(q), NEW p \in Proc, p # q
  PROVE  proc'[p] = proc[p] /\ (lock' = p <=> lock = p)
<1>1. ProcType /\ NoProc \notin Proc
  BY TypesAre, ConstantsAssumption DEF Inv
<1>2. \A r : Done(q, r) => proc'[p] = proc[p]
  BY <1>1 DEF ProcType, Done
<1>3. \A pc : Goto(q, pc) => proc'[p] = proc[p]
  BY <1>1 DEF ProcType, Goto
<1>4. \A r : Leave(q, r) => proc'[p] = proc[p] /\ (lock' = p <=> lock = p)
  BY <1>1, <1>2 DEF ProcType, Leave
<1>5. \A r : Raise(q, r) => proc'[p] = proc[p] /\ (lock' = p <=> lock = p)
  BY <1>1, <1>4 DEF ProcType, Raise
<1>6. \A r : download_failed(q, r) => proc'[p] = proc[p] /\ (lock' = p <=> lock = p)
  BY <1>1, <1>5 DEF ProcType, download_failed
<1>7. CASE Acquire(q) \/ Look(q)
  BY <1>1, <1>3, <1>4, <1>7 DEF ProcType, Acquire, Look
<1>8. CASE get_file_internal(q) \/ unpack(q)
  BY <1>3, <1>5, <1>8, Zenon DEF get_file_internal, unpack
<1>9. CASE download(q)
  BY <1>1, <1>6, <1>9 DEF ProcType, download
<1>10. CASE unpacked(q) \/ clone(q) \/ checkout(q)
  BY <1>3, <1>4, <1>10, Zenon DEF unpacked, clone, checkout
<1>11. CASE apply_patch(q)
  BY <1>1, <1>3, <1>11 DEF ProcType, apply_patch
<1>12. CASE patched(q) \/ final(q) \/ rmtree(q)
  BY <1>3, <1>4, <1>5, <1>12, Zenon DEF patched, final, rmtree
<1>13. CASE Runner_download(q) \/ Runner_update(q) \/ Runner_purge(q)
  BY <1>2, <1>3, <1>13, Zenon DEF Runner_download, Runner_update, Runner_purge
<1>14. CASE \/ git_stash(q) \/ git_reset_or_rebase(q) \/ git_failed(q)
            \/ update_git_done_failed(q) \/ update_hash_cache(q)
  BY <1>2, <1>3, <1>4, <1>14, Zenon
     DEF git_stash, git_reset_or_rebase, git_failed, update_git_done_failed, update_hash_cache
<1>15. CASE Kill(q)
  BY <1>1, <1>2, <1>15 DEF Kill
<1> QED
  BY <1>7, <1>8, <1>9, <1>10, <1>11, <1>12, <1>13, <1>14, <1>15, Zenon DEF Step, Resolve

\* a step of another process or of none leaves p's command and its lock alone
LEMMA WhoseStep ==
  ASSUME Inv, [Next]_vars, NEW p \in Proc, proc[p].pc \notin {"idle", "done"},
         ~Step(p), ~Kill(p)
  PROVE  proc'[p] = proc[p] /\ (lock' = p <=> lock = p)
<1>1. ASSUME NEW q \in Proc, Step(q) \/ Kill(q)
      PROVE  proc'[p] = proc[p] /\ (lock' = p <=> lock = p)
  BY <1>1, OthersStay, Zenon
<1>2. ASSUME NEW q \in Proc, NEW cmd, NEW reset, NEW nodownload, Start(q, cmd, reset, nodownload)
      PROVE  proc'[p] = proc[p] /\ lock' = lock
  <2>1. ProcType /\ p # q
    BY <1>2, TypesAre DEF Inv, Start
  <2> QED
    BY <1>2, <2>1 DEF Start, ProcType
<1>3. CASE update_wrapdb \/ UNCHANGED vars
  BY <1>3 DEF update_wrapdb, vars
<1> QED
  BY <1>1, <1>2, <1>3, Zenon DEF Next

\* resolve() returns from the check of the build file, or from its end
LEMMA ResolvesFrom ==
  ASSUME Inv, [Next]_vars, NEW p \in Proc, Resolves(p)
  PROVE  (proc[p].pc = "look" /\ tree.build) \/ proc[p].pc = "final"
<1>1. ProcType /\ LocalInv(p) /\ lock = p /\ lock' # p /\ proc'[p].result = "ok"
  BY TypesAre DEF Inv, LockInv, Resolves
<1>2. \/ proc[p].pc = "look" \/ Fetching(p) \/ Patching(p)
      \/ proc[p].pc \in {"remove", "removing"} /\ proc[p].result = "failed"
  BY <1>1 DEF LocalInv
<1>3. proc[p].pc \notin {"idle", "done", "lock", "isdir", "move", "moving", "hash",
                        "unused"}
  BY <1>2 DEF Fetching, Patching
<1>4. \A r : Leave(p, r) => r = "ok"
  BY <1>1, <1>3, LeaveFacts
<1>5. \A r : r # "ok" => ~Raise(p, r)
  BY <1>1, <1>3, <1>4 DEF Raise
<1>6. ~Kill(p)
  BY <1>1, DoneFacts DEF Kill
<1>7. Resolve(p)
  <2>1. Step(p)
    BY <1>1, <1>3, <1>6, WhoseStep
  <2> QED
    BY <1>3, <2>1, Zenon DEF Step, Runner_download, Runner_update, Runner_purge, git_stash,
       git_reset_or_rebase, git_failed, update_git_done_failed, update_hash_cache
<1>8. ~Acquire(p) /\ ~get_file_internal(p) /\ ~unpack(p) /\ ~unpacked(p)
  BY <1>1, <1>4, <1>5, Zenon DEF Acquire, get_file_internal, unpack, unpacked
<1>9. ~download(p)
  BY <1>1, <1>5 DEF download, download_failed
<1>10. ~clone(p) /\ ~checkout(p) /\ ~apply_patch(p) /\ ~patched(p)
  BY <1>1, <1>4, <1>5, Zenon DEF clone, checkout, apply_patch, patched
<1>11. ~rmtree(p)
  BY <1>1, <1>2, <1>4, Zenon DEF rmtree, Fetching, Patching
<1>12. Look(p) => tree.build
  BY <1>1, <1>4 DEF Look
<1> QED
  BY <1>7, <1>8, <1>9, <1>10, <1>11, <1>12, Zenon DEF Resolve, Look, final

\* A resolve() that returns hands over all the files of a revision of the wrap file,
\* patched, although it only looks for a build file (Resolver._resolve in wrap.py):
\* every way in which a fetch under the lock fails leaves no tree, or none with a
\* clean history.
THEOREM ResolveHandsOverAll == Spec => ResolvedIsWhole
<1>1. ASSUME Inv, [Next]_vars, NEW p \in Proc, Resolves(p), Undisturbed(p)
      PROVE  /\ tree.files = "all" /\ tree.rev # Nothing
             /\ wrap.patch # "none" => tree.patch \in {"all", "stashed"}
  <2>1. ~cut /\ \A q \in Proc : Writing(q) => q = p
    BY <1>1 DEF Undisturbed, Writers
  <2>2. CASE proc[p].pc = "look" /\ tree.build
    <3>1. Writers = {}
      BY <2>1, <2>2 DEF Writers, Writing
    <3>2. tree.files # "absent"
      BY <1>1, <2>2 DEF Inv, AbsentIsNone, NoTree
    <3> QED
      BY <1>1, <2>1, <3>1, <3>2 DEF Inv, TreeInv, TreeAlone, Whole
  <2>3. CASE proc[p].pc = "final"
    <3>1. TreeOfWriter(p) /\ proc[p].rev \in Revision
      BY <1>1, <2>1, <2>3 DEF Inv, TreeInv, LockInv, LocalInv
    <3> QED
      BY <2>3, <3>1 DEF TreeOfWriter, Patching, Revision, Nothing
  <2> QED
    BY <1>1, <2>2, <2>3, ResolvesFrom
<1>2. Inv /\ [Next]_vars =>
        [\A p \in Proc : (Resolves(p) /\ Undisturbed(p)) =>
           /\ tree.files = "all" /\ tree.rev # Nothing
           /\ wrap.patch # "none" => tree.patch \in {"all", "stashed"}]_vars
  BY <1>1
<1> QED
  BY <1>2, Invariant, PTL DEF Spec, ResolvedIsWhole

\* When `meson subprojects update` reports success (Runner.update), and nobody else
\* wrote the tree meanwhile, all of it is at the revision the wrap file asked for, and
\* the hash kept in it says so.
THEOREM UpdateReachesRevision == Spec => UpdateIsExact
<1>1. ASSUME Inv, [Next]_vars, NEW p \in Proc, Undisturbed(p),
             proc[p].pc = "hash", proc'[p].pc = "done", proc'[p].result = "ok"
      PROVE  tree.files = "all" /\ tree'.rev = proc[p].rev /\ tree'.hash = proc[p].rev
  <2>1. ProcType /\ tree \in Trees
    BY <1>1, TypesAre DEF Inv
  <2>2. tree.files = "all" /\ tree.rev = proc[p].rev
    BY <1>1 DEF Undisturbed, Inv, TreeInv, TreeOfWriter, Whole
  <2>3. ~Kill(p)
    BY <1>1, <2>1, DoneFacts DEF Kill
  <2>4. Step(p)
    BY <1>1, <2>3, WhoseStep, Zenon
  <2>5. ~update_git_done_failed(p)
    BY <1>1, <2>1, DoneFacts DEF update_git_done_failed
  <2>6. update_hash_cache(p)
    BY <1>1, <2>4, <2>5 DEF Step, Resolve, Acquire, Look, get_file_internal, download, unpack, unpacked,
       clone, checkout, apply_patch, patched, final, rmtree, Runner_download, Runner_update,
       Runner_purge, git_stash, git_reset_or_rebase, git_failed
  <2> QED
    BY <2>1, <2>2, <2>6 DEF update_hash_cache, Trees
<1>2. Inv /\ [Next]_vars =>
        [\A p \in Proc : (proc[p].pc = "hash" /\ proc'[p].pc = "done" /\ proc'[p].result = "ok"
                           /\ Undisturbed(p))
           => /\ tree.files = "all" /\ tree'.rev = proc[p].rev /\ tree'.hash = proc[p].rev]_vars
  BY <1>1
<1> QED
  BY <1>2, Invariant, PTL DEF Spec, UpdateIsExact
=============================================================================
