------------------------- MODULE Dependencies_proof -------------------------
(***************************************************************************)
(* Proofs about Dependencies, for any projects, names, wrap files, systems *)
(* and numbers of calls.  The inductive invariant Inv describes the stack  *)
(* of interpreters: each has the overrides of those below it, took its     *)
(* snapshot of the known subprojects before it was one of them, and has    *)
(* overrides that come from the projects under it, from subprojects in the *)
(* snapshot above it that have not failed, or from the system.  It is      *)
(* proved per change of the stack: an interpreter starts, gains overrides, *)
(* is merged into its caller, or is discarded with those above it.         *)
(***************************************************************************)
EXTENDS Dependencies, NaturalsInduction, WellFoundedInduction, TLAPS

\* What an interpreter on the stack may be.
Use == Name \X Dep
Overrides == UNION {[D -> Dep] : D \in SUBSET Name}
Lookup == [names : Lists, version : {0, 2}, required : BOOLEAN, subproject_name : Sub \cup {Nothing}]
Frame ==
    [name : Sub \cup {Root}, required : BOOLEAN, configured : SUBSET Sub,
     dependency_overrides : Overrides, lookup : Lookup \cup {Nothing},
     used : SUBSET Use, made : SUBSET Use]

\* A pair of a name and a dependency that a dictionary has; a dictionary that
\* has all of another.
Agrees(u, o) == u[1] \in DOMAIN o /\ o[u[1]] = u[2]
Within(o, other) == \A n \in DOMAIN o : n \in DOMAIN other /\ other[n] = o[n]

\* The toplevel project is first, no project is on the stack twice, and a lookup
\* waits for the project above it.
Nested(st, subs) ==
    /\ st = << >> => DOMAIN subs = {}
    /\ st # << >> => st[1].name = Root
    /\ \A i, j \in 1..Len(st) : st[i].name = st[j].name => i = j
    /\ \A i \in 1..Len(st) : i < Len(st) /\ st[i].lookup # Nothing =>
            /\ st[i].lookup.subproject_name = st[i + 1].name
            /\ st[i].lookup.required = st[i + 1].required

\* The snapshots of the known subprojects grow with the stack and have no project
\* of the stack from theirs upwards; so do the overrides.
Snapshots(st, subs) ==
    /\ \A i \in 1..Len(st) : st[i].configured \subseteq DOMAIN subs
    /\ \A i, j \in 1..Len(st) : i <= j =>
        /\ st[i].configured \subseteq st[j].configured
        /\ st[j].name \notin st[i].configured
        /\ Within(st[i].dependency_overrides, st[j].dependency_overrides)

\* The subprojects that were known when the i-th project last ran.
Known(st, subs, i) == IF i < Len(st) THEN st[i + 1].configured ELSE DOMAIN subs

\* What a project found and what it declared is in its overrides.
Recorded(st) ==
    \A i \in 1..Len(st) : \A u \in st[i].used \cup st[i].made : Agrees(u, st[i].dependency_overrides)

\* Where the overrides come from.
Sources(st, subs) ==
    \A i \in 1..Len(st) : \A n \in DOMAIN st[i].dependency_overrides :
        LET s == st[i].dependency_overrides[n].src
        IN  s \in Sub => \/ \E j \in 1..i : st[j].name = s
                         \/ s \in Known(st, subs, i) /\ subs[s].state # "failed"

\* Each project has what the found subprojects it knows of have declared.
Merged(st, subs) ==
    \A i \in 1..Len(st) : \A s \in Known(st, subs, i) : subs[s].state = "found" =>
        \A m \in subs[s].made : Agrees(m, st[i].dependency_overrides)

\* A dependency of pkg-config has an entry in the cache d; if the entry was made
\* for pkg-config, it was found with the path p.
Fits(dep, d, p) ==
    dep.type = "pkgconfig" =>
        /\ dep.name \in DOMAIN d
        /\ d[dep.name].type = "pkgconfig" => dep.path = p

Current(st, d, p) ==
    \A i \in 1..Len(st) : \A n \in DOMAIN st[i].dependency_overrides :
        Fits(st[i].dependency_overrides[n], d, p)

\* The entries of a cache are under their name, and those of pkg-config under
\* their path.
CacheInv(d) ==
    /\ DOMAIN d \subseteq Name
    /\ \A n \in DOMAIN d : \A k \in DOMAIN d[n].deps :
        LET dep == d[n].deps[k]
        IN  /\ dep \in SystemDep /\ dep.name = n
            /\ d[n].type = "pkgconfig" /\ dep.type = "pkgconfig" => dep.path = k

\* What the system offers is searched for with the path p.
SystemInv(sys, p) ==
    /\ sys \in [Name -> Dep]
    /\ \A n \in Name :
        \/ sys[n] = NotFound
        \/ /\ sys[n] \in SystemDep /\ sys[n].name = n
           /\ sys[n].type = "pkgconfig" => sys[n].path = p

StackInv(st, subs, d, p) ==
    /\ st \in Seq(Frame) /\ DOMAIN subs \subseteq Sub
    /\ Nested(st, subs) /\ Snapshots(st, subs)
    /\ Recorded(st) /\ Sources(st, subs) /\ Merged(st, subs)
    /\ Current(st, d, p)

Inv ==
    /\ StackInv(stack, subprojects, deps, path)
    /\ CacheInv(deps) /\ CacheInv(saved) /\ SystemInv(system, path)
    /\ path \in Path /\ calls \in 0..MaxCalls
    /\ wrap_mode \in {"default", "nofallback", "forcefallback"}

----------------------------------------------------------------------------
(* Operators on lists and dictionaries *)

\* The first element of a list in S is one of them in S.
LEMMA FirstIs ==
  ASSUME NEW list, Len(list) \in Nat, NEW S, \E x \in Elements(list) : x \in S
  PROVE  First(list, S) \in S /\ First(list, S) \in Elements(list)
<1> DEFINE T == {i \in 1..Len(list) : list[i] \in S}
           R == OpToRel(<, Nat)
           P(i) == list[i] \in S /\ \A j \in 1..(i - 1) : list[j] \notin S
<1>1. T \subseteq Nat /\ T # {}
  BY DEF Elements
<1>2. PICK x \in T : \A y \in T : ~(<<y, x>> \in R)
  <2>1. IsWellFoundedOn(R, Nat)
    BY NatLessThanWellFounded, Zenon
  <2> HIDE DEF R, T
  <2> QED  BY <1>1, <2>1, WFMin, Zenon
<1>3. \A y \in T : ~(y < x)
  <2>1. TAKE y \in T
  <2>2. <<y, x>> \in R <=> <<y, x>> \in Nat \X Nat /\ y < x
    BY DEF OpToRel
  <2>3. <<y, x>> \in Nat \X Nat
    BY <1>1
  <2> QED  BY <1>2, <2>2, <2>3, Zenon
<1>4. x \in 1..Len(list) /\ P(x)
  BY <1>3
<1>5. PICK i \in 1..Len(list) : P(i) /\ First(list, S) = list[i]
  <2> HIDE DEF P
  <2>1. (CHOOSE i \in 1..Len(list) : P(i)) \in 1..Len(list) /\ P(CHOOSE i \in 1..Len(list) : P(i))
    BY <1>4, Zenon
  <2>2. First(list, S) = list[CHOOSE i \in 1..Len(list) : P(i)]
    BY Zenon DEF First, P
  <2> QED  BY <2>1, <2>2, Zenon
<1> QED  BY <1>5 DEF Elements

\* Membership in a set of dictionaries.
LEMMA OverridesAre ==
  ASSUME NEW o
  PROVE  o \in Overrides <=> \E D \in SUBSET Name : o \in [D -> Dep]
BY Zenon DEF Overrides

\* The overrides of a project give names dependencies, also after d[n] = dep.
LEMMA OverridesHave ==
  ASSUME NEW o \in Overrides
  PROVE  DOMAIN o \subseteq Name /\ \A n \in DOMAIN o : o[n] \in Dep
<1>1. PICK D \in SUBSET Name : o \in [D -> Dep]
  BY OverridesAre, Zenon
<1> QED  BY <1>1

LEMMA WithIs ==
  ASSUME NEW o \in Overrides, NEW n \in Name, NEW dep \in Dep
  PROVE  With(o, n, dep) \in Overrides
<1>1. With(o, n, dep) \in [DOMAIN o \cup {n} -> Dep] /\ DOMAIN o \cup {n} \subseteq Name
  BY OverridesHave DEF With
<1> QED  BY <1>1, OverridesAre, Zenon

----------------------------------------------------------------------------


(* What each change of the stack preserves *)

\* The cache keeps its entries and their types.
Grows(d, new) == \A n \in DOMAIN d : n \in DOMAIN new /\ new[n].type = d[n].type

\* A dependency that a project may put into its overrides: one of a subproject
\* that did not fail, its own, or one found with the current path.
Usable(dep, name, subs, d, p) ==
    /\ dep.src \in Sub => dep.src = name \/ (dep.src \in DOMAIN subs /\ subs[dep.src].state # "failed")
    /\ Fits(dep, d, p)

\* The fields of an interpreter.
LEMMA FrameHas ==
  ASSUME NEW f \in Frame
  PROVE  /\ f.name \in Sub \cup {Root} /\ f.configured \subseteq Sub
         /\ f.required \in BOOLEAN
         /\ f.dependency_overrides \in Overrides /\ f.lookup \in Lookup \cup {Nothing}
         /\ f.used \subseteq Use /\ f.made \subseteq Use
BY DEF Frame

\* What a larger cache, or a larger dictionary, still has.
LEMMA FitsStill ==
  ASSUME NEW d, NEW new, Grows(d, new), NEW p, NEW dep, Fits(dep, d, p)
  PROVE  Fits(dep, new, p)
BY DEF Grows, Fits

LEMMA WithinTrans ==
  ASSUME NEW a, NEW b, NEW c, Within(a, b), Within(b, c)
  PROVE  Within(a, c)
BY DEF Within

LEMMA AgreesStill ==
  ASSUME NEW a, NEW b, Within(a, b), NEW u, Agrees(u, a)
  PROVE  Agrees(u, b)
BY DEF Within, Agrees

\* The running project was f and is g, with more overrides.
Amends(f, g, subs, d, p) ==
    /\ g.name = f.name /\ g.required = f.required /\ g.configured = f.configured
    /\ Within(f.dependency_overrides, g.dependency_overrides)
    /\ \A u \in g.used \cup g.made : Agrees(u, g.dependency_overrides)
    /\ \A n \in DOMAIN g.dependency_overrides :
        \/ \E m \in DOMAIN f.dependency_overrides :
                g.dependency_overrides[n] = f.dependency_overrides[m]
        \/ Usable(g.dependency_overrides[n], f.name, subs, d, p)

\* Such a change preserves the invariant, and so does a larger cache.
LEMMA Amended ==
  ASSUME NEW st, NEW subs, NEW d, NEW new, NEW p, StackInv(st, subs, d, p), Grows(d, new),
         st # << >>, NEW g \in Frame, Amends(st[Len(st)], g, subs, new, p)
  PROVE  StackInv([st EXCEPT ![Len(st)] = g], subs, new, p)
<1>0. st \in Seq(Frame)
  BY DEF StackInv
<1>k. PICK k \in Nat : k = Len(st) /\ k # 0
  BY <1>0
<1>f. PICK f : f = st[k]
  OBVIOUS
<1>a. /\ g.name = f.name /\ g.required = f.required /\ g.configured = f.configured
      /\ Within(f.dependency_overrides, g.dependency_overrides)
      /\ \A u \in g.used \cup g.made : Agrees(u, g.dependency_overrides)
      /\ \A n \in DOMAIN g.dependency_overrides :
            \/ \E m \in DOMAIN f.dependency_overrides :
                    g.dependency_overrides[n] = f.dependency_overrides[m]
            \/ Usable(g.dependency_overrides[n], f.name, subs, new, p)
  BY <1>k, <1>f DEF Amends
<1> USE <1>k, <1>f, <1>a
<1> DEFINE t == [st EXCEPT ![k] = g]
<1>1. t \in Seq(Frame) /\ Len(t) = k /\ t[k] = g /\ \A i \in 1..k : i # k => t[i] = st[i]
  BY <1>0
<1> HIDE DEF t
<1>2. /\ \A i \in 1..k : t[i].name = st[i].name /\ t[i].required = st[i].required
                         /\ t[i].configured = st[i].configured
      /\ \A i \in 1..k : Within(st[i].dependency_overrides, t[i].dependency_overrides)
  BY <1>1 DEF Within
<1>3. Nested(t, subs)
  BY <1>0, <1>1, <1>2 DEF StackInv, Nested
<1>4. Snapshots(t, subs)
  <2>1. ASSUME NEW i \in 1..k, NEW j \in 1..k, i <= j
        PROVE  Within(t[i].dependency_overrides, t[j].dependency_overrides)
    <3>1. CASE i = k
      BY <2>1, <3>1 DEF Within
    <3>2. CASE i # k
      <4>1. Within(st[i].dependency_overrides, st[j].dependency_overrides)
        BY <2>1 DEF StackInv, Snapshots
      <4> QED  BY <3>2, <4>1, <1>1, <1>2, WithinTrans
    <3> QED  BY <3>1, <3>2
  <2> QED  BY <1>1, <1>2, <2>1 DEF StackInv, Snapshots
<1>5. Recorded(t)
  BY <1>1 DEF StackInv, Recorded
<1>6. \A i \in 1..k : Known(t, subs, i) = Known(st, subs, i)
  BY <1>1, <1>2 DEF Known
<1>7. Sources(t, subs)
  <2>1. ASSUME NEW i \in 1..k, i # k, NEW n \in DOMAIN t[i].dependency_overrides,
               t[i].dependency_overrides[n].src \in Sub
        PROVE  \/ \E j \in 1..i : t[j].name = t[i].dependency_overrides[n].src
               \/ /\ t[i].dependency_overrides[n].src \in Known(t, subs, i)
                  /\ subs[t[i].dependency_overrides[n].src].state # "failed"
    BY <1>1, <1>2, <1>6, <2>1 DEF StackInv, Sources
  <2>2. ASSUME NEW n \in DOMAIN g.dependency_overrides, g.dependency_overrides[n].src \in Sub
        PROVE  \/ \E j \in 1..k : t[j].name = g.dependency_overrides[n].src
               \/ /\ g.dependency_overrides[n].src \in Known(t, subs, k)
                  /\ subs[g.dependency_overrides[n].src].state # "failed"
    <3>1. CASE \E m \in DOMAIN f.dependency_overrides :
                    g.dependency_overrides[n] = f.dependency_overrides[m]
      BY <1>2, <1>6, <2>2, <3>1 DEF StackInv, Sources
    <3>2. CASE Usable(g.dependency_overrides[n], f.name, subs, new, p)
      BY <1>2, <2>2, <3>2, <1>1 DEF Usable, Known
    <3> QED  BY <3>1, <3>2
  <2> QED  BY <1>1, <2>1, <2>2 DEF Sources
<1>8. Merged(t, subs)
  <2>1. ASSUME NEW i \in 1..k, NEW s \in Known(t, subs, i), subs[s].state = "found",
               NEW m \in subs[s].made
        PROVE  Agrees(m, t[i].dependency_overrides)
    <3>1. Agrees(m, st[i].dependency_overrides)
      BY <1>6, <2>1 DEF StackInv, Merged
    <3> QED  BY <3>1, <1>2, AgreesStill
  <2> QED  BY <1>1, <2>1 DEF Merged
<1>9. Current(t, new, p)
  <2>1. ASSUME NEW i \in 1..k, NEW n \in DOMAIN st[i].dependency_overrides
        PROVE  Fits(st[i].dependency_overrides[n], new, p)
    BY <2>1, FitsStill DEF StackInv, Current
  <2>2. ASSUME NEW n \in DOMAIN g.dependency_overrides
        PROVE  Fits(g.dependency_overrides[n], new, p)
    BY <2>1, <2>2 DEF Usable
  <2> QED  BY <1>1, <2>1, <2>2 DEF Current
<1> QED  BY <1>1, <1>3, <1>4, <1>5, <1>7, <1>8, <1>9 DEF StackInv, t

\* The subproject g starts on a copy of the overrides of the running project f.
Starts(f, g, subs) ==
    /\ g.name \in Sub /\ g.name \notin DOMAIN subs
    /\ g.configured = DOMAIN subs /\ g.dependency_overrides = f.dependency_overrides
    /\ g.used = {} /\ g.made = {}
    /\ f.lookup # Nothing =>
            f.lookup.subproject_name = g.name /\ f.lookup.required = g.required

\* The invariant holds with it on the stack.
LEMMA Pushed ==
  ASSUME NEW st, NEW subs, NEW d, NEW p, StackInv(st, subs, d, p), st # << >>,
         NEW g \in Frame, Starts(st[Len(st)], g, subs),
         \A i \in 1..Len(st) : st[i].name # g.name
  PROVE  StackInv(Append(st, g), subs, d, p)
<1>0. st \in Seq(Frame)
  BY DEF StackInv
<1>l. PICK k \in Nat : k = Len(st) /\ k # 0
  BY <1>0
<1>f. PICK f : f = st[k]
  OBVIOUS
<1>a. /\ g.name \in Sub /\ g.name \notin DOMAIN subs /\ \A i \in 1..k : st[i].name # g.name
      /\ g.configured = DOMAIN subs /\ g.dependency_overrides = f.dependency_overrides
      /\ g.used = {} /\ g.made = {}
      /\ f.lookup # Nothing =>
            f.lookup.subproject_name = g.name /\ f.lookup.required = g.required
  BY <1>l, <1>f DEF Starts
<1> USE <1>l, <1>f, <1>a
<1> DEFINE t == Append(st, g)
<1>1. /\ t \in Seq(Frame) /\ Len(t) = k + 1 /\ t[k + 1] = g
      /\ \A i \in 1..k : t[i] = st[i]
      /\ t # << >> /\ st # << >>
  BY <1>0
<1> HIDE DEF t
<1>2. \A i \in 1..(k + 1) : i # k + 1 => i \in 1..k /\ t[i] = st[i]
  BY <1>1
<1>3. Nested(t, subs)
  <2>1. t[1].name = Root
    BY <1>1 DEF StackInv, Nested
  <2>2. ASSUME NEW i \in 1..(k + 1), NEW j \in 1..(k + 1), t[i].name = t[j].name PROVE i = j
    BY <1>1, <1>2, <2>2 DEF StackInv, Nested
  <2>3. ASSUME NEW i \in 1..(k + 1), i < k + 1, t[i].lookup # Nothing
        PROVE  t[i].lookup.subproject_name = t[i + 1].name /\ t[i].lookup.required = t[i + 1].required
    <3>1. CASE i = k
      BY <1>1, <2>3, <3>1
    <3>2. CASE i # k
      <4>1. i \in 1..k /\ i + 1 \in 1..k /\ i < k
        BY <2>3, <3>2
      <4> QED  BY <1>1, <2>3, <4>1 DEF StackInv, Nested
    <3> QED  BY <3>1, <3>2
  <2> QED  BY <1>1, <2>1, <2>2, <2>3 DEF Nested
<1>4. Snapshots(t, subs)
  <2>1. ASSUME NEW i \in 1..(k + 1), NEW j \in 1..(k + 1), i <= j
        PROVE  /\ t[i].configured \subseteq t[j].configured
               /\ t[j].name \notin t[i].configured
               /\ Within(t[i].dependency_overrides, t[j].dependency_overrides)
    <3>1. CASE j = k + 1 /\ i = k + 1
      BY <1>1, <3>1 DEF Within
    <3>2. CASE j = k + 1 /\ i # k + 1
      <4>1. /\ i \in 1..k /\ t[i] = st[i] /\ k \in 1..k /\ i <= k
            /\ st[i].configured \subseteq DOMAIN subs
            /\ Within(st[i].dependency_overrides, st[k].dependency_overrides)
        BY <1>1, <1>2, <3>2 DEF StackInv, Snapshots
      <4> QED  BY <1>1, <3>2, <4>1
    <3>3. CASE j # k + 1
      <4>1. i \in 1..k /\ j \in 1..k
        BY <2>1, <3>3
      <4> QED  BY <1>1, <2>1, <4>1 DEF StackInv, Snapshots
    <3> QED  BY <3>1, <3>2, <3>3
  <2>2. \A i \in 1..(k + 1) : t[i].configured \subseteq DOMAIN subs
    BY <1>1, <1>2 DEF StackInv, Snapshots
  <2> QED  BY <1>1, <2>1, <2>2 DEF Snapshots
<1>5. Recorded(t)
  BY <1>1, <1>2 DEF StackInv, Recorded
<1>6. /\ \A i \in 1..k : Known(t, subs, i) = Known(st, subs, i)
      /\ Known(t, subs, k + 1) = Known(st, subs, k)
  BY <1>1 DEF Known
<1>k. k \in 1..k
  OBVIOUS
<1>7. Sources(t, subs)
  <2>1. ASSUME NEW i \in 1..k, NEW n \in DOMAIN st[i].dependency_overrides,
               st[i].dependency_overrides[n].src \in Sub
        PROVE  \/ \E j \in 1..i : t[j].name = st[i].dependency_overrides[n].src
               \/ /\ st[i].dependency_overrides[n].src \in Known(st, subs, i)
                  /\ subs[st[i].dependency_overrides[n].src].state # "failed"
    BY <1>1, <2>1 DEF StackInv, Sources
  <2>2. ASSUME NEW i \in 1..(k + 1), NEW n \in DOMAIN t[i].dependency_overrides,
               t[i].dependency_overrides[n].src \in Sub
        PROVE  \/ \E j \in 1..i : t[j].name = t[i].dependency_overrides[n].src
               \/ /\ t[i].dependency_overrides[n].src \in Known(t, subs, i)
                  /\ subs[t[i].dependency_overrides[n].src].state # "failed"
    <3>1. CASE i = k + 1
      BY <1>1, <1>6, <1>k, <2>1, <2>2, <3>1
    <3>2. CASE i # k + 1
      BY <1>2, <1>6, <2>1, <2>2, <3>2
    <3> QED  BY <3>1, <3>2
  <2> QED  BY <1>1, <2>2 DEF Sources
<1>8. Merged(t, subs)
  <2>1. ASSUME NEW i \in 1..k, NEW s \in Known(st, subs, i), subs[s].state = "found",
               NEW m \in subs[s].made
        PROVE  Agrees(m, st[i].dependency_overrides)
    BY <2>1 DEF StackInv, Merged
  <2>2. ASSUME NEW i \in 1..(k + 1), NEW s \in Known(t, subs, i), subs[s].state = "found",
               NEW m \in subs[s].made
        PROVE  Agrees(m, t[i].dependency_overrides)
    <3>1. CASE i = k + 1
      BY <1>1, <1>6, <1>k, <2>1, <2>2, <3>1
    <3>2. CASE i # k + 1
      BY <1>2, <1>6, <2>1, <2>2, <3>2
    <3> QED  BY <3>1, <3>2
  <2> QED  BY <1>1, <2>2 DEF Merged
<1>9. Current(t, d, p)
  BY <1>1, <1>2, <1>k DEF StackInv, Current
<1> QED  BY <1>1, <1>3, <1>4, <1>5, <1>7, <1>8, <1>9 DEF StackInv, t

\* An optional subproject fails: it and what is above it leave the stack, what
\* it configured leaves the dictionary.
LEMMA Cut ==
  ASSUME NEW st, NEW subs, NEW d, NEW p, StackInv(st, subs, d, p),
         NEW k \in 2..Len(st), NEW new,
         new = With(forget(subs, st[k].configured), st[k].name, disabled_subproject("failed"))
  PROVE  StackInv(SubSeq(st, 1, k - 1), new, d, p)
<1> DEFINE t == SubSeq(st, 1, k - 1)
<1>0. st \in Seq(Frame) /\ Len(st) \in Nat /\ DOMAIN subs \subseteq Sub
  BY DEF StackInv
<1>k. /\ k \in 1..Len(st) /\ k - 1 \in 1..Len(st) /\ st[k] \in Frame /\ k # 1
      /\ \A i \in 1..(k - 1) : i \in 1..Len(st) /\ i <= k /\ i < Len(st)
                               /\ i + 1 \in 1..Len(st) /\ i + 1 <= k
  BY <1>0
<1>1. /\ t \in Seq(Frame) /\ Len(t) = k - 1 /\ t # << >> /\ st # << >>
      /\ \A i \in 1..(k - 1) : t[i] = st[i]
  BY <1>0
<1> HIDE DEF t
<1>2. /\ st[k].name \notin st[k].configured /\ st[k].configured \subseteq DOMAIN subs
      /\ \A i \in 1..(k - 1) : st[i].configured \subseteq st[k].configured
                               /\ st[k].name \notin st[i].configured
  BY <1>k DEF StackInv, Snapshots
<1>3. /\ DOMAIN new = st[k].configured \cup {st[k].name}
      /\ \A s \in st[k].configured : new[s] = subs[s]
      /\ new[st[k].name].state = "failed"
  BY <1>2 DEF With, forget, disabled_subproject
<1>4. st[k].name \in Sub
  <2>1. st[1].name = Root /\ st[k].name # st[1].name /\ 1 \in 1..Len(st)
    BY <1>1, <1>k DEF StackInv, Nested
  <2> QED  BY <2>1, <1>k, FrameHas
<1>5. DOMAIN new \subseteq Sub
  BY <1>0, <1>2, <1>3, <1>4
<1>6. Nested(t, new)
  <2>1. t[1].name = Root
    BY <1>1, <1>k DEF StackInv, Nested
  <2>2. ASSUME NEW i \in 1..(k - 1), NEW j \in 1..(k - 1), t[i].name = t[j].name PROVE i = j
    <3>1. i \in 1..Len(st) /\ j \in 1..Len(st) /\ st[i].name = st[j].name
      BY <1>1, <1>k, <2>2, Zenon
    <3>2. Nested(st, subs)
      BY Zenon DEF StackInv
    <3> QED  BY <3>1, <3>2 DEF Nested
  <2>3. ASSUME NEW i \in 1..(k - 1), i < k - 1, t[i].lookup # Nothing
        PROVE  t[i].lookup.subproject_name = t[i + 1].name /\ t[i].lookup.required = t[i + 1].required
    <3>1. i + 1 \in 1..(k - 1) /\ t[i + 1] = st[i + 1] /\ t[i] = st[i]
      BY <1>1, <2>3
    <3> QED  BY <1>k, <2>3, <3>1 DEF StackInv, Nested
  <2> QED  BY <1>1, <2>1, <2>2, <2>3 DEF Nested
<1>7. Snapshots(t, new)
  BY <1>1, <1>k, <1>2, <1>3, Zenon DEF StackInv, Snapshots
<1>8. Recorded(t)
  BY <1>1, <1>k DEF StackInv, Recorded
<1>9. \A i \in 1..(k - 1) : Known(st, subs, i) = st[i + 1].configured
                            /\ Known(st, subs, i) \subseteq st[k].configured
  BY <1>k, <1>2 DEF Known
<1>10. \A i \in 1..(k - 1) : Known(t, new, i) = IF i = k - 1 THEN st[k].configured \cup {st[k].name}
                                                 ELSE st[i + 1].configured
  BY <1>1, <1>k, <1>3 DEF Known
<1>11. /\ \A i \in 1..(k - 1) : Known(st, subs, i) \subseteq Known(t, new, i)
       /\ \A i \in 1..(k - 1) : \A s \in Known(t, new, i) :
            s \in Known(st, subs, i) \/ s = st[k].name
  BY <1>9, <1>10
<1>12. Sources(t, new)
  <2>1. ASSUME NEW i \in 1..(k - 1), NEW n \in DOMAIN st[i].dependency_overrides,
               st[i].dependency_overrides[n].src \in Sub
        PROVE  \/ \E j \in 1..i : st[j].name = st[i].dependency_overrides[n].src
               \/ /\ st[i].dependency_overrides[n].src \in Known(st, subs, i)
                  /\ subs[st[i].dependency_overrides[n].src].state # "failed"
    BY <1>k, <2>1 DEF StackInv, Sources
  <2>2. ASSUME NEW i \in 1..(k - 1), NEW s \in Known(st, subs, i), subs[s].state # "failed"
        PROVE  s \in Known(t, new, i) /\ new[s].state # "failed"
    BY <1>3, <1>9, <1>11, <2>2
  <2>3. ASSUME NEW i \in 1..(k - 1), NEW j \in 1..i PROVE t[j] = st[j]
    BY <1>1
  <2> QED  BY <1>1, <2>1, <2>2, <2>3 DEF Sources
<1>13. Merged(t, new)
  <2>1. ASSUME NEW i \in 1..(k - 1), NEW s \in Known(t, new, i), new[s].state = "found",
               NEW m \in new[s].made
        PROVE  Agrees(m, t[i].dependency_overrides)
    <3>1. s \in Known(st, subs, i) /\ new[s] = subs[s]
      BY <1>3, <1>9, <1>11, <2>1
    <3> QED  BY <1>1, <1>k, <2>1, <3>1 DEF StackInv, Merged
  <2> QED  BY <1>1, <2>1 DEF Merged
<1>14. Current(t, d, p)
  BY <1>1, <1>k DEF StackInv, Current
<1> QED  BY <1>1, <1>5, <1>6, <1>7, <1>8, <1>12, <1>13, <1>14 DEF StackInv, t

\* A subproject ends: the caller goes on with its overrides, and the dictionary
\* shows it as found.
LEMMA MergedStack ==
  ASSUME NEW st, NEW subs, NEW d, NEW p, StackInv(st, subs, d, p),
         Len(st) > 1, NEW new,
         new = With(subs, st[Len(st)].name, [state |-> "found", made |-> st[Len(st)].made])
  PROVE  StackInv(merge(st), new, d, p)
<1>l. PICK k \in Nat : /\ k = Len(st) /\ k > 1
                       /\ new = With(subs, st[k].name, [state |-> "found", made |-> st[k].made])
  <2>1. Len(st) \in Nat
    BY DEF StackInv
  <2> QED  BY <2>1, Zenon
<1> USE <1>l
<1> DEFINE t == merge(st)
           f == st[k - 1]
           sub == st[k]
           g == [f EXCEPT !.dependency_overrides = sub.dependency_overrides,
                          !.used = @ \cup sub.used]
<1>0. st \in Seq(Frame) /\ DOMAIN subs \subseteq Sub /\ st # << >>
  BY DEF StackInv
<1>k. /\ k \in 1..k /\ k - 1 \in 1..k /\ k - 1 \in 1..(k - 1) /\ k - 1 <= k /\ k # 1
      /\ \A i \in 1..(k - 1) : i \in 1..k /\ i <= k /\ i <= k - 1
      /\ \A i \in 1..(k - 1) : i # k - 1 => i + 1 \in 1..(k - 1) /\ i + 1 <= k
  OBVIOUS
<1>f. f \in Frame /\ sub \in Frame
  BY <1>0
<1>g. /\ g \in Frame /\ g.name = f.name /\ g.required = f.required
      /\ g.configured = f.configured /\ g.dependency_overrides = sub.dependency_overrides
      /\ g.used = f.used \cup sub.used /\ g.made = f.made
  <2>1. sub.dependency_overrides \in Overrides /\ sub.used \in SUBSET Use
    BY <1>f, FrameHas
  <2>2. g = [f EXCEPT !.dependency_overrides = sub.dependency_overrides,
                      !.used = f.used \cup sub.used]
    OBVIOUS
  <2> HIDE DEF f, g, sub
  <2>3. /\ g.name = f.name /\ g.required = f.required
        /\ g.configured = f.configured /\ g.dependency_overrides = sub.dependency_overrides
        /\ g.used = f.used \cup sub.used /\ g.made = f.made
    BY <1>f, <2>2 DEF Frame
  <2>4. f.used \cup sub.used \in SUBSET Use
    BY <1>f, FrameHas
  <2>5. g \in Frame
    BY <1>f, <2>1, <2>2, <2>4, Zenon DEF Frame
  <2> QED  BY <2>3, <2>5
<1>1. /\ t \in Seq(Frame) /\ Len(t) = k - 1 /\ t # << >> /\ t[k - 1] = g
      /\ \A i \in 1..(k - 1) : i # k - 1 => t[i] = st[i]
  <2>1. t = [SubSeq(st, 1, k - 1) EXCEPT ![k - 1] = g]
    BY Zenon DEF merge
  <2> HIDE DEF g, t
  <2> DEFINE c == SubSeq(st, 1, k - 1)
  <2>2. c \in Seq(Frame) /\ Len(c) = k - 1 /\ \A i \in 1..(k - 1) : c[i] = st[i]
    BY <1>0
  <2> HIDE DEF c
  <2>3. t = [c EXCEPT ![k - 1] = g]
    BY <2>1 DEF c
  <2> QED  BY <1>g, <1>k, <2>2, <2>3
<1> HIDE DEF t, g
<1>2. /\ Within(f.dependency_overrides, sub.dependency_overrides)
      /\ \A i \in 1..(k - 1) : Within(st[i].dependency_overrides, f.dependency_overrides)
      /\ sub.name \notin sub.configured /\ sub.configured \subseteq DOMAIN subs
      /\ \A i \in 1..k : sub.name \notin st[i].configured
  BY <1>k DEF StackInv, Snapshots
<1>3. \A i \in 1..(k - 1) : /\ t[i].name = st[i].name /\ t[i].required = st[i].required
                            /\ t[i].configured = st[i].configured
                            /\ Within(st[i].dependency_overrides, t[i].dependency_overrides)
  BY <1>1, <1>2, <1>g DEF Within
<1>4. sub.name \in Sub
  <2>1. st[1].name = Root /\ sub.name # st[1].name
    BY <1>0, <1>k DEF StackInv, Nested
  <2> QED  BY <2>1, <1>f, FrameHas
<1>5. /\ DOMAIN new = DOMAIN subs \cup {sub.name} /\ DOMAIN new \subseteq Sub
      /\ \A s \in DOMAIN subs : s # sub.name => new[s] = subs[s]
      /\ new[sub.name].state = "found" /\ new[sub.name].made = sub.made
  BY <1>0, <1>4 DEF With
<1>6. Nested(t, new)
  <2>1. t[1].name = Root
    BY <1>0, <1>1, <1>3 DEF StackInv, Nested
  <2>2. ASSUME NEW i \in 1..(k - 1), NEW j \in 1..(k - 1), t[i].name = t[j].name PROVE i = j
    BY <1>3, <1>k, <2>2 DEF StackInv, Nested
  <2>3. ASSUME NEW i \in 1..(k - 1), i < k - 1, t[i].lookup # Nothing
        PROVE  t[i].lookup.subproject_name = t[i + 1].name /\ t[i].lookup.required = t[i + 1].required
    <3>1. /\ i + 1 \in 1..(k - 1) /\ t[i] = st[i] /\ i \in 1..k /\ i < k
          /\ t[i + 1].name = st[i + 1].name /\ t[i + 1].required = st[i + 1].required
      BY <1>1, <1>3, <2>3
    <3> QED  BY <2>3, <3>1 DEF StackInv, Nested
  <2> QED  BY <1>1, <2>1, <2>2, <2>3 DEF Nested
<1>7. Snapshots(t, new)
  <2>1. ASSUME NEW i \in 1..(k - 1), NEW j \in 1..(k - 1), i <= j
        PROVE  Within(t[i].dependency_overrides, t[j].dependency_overrides)
    <3>1. CASE i = k - 1
      BY <2>1, <3>1 DEF Within
    <3>2. CASE i # k - 1
      <4>1. Within(st[i].dependency_overrides, st[j].dependency_overrides)
        BY <1>k, <2>1 DEF StackInv, Snapshots
      <4> QED  BY <3>2, <4>1, <1>1, <1>3, WithinTrans
    <3> QED  BY <3>1, <3>2
  <2>2. \A i \in 1..(k - 1) : t[i].configured \subseteq DOMAIN new
    BY <1>3, <1>5, <1>k, Zenon DEF StackInv, Snapshots
  <2>3. ASSUME NEW i \in 1..(k - 1), NEW j \in 1..(k - 1), i <= j
        PROVE  t[i].configured \subseteq t[j].configured /\ t[j].name \notin t[i].configured
    BY <1>3, <1>k, <2>3, Zenon DEF StackInv, Snapshots
  <2> QED  BY <1>1, <2>1, <2>2, <2>3 DEF Snapshots
<1>8. Recorded(t)
  <2>1. ASSUME NEW u \in g.used \cup g.made PROVE Agrees(u, g.dependency_overrides)
    <3>1. CASE u \in f.used \cup f.made
      <4>1. Agrees(u, f.dependency_overrides)
        BY <1>k, <3>1 DEF StackInv, Recorded
      <4> QED  BY <4>1, <1>2, <1>g, AgreesStill
    <3>2. CASE u \in sub.used
      BY <1>g, <1>k, <3>2 DEF StackInv, Recorded
    <3> QED  BY <1>g, <2>1, <3>1, <3>2
  <2>2. ASSUME NEW i \in 1..(k - 1), i # k - 1, NEW u \in st[i].used \cup st[i].made
        PROVE  Agrees(u, st[i].dependency_overrides)
    BY <1>k, <2>2 DEF StackInv, Recorded
  <2> QED  BY <1>1, <2>1, <2>2, Zenon DEF Recorded
<1>9. /\ Known(t, new, k - 1) = DOMAIN subs \cup {sub.name} /\ Known(st, subs, k) = DOMAIN subs
      /\ \A i \in 1..(k - 1) : i # k - 1 =>
            /\ Known(t, new, i) = Known(st, subs, i)
            /\ Known(st, subs, i) \subseteq DOMAIN subs /\ sub.name \notin Known(st, subs, i)
  <2>1. Known(t, new, k - 1) = DOMAIN subs \cup {sub.name} /\ Known(st, subs, k) = DOMAIN subs
    BY <1>1, <1>5 DEF Known
  <2>2. ASSUME NEW i \in 1..(k - 1), i # k - 1
        PROVE  /\ Known(t, new, i) = Known(st, subs, i)
               /\ Known(st, subs, i) \subseteq DOMAIN subs /\ sub.name \notin Known(st, subs, i)
    <3>1. /\ i + 1 \in 1..(k - 1) /\ i + 1 \in 1..k /\ i < k - 1 /\ i < k
          /\ t[i + 1].configured = st[i + 1].configured
      BY <1>3, <2>2
    <3>2. Known(t, new, i) = st[i + 1].configured /\ Known(st, subs, i) = st[i + 1].configured
      BY <1>1, <3>1 DEF Known
    <3>3. st[i + 1].configured \subseteq DOMAIN subs
      BY <3>1 DEF StackInv, Snapshots
    <3> QED  BY <1>2, <3>1, <3>2, <3>3
  <2> QED  BY <2>1, <2>2
<1>10. Sources(t, new)
  <2>1. ASSUME NEW i \in 1..(k - 1), i # k - 1, NEW n \in DOMAIN t[i].dependency_overrides,
               t[i].dependency_overrides[n].src \in Sub
        PROVE  \/ \E j \in 1..i : t[j].name = t[i].dependency_overrides[n].src
               \/ /\ t[i].dependency_overrides[n].src \in Known(t, new, i)
                  /\ new[t[i].dependency_overrides[n].src].state # "failed"
    <3>1. t[i] = st[i] /\ i \in 1..k /\ \A j \in 1..i : j \in 1..(k - 1)
      BY <1>1, <2>1
    <3>2. \/ \E j \in 1..i : st[j].name = st[i].dependency_overrides[n].src
          \/ /\ st[i].dependency_overrides[n].src \in Known(st, subs, i)
             /\ subs[st[i].dependency_overrides[n].src].state # "failed"
      BY <2>1, <3>1 DEF StackInv, Sources
    <3>3. ASSUME NEW s \in Known(st, subs, i)
          PROVE  s \in Known(t, new, i) /\ new[s] = subs[s]
      BY <1>5, <1>9, <2>1
    <3>4. \A j \in 1..i : t[j].name = st[j].name
      BY <1>3, <3>1
    <3> QED  BY <3>1, <3>2, <3>3, <3>4
  <2>2. ASSUME NEW n \in DOMAIN sub.dependency_overrides,
               sub.dependency_overrides[n].src \in Sub
        PROVE  \/ \E j \in 1..(k - 1) : t[j].name = sub.dependency_overrides[n].src
               \/ /\ sub.dependency_overrides[n].src \in Known(t, new, k - 1)
                  /\ new[sub.dependency_overrides[n].src].state # "failed"
    <3>1. \/ \E j \in 1..k : st[j].name = sub.dependency_overrides[n].src
          \/ /\ sub.dependency_overrides[n].src \in DOMAIN subs
             /\ subs[sub.dependency_overrides[n].src].state # "failed"
      BY <1>k, <1>9, <2>2 DEF StackInv, Sources
    <3>2. CASE sub.dependency_overrides[n].src = sub.name
      BY <1>5, <1>9, <3>2
    <3>3. CASE sub.dependency_overrides[n].src # sub.name
      <4>1. CASE \E j \in 1..k : st[j].name = sub.dependency_overrides[n].src
        <5>1. PICK j \in 1..k : st[j].name = sub.dependency_overrides[n].src
          BY <4>1
        <5>2. j \in 1..(k - 1)
          BY <3>3, <5>1
        <5> QED  BY <1>3, <5>1, <5>2
      <4>2. CASE /\ sub.dependency_overrides[n].src \in DOMAIN subs
                 /\ subs[sub.dependency_overrides[n].src].state # "failed"
        BY <1>5, <1>9, <3>3, <4>2
      <4> QED  BY <3>1, <4>1, <4>2, Zenon
    <3> QED  BY <3>2, <3>3
  <2>3. t[k - 1].dependency_overrides = sub.dependency_overrides
    BY <1>1, <1>g
  <2>4. ASSUME NEW i \in 1..(k - 1), NEW n \in DOMAIN t[i].dependency_overrides,
               t[i].dependency_overrides[n].src \in Sub
        PROVE  \/ \E j \in 1..i : t[j].name = t[i].dependency_overrides[n].src
               \/ /\ t[i].dependency_overrides[n].src \in Known(t, new, i)
                  /\ new[t[i].dependency_overrides[n].src].state # "failed"
    <3>1. CASE i = k - 1
      BY <2>2, <2>3, <2>4, <3>1
    <3>2. CASE i # k - 1
      BY <2>1, <2>4, <3>2, Zenon
    <3> QED  BY <3>1, <3>2, Zenon
  <2> QED  BY <1>1, <2>4, Zenon DEF Sources
<1>11. Merged(t, new)
  <2>1. ASSUME NEW i \in 1..(k - 1), i # k - 1, NEW s \in Known(t, new, i), new[s].state = "found",
               NEW m \in new[s].made
        PROVE  Agrees(m, t[i].dependency_overrides)
    <3>1. s \in Known(st, subs, i) /\ new[s] = subs[s] /\ t[i] = st[i] /\ i \in 1..k
      BY <1>1, <1>5, <1>9, <2>1
    <3> QED  BY <2>1, <3>1 DEF StackInv, Merged
  <2>2. ASSUME NEW s \in DOMAIN subs \cup {sub.name}, new[s].state = "found",
               NEW m \in new[s].made
        PROVE  Agrees(m, sub.dependency_overrides)
    <3>1. CASE s = sub.name
      <4>1. m \in sub.made
        BY <1>5, <2>2, <3>1
      <4> QED  BY <4>1, <1>k DEF StackInv, Recorded
    <3>2. CASE s # sub.name
      <4>1. s \in Known(st, subs, k) /\ new[s] = subs[s]
        BY <1>5, <1>9, <2>2, <3>2
      <4> QED  BY <1>k, <2>2, <4>1 DEF StackInv, Merged
    <3> QED  BY <3>1, <3>2
  <2> QED  BY <1>1, <1>9, <1>g, <2>1, <2>2 DEF Merged
<1>12. Current(t, d, p)
  BY <1>1, <1>k, <1>g DEF StackInv, Current
<1> QED  BY <1>1, <1>5, <1>6, <1>7, <1>8, <1>10, <1>11, <1>12 DEF StackInv, t

\* A subproject is entered into the dictionary as failed or skipped.
LEMMA Disabled ==
  ASSUME NEW st, NEW subs, NEW d, NEW p, StackInv(st, subs, d, p), st # << >>,
         NEW s \in Sub, NEW v \in {"failed", "skipped"},
         v = "failed" => s \notin DOMAIN subs /\ \A i \in 1..Len(st) : st[i].name # s,
         NEW new, new = With(subs, s, disabled_subproject(v))
  PROVE  StackInv(st, new, d, p)
<1>0. st \in Seq(Frame) /\ Len(st) \in Nat /\ DOMAIN subs \subseteq Sub
  BY DEF StackInv
<1>1. /\ DOMAIN new = DOMAIN subs \cup {s} /\ DOMAIN new \subseteq Sub
      /\ \A x \in DOMAIN subs : x # s => new[x] = subs[x]
      /\ new[s].state = v
  BY <1>0 DEF With, disabled_subproject
<1>2. Nested(st, new)
  BY Zenon DEF StackInv, Nested
<1>3. Snapshots(st, new)
  <2>1. \A i \in 1..Len(st) : st[i].configured \subseteq DOMAIN new
    BY <1>1 DEF StackInv, Snapshots
  <2> QED  BY <2>1, Zenon DEF StackInv, Snapshots
<1>4. \A i \in 1..Len(st) : /\ Known(st, subs, i) \subseteq DOMAIN subs
                            /\ Known(st, subs, i) \subseteq Known(st, new, i)
                            /\ \A x \in Known(st, new, i) : x \in Known(st, subs, i) \/ x = s
  <2>1. TAKE i \in 1..Len(st)
  <2>2. i < Len(st) => i + 1 \in 1..Len(st)
    BY <1>0
  <2>3. i < Len(st) => st[i + 1].configured \subseteq DOMAIN subs
    BY <2>2 DEF StackInv, Snapshots
  <2> QED  BY <1>1, <2>3 DEF Known
<1>5. Sources(st, new)
  <2>1. ASSUME NEW i \in 1..Len(st), NEW x \in Known(st, subs, i), subs[x].state # "failed"
        PROVE  x \in Known(st, new, i) /\ new[x].state # "failed"
    BY <1>1, <1>4, <2>1
  <2>2. ASSUME NEW i \in 1..Len(st), NEW n \in DOMAIN st[i].dependency_overrides,
               st[i].dependency_overrides[n].src \in Sub
        PROVE  \/ \E j \in 1..i : st[j].name = st[i].dependency_overrides[n].src
               \/ /\ st[i].dependency_overrides[n].src \in Known(st, new, i)
                  /\ new[st[i].dependency_overrides[n].src].state # "failed"
    <3>1. \/ \E j \in 1..i : st[j].name = st[i].dependency_overrides[n].src
          \/ /\ st[i].dependency_overrides[n].src \in Known(st, subs, i)
             /\ subs[st[i].dependency_overrides[n].src].state # "failed"
      BY <2>2 DEF StackInv, Sources
    <3> QED  BY <2>1, <3>1, Zenon
  <2> QED  BY <2>2, Zenon DEF Sources
<1>6. Merged(st, new)
  <2>1. ASSUME NEW i \in 1..Len(st), NEW x \in Known(st, new, i), new[x].state = "found",
               NEW m \in new[x].made
        PROVE  Agrees(m, st[i].dependency_overrides)
    <3>1. x \in Known(st, subs, i) /\ new[x] = subs[x]
      BY <1>1, <1>4, <2>1
    <3> QED  BY <2>1, <3>1 DEF StackInv, Merged
  <2> QED  BY <2>1, Zenon DEF Merged
<1> QED  BY <1>1, <1>2, <1>3, <1>5, <1>6, Zenon DEF StackInv

\* Nothing runs.
LEMMA Cleared ==
  ASSUME NEW d, NEW p
  PROVE  StackInv(<< >>, None, d, p)
<1>1. << >> \in Seq(Frame) /\ Len(<< >>) = 0 /\ DOMAIN None = {}
  BY DEF None
<1>2. 1..Len(<< >>) = {}
  BY <1>1
<1> QED  BY <1>1, <1>2
    DEF StackInv, Nested, Snapshots, Recorded, Sources, Merged, Current

\* The toplevel project starts.
LEMMA Started ==
  ASSUME NEW subs, DOMAIN subs = {}, NEW d, NEW p, NEW f \in Frame, f.name = Root,
         f.configured = {}, f.dependency_overrides = None, f.used = {}, f.made = {}
  PROVE  StackInv(<<f>>, subs, d, p)
<1> DEFINE t == <<f>>
<1>1. t \in Seq(Frame) /\ Len(t) = 1 /\ t[1] = f /\ t # << >>
  OBVIOUS
<1> HIDE DEF t
<1>2. \A i \in 1..Len(t) : i = 1
  BY <1>1
<1>3. DOMAIN f.dependency_overrides = {}
  BY DEF None
<1>4. Known(t, subs, 1) = {}
  BY <1>1 DEF Known
<1>5. Nested(t, subs)
  BY <1>1, <1>2 DEF Nested
<1>6. Snapshots(t, subs)
  BY <1>1, <1>2, <1>3 DEF Snapshots, Within
<1>7. Recorded(t) /\ Sources(t, subs) /\ Merged(t, subs) /\ Current(t, d, p)
  BY <1>1, <1>2, <1>3, <1>4 DEF Recorded, Sources, Merged, Current
<1> QED  BY <1>1, <1>5, <1>6, <1>7 DEF StackInv, t

----------------------------------------------------------------------------
(* The candidates of a lookup *)

\* Dependency objects, told apart by their source.
LEMMA DepFacts ==
  /\ NotFound \in Dep /\ NotFound # Nothing /\ Nothing \notin Dep
  /\ NotFound.src \notin Sub /\ NotFound.type = "none"
  /\ \A s \in Sub \cup {Root} :
        Declared(s) \in Dep /\ Declared(s).src = s /\ Declared(s).type = "internal"
  /\ \A dep \in SystemDep : dep \in Dep /\ dep.src \notin Sub
<1>1. NotFound \in Dep /\ Nothing \notin Dep
  BY ProjectsAssumption DEF Dep
<1>2. NotFound.src \notin Sub /\ NotFound.type = "none"
  BY ProjectsAssumption DEF NotFound
<1>3. \A s \in Sub \cup {Root} : Declared(s) \in Dep
  BY DEF Dep
<1>4. \A s \in Sub \cup {Root} : Declared(s).src = s /\ Declared(s).type = "internal"
  BY DEF Declared
<1>5. \A dep \in SystemDep : dep \in Dep
  BY DEF Dep
<1>6. \A dep \in SystemDep : dep.src \notin Sub
  BY ProjectsAssumption DEF SystemDep
<1> QED  BY <1>1, <1>2, <1>3, <1>4, <1>5, <1>6, Zenon

\* An entry of the cache that get returns was found with the current path.
LEMMA GetIs ==
  ASSUME CacheInv(deps), NEW n, get(n) # Nothing
  PROVE  /\ get(n) \in SystemDep /\ get(n).name = n
         /\ Fits(get(n), deps, path)
<1>1. /\ n \in DOMAIN deps /\ calculate_subkey(deps[n].type) \in DOMAIN deps[n].deps
      /\ get(n) = deps[n].deps[calculate_subkey(deps[n].type)]
  BY Zenon DEF get
<1>2. /\ get(n) \in SystemDep /\ get(n).name = n
      /\ deps[n].type = "pkgconfig" /\ get(n).type = "pkgconfig"
            => get(n).path = calculate_subkey(deps[n].type)
  BY <1>1 DEF CacheInv
<1>3. deps[n].type = "pkgconfig" => calculate_subkey(deps[n].type) = path
  BY DEF calculate_subkey
<1> QED  BY <1>1, <1>2, <1>3, Zenon DEF Fits

\* put adds what the system has, and no entry changes its type.
LEMMA PutIs ==
  ASSUME CacheInv(deps), SystemInv(system, path), NEW n \in Name, system[n] # NotFound,
         NEW dep, dep = system[n], NEW new, new = put(n, dep)
  PROVE  /\ CacheInv(new) /\ Grows(deps, new) /\ Fits(dep, new, path)
         /\ dep \in SystemDep
<1>1. /\ dep \in SystemDep /\ dep.name = n
      /\ dep.type = "pkgconfig" => dep.path = path
  BY DEF SystemInv
<1> DEFINE entry == IF n \in DOMAIN deps THEN deps[n] ELSE [type |-> dep.type, deps |-> None]
           key == calculate_subkey(dep.type)
           all == With(entry.deps, key, dep)
<1>2. new = With(deps, n, [type |-> entry.type, deps |-> all])
  BY DEF put
<1>3. /\ DOMAIN new = DOMAIN deps \cup {n}
      /\ new[n].type = entry.type /\ new[n].deps = all
      /\ \A x \in DOMAIN deps : x # n => new[x] = deps[x]
  <2> HIDE DEF entry, all
  <2> QED  BY <1>2 DEF With
<1>4. /\ n \in DOMAIN deps => entry.type = deps[n].type /\ entry.deps = deps[n].deps
      /\ n \notin DOMAIN deps => entry.type = dep.type /\ DOMAIN entry.deps = {}
  BY DEF None
<1>5. /\ DOMAIN all = DOMAIN entry.deps \cup {key} /\ all[key] = dep
      /\ \A x \in DOMAIN entry.deps : x # key => all[x] = entry.deps[x]
  <2> HIDE DEF entry, key
  <2> QED  BY DEF With
<1>6. dep.type = "pkgconfig" => dep.path = key
  BY <1>1 DEF calculate_subkey
<1> HIDE DEF entry, key, all
<1>7. Grows(deps, new)
  BY <1>3, <1>4 DEF Grows
<1>8. Fits(dep, new, path)
  BY <1>1, <1>3 DEF Fits
<1>9. ASSUME NEW k \in DOMAIN all
      PROVE  /\ all[k] \in SystemDep /\ all[k].name = n
             /\ new[n].type = "pkgconfig" /\ all[k].type = "pkgconfig" => all[k].path = k
  <2>1. CASE k = key
    BY <1>1, <1>5, <1>6, <2>1
  <2>2. CASE k # key
    <3>1. n \in DOMAIN deps /\ k \in DOMAIN deps[n].deps /\ all[k] = deps[n].deps[k]
          /\ new[n].type = deps[n].type
      BY <1>3, <1>4, <1>5, <1>9, <2>2
    <3> QED  BY <3>1, Zenon DEF CacheInv
  <2> QED  BY <2>1, <2>2
<1>10. CacheInv(new)
  <2>1. DOMAIN new \subseteq Name
    BY <1>3 DEF CacheInv
  <2>2. ASSUME NEW x \in DOMAIN new, NEW k \in DOMAIN new[x].deps
        PROVE  /\ new[x].deps[k] \in SystemDep /\ new[x].deps[k].name = x
               /\ new[x].type = "pkgconfig" /\ new[x].deps[k].type = "pkgconfig"
                    => new[x].deps[k].path = k
    <3>1. CASE x = n
      BY <1>3, <1>9, <2>2, <3>1
    <3>2. CASE x # n
      <4>1. x \in DOMAIN deps /\ new[x] = deps[x]
        BY <1>3, <2>2, <3>2
      <4> QED  BY <2>2, <4>1 DEF CacheInv
    <3> QED  BY <3>1, <3>2
  <2> QED  BY <2>1, <2>2, Zenon DEF CacheInv
<1> QED  BY <1>1, <1>7, <1>8, <1>10

\* What a lookup may answer with: nothing, or a dependency that the running
\* project may use; for a name that has an override, the override or nothing.
Answers(q, dep, cache) ==
    LET o == Top.dependency_overrides
    IN  /\ dep \in Dep \cup {Nothing}
        /\ dep \notin {Nothing, NotFound} =>
            \/ \E m \in DOMAIN o : dep = o[m]
            \/ Usable(dep, Top.name, subprojects, cache, path)
        /\ Len(q.names) = 1 /\ q.names[1] \in DOMAIN o => dep \in {NotFound, o[q.names[1]]}

\* The running project.
LEMMA TopIs ==
  ASSUME StackInv(stack, subprojects, deps, path), stack # << >>
  PROVE  /\ Len(stack) \in Nat /\ Len(stack) # 0 /\ Len(stack) \in 1..Len(stack)
         /\ Top \in Frame /\ Top.dependency_overrides \in Overrides
         /\ DOMAIN Top.dependency_overrides \subseteq Name
         /\ \A n \in DOMAIN Top.dependency_overrides : Top.dependency_overrides[n] \in Dep
<1>1. stack \in Seq(Frame)
  BY DEF StackInv
<1>2. Len(stack) \in Nat /\ Len(stack) # 0 /\ Len(stack) \in 1..Len(stack)
  BY <1>1
<1>3. Top \in Frame
  BY <1>1, <1>2 DEF Top
<1>4. Top.dependency_overrides \in Overrides
  BY <1>3, FrameHas, Zenon
<1> QED  BY <1>2, <1>3, <1>4, OverridesHave, Zenon

\* The fields of a lookup.
LEMMA LookupHas ==
  ASSUME NEW q \in Lookup
  PROVE  /\ q.names \in Lists /\ q.names \in Seq(Name) /\ Len(q.names) \in Nat
         /\ Len(q.names) # 0 /\ Elements(q.names) \subseteq Name
         /\ q.required \in BOOLEAN /\ q.subproject_name \in Sub \cup {Nothing}
<1>1. q.names \in Lists /\ q.required \in BOOLEAN /\ q.subproject_name \in Sub \cup {Nothing}
  BY DEF Lookup
<1>2. q.names \in Seq(Name) /\ q.names # << >>
  BY <1>1, NamesAssumption
<1>3. Len(q.names) \in Nat /\ Len(q.names) # 0 /\ Elements(q.names) \subseteq Name
  BY <1>2 DEF Elements
<1> QED  BY <1>1, <1>2, <1>3

\* The answer of the caches for one name, and for the names of a lookup.
LEMMA CachedIs ==
  ASSUME StackInv(stack, subprojects, deps, path), stack # << >>, CacheInv(deps),
         NEW q \in Lookup, NEW n \in Name, NEW dep, dep = get_cached_dep(q, n)
  PROVE  /\ dep \in Dep \cup {Nothing}
         /\ dep \notin {Nothing, NotFound} =>
            \/ \E m \in DOMAIN Top.dependency_overrides : dep = Top.dependency_overrides[m]
            \/ Usable(dep, Top.name, subprojects, deps, path)
         /\ n \in DOMAIN Top.dependency_overrides =>
                dep \in {NotFound, Top.dependency_overrides[n]}
<1> DEFINE o == Top.dependency_overrides
<1>1. \A m \in DOMAIN o : o[m] \in Dep
  BY TopIs
<1>2. n \in DOMAIN o => dep \in {NotFound, o[n]}
  BY Zenon DEF get_cached_dep
<1>3. n \notin DOMAIN o => dep \in {Nothing, get(n)}
  BY Zenon DEF get_cached_dep
<1>4. CASE n \in DOMAIN o
  BY <1>1, <1>2, <1>4, DepFacts, Zenon
<1>5. CASE n \notin DOMAIN o /\ dep = Nothing
  BY <1>5, Zenon
<1>6. CASE n \notin DOMAIN o /\ dep = get(n) /\ get(n) # Nothing
  <2>1. get(n) \in SystemDep /\ Fits(get(n), deps, path)
    BY <1>6, GetIs
  <2>2. dep \in Dep /\ dep.src \notin Sub
    BY <1>6, <2>1, DepFacts, Zenon
  <2> QED  BY <1>6, <2>1, <2>2, Zenon DEF Usable
<1> QED  BY <1>3, <1>4, <1>5, <1>6, Zenon

\* do_dependency_cache knows every name that is overridden.
LEMMA CacheAnswers ==
  ASSUME StackInv(stack, subprojects, deps, path), stack # << >>, CacheInv(deps), NEW q \in Lookup
  PROVE  /\ Answers(q, do_dependency_cache(q), deps)
         /\ do_dependency_cache(q) = Nothing =>
                \A n \in Elements(q.names) : n \notin DOMAIN Top.dependency_overrides
<1> DEFINE known == {n \in Elements(q.names) : get_cached_dep(q, n) # Nothing}
           o == Top.dependency_overrides
<1>0. \A n \in DOMAIN o : o[n] \in Dep
  BY TopIs
<1>1. Elements(q.names) \subseteq Name /\ Len(q.names) \in Nat
  BY LookupHas, Zenon
<1>2. \A n \in Elements(q.names) \cap DOMAIN o : n \in known
  <2>1. TAKE n \in Elements(q.names) \cap DOMAIN o
  <2>2. get_cached_dep(q, n) \in {NotFound, o[n]}
    BY <1>1, <2>1, CachedIs, Zenon
  <2> QED  BY <1>0, <2>2, DepFacts, Zenon
<1>3. CASE known = {}
  <2>1. do_dependency_cache(q) = Nothing
    BY <1>3, Zenon DEF do_dependency_cache
  <2>2. \A n \in Elements(q.names) : n \notin DOMAIN o
    BY <1>2, <1>3, Zenon
  <2>3. Len(q.names) = 1 => q.names[1] \in Elements(q.names)
    BY DEF Elements
  <2> QED  BY <2>1, <2>2, <2>3, Zenon DEF Answers
<1>4. CASE known # {}
  <2> DEFINE n == First(q.names, known)
  <2>1. n \in known /\ n \in Elements(q.names)
    <3> HIDE DEF known
    <3>1. \E x \in Elements(q.names) : x \in known
      BY <1>4 DEF known
    <3> QED  BY <1>1, <3>1, FirstIs, Zenon
  <2>2. do_dependency_cache(q) = get_cached_dep(q, n) /\ get_cached_dep(q, n) # Nothing
    BY <1>4, <2>1, Zenon DEF do_dependency_cache
  <2>3. Len(q.names) = 1 => n = q.names[1]
    BY <2>1 DEF Elements
  <2> HIDE DEF n
  <2>4. n \in Name
    BY <1>1, <2>1, Zenon
  <2>5. Answers(q, get_cached_dep(q, n), deps)
    BY <2>3, <2>4, CachedIs, Zenon DEF Answers
  <2> QED  BY <2>2, <2>5, Zenon
<1> QED  BY <1>3, <1>4

\* The answer of a subproject that is there.
LEMMA SubprojectAnswers ==
  ASSUME StackInv(stack, subprojects, deps, path), stack # << >>, CacheInv(deps), NEW q \in Lookup
  PROVE  Answers(q, get_subproject_dep(q), deps) \/ get_subproject_dep(q) = Nothing
<1> DEFINE s == q.subproject_name
           cached == do_dependency_cache(q)
<1>1. CASE get_subproject_dep(q) = Nothing
  BY <1>1
<1>2. CASE get_subproject_dep(q) = cached
  BY <1>2, CacheAnswers, Zenon
<1>3. CASE cached = Nothing /\ get_subproject(s) /\ get_subproject_dep(q) \in {Declared(s), NotFound}
  <2>1. s \in DOMAIN subprojects /\ s \in Sub /\ subprojects[s].state # "failed"
    BY <1>3 DEF get_subproject, StackInv
  <2>2. Declared(s) \in Dep /\ Declared(s).src = s /\ Declared(s).type = "internal"
    BY <2>1, DepFacts
  <2>3. Usable(Declared(s), Top.name, subprojects, deps, path)
    BY <2>1, <2>2 DEF Usable, Fits
  <2>4. Len(q.names) = 1 => q.names[1] \notin DOMAIN Top.dependency_overrides
    <3>1. Len(q.names) = 1 => q.names[1] \in Elements(q.names)
      BY DEF Elements
    <3> QED  BY <1>3, <3>1, CacheAnswers, Zenon
  <2> QED  BY <1>3, <2>2, <2>3, <2>4, DepFacts, Zenon DEF Answers
<1> QED  BY <1>1, <1>2, <1>3, Zenon DEF get_subproject_dep

----------------------------------------------------------------------------
(* What the steps preserve *)

\* The part of the state that calls change is right after the step.
Kept == StackInv(stack, subprojects, deps, path)' /\ CacheInv(deps)'

\* An exception that reaches an optional subproject, or ends the run.
LEMMA RaiseKeeps ==
  ASSUME Inv, path' = path, NEW invalid_code, Raise(invalid_code)
  PROVE  Kept
<1>1. CASE stack' = << >> /\ subprojects' = None /\ deps' = saved
  <2>1. StackInv(<< >>, None, deps', path')
    BY Cleared, Zenon
  <2>2. StackInv(stack', subprojects', deps', path')
    BY <1>1, <2>1
  <2>3. CacheInv(deps')
    BY <1>1 DEF Inv
  <2> QED  BY <2>2, <2>3 DEF Kept
<1>2. CASE /\ \E i \in 2..Len(stack) :
                 /\ stack' = discard(i)
                 /\ subprojects' = With(forget(subprojects, stack[i].configured),
                                        stack[i].name, disabled_subproject("failed"))
           /\ deps' = deps
  <2>1. PICK i \in 2..Len(stack) :
                 /\ stack' = discard(i)
                 /\ subprojects' = With(forget(subprojects, stack[i].configured),
                                        stack[i].name, disabled_subproject("failed"))
    BY <1>2, Zenon
  <2>2. StackInv(stack, subprojects, deps, path) /\ CacheInv(deps)
    BY DEF Inv
  <2>3. StackInv(SubSeq(stack, 1, i - 1), subprojects', deps, path)
    BY <2>1, <2>2, Cut, Zenon
  <2> QED  BY <1>2, <2>1, <2>2, <2>3 DEF Kept, discard
<1> QED  BY <1>1, <1>2, Zenon DEF Raise

\* The overrides after a lookup: those before, and the dependency found.
LEMMA OverriddenIs ==
  ASSUME StackInv(stack, subprojects, deps, path), stack # << >>,
         NEW q \in Lookup, NEW dep \in Dep
  PROVE  /\ overridden(q, dep) \in Overrides /\ Within(Top.dependency_overrides, overridden(q, dep))
         /\ DOMAIN overridden(q, dep) = DOMAIN Top.dependency_overrides \cup Elements(q.names)
         /\ \A n \in DOMAIN overridden(q, dep) :
                n \notin DOMAIN Top.dependency_overrides => overridden(q, dep)[n] = dep
<1> DEFINE f == [n \in Elements(q.names) |-> dep]
           o == Top.dependency_overrides
           new == overridden(q, dep)
<1>1. Elements(q.names) \subseteq Name /\ DOMAIN o \subseteq Name
  BY LookupHas, TopIs, Zenon
<1>0. \A n \in DOMAIN o : o[n] \in Dep
  BY TopIs, Zenon
<1>2. DOMAIN f = Elements(q.names) /\ \A n \in Elements(q.names) : f[n] = dep
  OBVIOUS
<1>3. new = Update(f, o)
  BY Zenon DEF overridden
<1> HIDE DEF f, new, o
<1>4. new = [x \in DOMAIN f \cup DOMAIN o |-> IF x \in DOMAIN o THEN o[x] ELSE f[x]]
  BY <1>3 DEF Update
<1>5. new \in [DOMAIN o \cup Elements(q.names) -> Dep]
  BY <1>0, <1>2, <1>4
<1>6. new \in Overrides
  BY <1>1, <1>5, OverridesAre
<1>7. /\ Within(o, new) /\ DOMAIN new = DOMAIN o \cup Elements(q.names)
      /\ \A n \in DOMAIN new : n \notin DOMAIN o => new[n] = dep
  BY <1>2, <1>4 DEF Within
<1> QED  BY <1>6, <1>7, Zenon DEF new, o

\* The running project after a lookup that found dep.
Gains(q, dep) == IF Len(q.names) = 1 THEN {<<Head(q.names), dep>>} ELSE {}
Answered(q, dep) ==
    [Top EXCEPT !.lookup = Nothing, !.dependency_overrides = overridden(q, dep),
                !.used = @ \cup Gains(q, dep)]

\* Its fields.
LEMMA AnsweredFrame ==
  ASSUME StackInv(stack, subprojects, deps, path), stack # << >>,
         NEW q \in Lookup, NEW dep \in Dep
  PROVE  LET g == Answered(q, dep)
         IN  /\ g \in Frame /\ g.name = Top.name /\ g.required = Top.required
             /\ g.configured = Top.configured /\ g.dependency_overrides = overridden(q, dep)
             /\ g.used = Top.used \cup Gains(q, dep) /\ g.made = Top.made
<1> DEFINE f == Top
           g == Answered(q, dep)
           o == overridden(q, dep)
           more == Gains(q, dep)
<1>1. f \in Frame
  BY TopIs, Zenon
<1>2. o \in Overrides
  BY OverriddenIs, Zenon
<1>3. more \subseteq Use
  <2>1. q.names \in Seq(Name) /\ Len(q.names) # 0
    BY LookupHas, Zenon
  <2>2. Head(q.names) \in Name
    BY <2>1
  <2> QED  BY <2>2 DEF Use, Gains
<1>4. f.used \cup more \in SUBSET Use
  BY <1>1, <1>3, FrameHas
<1>5. g = [f EXCEPT !.lookup = Nothing, !.dependency_overrides = o, !.used = f.used \cup more]
  BY DEF Answered
<1> HIDE DEF f, g, o, more
<1>6. /\ g.name = f.name /\ g.required = f.required
      /\ g.configured = f.configured /\ g.dependency_overrides = o
      /\ g.used = f.used \cup more /\ g.made = f.made
  BY <1>1, <1>5 DEF Frame
<1>7. Nothing \in Lookup \cup {Nothing}
  BY Zenon
<1>8. g \in Frame
  BY <1>1, <1>2, <1>4, <1>5, <1>7, Zenon DEF Frame
<1> QED  BY <1>6, <1>8, Zenon DEF f, g, o, more

\* The running project with another lookup.
LEMMA WaitingFrame ==
  ASSUME StackInv(stack, subprojects, deps, path), stack # << >>,
         NEW q \in Lookup \cup {Nothing}, NEW g, g = [Top EXCEPT !.lookup = q]
  PROVE  /\ g \in Frame /\ g.name = Top.name /\ g.required = Top.required
         /\ g.configured = Top.configured /\ g.dependency_overrides = Top.dependency_overrides
         /\ g.used = Top.used /\ g.made = Top.made /\ g.lookup = q
         /\ StackInv(Amend(g), subprojects, deps, path)
<1>1. Top \in Frame
  BY TopIs, Zenon
<1> DEFINE f == Top
<1>2. f \in Frame /\ g = [f EXCEPT !.lookup = q]
  BY <1>1
<1> HIDE DEF f
<1>3. /\ g.name = f.name /\ g.required = f.required
      /\ g.configured = f.configured /\ g.dependency_overrides = f.dependency_overrides
      /\ g.used = f.used /\ g.made = f.made /\ g.lookup = q
  BY <1>2 DEF Frame
<1>4. g \in Frame
  BY <1>2, Zenon DEF Frame
<1>5. Grows(deps, deps) /\ Within(f.dependency_overrides, f.dependency_overrides)
  BY DEF Grows, Within
<1>6. /\ Len(stack) \in Nat /\ Len(stack) # 0 /\ f = stack[Len(stack)]
      /\ Len(stack) \in 1..Len(stack)
  BY TopIs DEF f, Top
<1>7. \A u \in f.used \cup f.made : Agrees(u, f.dependency_overrides)
  BY <1>6 DEF StackInv, Recorded
<1>8. StackInv([stack EXCEPT ![Len(stack)] = g], subprojects, deps, path)
  <2>1. Within(f.dependency_overrides, g.dependency_overrides)
    BY <1>3, <1>5
  <2>2. \A u \in g.used \cup g.made : Agrees(u, g.dependency_overrides)
    BY <1>3, <1>7
  <2>3. \A n \in DOMAIN g.dependency_overrides : \E m \in DOMAIN f.dependency_overrides :
            g.dependency_overrides[n] = f.dependency_overrides[m]
    BY <1>3
  <2>4. Amends(stack[Len(stack)], g, subprojects, deps, path)
    BY <1>3, <1>6, <2>1, <2>2, <2>3, Zenon DEF Amends
  <2> QED  BY <1>4, <1>5, <2>4, Amended, Zenon
<1> QED  BY <1>3, <1>4, <1>8 DEF Amend, f

\* The end of a lookup.
LEMMA AnswerKeeps ==
  ASSUME Inv, path' = path, stack # << >>, NEW q \in Lookup, NEW dep, NEW cache,
         Grows(deps, cache), CacheInv(cache), dep = Nothing \/ Answers(q, dep, cache),
         Answer(q, dep, cache)
  PROVE  Kept
<1>0. StackInv(stack, subprojects, deps, path) /\ CacheInv(deps)
  BY DEF Inv
<1>1. CASE dep \notin {Nothing, NotFound}
  <2> DEFINE more == Gains(q, dep)
             o == overridden(q, dep)
             g == Answered(q, dep)
             old == Top.dependency_overrides
  <2>1. dep \in Dep /\ Answers(q, dep, cache)
    BY <1>1 DEF Answers
  <2>2. stack' = Amend(g) /\ deps' = cache /\ subprojects' = subprojects
    BY <1>1, Zenon DEF Answer, Answered, Gains
  <2>3. /\ g \in Frame /\ g.name = Top.name /\ g.required = Top.required
        /\ g.configured = Top.configured /\ g.dependency_overrides = o
        /\ g.used = Top.used \cup more /\ g.made = Top.made
    BY <1>0, <2>1, AnsweredFrame, Zenon
  <2> HIDE DEF g
  <2>4. /\ Within(old, o) /\ DOMAIN o = DOMAIN old \cup Elements(q.names)
        /\ \A n \in DOMAIN o : n \notin DOMAIN old => o[n] = dep
    BY <1>0, <2>1, OverriddenIs, Zenon
  <2> HIDE DEF o
  <2>5. \A u \in g.used \cup g.made : Agrees(u, o)
    <3>1. ASSUME NEW u \in Top.used \cup Top.made PROVE Agrees(u, o)
      <4>1. Len(stack) \in 1..Len(stack)
        BY <1>0, TopIs, Zenon
      <4>2. Agrees(u, old)
        BY <1>0, <3>1, <4>1 DEF StackInv, Recorded, Top
      <4> QED  BY <2>4, <4>2, AgreesStill, Zenon
    <3>2. ASSUME NEW u \in more PROVE Agrees(u, o)
      <4>1. Len(q.names) = 1 /\ u = <<Head(q.names), dep>>
        BY <3>2 DEF Gains
      <4>2. Head(q.names) = q.names[1] /\ q.names[1] \in Elements(q.names)
        BY <4>1, LookupHas DEF Elements
      <4>3. q.names[1] \in DOMAIN old => dep = old[q.names[1]]
        BY <1>1, <2>1, <4>1 DEF Answers
      <4>4. q.names[1] \in DOMAIN o /\ o[q.names[1]] = dep
        BY <2>4, <4>2, <4>3 DEF Within
      <4>5. u[1] = q.names[1] /\ u[2] = dep
        BY <4>1, <4>2
      <4> QED  BY <4>4, <4>5 DEF Agrees
    <3> HIDE DEF more
    <3> QED  BY <2>3, <3>1, <3>2
  <2>6. ASSUME NEW n \in DOMAIN o
        PROVE  \/ \E m \in DOMAIN old : o[n] = old[m]
               \/ Usable(o[n], Top.name, subprojects, cache, path)
    <3>1. CASE n \in DOMAIN old
      BY <2>4, <3>1 DEF Within
    <3>2. CASE n \notin DOMAIN old
      BY <1>1, <2>1, <2>4, <2>6, <3>2, Zenon DEF Answers
    <3> QED  BY <3>1, <3>2
  <2>7. Amends(Top, g, subprojects, cache, path)
    BY <2>3, <2>4, <2>5, <2>6 DEF Amends
  <2>8. StackInv(Amend(g), subprojects, cache, path)
    BY <1>0, <2>3, <2>7, Amended, Zenon DEF Amend, Top
  <2> QED  BY <2>2, <2>8 DEF Kept
<1>2. CASE dep \in {Nothing, NotFound} /\ Raise(FALSE)
  BY <1>2, RaiseKeeps, Zenon
<1>3. CASE /\ stack' = Amend([Top EXCEPT !.lookup = Nothing])
           /\ subprojects' = subprojects /\ deps' = deps
  <2> DEFINE g == [Top EXCEPT !.lookup = Nothing]
  <2>1. g = [Top EXCEPT !.lookup = Nothing] /\ Nothing \in Lookup \cup {Nothing}
    OBVIOUS
  <2> HIDE DEF g
  <2>2. StackInv(Amend(g), subprojects, deps, path)
    BY <1>0, <2>1, WaitingFrame
  <2> QED  BY <1>0, <1>3, <2>1, <2>2 DEF Kept
<1> QED  BY <1>1, <1>2, <1>3, Zenon DEF Answer

\* The stack while its last project waits for s, or calls subproject().
Waits(frames, s, required) ==
    /\ frames # << >> /\ StackInv(frames, subprojects, deps, path)
    /\ Len(frames) = Len(stack) /\ \A i \in 1..Len(stack) : frames[i].name = stack[i].name
    /\ frames[Len(frames)].dependency_overrides = Top.dependency_overrides
    /\ frames[Len(frames)].lookup # Nothing =>
            /\ frames[Len(frames)].lookup.subproject_name = s
            /\ frames[Len(frames)].lookup.required = required

\* do_subproject refuses, finds, gives up or starts the subproject.
LEMMA DoSubprojectKeeps ==
  ASSUME Inv, path' = path, stack # << >>, NEW s \in Sub, NEW required \in BOOLEAN, NEW frames,
         Waits(frames, s, required), do_subproject(s, required, frames)
  PROVE  Kept
<1>0. StackInv(stack, subprojects, deps, path) /\ CacheInv(deps)
  BY DEF Inv
<1>1. frames # << >> /\ StackInv(frames, subprojects, deps, path)
  BY Zenon DEF Waits
<1>2. CASE \E invalid_code \in BOOLEAN : Raise(invalid_code)
  BY <1>2, RaiseKeeps, Zenon
<1>3. CASE stack' = frames /\ subprojects' = subprojects /\ deps' = deps
  BY <1>0, <1>1, <1>3 DEF Kept
<1>4. s \notin Names => \A i \in 1..Len(frames) : frames[i].name # s
  BY DEF Names, Waits
<1>5. CASE /\ s \notin Names /\ s \notin DOMAIN subprojects
           /\ subprojects' = With(subprojects, s, disabled_subproject("failed"))
           /\ stack' = frames /\ deps' = deps
  <2>1. StackInv(frames, subprojects', deps, path)
    BY <1>1, <1>4, <1>5, Disabled
  <2> QED  BY <1>0, <1>5, <2>1 DEF Kept
<1>6. CASE /\ s \notin Names /\ s \notin DOMAIN subprojects
           /\ stack' = Append(frames, Interpreter(s, required))
           /\ subprojects' = subprojects /\ deps' = deps
  <2> DEFINE g == Interpreter(s, required)
  <2>1. /\ g.name = s /\ g.required = required /\ g.configured = DOMAIN subprojects
        /\ g.dependency_overrides = Top.dependency_overrides
        /\ g.lookup = Nothing /\ g.used = {} /\ g.made = {}
    BY DEF Interpreter
  <2>2. g \in Frame
    <3>1. Top.dependency_overrides \in Overrides /\ DOMAIN subprojects \subseteq Sub
      BY <1>0, TopIs DEF StackInv
    <3>2. g = [name |-> s, required |-> required, configured |-> DOMAIN subprojects,
               dependency_overrides |-> Top.dependency_overrides,
               lookup |-> Nothing, used |-> {}, made |-> {}]
      BY DEF Interpreter
    <3> HIDE DEF g
    <3> QED  BY <3>1, <3>2 DEF Frame
  <2> HIDE DEF g
  <2>3. Starts(frames[Len(frames)], g, subprojects)
    BY <1>6, <2>1 DEF Starts, Waits
  <2>4. StackInv(Append(frames, g), subprojects, deps, path)
    BY <1>1, <1>4, <1>6, <2>1, <2>2, <2>3, Pushed
  <2> QED  BY <1>0, <1>6, <2>4 DEF Kept, g
<1> QED  BY <1>2, <1>3, <1>5, <1>6, Zenon DEF do_subproject

\* The candidates of a lookup in their order.
LEMMA LookupKeeps ==
  ASSUME Inv, path' = path, stack # << >>, NEW q \in Lookup, lookup(q)
  PROVE  Kept
<1> DEFINE s == q.subproject_name
           n == First(q.names, external(q))
<1>0. StackInv(stack, subprojects, deps, path) /\ CacheInv(deps) /\ SystemInv(system, path)
  BY DEF Inv
<1>g. Grows(deps, deps)
  BY DEF Grows
<1>q. Elements(q.names) \subseteq Name /\ Len(q.names) \in Nat /\ q.required \in BOOLEAN
      /\ q.subproject_name \in Sub \cup {Nothing}
  BY LookupHas, Zenon
<1>1. CASE Answer(q, do_dependency_cache(q), deps)
  <2>1. Answers(q, do_dependency_cache(q), deps)
    BY <1>0, CacheAnswers, Zenon
  <2> QED  BY <1>0, <1>g, <1>1, <2>1, AnswerKeeps, Zenon
<1>2. CASE Answer(q, get_subproject_dep(q), deps)
  <2>1. get_subproject_dep(q) = Nothing \/ Answers(q, get_subproject_dep(q), deps)
    BY <1>0, SubprojectAnswers, Zenon
  <2> QED  BY <1>0, <1>g, <1>2, <2>1, AnswerKeeps, Zenon
<1>3. CASE /\ do_dependency_cache(q) = Nothing /\ external(q) # {}
           /\ Answer(q, system[n], put(n, system[n]))
  <2>1. n \in external(q) /\ n \in Elements(q.names)
    <3>1. \E x \in Elements(q.names) : x \in external(q)
      BY <1>3 DEF external
    <3> QED  BY <1>q, <3>1, FirstIs, Zenon
  <2>2. n \in Name /\ system[n] # NotFound
    BY <1>q, <2>1 DEF external
  <2> HIDE DEF n
  <2>3. /\ CacheInv(put(n, system[n])) /\ Grows(deps, put(n, system[n]))
        /\ Fits(system[n], put(n, system[n]), path) /\ system[n] \in SystemDep
    BY <1>0, <2>2, PutIs
  <2>4. Usable(system[n], Top.name, subprojects, put(n, system[n]), path) /\ system[n] \in Dep
    BY <2>3, DepFacts, Zenon DEF Usable
  <2>5. Len(q.names) = 1 => q.names[1] \notin DOMAIN Top.dependency_overrides
    <3>1. Len(q.names) = 1 => q.names[1] \in Elements(q.names)
      BY DEF Elements
    <3> QED  BY <1>0, <1>3, <3>1, CacheAnswers, Zenon
  <2>6. Answers(q, system[n], put(n, system[n]))
    BY <2>4, <2>5, Zenon DEF Answers
  <2> QED  BY <1>3, <2>3, <2>6, AnswerKeeps, Zenon DEF n
<1>4. CASE Answer(q, Nothing, deps)
  BY <1>0, <1>g, <1>4, AnswerKeeps, Zenon
<1>5. CASE s # Nothing /\ do_subproject(s, q.required, Amend([Top EXCEPT !.lookup = q]))
  <2> DEFINE g == [Top EXCEPT !.lookup = q]
             frames == Amend(g)
  <2>1. g = [Top EXCEPT !.lookup = q] /\ q \in Lookup \cup {Nothing}
    OBVIOUS
  <2> HIDE DEF g
  <2>2. /\ g \in Frame /\ g.name = Top.name /\ g.lookup = q
        /\ g.dependency_overrides = Top.dependency_overrides
        /\ StackInv(frames, subprojects, deps, path)
    BY <1>0, <2>1, WaitingFrame
  <2>3. stack \in Seq(Frame)
    BY <1>0 DEF StackInv
  <2>4. /\ Len(frames) = Len(stack) /\ frames # << >> /\ frames[Len(stack)] = g
        /\ \A i \in 1..Len(stack) : frames[i].name = stack[i].name
    BY <2>2, <2>3 DEF Amend, Top
  <2>5. Waits(frames, s, q.required)
    BY <2>2, <2>4 DEF Waits
  <2>6. do_subproject(s, q.required, frames) /\ s \in Sub
    BY <1>5, <1>q, <2>1
  <2> HIDE DEF frames
  <2> QED  BY <1>q, <2>5, <2>6, DoSubprojectKeeps, Zenon
<1> QED  BY <1>1, <1>2, <1>3, <1>4, <1>5, Zenon DEF lookup

\* override_dependency of a name that is not resolved yet.
LEMMA OverrideKeeps ==
  ASSUME Inv, path' = path, stack # << >>, NEW n \in Name,
         NEW dep \in {Declared(Top.name), NotFound}, n \notin DOMAIN Top.dependency_overrides,
         stack' = Amend([Top EXCEPT !.dependency_overrides = With(@, n, dep),
                                    !.made = @ \cup {<<n, dep>>}]),
         subprojects' = subprojects, deps' = deps
  PROVE  Kept
<1> DEFINE f == Top
           o == With(f.dependency_overrides, n, dep)
           m == f.made \cup {<<n, dep>>}
           g == [f EXCEPT !.dependency_overrides = o, !.made = m]
<1>0. StackInv(stack, subprojects, deps, path) /\ CacheInv(deps)
  BY DEF Inv
<1>1. f \in Frame /\ f.name \in Sub \cup {Root} /\ f.dependency_overrides \in Overrides
  BY <1>0, TopIs, FrameHas, Zenon
<1>2. dep \in Dep /\ Usable(dep, f.name, subprojects, deps, path)
  BY <1>1, DepFacts DEF Usable, Fits
<1>3. o \in Overrides
  BY <1>1, <1>2, WithIs, Zenon
<1>4. m \in SUBSET Use
  BY <1>1, <1>2, FrameHas DEF Use
<1>5. /\ DOMAIN o = DOMAIN f.dependency_overrides \cup {n} /\ o[n] = dep
      /\ Within(f.dependency_overrides, o)
      /\ \A x \in DOMAIN o : x # n => x \in DOMAIN f.dependency_overrides
                                      /\ o[x] = f.dependency_overrides[x]
  <2> HIDE DEF f
  <2>1. n \notin DOMAIN f.dependency_overrides
    BY DEF f
  <2> QED  BY <2>1 DEF With, Within
<1>6. stack' = Amend(g)
  OBVIOUS
<1>7. \A u \in f.used \cup f.made : Agrees(u, f.dependency_overrides)
  <2>1. Len(stack) \in 1..Len(stack)
    BY <1>0, TopIs, Zenon
  <2> QED  BY <1>0, <2>1 DEF StackInv, Recorded, Top
<1>t. f = stack[Len(stack)]
  BY DEF Top
<1> HIDE DEF f, o
<1>8. /\ g.name = f.name /\ g.required = f.required /\ g.configured = f.configured
      /\ g.dependency_overrides = o /\ g.used = f.used /\ g.made = m
  BY <1>1 DEF Frame
<1>9. g \in Frame
  <2> HIDE DEF m
  <2> QED  BY <1>1, <1>3, <1>4, Zenon DEF Frame
<1>10. \A u \in g.used \cup g.made : Agrees(u, o)
  <2>1. ASSUME NEW u \in f.used \cup f.made PROVE Agrees(u, o)
    BY <1>5, <1>7, <2>1, AgreesStill
  <2>2. Agrees(<<n, dep>>, o)
    BY <1>5 DEF Agrees
  <2> QED  BY <1>8, <2>1, <2>2
<1> HIDE DEF g
<1>11. Amends(f, g, subprojects, deps, path)
  BY <1>2, <1>5, <1>8, <1>10 DEF Amends
<1>12. Grows(deps, deps)
  BY DEF Grows
<1>13. Amends(stack[Len(stack)], g, subprojects, deps, path)
  BY <1>11, <1>t
<1>14. StackInv(Amend(g), subprojects, deps, path)
  BY <1>0, <1>9, <1>12, <1>13, Amended, Zenon DEF Amend
<1> QED  BY <1>0, <1>6, <1>14 DEF Kept

\* The subproject that dependency() falls back to is one, or there is none.
LEMMA FallbackIs ==
  ASSUME NEW names \in Lists, NEW allow_fallback, NEW required
  PROVE  fallback(names, allow_fallback, required) \in Sub \cup {Nothing}
<1> DEFINE provided == {n \in Elements(names) : Provider[n] # Nothing}
<1>1. names \in Seq(Name) /\ Len(names) \in Nat /\ Elements(names) \subseteq Name
  BY NamesAssumption DEF Elements
<1>2. provided # {} => Provider[First(names, provided)] \in Sub \cup {Nothing}
  <2>1. ASSUME provided # {} PROVE First(names, provided) \in Elements(names)
    <3>1. \E x \in Elements(names) : x \in provided
      BY <2>1
    <3> QED  BY <1>1, <3>1, FirstIs, Zenon
  <2> QED  BY <1>1, <2>1, NamesAssumption
<1> QED  BY <1>2 DEF fallback

----------------------------------------------------------------------------
(* The inductive invariant *)

\* The first state.
LEMMA InitInv == Init => Inv
<1> SUFFICES ASSUME Init PROVE Inv
  OBVIOUS
<1>1. StackInv(stack, subprojects, deps, path)
  BY Cleared DEF Init
<1>2. CacheInv(deps) /\ CacheInv(saved)
  BY DEF Init, CacheInv, None
<1>3. SystemInv(system, path)
  BY InstalledAssumption DEF Init, SystemInv
<1>4. path \in Path /\ calls \in 0..MaxCalls
  BY InstalledAssumption, MaxCallsAssumption DEF Init
<1> QED  BY <1>1, <1>2, <1>3, <1>4 DEF Init, Inv

\* A new run, with another system and another path.
LEMMA SetupKeeps ==
  ASSUME Inv, Setup
  PROVE  Inv'
<1> DEFINE f == Interpreter(Root, TRUE)
<1>1. stack = << >> /\ DOMAIN subprojects = {}
  BY DEF Setup, Inv, StackInv, Nested
<1>2. f = [name |-> Root, required |-> TRUE, configured |-> DOMAIN subprojects,
           dependency_overrides |-> None, lookup |-> Nothing, used |-> {}, made |-> {}]
  BY <1>1 DEF Interpreter
<1>3. None \in Overrides
  <2>1. None \in [{} -> Dep]
    BY DEF None
  <2>2. {} \in SUBSET Name
    OBVIOUS
  <2> QED  BY <2>1, <2>2, OverridesAre, Zenon
<1>4. /\ stack' = <<f>> /\ subprojects' = subprojects /\ saved' = saved /\ calls' = calls
      /\ path' \in Path /\ wrap_mode' \in {"default", "nofallback", "forcefallback"}
  BY DEF Setup
<1> HIDE DEF f
<1>5. /\ f \in Frame /\ f.name = Root /\ f.configured = {} /\ f.dependency_overrides = None
      /\ f.used = {} /\ f.made = {}
  BY <1>1, <1>2, <1>3 DEF Frame
<1>6. StackInv(stack', subprojects', deps', path')
  <2>1. StackInv(<<f>>, subprojects, deps', path')
    BY <1>1, <1>5, Started
  <2> QED  BY <1>4, <2>1
<1>7. CacheInv(deps')
  <2>1. deps' = None \/ deps' = saved
    BY DEF Setup
  <2>2. CacheInv(None)
    BY DEF CacheInv, None
  <2> QED  BY <2>1, <2>2 DEF Inv
<1>8. SystemInv(system', path')
  <2>1. PICK i \in Installed : system' =
            [n \in Name |-> IF i[n].type = "pkgconfig" THEN [i[n] EXCEPT !.path = path'] ELSE i[n]]
    BY Zenon DEF Setup
  <2>2. ASSUME NEW n \in Name
        PROVE  /\ system'[n] \in Dep
               /\ \/ system'[n] = NotFound
                  \/ /\ system'[n] \in SystemDep /\ system'[n].name = n
                     /\ system'[n].type = "pkgconfig" => system'[n].path = path'
    <3> DEFINE x == i[n]
    <3>1. x = NotFound \/ (x \in SystemDep /\ x.name = n)
      BY InstalledAssumption
    <3>2. system'[n] = IF x.type = "pkgconfig" THEN [x EXCEPT !.path = path'] ELSE x
      BY <2>1
    <3> HIDE DEF x
    <3>3. CASE x = NotFound
      BY <3>2, <3>3, DepFacts
    <3>4. CASE x \in SystemDep /\ x.name = n /\ x.type # "pkgconfig"
      BY <3>2, <3>4, DepFacts
    <3>5. CASE x \in SystemDep /\ x.name = n /\ x.type = "pkgconfig"
      <4> DEFINE y == [x EXCEPT !.path = path']
      <4>1. y \in SystemDep /\ y.name = n /\ y.path = path'
        BY <1>4, <3>5 DEF SystemDep
      <4> HIDE DEF y
      <4>2. system'[n] = y
        BY <3>2, <3>5 DEF y
      <4> QED  BY <4>1, <4>2, DepFacts
    <3> QED  BY <3>1, <3>3, <3>4, <3>5
  <2>3. system' \in [Name -> Dep]
    BY <2>1, <2>2
  <2> QED  BY <2>2, <2>3, Zenon DEF SystemInv
<1> QED  BY <1>4, <1>6, <1>7, <1>8 DEF Inv

\* The calls: everything but the stack, the dictionary and the cache stays.
LEMMA CallsKeep ==
  ASSUME Inv, func_dependency \/ override_dependency \/ func_subproject \/ Error \/ LookupReturns
  PROVE  Kept
<1>0. StackInv(stack, subprojects, deps, path) /\ CacheInv(deps)
  BY DEF Inv
<1>1. path' = path /\ stack # << >>
  BY Zenon DEF func_dependency, override_dependency, func_subproject, Error, LookupReturns, Call
<1>2. CASE func_dependency
  <2>0. PICK names \in Lists, version \in {0, 2}, required \in BOOLEAN :
            \E s \in Sub \cup {fallback(names, allow_fallback, required) :
                                allow_fallback \in {"true", "false", "unset"}} :
                lookup([names |-> names, version |-> version, required |-> required,
                        subproject_name |-> s])
    BY <1>2, Zenon DEF func_dependency
  <2>1. PICK s \in Sub \cup {fallback(names, allow_fallback, required) :
                                allow_fallback \in {"true", "false", "unset"}} :
                lookup([names |-> names, version |-> version, required |-> required,
                        subproject_name |-> s])
    BY <2>0, Zenon
  <2>2. s \in Sub \cup {Nothing}
    BY <2>1, FallbackIs
  <2> DEFINE q == [names |-> names, version |-> version, required |-> required,
                   subproject_name |-> s]
  <2>3. q \in Lookup /\ lookup(q)
    BY <2>1, <2>2 DEF Lookup
  <2> HIDE DEF q
  <2> QED  BY <1>1, <2>3, LookupKeeps, Zenon
<1>3. CASE override_dependency
  <2>1. PICK n \in Name, dep \in {Declared(Top.name), NotFound} :
        IF n \in DOMAIN Top.dependency_overrides
        THEN Raise(FALSE) \/ UNCHANGED <<stack, subprojects, deps>>
        ELSE /\ stack' = Amend([Top EXCEPT !.dependency_overrides = With(@, n, dep),
                                           !.made = @ \cup {<<n, dep>>}])
             /\ UNCHANGED <<subprojects, deps>>
    BY <1>3, Zenon DEF override_dependency
  <2>2. CASE n \in DOMAIN Top.dependency_overrides
    <3>1. CASE Raise(FALSE)
      BY <1>1, <3>1, RaiseKeeps, Zenon
    <3>2. CASE UNCHANGED <<stack, subprojects, deps>>
      BY <1>0, <1>1, <3>2 DEF Kept
    <3> QED  BY <2>1, <2>2, <3>1, <3>2
  <2>3. CASE n \notin DOMAIN Top.dependency_overrides
    BY <1>1, <2>1, <2>3, OverrideKeeps, Zenon
  <2> QED  BY <2>2, <2>3
<1>4. CASE func_subproject
  <2>1. PICK s \in Sub :
        \/ \E required \in BOOLEAN : do_subproject(s, required, stack)
        \/ /\ subprojects' = With(subprojects, s, disabled_subproject("skipped"))
           /\ UNCHANGED <<stack, deps>>
    BY <1>4, Zenon DEF func_subproject
  <2>2. ASSUME NEW required \in BOOLEAN, do_subproject(s, required, stack) PROVE Kept
    <3>1. Top.lookup = Nothing
      BY <1>4 DEF func_subproject, Call
    <3>2. Waits(stack, s, required)
      BY <1>0, <1>1, <3>1 DEF Waits, Top
    <3> QED  BY <1>1, <2>2, <3>2, DoSubprojectKeeps, Zenon
  <2>3. CASE /\ subprojects' = With(subprojects, s, disabled_subproject("skipped"))
             /\ stack' = stack /\ deps' = deps
    <3>1. StackInv(stack, subprojects', deps, path)
      BY <1>0, <1>1, <2>3, Disabled
    <3> QED  BY <1>0, <1>1, <2>3, <3>1 DEF Kept
  <2> QED  BY <2>1, <2>2, <2>3, Zenon
<1>5. CASE Error
  <2>1. PICK invalid_code \in BOOLEAN : Raise(invalid_code)
    BY <1>5, Zenon DEF Error
  <2> QED  BY <1>1, <2>1, RaiseKeeps, Zenon
<1>6. CASE LookupReturns
  <2> DEFINE q == Top.lookup
  <2>1. q # Nothing /\ Answer(q, get_subproject_dep(q), deps)
    BY <1>6, Zenon DEF LookupReturns
  <2>2. q \in Lookup
    BY <1>0, <1>1, <2>1, TopIs, FrameHas, Zenon
  <2> HIDE DEF q
  <2>3. get_subproject_dep(q) = Nothing \/ Answers(q, get_subproject_dep(q), deps)
    BY <1>0, <1>1, <2>2, SubprojectAnswers, Zenon
  <2>4. Grows(deps, deps)
    BY DEF Grows
  <2> QED  BY <1>0, <1>1, <2>1, <2>2, <2>3, <2>4, AnswerKeeps, Zenon
<1> QED  BY <1>2, <1>3, <1>4, <1>5, <1>6

\* The end of a meson.build file.
LEMMA FinishKeeps ==
  ASSUME Inv, Finish
  PROVE  Kept /\ CacheInv(saved)'
<1>0. /\ StackInv(stack, subprojects, deps, path) /\ CacheInv(deps) /\ CacheInv(saved)
      /\ stack # << >> /\ path' = path /\ deps' = deps
  BY DEF Inv, Finish
<1>1. CASE Len(stack) = 1
  <2>1. stack' = << >> /\ subprojects' = None /\ saved' = deps
    BY <1>1 DEF Finish
  <2>2. StackInv(<< >>, None, deps, path)
    BY Cleared, Zenon
  <2> QED  BY <1>0, <2>1, <2>2 DEF Kept
<1>2. CASE Len(stack) # 1
  <2>1. /\ stack' = merge(stack) /\ saved' = saved
        /\ subprojects' = With(subprojects, Top.name, [state |-> "found", made |-> Top.made])
    BY <1>2 DEF Finish
  <2>0. Len(stack) \in Nat /\ Len(stack) # 0
    BY <1>0, TopIs, Zenon
  <2>2. Len(stack) > 1
    <3>1. \A n \in Nat : n # 0 /\ n # 1 => n > 1
      OBVIOUS
    <3> QED  BY <1>2, <2>0, <3>1, Zenon
  <2>3. StackInv(merge(stack), subprojects', deps, path)
    BY <1>0, <2>1, <2>2, MergedStack, Zenon DEF Top
  <2> QED  BY <1>0, <2>1, <2>3 DEF Kept
<1> QED  BY <1>1, <1>2

\* Every step preserves the invariant.
LEMMA NextInv ==
  ASSUME Inv, [Next]_vars
  PROVE  Inv'
<1>0. calls \in 0..MaxCalls /\ MaxCalls \in Nat
  BY MaxCallsAssumption DEF Inv
<1>1. CASE Setup
  BY <1>1, SetupKeeps, Zenon
<1>2. CASE func_dependency \/ override_dependency \/ func_subproject \/ Error \/ LookupReturns
  <2>1. /\ system' = system /\ wrap_mode' = wrap_mode /\ path' = path /\ saved' = saved
    BY <1>2, Zenon DEF func_dependency, override_dependency, func_subproject, Error, LookupReturns, Call
  <2>2. calls' \in 0..MaxCalls
    <3>1. Call \/ calls' = calls
      BY <1>2, Zenon
         DEF func_dependency, override_dependency, func_subproject, Error, LookupReturns
    <3>2. CASE Call
      BY <1>0, <3>2 DEF Call
    <3> QED  BY <1>0, <3>1, <3>2
  <2>3. Kept
    BY <1>2, CallsKeep, Zenon
  <2> QED  BY <2>1, <2>2, <2>3 DEF Inv, Kept
<1>3. CASE Finish
  <2>1. system' = system /\ wrap_mode' = wrap_mode /\ path' = path /\ calls' = calls
    BY <1>3 DEF Finish
  <2>2. Kept /\ CacheInv(saved)'
    BY <1>3, FinishKeeps, Zenon
  <2> QED  BY <2>1, <2>2 DEF Inv, Kept
<1>4. CASE UNCHANGED vars
  BY <1>4 DEF Inv, vars
<1> QED  BY <1>1, <1>2, <1>3, <1>4, Zenon DEF Next, Stop

\* It holds throughout.
LEMMA Invariant == Spec => []Inv
<1>1. Inv /\ [Next]_vars => Inv'
  BY NextInv
<1> QED  BY <1>1, InitInv, PTL DEF Spec

----------------------------------------------------------------------------
(* Theorems *)

\* The state of the interpreters, the dictionary and the caches has its types;
\* the projects on the stack are distinct (the test of subproject_stack in
\* do_subproject) and wait only for the one above them.
THEOREM TypeCorrect == Spec => []TypeOK
<1>1. Inv => TypeOK
  <2> SUFFICES ASSUME Inv PROVE TypeOK
    OBVIOUS
  <2>1. /\ stack \in Seq(Frame) /\ Nested(stack, subprojects) /\ DOMAIN subprojects \subseteq Sub
        /\ CacheInv(deps) /\ CacheInv(saved) /\ SystemInv(system, path)
        /\ path \in Path /\ calls \in 0..MaxCalls
        /\ wrap_mode \in {"default", "nofallback", "forcefallback"}
    BY DEF Inv, StackInv
  <2>2. ASSUME NEW i \in 1..Len(stack)
        PROVE  /\ DOMAIN stack[i].dependency_overrides \subseteq Name
               /\ \A n \in DOMAIN stack[i].dependency_overrides :
                    stack[i].dependency_overrides[n] \in Dep
    <3>1. stack[i] \in Frame
      BY <2>1
    <3>2. stack[i].dependency_overrides \in Overrides
      BY <3>1, FrameHas, Zenon
    <3> QED  BY <3>2, OverridesHave, Zenon
  <2>3. DOMAIN deps \subseteq Name /\ DOMAIN saved \subseteq Name /\ system \in [Name -> Dep]
    BY <2>1 DEF CacheInv, SystemInv
  <2> QED  BY <2>1, <2>2, <2>3, Zenon DEF TypeOK, Nested
<1> QED  BY <1>1, Invariant, PTL

\* All projects of a run get the same object for a name, for any lists of names,
\* fallbacks and failing subprojects: every answer of lookup becomes an override
\* and no override of a running project is ever replaced.
THEOREM ProjectsAgree == Spec => []SameDependency
<1>1. Inv => SameDependency
  <2> SUFFICES ASSUME Inv PROVE SameDependency
    OBVIOUS
  <2>1. StackInv(stack, subprojects, deps, path)
    BY DEF Inv
  <2>2. ASSUME NEW i \in 1..Len(stack), NEW u \in stack[i].used
        PROVE  Agrees(u, Top.dependency_overrides)
    <3>1. Agrees(u, stack[i].dependency_overrides)
      BY <2>1, <2>2 DEF StackInv, Recorded
    <3>2. i <= Len(stack) /\ Len(stack) \in 1..Len(stack)
      BY <2>1 DEF StackInv
    <3>3. Within(stack[i].dependency_overrides, Top.dependency_overrides)
      BY <2>1, <3>2 DEF StackInv, Snapshots, Top
    <3> QED  BY <3>1, <3>3, AgreesStill, Zenon
  <2>3. \A u \in UNION {stack[i].used : i \in 1..Len(stack)} : Agrees(u, Top.dependency_overrides)
    BY <2>2
  <2> QED  BY <2>3 DEF SameDependency, Agrees
<1> QED  BY <1>1, Invariant, PTL

\* No override of the running project comes from a failed subproject or from one
\* configured inside it, at any depth of nesting: do_subproject gives each
\* interpreter its own Build and merges it only at the end.
THEOREM FailureLeavesNothing == Spec => []NothingOfAFailedSubproject
<1>1. Inv => NothingOfAFailedSubproject
  <2> SUFFICES ASSUME Inv, stack # << >>, NEW n \in DOMAIN Top.dependency_overrides,
                      Top.dependency_overrides[n].src \in Sub \ Names
               PROVE  /\ Top.dependency_overrides[n].src \in DOMAIN subprojects
                      /\ subprojects[Top.dependency_overrides[n].src].state # "failed"
    BY Zenon DEF NothingOfAFailedSubproject
  <2>1. StackInv(stack, subprojects, deps, path)
    BY DEF Inv
  <2>2. Len(stack) \in 1..Len(stack)
    BY <2>1, TopIs, Zenon
  <2>3. Known(stack, subprojects, Len(stack)) = DOMAIN subprojects
    BY <2>2 DEF Known
  <2>4. \A j \in 1..Len(stack) : stack[j].name # Top.dependency_overrides[n].src
    BY DEF Names
  <2> QED  BY <2>1, <2>2, <2>3, <2>4 DEF StackInv, Sources, Top
<1> QED  BY <1>1, Invariant, PTL

\* What a found subproject has declared is known to every project that runs
\* while the shared dictionary shows it: the deletion of what a failed
\* subproject configured and the loss of its Build fit together.
THEOREM DictionaryAgreesWithBuilds == Spec => []FoundIsMerged
<1>1. Inv => FoundIsMerged
  <2> SUFFICES ASSUME Inv, stack # << >>, NEW s \in DOMAIN subprojects,
                      subprojects[s].state = "found", NEW m \in subprojects[s].made
               PROVE  Agrees(m, Top.dependency_overrides)
    BY Zenon DEF FoundIsMerged, Agrees
  <2>1. StackInv(stack, subprojects, deps, path)
    BY DEF Inv
  <2>2. Len(stack) \in 1..Len(stack)
    BY <2>1, TopIs, Zenon
  <2>3. Known(stack, subprojects, Len(stack)) = DOMAIN subprojects
    BY <2>2 DEF Known
  <2> QED  BY <2>1, <2>2, <2>3 DEF StackInv, Merged, Top
<1> QED  BY <1>1, Invariant, PTL

\* Whatever runs and changes of pkg_config_path came before, a dependency from a
\* cache entry made for pkg-config is used only with the path it was found with.
THEOREM CacheIsPerPath == Spec => []CacheFollowsPath
<1>1. Inv => CacheFollowsPath
  <2> SUFFICES ASSUME Inv, NEW i \in 1..Len(stack), NEW u \in stack[i].used
               PROVE  u[2].type = "pkgconfig" /\ deps[u[2].name].type = "pkgconfig" => u[2].path = path
    BY Zenon DEF CacheFollowsPath
  <2>1. Agrees(u, stack[i].dependency_overrides)
    BY DEF Inv, StackInv, Recorded
  <2>2. Fits(u[2], deps, path)
    BY <2>1 DEF Inv, StackInv, Current, Agrees
  <2> QED  BY <2>2, Zenon DEF Fits
<1> QED  BY <1>1, Invariant, PTL
=============================================================================
