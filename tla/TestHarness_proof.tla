------------------------- MODULE TestHarness_proof -------------------------
(***************************************************************************)
(* Proofs about TestHarness, for any number of runners, slots and signals: *)
(* its type and its slots; the deque of futures and the dictionary         *)
(* running_tests; the exclusiveness of serial tests, which rests on the    *)
(* deque being empty when one is created; and what the harness reports,    *)
(* also when it is interrupted.                                            *)
(***************************************************************************)
EXTENDS TestHarness, FiniteSetTheorems, TLAPS

-----------------------------------------------------------------------------
(* Lists *)

\* The empty list.
LEMMA EmptyList == ASSUME NEW S PROVE <<>> \in Seq(S) /\ \A s \in Seq(S) : s = <<>> <=> Len(s) = 0
OBVIOUS

\* A list is a function on the numbers up to its length.
LEMMA ListLength ==
  ASSUME NEW S, NEW s \in Seq(S)
  PROVE  Len(s) \in Nat /\ DOMAIN s = 1..Len(s) /\ s \in [1..Len(s) -> S]
OBVIOUS

\* One element more.
LEMMA ListAppend ==
  ASSUME NEW S, NEW s \in Seq(S), NEW e \in S
  PROVE  /\ Append(s, e) \in Seq(S) /\ Len(Append(s, e)) = Len(s) + 1
         /\ Append(s, e)[Len(s) + 1] = e /\ \A i \in 1..Len(s) : Append(s, e)[i] = s[i]
OBVIOUS

\* One list after the other.
LEMMA ListConcat ==
  ASSUME NEW S, NEW s \in Seq(S), NEW t \in Seq(S)
  PROVE  /\ s \o t \in Seq(S) /\ Len(s \o t) = Len(s) + Len(t)
         /\ \A i \in 1..Len(s) + Len(t) : (s \o t)[i] = IF i <= Len(s) THEN s[i] ELSE t[i - Len(s)]
OBVIOUS

\* A part of a list.
LEMMA ListPart ==
  ASSUME NEW S, NEW s \in Seq(S), NEW m \in 1..Len(s) + 1, NEW n \in 0..Len(s)
  PROVE  /\ SubSeq(s, m, n) \in Seq(S) /\ Len(SubSeq(s, m, n)) = (IF m <= n THEN n - m + 1 ELSE 0)
         /\ \A i \in 1..n - m + 1 : SubSeq(s, m, n)[i] = s[m + i - 1]
OBVIOUS

\* The first element and the others.
LEMMA ListTail ==
  ASSUME NEW S, NEW s \in Seq(S), s # <<>>
  PROVE  /\ Head(s) \in S /\ Tail(s) \in Seq(S) /\ Len(Tail(s)) = Len(s) - 1
         /\ \A i \in 1..Len(Tail(s)) : Tail(s)[i] = s[i + 1]
OBVIOUS

-----------------------------------------------------------------------------
(* Sequences: the three ways in which the deque is changed *)

\* popleft followed by append rotates the deque by one
LEMMA RotateOne ==
  ASSUME NEW S, NEW s \in Seq(S), s # <<>>
  PROVE  LET r == Append(Tail(s), Head(s))
         IN  /\ r \in Seq(S)
             /\ Len(r) = Len(s)
             /\ \A i \in 1..(Len(s) - 1) : r[i] = s[i + 1]
             /\ r[Len(s)] = s[1]
<1>1. /\ Head(s) = s[1] /\ Head(s) \in S
      /\ Tail(s) \in Seq(S)
      /\ Len(Tail(s)) = Len(s) - 1
      /\ \A i \in 1..(Len(s) - 1) : Tail(s)[i] = s[i + 1]
  BY ListTail
<1>2. Len(s) \in Nat \ {0}
  BY EmptyList
<1>. QED
  BY <1>1, <1>2, ListAppend

\* k such rotations at once
LEMMA RotateMany ==
  ASSUME NEW S, NEW s \in Seq(S), NEW k \in 0..Len(s)
  PROVE  LET r == SubSeq(s, k + 1, Len(s)) \o SubSeq(s, 1, k)
         IN  /\ r \in Seq(S)
             /\ Len(r) = Len(s)
             /\ \A i \in 1..Len(s) :
                  r[i] = IF i <= Len(s) - k THEN s[k + i]
                                            ELSE s[i - (Len(s) - k)]
<1>. DEFINE a == SubSeq(s, k + 1, Len(s))
            b == SubSeq(s, 1, k)
<1>1. Len(s) \in Nat /\ \A i \in 1..Len(s) : s[i] \in S
  BY ListLength
<1>2. /\ a \in Seq(S)
      /\ Len(a) = Len(s) - k
      /\ \A i \in 1..(Len(s) - k) : a[i] = s[k + i]
  <2>1. \A i \in (k + 1)..Len(s) : s[i] \in S
    BY <1>1
  <2>. QED  BY <1>1, <2>1, ListPart
<1>3. /\ b \in Seq(S)
      /\ Len(b) = k
      /\ \A i \in 1..k : b[i] = s[i]
  <2>1. \A i \in 1..k : s[i] \in S
    BY <1>1
  <2>. QED  BY <1>1, <2>1, ListPart
<1>. HIDE DEF a, b
<1>4. /\ a \o b \in Seq(S)
      /\ Len(a \o b) = Len(a) + Len(b)
      /\ \A i \in 1..(Len(a) + Len(b)) :
           (a \o b)[i] = IF i <= Len(a) THEN a[i] ELSE b[i - Len(a)]
  BY <1>2, <1>3, ListConcat, Zenon
<1>5. \A i \in 1..Len(s) :
        (a \o b)[i] = IF i <= Len(s) - k THEN s[k + i] ELSE s[i - (Len(s) - k)]
  <2>1. ASSUME NEW i \in 1..Len(s), i <= Len(s) - k
        PROVE  (a \o b)[i] = s[k + i]
    <3>1. i \in 1..(Len(a) + Len(b)) /\ i <= Len(a) /\ i \in 1..(Len(s) - k)
      BY <1>1, <1>2, <1>3, <2>1
    <3>. QED  BY <1>2, <1>4, <3>1
  <2>2. ASSUME NEW i \in 1..Len(s), ~(i <= Len(s) - k)
        PROVE  (a \o b)[i] = s[i - (Len(s) - k)]
    <3>1. /\ i \in 1..(Len(a) + Len(b)) /\ ~(i <= Len(a))
          /\ i - Len(a) \in 1..k /\ i - Len(a) = i - (Len(s) - k)
      BY <1>1, <1>2, <1>3, <2>2
    <3>. QED  BY <1>3, <1>4, <3>1
  <2>. QED  BY <2>1, <2>2, Zenon
<1>6. Len(a \o b) = Len(s)
  BY <1>1, <1>2, <1>3, <1>4
<1>. QED
  BY <1>4, <1>5, <1>6, Zenon DEF a, b

\* deque.remove
LEMMA RemoveOne ==
  ASSUME NEW S, NEW s \in Seq(S), NEW n \in 1..Len(s)
  PROVE  /\ RemoveAt(s, n) \in Seq(S)
         /\ Len(RemoveAt(s, n)) = Len(s) - 1
         /\ \A i \in 1..(Len(s) - 1) :
              RemoveAt(s, n)[i] = IF i < n THEN s[i] ELSE s[i + 1]
<1>. DEFINE a == SubSeq(s, 1, n - 1)
            b == SubSeq(s, n + 1, Len(s))
<1>1. Len(s) \in Nat /\ \A i \in 1..Len(s) : s[i] \in S
  BY ListLength
<1>2. /\ a \in Seq(S)
      /\ Len(a) = n - 1
      /\ \A i \in 1..(n - 1) : a[i] = s[i]
  <2>1. \A i \in 1..(n - 1) : s[i] \in S
    BY <1>1
  <2>. QED  BY <1>1, <2>1, ListPart
<1>3. /\ b \in Seq(S)
      /\ Len(b) = Len(s) - n
      /\ \A i \in 1..(Len(s) - n) : b[i] = s[n + i]
  <2>1. \A i \in (n + 1)..Len(s) : s[i] \in S
    BY <1>1
  <2>. QED  BY <1>1, <2>1, ListPart
<1>. HIDE DEF a, b
<1>4. /\ a \o b \in Seq(S)
      /\ Len(a \o b) = Len(a) + Len(b)
      /\ \A i \in 1..(Len(a) + Len(b)) :
           (a \o b)[i] = IF i <= Len(a) THEN a[i] ELSE b[i - Len(a)]
  BY <1>2, <1>3, ListConcat, Zenon
<1>5. \A i \in 1..(Len(s) - 1) :
        (a \o b)[i] = IF i < n THEN s[i] ELSE s[i + 1]
  <2>. TAKE i \in 1..(Len(s) - 1)
  <2>1. CASE i < n
    <3>1. i \in 1..(Len(a) + Len(b)) /\ i <= Len(a) /\ i \in 1..(n - 1)
      BY <1>1, <1>2, <1>3, <2>1
    <3>. QED  BY <1>2, <1>4, <2>1, <3>1
  <2>2. CASE ~(i < n)
    <3>1. /\ i \in 1..(Len(a) + Len(b)) /\ ~(i <= Len(a))
          /\ i - Len(a) = i - (n - 1)
          /\ i - (n - 1) \in 1..(Len(s) - n)
          /\ n + (i - (n - 1)) = i + 1
      BY <1>1, <1>2, <1>3, <2>2
    <3>2. (a \o b)[i] = b[i - (n - 1)]
      BY <1>4, <3>1
    <3>3. b[i - (n - 1)] = s[n + (i - (n - 1))]
      BY <1>3, <3>1
    <3>. QED  BY <2>2, <3>1, <3>2, <3>3
  <2>. QED  BY <2>1, <2>2, Zenon
<1>6. Len(a \o b) = Len(s) - 1
  BY <1>1, <1>2, <1>3, <1>4
<1>. QED
  BY <1>4, <1>5, <1>6, Zenon DEF RemoveAt, a, b

-----------------------------------------------------------------------------
(* Types and slots.  The value of the semaphore stays in its range because *)
(* it is what the holders leave, so both are proved together; rotating the *)
(* deque by Cardinality(running) keeps it a sequence because the keys of   *)
(* running_tests are futures of the deque.                                 *)

InDeque(t) == \E i \in 1..Len(futures) : futures[i] = t

RunningInDeque == \A t \in running : InDeque(t)

Created == \A t \in Runner : t >= next => phase[t] = "none"

BaseInv == TypeOK /\ SlotsConserved /\ Created /\ RunningInDeque

\* The runner that Create makes a task of is one that has none.
LEMMA NextRunner ==
  ASSUME BaseInv, Create PROVE next \in Runner /\ phase[next] = "none"
<1>1. next \in Nat \ {0} /\ next <= N /\ N \in Nat BY ConstantsAssumption DEF BaseInv, TypeOK, Create
<1>2. next \in Runner BY <1>1 DEF Runner
<1>3. next >= next BY <1>1
<1>. QED BY <1>2, <1>3 DEF BaseInv, Created

LEMMA RunnerFinite == IsFiniteSet(Runner)
  BY FS_Interval, ConstantsAssumption DEF Runner

LEMMA HoldersFinite == IsFiniteSet(Holders) /\ Cardinality(Holders) \in Nat
  BY RunnerFinite, FS_Subset, FS_CardinalityType DEF Holders

\* A task that leaves the semaphore gives its slot back
LEMMA LeaveSlot ==
  ASSUME TypeOK, SlotsConserved, NEW t \in Runner, phase[t] \in Holding,
         NEW x, x \notin Holding, phase' = [phase EXCEPT ![t] = x],
         sem' = sem + 1
  PROVE  SlotsConserved' /\ sem' \in 0..NumProcesses
<1>1. Holders' = Holders \ {t} /\ t \in Holders
  BY DEF Holders, TypeOK
<1>2. Cardinality(Holders') = Cardinality(Holders) - 1
      /\ Cardinality(Holders') \in Nat
  BY <1>1, HoldersFinite, FS_RemoveElement, FS_CardinalityType
<1>. QED
  BY <1>2, HoldersFinite, ConstantsAssumption DEF SlotsConserved, TypeOK

\* A task that acquires the semaphore takes one
LEMMA EnterSlot ==
  ASSUME TypeOK, SlotsConserved, NEW t \in Runner, phase[t] \notin Holding,
         NEW x, x \in Holding, phase' = [phase EXCEPT ![t] = x],
         sem > 0, sem' = sem - 1
  PROVE  SlotsConserved' /\ sem' \in 0..NumProcesses
<1>1. Holders' = Holders \union {t} /\ t \notin Holders
  BY DEF Holders, TypeOK
<1>2. Cardinality(Holders') = Cardinality(Holders) + 1
  BY <1>1, HoldersFinite, FS_AddElement, Zenon
<1>. QED
  BY <1>2, HoldersFinite, ConstantsAssumption DEF SlotsConserved, TypeOK

\* Other moves leave the slots alone
LEMMA KeepSlot ==
  ASSUME TypeOK, SlotsConserved, NEW t \in Runner, NEW x,
         phase[t] \in Holding <=> x \in Holding,
         phase' = [phase EXCEPT ![t] = x], sem' = sem
  PROVE  SlotsConserved' /\ sem' \in 0..NumProcesses
<1>1. Holders' = Holders
  BY DEF Holders, TypeOK
<1>. QED
  BY <1>1 DEF SlotsConserved, TypeOK

\* There are at most as many running tests as futures
LEMMA RunningCounted ==
  ASSUME TypeOK, RunningInDeque
  PROVE  /\ IsFiniteSet(running)
         /\ Cardinality(running) \in 0..Len(futures)
<1>. DEFINE elems == {futures[i] : i \in 1..Len(futures)}
<1>1. Len(futures) \in Nat /\ futures \in [1..Len(futures) -> elems]
  BY ListLength DEF TypeOK
<1>2. futures \in Surjection(1..Len(futures), elems)
  BY <1>1 DEF Surjection
<1>3. IsFiniteSet(1..Len(futures)) /\ Cardinality(1..Len(futures)) = Len(futures)
  BY <1>1, FS_Interval
<1>4. IsFiniteSet(elems) /\ Cardinality(elems) <= Len(futures)
  BY <1>2, <1>3, FS_Surjection
<1>5. running \in SUBSET elems
  BY DEF RunningInDeque, InDeque
<1>. HIDE DEF elems
<1>6. IsFiniteSet(running) /\ Cardinality(running) <= Cardinality(elems)
  BY <1>4, <1>5, FS_Subset
<1>. QED
  BY <1>1, <1>4, <1>6, FS_CardinalityType

LEMMA CancelOneBase ==
  ASSUME TypeOK, RunningInDeque, running # {}, cancel_one_test
  PROVE  /\ futures' \in Seq(Runner)
         /\ running' \subseteq Runner
         /\ cancelled' \in [Runner -> BOOLEAN]
         /\ RunningInDeque'
<1>1. futures # <<>> /\ Len(futures) \in Nat \ {0}
  <2>1. PICK u : u \in running
    OBVIOUS
  <2>2. PICK i \in 1..Len(futures) : futures[i] = u
    BY <2>1 DEF RunningInDeque, InDeque
  <2>. QED  BY <2>2, EmptyList, ListLength DEF TypeOK
<1>2. /\ futures' \in Seq(Runner)
      /\ Len(futures') = Len(futures)
      /\ \A i \in 1..(Len(futures) - 1) : futures'[i] = futures[i + 1]
      /\ futures'[Len(futures)] = futures[1]
  BY <1>1, RotateOne DEF TypeOK, cancel_one_test
<1>3. Head(futures) = futures[1] /\ Head(futures) \in Runner
  BY <1>1, ListTail DEF TypeOK
<1>4. RunningInDeque'
  <2>. SUFFICES ASSUME NEW u \in running, u # futures[1] PROVE InDeque(u)'
    BY <1>3 DEF RunningInDeque, cancel_one_test
  <2>1. PICK i \in 1..Len(futures) : futures[i] = u
    BY DEF RunningInDeque, InDeque
  <2>2. i - 1 \in 1..(Len(futures) - 1) /\ (i - 1) + 1 = i
    BY <1>1, <2>1
  <2>3. futures'[i - 1] = u /\ i - 1 \in 1..Len(futures')
    BY <1>1, <1>2, <2>1, <2>2
  <2>. QED  BY <2>3 DEF InDeque
<1>. QED
  BY <1>2, <1>3, <1>4 DEF TypeOK, cancel_one_test

LEMMA CancelAllBase ==
  ASSUME TypeOK, RunningInDeque, NEW self, cancel_all_tests(self)
  PROVE  /\ futures' \in Seq(Runner)
         /\ running' = {}
         /\ cancelled' \in [Runner -> BOOLEAN]
         /\ interrupted' = TRUE
         /\ RunningInDeque'
<1>1. Cardinality(running) \in 0..Len(futures)
  BY RunningCounted
<1>2. futures' \in Seq(Runner)
  BY <1>1, RotateMany, Zenon DEF TypeOK, cancel_all_tests
<1>. QED
  BY <1>2 DEF TypeOK, RunningInDeque, cancel_all_tests

LEMMA ProcessBase ==
  ASSUME TypeOK, RunningInDeque, NEW t \in Runner, NEW res \in Result,
         NEW value, ProcessResult(t, res, value)
  PROVE  /\ futures' \in Seq(Runner)
         /\ running' \subseteq Runner
         /\ interrupted' \in BOOLEAN
         /\ cancelled' \in [Runner -> BOOLEAN]
         /\ recorded' \in [Runner -> Result \union {"none"}]
         /\ collected' \subseteq Runner
         /\ maxfail_reached' \in BOOLEAN
         /\ fate' \in [Runner -> {"none", "returned", "cancelled", "raised"}]
         /\ phase' = [phase EXCEPT ![t] = "ended"]
         /\ sem' = value
         /\ RunningInDeque'
<1>1. /\ recorded' \in [Runner -> Result \union {"none"}]
      /\ collected' \subseteq Runner
      /\ maxfail_reached' \in BOOLEAN
      /\ fate' \in [Runner -> {"none", "returned", "cancelled", "raised"}]
      /\ phase' = [phase EXCEPT ![t] = "ended"]
      /\ sem' = value
  BY DEF ProcessResult, EndTask, TypeOK
<1>2. CASE cancel_all_tests(t)
  BY <1>1, <1>2, CancelAllBase, Zenon
<1>3. CASE UNCHANGED <<listVars, cancelled>>
  BY <1>1, <1>3 DEF TypeOK, RunningInDeque, InDeque, listVars
<1>. QED
  BY <1>2, <1>3 DEF ProcessResult
LEMMA InitBase == Init => BaseInv
<1>. SUFFICES ASSUME Init PROVE BaseInv
  OBVIOUS
<1>1. Holders = {}
  BY DEF Init, Holders, Holding, Killing
<1>2. SlotsConserved
  BY <1>1, FS_EmptySet, ConstantsAssumption DEF Init, SlotsConserved
<1>3. Created /\ RunningInDeque
  BY DEF Init, Created, RunningInDeque
<1>4. next \in 1..(N + 1) /\ sem \in 0..NumProcesses /\ ctrlc \in 0..MAX_CTRLC
      /\ signals \in 0..MaxSignals
  BY ConstantsAssumption DEF Init, MAX_CTRLC
<1>5. TypeOK
  BY <1>4, EmptyList, Zenon DEF Init, TypeOK, Proc
<1>. QED
  BY <1>2, <1>3, <1>5 DEF BaseInv

\* Steps that do not touch the semaphore's users
LEMMA IdleBase ==
  ASSUME BaseInv, UNCHANGED <<phase, sem>>, Created', RunningInDeque',
         TypeOK'
  PROVE  BaseInv'
  BY DEF BaseInv, SlotsConserved, Holders

LEMMA NextBase == BaseInv /\ [Next]_vars => BaseInv'
<1>. SUFFICES ASSUME BaseInv, [Next]_vars PROVE BaseInv'
  OBVIOUS
<1>. USE DEF BaseInv, taskVars, listVars, resultVars, procVars, sigVars,
             mainVars
<1>0. Outcomes \subseteq Result /\ "SKIP" \in Result /\ N \in Nat
      /\ Runner = 1..N
  BY ConstantsAssumption DEF Result, Runner
<1>1. CASE Create
  <2>1. next \in Runner /\ phase[next] = "none"
    BY <1>0, <1>1 DEF Create, Created, TypeOK
  <2>2. SlotsConserved' /\ sem' \in 0..NumProcesses
    BY <1>1, <2>1, KeepSlot, Zenon DEF Create, Holding, Killing
  <2>3. /\ futures' \in Seq(Runner)
        /\ Len(futures') = Len(futures) + 1
        /\ \A i \in 1..Len(futures) : futures'[i] = futures[i]
        /\ futures'[Len(futures) + 1] = next
        /\ Len(futures) \in Nat
    BY <1>1, <2>1, ListAppend, ListLength DEF Create, TypeOK
  <2>4. RunningInDeque'
    BY <1>1, <2>3 DEF Create, RunningInDeque, InDeque
  <2>5. Created'
    BY <1>0, <1>1 DEF Create, Created, TypeOK
  <2>6. next' \in 1..(N + 1) /\ running' \subseteq Runner
        /\ phase' \in [Runner -> Pending \union {"none", "ended", "gone"}]
    BY <1>0, <1>1, <2>1 DEF Create, TypeOK, Pending
  <2>7. main' \in {"loop", "serial", "final"}
    BY <1>1 DEF Create
  <2>8. TypeOK'
    BY <1>1, <2>2, <2>3, <2>6, <2>7 DEF Create, TypeOK
  <2>. QED  BY <2>2, <2>4, <2>5, <2>8
<1>2. CASE AwaitAll \/ DrainDone \/ SerialDone \/ FinalDone \/ AbortDone
  <2>1. TypeOK' /\ Created' /\ RunningInDeque'
    BY <1>2 DEF AwaitAll, DrainDone, SerialDone, FinalDone, AbortDone, TypeOK,
                Created, RunningInDeque, InDeque
  <2>2. UNCHANGED <<phase, sem>>
    BY <1>2 DEF AwaitAll, DrainDone, SerialDone, FinalDone, AbortDone
  <2>. QED  BY <2>1, <2>2, IdleBase
<1>3. CASE MainAbort
  <2>1. TypeOK' /\ Created' /\ RunningInDeque'
    BY <1>3 DEF MainAbort, TypeOK, Created, RunningInDeque, InDeque
  <2>. QED  BY <1>3, <2>1, IdleBase, Zenon DEF MainAbort
<1>4. CASE sigterm_handler
  <2>1. /\ futures' \in Seq(Runner) /\ running' = {} /\ interrupted' = TRUE
        /\ cancelled' \in [Runner -> BOOLEAN] /\ RunningInDeque'
    BY <1>4, CancelAllBase, Zenon DEF sigterm_handler
  <2>2. signals' \in 0..MaxSignals
    BY <1>4, ConstantsAssumption DEF sigterm_handler, TypeOK
  <2>3. TypeOK' /\ Created'
    BY <1>4, <2>1, <2>2 DEF sigterm_handler, TypeOK, Created
  <2>. QED  BY <1>4, <2>1, <2>3, IdleBase DEF sigterm_handler
<1>5. CASE sigint_handler
  <2>1. /\ futures' \in Seq(Runner) /\ running' \subseteq Runner
        /\ cancelled' \in [Runner -> BOOLEAN] /\ interrupted' \in BOOLEAN
        /\ RunningInDeque'
    <3>1. CASE cancel_all_tests(0)
      BY <3>1, CancelAllBase, Zenon
    <3>2. CASE running # {} /\ cancel_one_test /\ UNCHANGED interrupted
      BY <3>2, CancelOneBase DEF TypeOK
    <3>3. CASE /\ running = {} /\ interrupted' = TRUE
               /\ UNCHANGED <<futures, running, cancelled>>
      BY <3>3 DEF TypeOK, RunningInDeque, InDeque
    <3>. QED  BY <1>5, <3>1, <3>2, <3>3, Zenon DEF sigint_handler
  <2>2. ctrlc' \in 0..MAX_CTRLC /\ signals' \in 0..MaxSignals
    BY <1>5, ConstantsAssumption DEF sigint_handler, TypeOK, MAX_CTRLC
  <2>3. TypeOK' /\ Created'
    BY <1>5, <2>1, <2>2 DEF sigint_handler, TypeOK, Created
  <2>. QED  BY <1>5, <2>1, <2>3, IdleBase DEF sigint_handler
<1>6. ASSUME NEW t \in Runner, Skip(t) \/ Start(t) \/ RunSkip(t)
      PROVE  BaseInv'
  <2>1. phase[t] = "queued" /\ phase[t] \notin Holding /\ t < next /\ sem > 0
    BY <1>0, <1>6 DEF Skip, Start, RunSkip, Acquirable, Created, TypeOK,
                      Holding, Killing
  <2>2. CASE Skip(t)
    <3>1. phase' = [phase EXCEPT ![t] = "ended"] /\ sem' = sem
      BY <2>2 DEF Skip, EndTask
    <3>2. SlotsConserved' /\ sem' \in 0..NumProcesses
      BY <2>1, <3>1, KeepSlot, Zenon DEF Holding, Killing
    <3>3. Created' /\ RunningInDeque'
      BY <1>0, <2>1, <2>2, <3>1
      DEF Skip, Created, RunningInDeque, InDeque, TypeOK
    <3>4. TypeOK'
      BY <2>2, <3>2 DEF Skip, EndTask, TypeOK
    <3>. QED  BY <3>2, <3>3, <3>4
  <2>3. CASE Start(t)
    <3>1. phase' = [phase EXCEPT ![t] = "starting"] /\ sem' = sem - 1
      BY <2>3 DEF Start
    <3>2. SlotsConserved' /\ sem' \in 0..NumProcesses
      BY <2>1, <3>1, EnterSlot, Zenon DEF Holding, Killing
    <3>3. Created' /\ RunningInDeque'
      BY <1>0, <2>1, <2>3, <3>1
      DEF Start, Created, RunningInDeque, InDeque, TypeOK
    <3>4. TypeOK'
      BY <2>3, <3>2 DEF Start, TypeOK, Pending, Holding
    <3>. QED  BY <3>2, <3>3, <3>4
  <2>4. CASE RunSkip(t)
    <3>1. ProcessResult(t, "SKIP", sem)
      BY <2>4 DEF RunSkip
    <3>2. phase' = [phase EXCEPT ![t] = "ended"] /\ sem' = sem
      BY <3>1, <1>0, ProcessBase
    <3>3. SlotsConserved' /\ sem' \in 0..NumProcesses
      BY <2>1, <3>2, KeepSlot, Zenon DEF Holding, Killing
    <3>4. Created'
      BY <1>0, <2>1, <2>4, <3>2 DEF RunSkip, Created, TypeOK
    <3>5. TypeOK' /\ RunningInDeque'
      BY <1>0, <2>4, <3>1, <3>2, <3>3, ProcessBase, Zenon DEF RunSkip, TypeOK
    <3>. QED  BY <3>3, <3>4, <3>5
  <2>. QED  BY <1>6, <2>2, <2>3, <2>4
<1>7. ASSUME NEW t \in Runner,
             Spawn(t) \/ FinishParsed(t) \/ Timeout(t) \/ Escalate(t) \/ Killed(t)
      PROVE  BaseInv'
  <2>1. phase[t] \in Holding /\ t < next
    BY <1>0, <1>7 DEF Spawn, FinishParsed, Timeout, Escalate, Killed, Exited,
                      Created, TypeOK, Holding, Killing
  <2>2. PICK x \in Holding : phase' = [phase EXCEPT ![t] = x]
    BY <1>7 DEF Spawn, FinishParsed, Timeout, BeginKill, Escalate, Killed,
                Holding, Killing
  <2>3. sem' = sem /\ UNCHANGED listVars /\ UNCHANGED mainVars
    BY <1>7 DEF Spawn, FinishParsed, Timeout, Escalate, Killed
  <2>4. SlotsConserved' /\ sem' \in 0..NumProcesses
    BY <2>1, <2>2, <2>3, KeepSlot, Zenon
  <2>5. Created' /\ RunningInDeque'
    BY <1>0, <2>1, <2>2, <2>3 DEF Created, RunningInDeque, InDeque, TypeOK
  <2>6. phase' \in [Runner -> Pending \union {"none", "ended", "gone"}]
    BY <2>2 DEF TypeOK, Pending
  <2>7. leader' \in [Runner -> Proc] /\ helper' \in [Runner -> Proc]
    <3>1. CASE Spawn(t)
      BY <3>1 DEF Spawn, TypeOK, Proc
    <3>2. CASE FinishParsed(t)
      BY <3>2 DEF FinishParsed, TypeOK
    <3>3. CASE Timeout(t)
      BY <3>3 DEF Timeout, TypeOK, Proc
    <3>4. CASE Escalate(t)
      BY <3>4 DEF Escalate, TypeOK, Proc
    <3>5. CASE Killed(t)
      BY <3>5 DEF Killed, TypeOK, Proc
    <3>. QED  BY <1>7, <3>1, <3>2, <3>3, <3>4, <3>5
  <2>8. why' \in [Runner -> {"none", "TIMEOUT", "INTERRUPT"}]
    BY <1>7, Zenon DEF Spawn, FinishParsed, Timeout, BeginKill, Escalate, Killed,
                TypeOK
  <2>9. TypeOK'
    BY <1>7, <2>3, <2>4, <2>6, <2>7, <2>8
    DEF Spawn, FinishParsed, Timeout, Escalate, Killed, TypeOK
  <2>. QED  BY <2>4, <2>5, <2>9
<1>8. ASSUME NEW t \in Runner, Finish(t) \/ Collected(t)
      PROVE  BaseInv'
  <2>1. phase[t] \in Holding /\ t < next
    BY <1>0, <1>8 DEF Finish, Collected, Exited, Created, TypeOK, Holding
  <2>2. PICK res \in Result : ProcessResult(t, res, sem + 1)
    BY <1>0, <1>8, Zenon DEF Finish, Collected, TypeOK, Result
  <2>3. phase' = [phase EXCEPT ![t] = "ended"] /\ sem' = sem + 1
    BY <2>2, ProcessBase
  <2>4. SlotsConserved' /\ sem' \in 0..NumProcesses
    BY <2>1, <2>3, LeaveSlot, Zenon DEF Holding, Killing
  <2>5. Created'
    BY <1>0, <1>8, <2>1, <2>3 DEF Finish, Collected, Created, TypeOK
  <2>6. TypeOK' /\ RunningInDeque'
    BY <1>0, <1>8, <2>2, <2>3, <2>4, ProcessBase, Zenon
    DEF Finish, Collected, TypeOK
  <2>. QED  BY <2>4, <2>5, <2>6
<1>9. ASSUME NEW t \in Runner, SpawnFails(t)
      PROVE  BaseInv'
  <2>1. phase[t] \in Holding /\ t < next
    BY <1>0, <1>9 DEF SpawnFails, Created, TypeOK, Holding
  <2>2. phase' = [phase EXCEPT ![t] = "ended"] /\ sem' = sem + 1
    BY <1>9 DEF SpawnFails, EndTask
  <2>3. SlotsConserved' /\ sem' \in 0..NumProcesses
    BY <2>1, <2>2, LeaveSlot, Zenon DEF Holding, Killing
  <2>4. TypeOK' /\ Created' /\ RunningInDeque'
    BY <1>0, <1>9, <2>1, <2>2, <2>3
    DEF SpawnFails, EndTask, TypeOK, Created, RunningInDeque, InDeque
  <2>. QED  BY <2>3, <2>4
<1>10. ASSUME NEW t \in Runner, Cancel(t)
       PROVE  BaseInv'
  <2>1. phase[t] \in Pending /\ t < next
    BY <1>0, <1>10 DEF Cancel, Created, TypeOK, Pending, Holding, Killing
  <2>2. PICK x \in {"term", "ended"} : phase' = [phase EXCEPT ![t] = x]
    BY <1>10 DEF Cancel, BeginKill, EndTask
  <2>3. SlotsConserved' /\ sem' \in 0..NumProcesses
    <3>1. CASE phase[t] = "running"
      BY <1>10, <3>1, KeepSlot DEF Cancel, BeginKill, Holding, Killing
    <3>2. CASE phase[t] = "queued"
      BY <1>10, <3>2, KeepSlot DEF Cancel, EndTask, Holding, Killing
    <3>3. CASE phase[t] \notin {"running", "queued"}
      <4>1. phase[t] \in Holding
        BY <2>1, <3>3 DEF Pending
      <4>. QED  BY <1>10, <3>3, <4>1, LeaveSlot
                DEF Cancel, EndTask, Holding, Killing
    <3>. QED  BY <3>1, <3>2, <3>3
  <2>4. Created' /\ RunningInDeque'
    BY <1>0, <1>10, <2>1, <2>2
    DEF Cancel, Created, RunningInDeque, InDeque, TypeOK
  <2>5. phase' \in [Runner -> Pending \union {"none", "ended", "gone"}]
    BY <2>2, Zenon DEF TypeOK, Pending, Holding, Killing
  <2>6. TypeOK'
    BY <1>10, <2>3, <2>5 DEF Cancel, BeginKill, EndTask, TypeOK
  <2>. QED  BY <2>3, <2>4, <2>6
<1>11. ASSUME NEW t \in Runner, test_done(t)
       PROVE  BaseInv'
  <2>1. phase[t] = "ended" /\ t < next
    BY <1>0, <1>11 DEF test_done, Created, TypeOK
  <2>2. phase' = [phase EXCEPT ![t] = "gone"] /\ sem' = sem
    BY <1>11 DEF test_done
  <2>3. SlotsConserved' /\ sem' \in 0..NumProcesses
    BY <2>1, <2>2, KeepSlot, Zenon DEF Holding, Killing
  <2>4. Created'
    BY <1>0, <1>11, <2>1, <2>2 DEF test_done, Created, TypeOK
  <2>5. futures' \in Seq(Runner) /\ running' \subseteq Runner /\ RunningInDeque'
    <3>1. CASE fate[t] = "raised"
      BY <1>11, <3>1, Zenon DEF test_done, TypeOK, RunningInDeque, InDeque
    <3>2. CASE fate[t] # "raised"
      <4>1. PICK n \in 1..Len(futures) :
              futures[n] = t /\ futures' = RemoveAt(futures, n)
        BY <1>11, <3>2, Zenon DEF test_done
      <4>2. /\ futures' \in Seq(Runner)
            /\ Len(futures') = Len(futures) - 1
            /\ \A i \in 1..(Len(futures) - 1) :
                 futures'[i] = IF i < n THEN futures[i] ELSE futures[i + 1]
            /\ Len(futures) \in Nat
        <5>1. futures \in Seq(Runner) /\ Len(futures) \in Nat
          BY ListLength DEF TypeOK
        <5>2. /\ RemoveAt(futures, n) \in Seq(Runner)
              /\ Len(RemoveAt(futures, n)) = Len(futures) - 1
              /\ \A i \in 1..(Len(futures) - 1) :
                   RemoveAt(futures, n)[i]
                     = IF i < n THEN futures[i] ELSE futures[i + 1]
          BY <5>1, RemoveOne, Zenon
        <5>. QED  BY <4>1, <5>1, <5>2
      <4>3. running' = running \ {t}
        BY <1>11, <3>2, Zenon DEF test_done
      <4>4. ASSUME NEW u \in running, u # t PROVE InDeque(u)'
        <5>1. PICK j \in 1..Len(futures) : futures[j] = u
          BY DEF RunningInDeque, InDeque
        <5>2. CASE j < n
          BY <4>2, <5>1, <5>2 DEF InDeque
        <5>3. CASE j > n
          <6>1. /\ j - 1 \in 1..(Len(futures) - 1) /\ ~(j - 1 < n)
                /\ (j - 1) + 1 = j
            BY <4>2, <5>3
          <6>. QED  BY <4>2, <5>1, <6>1, Zenon DEF InDeque
        <5>. QED  BY <4>1, <4>4, <5>1, <5>2, <5>3, <4>2
      <4>. QED  BY <4>2, <4>3, <4>4 DEF TypeOK, RunningInDeque
    <3>. QED  BY <3>1, <3>2, Zenon
  <2>6. TypeOK'
    BY <1>11, <2>2, <2>3, <2>5 DEF test_done, TypeOK
  <2>. QED  BY <2>3, <2>4, <2>5, <2>6
<1>12. ASSUME NEW t \in Runner, LeaderExits(t) \/ HelperExits(t)
       PROVE  BaseInv'
  <2>1. Created' /\ RunningInDeque'
    BY <1>12, Zenon DEF LeaderExits, HelperExits, Created, RunningInDeque, InDeque
  <2>2. ASSUME LeaderExits(t) PROVE TypeOK'
    BY <2>2 DEF LeaderExits, TypeOK, Proc
  <2>3. ASSUME HelperExits(t) PROVE TypeOK'
    BY <2>3 DEF HelperExits, TypeOK, Proc
  <2>4. TypeOK'
    BY <1>12, <2>2, <2>3
  <2>. QED  BY <1>12, <2>1, <2>4, IdleBase, Zenon DEF LeaderExits, HelperExits
<1>13. CASE UNCHANGED vars
  <2>1. TypeOK' /\ Created' /\ RunningInDeque' /\ UNCHANGED <<phase, sem>>
    BY <1>13 DEF vars, TypeOK, Created, RunningInDeque, InDeque
  <2>. QED  BY <2>1, IdleBase
<1>14. ASSUME NEW t \in Runner, CancelSwallowed(t)
       PROVE  BaseInv'
  <2>1. Created' /\ RunningInDeque' /\ UNCHANGED <<phase, sem>>
    BY <1>14, Zenon DEF CancelSwallowed, Created, RunningInDeque, InDeque
  <2>2. TypeOK'
    BY <1>14 DEF CancelSwallowed, TypeOK
  <2>. QED  BY <2>1, <2>2, IdleBase, Zenon
<1>. QED
  BY <1>1, <1>2, <1>3, <1>4, <1>5, <1>6, <1>7, <1>8, <1>9, <1>10, <1>11,
     <1>12, <1>13, <1>14
  DEF Next, MainStep, TaskStep, Terminating

\* Every reachable state has the types of the Python variables, and the
\* counting semaphore of _run_tests neither loses nor invents a slot, for any
\* number of tests, processes and signals.
THEOREM TypesAndSlots == Spec => []BaseInv
  BY InitBase, NextBase, PTL DEF Spec

THEOREM TypeCorrect == Spec => []TypeOK
  BY TypesAndSlots, PTL DEF BaseInv

\* What is free and what tests hold adds up to --num-processes, whatever is
\* cancelled, times out or raises.
THEOREM SlotsAreConserved == Spec => []SlotsConserved
  BY TypesAndSlots, PTL DEF BaseInv

-----------------------------------------------------------------------------
(* The deque of futures, the dictionary running_tests and serial tests     *)

\* the task exists and its done-callback has not run
Alive(t) == phase[t] \notin {"none", "gone"}

Distinct ==
  \A i, j \in 1..Len(futures) : futures[i] = futures[j] => i = j

\* The deque holds the live tasks, and the ones whose callback raised
DequeExact ==
  \A t \in Runner :
    InDeque(t) <=> Alive(t) \/ (phase[t] = "gone" /\ fate[t] = "raised")

PrefixInv ==
  \E k \in 0..Len(futures) : running = {futures[i] : i \in 1..k}

\* While the main coroutine creates tasks, nothing has been cancelled, since
\* it last saw an empty deque without having yielded
LoopInv ==
  /\ main = "loop" => \A t \in Runner : InDeque(t) => t \in running
  /\ main \in {"loop", "drain"} => \A s \in Serial : ~Alive(s)
  /\ main = "serial" => /\ next > 1
                        /\ next - 1 \in Serial
                        /\ \A t \in Runner : InDeque(t) => t = next - 1

OneIfSerial ==
  \A s \in Serial : \A t \in Runner : Alive(s) /\ Alive(t) => s = t

DequeInv == Distinct /\ DequeExact /\ PrefixInv /\ LoopInv /\ OneIfSerial

-----------------------------------------------------------------------------

\* The prefix of running futures is as long as the dictionary is large
LEMMA PrefixCounted ==
  ASSUME TypeOK, Distinct, PrefixInv
  PROVE  RunningIsPrefix
<1>1. PICK k \in 0..Len(futures) : running = {futures[i] : i \in 1..k}
  BY DEF PrefixInv
<1>2. Len(futures) \in Nat
  BY ListLength DEF TypeOK
<1>. DEFINE f == [i \in 1..k |-> futures[i]]
<1>3. f \in Bijection(1..k, running)
  <2>1. f \in [1..k -> running]
    BY <1>1
  <2>2. \A i, j \in 1..k : f[i] = f[j] => i = j
    BY <1>2 DEF Distinct
  <2>3. \A t \in running : \E i \in 1..k : f[i] = t
    BY <1>1
  <2>. QED  BY <2>1, <2>2, <2>3 DEF Bijection, Injection, Surjection, IsInjective
<1>4. ExistsBijection(1..k, running)
  BY <1>3 DEF ExistsBijection
<1>5. IsFiniteSet(1..k) /\ Cardinality(1..k) = k
  BY <1>2, FS_Interval
<1>6. Cardinality(running) = k
  BY <1>4, <1>5, FS_Bijection
<1>7. Cardinality(running) <= Len(futures)
  BY <1>2, <1>6
<1>8. running = {futures[i] : i \in 1..Cardinality(running)}
  BY <1>1, <1>6, Zenon
<1>. QED
  BY <1>7, <1>8 DEF RunningIsPrefix

\* cancel_one_test moves the first of the running futures behind the others
LEMMA CancelOneDeque ==
  ASSUME TypeOK, Distinct, PrefixInv, running # {}, cancel_one_test
  PROVE  /\ Distinct' /\ PrefixInv'
         /\ \A t \in Runner : InDeque(t)' <=> InDeque(t)
<1>1. PICK k \in 0..Len(futures) : running = {futures[i] : i \in 1..k}
  BY DEF PrefixInv
<1>2. futures \in Seq(Runner) /\ Len(futures) \in Nat
  BY ListLength DEF TypeOK
<1>3. k >= 1 /\ Len(futures) >= 1 /\ futures # <<>>
  BY <1>1, <1>2, EmptyList
<1>4. /\ futures' \in Seq(Runner)
      /\ Len(futures') = Len(futures)
      /\ \A i \in 1..(Len(futures) - 1) : futures'[i] = futures[i + 1]
      /\ futures'[Len(futures)] = futures[1]
  BY <1>2, <1>3, RotateOne DEF cancel_one_test
<1>5. running' = running \ {futures[1]}
  BY <1>2, <1>3, ListTail DEF cancel_one_test
<1>. DEFINE old(i) == IF i = Len(futures) THEN 1 ELSE i + 1
<1>6. \A i \in 1..Len(futures) : /\ old(i) \in 1..Len(futures)
                                 /\ futures'[i] = futures[old(i)]
  BY <1>2, <1>3, <1>4
<1>7. \A i, j \in 1..Len(futures) : old(i) = old(j) => i = j
  BY <1>2, <1>3
<1>8. \A j \in 1..Len(futures) : \E i \in 1..Len(futures) : old(i) = j
  <2>. TAKE j \in 1..Len(futures)
  <2>1. CASE j = 1
    BY <1>2, <1>3, <2>1
  <2>2. CASE j # 1
    <3>1. j - 1 \in 1..Len(futures) /\ old(j - 1) = j
      BY <1>2, <2>2
    <3>. QED  BY <3>1
  <2>. QED  BY <2>1, <2>2
<1>. HIDE DEF old
<1>9. Distinct'
  <2>. SUFFICES ASSUME NEW i \in 1..Len(futures'), NEW j \in 1..Len(futures'),
                       futures'[i] = futures'[j]
                PROVE  i = j
    BY DEF Distinct
  <2>1. futures[old(i)] = futures[old(j)]
    BY <1>4, <1>6, Zenon
  <2>2. old(i) = old(j)
    BY <2>1, <1>4, <1>6, Zenon DEF Distinct
  <2>. QED  BY <2>2, <1>4, <1>7
<1>10. \A t \in Runner : InDeque(t)' <=> InDeque(t)
  <2>. TAKE t \in Runner
  <2>1. ASSUME InDeque(t)' PROVE InDeque(t)
    BY <2>1, <1>4, <1>6 DEF InDeque
  <2>2. ASSUME InDeque(t) PROVE InDeque(t)'
    <3>1. PICK j \in 1..Len(futures) : futures[j] = t
      BY <2>2 DEF InDeque
    <3>2. PICK i \in 1..Len(futures) : old(i) = j
      BY <1>8, <3>1
    <3>. QED  BY <3>1, <3>2, <1>4, <1>6, Zenon DEF InDeque
  <2>. QED  BY <2>1, <2>2
<1>11. PrefixInv'
  <2>1. k - 1 \in 0..Len(futures')
    BY <1>1, <1>2, <1>3, <1>4
  <2>2. running' = {futures'[i] : i \in 1..(k - 1)}
    <3>1. ASSUME NEW t \in running' PROVE \E i \in 1..(k - 1) : futures'[i] = t
      <4>1. PICK j \in 1..k : futures[j] = t /\ t # futures[1]
        BY <1>1, <1>5, <3>1
      <4>2. j - 1 \in 1..(k - 1) /\ j - 1 \in 1..(Len(futures) - 1)
            /\ (j - 1) + 1 = j
        BY <1>1, <1>2, <4>1
      <4>. QED  BY <1>4, <4>1, <4>2, Zenon
    <3>2. ASSUME NEW i \in 1..(k - 1) PROVE futures'[i] \in running'
      <4>1. /\ i \in 1..(Len(futures) - 1) /\ i + 1 \in 1..k
            /\ i + 1 \in 1..Len(futures) /\ 1 \in 1..Len(futures) /\ i + 1 # 1
        BY <1>1, <1>2, <1>3
      <4>2. futures[i + 1] # futures[1]
        BY <4>1 DEF Distinct
      <4>. QED  BY <1>1, <1>4, <1>5, <4>1, <4>2
    <3>. QED  BY <3>1, <3>2
  <2>. QED  BY <2>1, <2>2, Zenon DEF PrefixInv
<1>. QED
  BY <1>9, <1>10, <1>11

LEMMA CancelAllDeque ==
  ASSUME TypeOK, RunningInDeque, Distinct, NEW self, cancel_all_tests(self)
  PROVE  /\ Distinct' /\ PrefixInv'
         /\ \A t \in Runner : InDeque(t)' <=> InDeque(t)
<1>. DEFINE k == Cardinality(running)
            n == Len(futures)
<1>1. n \in Nat /\ k \in 0..n /\ futures \in Seq(Runner)
  BY RunningCounted, ListLength DEF TypeOK
<1>2. /\ futures' \in Seq(Runner)
      /\ Len(futures') = n
      /\ \A i \in 1..n :
           futures'[i] = IF i <= n - k THEN futures[k + i] ELSE futures[i - (n - k)]
  BY <1>1, RotateMany, Zenon DEF cancel_all_tests
<1>3. running' = {}
  BY DEF cancel_all_tests
<1>. DEFINE old(i) == IF i <= n - k THEN k + i ELSE i - (n - k)
<1>. HIDE DEF k, n
<1>4. \A i \in 1..n : old(i) \in 1..n /\ futures'[i] = futures[old(i)]
  BY <1>1, <1>2
<1>5. \A i, j \in 1..n : old(i) = old(j) => i = j
  BY <1>1
<1>6. \A j \in 1..n : \E i \in 1..n : old(i) = j
  <2>. TAKE j \in 1..n
  <2>1. CASE j <= k
    <3>1. j + (n - k) \in 1..n /\ old(j + (n - k)) = j
      BY <1>1, <2>1
    <3>. QED  BY <3>1
  <2>2. CASE ~(j <= k)
    <3>1. j - k \in 1..n /\ old(j - k) = j
      BY <1>1, <2>2
    <3>. QED  BY <3>1
  <2>. QED  BY <2>1, <2>2
<1>. HIDE DEF old
<1>7. Distinct'
  <2>. SUFFICES ASSUME NEW i \in 1..Len(futures'), NEW j \in 1..Len(futures'),
                       futures'[i] = futures'[j]
                PROVE  i = j
    BY DEF Distinct
  <2>1. futures[old(i)] = futures[old(j)]
    BY <1>2, <1>4
  <2>2. old(i) = old(j)
    BY <2>1, <1>2, <1>4 DEF Distinct, n
  <2>. QED  BY <2>2, <1>2, <1>5
<1>8. \A t \in Runner : InDeque(t)' <=> InDeque(t)
  <2>. TAKE t \in Runner
  <2>1. ASSUME InDeque(t)' PROVE InDeque(t)
    BY <2>1, <1>2, <1>4 DEF InDeque, n
  <2>2. ASSUME InDeque(t) PROVE InDeque(t)'
    <3>1. PICK j \in 1..Len(futures) : futures[j] = t
      BY <2>2 DEF InDeque
    <3>2. PICK i \in 1..Len(futures) : old(i) = j
      BY <1>6, <3>1 DEF n
    <3>. QED  BY <3>1, <3>2, <1>2, <1>4 DEF InDeque, n
  <2>. QED  BY <2>1, <2>2
<1>9. PrefixInv'
  <2>1. 0 \in 0..Len(futures') /\ running' = {futures'[i] : i \in 1..0}
    BY <1>1, <1>2, <1>3
  <2>. QED  BY <2>1 DEF PrefixInv
<1>. QED
  BY <1>7, <1>8, <1>9

\* test_done takes a future out of the deque and, if it is there, out of the
\* dictionary
LEMMA RemoveDeque ==
  ASSUME TypeOK, Distinct, PrefixInv, NEW t \in Runner,
         NEW n \in 1..Len(futures), futures[n] = t,
         futures' = RemoveAt(futures, n), running' = running \ {t}
  PROVE  /\ Distinct' /\ PrefixInv' /\ ~InDeque(t)'
         /\ \A u \in Runner \ {t} : InDeque(u)' <=> InDeque(u)
<1>1. futures \in Seq(Runner) /\ Len(futures) \in Nat
  BY ListLength DEF TypeOK
<1>2. /\ Len(futures') = Len(futures) - 1
      /\ \A i \in 1..(Len(futures) - 1) :
           futures'[i] = IF i < n THEN futures[i] ELSE futures[i + 1]
  BY <1>1, RemoveOne
<1>. DEFINE old(i) == IF i < n THEN i ELSE i + 1
<1>3. \A i \in 1..Len(futures') : /\ old(i) \in 1..Len(futures)
                                  /\ old(i) # n
                                  /\ futures'[i] = futures[old(i)]
  BY <1>1, <1>2
<1>4. \A i, j \in 1..Len(futures') : old(i) = old(j) => i = j
  BY <1>1, <1>2
<1>5. \A j \in 1..Len(futures) : j # n => \E i \in 1..Len(futures') : old(i) = j
  <2>. SUFFICES ASSUME NEW j \in 1..Len(futures), j # n
                PROVE  \E i \in 1..Len(futures') : old(i) = j
    OBVIOUS
  <2>1. CASE j < n
    BY <1>1, <1>2, <2>1
  <2>2. CASE j > n
    <3>1. j - 1 \in 1..Len(futures') /\ old(j - 1) = j
      BY <1>1, <1>2, <2>2
    <3>. QED  BY <3>1
  <2>. QED  BY <1>1, <2>1, <2>2
<1>. HIDE DEF old
<1>6. Distinct'
  <2>. SUFFICES ASSUME NEW i \in 1..Len(futures'), NEW j \in 1..Len(futures'),
                       futures'[i] = futures'[j]
                PROVE  i = j
    BY DEF Distinct
  <2>1. futures[old(i)] = futures[old(j)]
    BY <1>3
  <2>2. old(i) = old(j)
    BY <2>1, <1>3 DEF Distinct
  <2>. QED  BY <2>2, <1>4
<1>7. ~InDeque(t)'
  BY <1>3 DEF InDeque, Distinct
<1>8. \A u \in Runner \ {t} : InDeque(u)' <=> InDeque(u)
  <2>. TAKE u \in Runner \ {t}
  <2>1. ASSUME InDeque(u)' PROVE InDeque(u)
    BY <2>1, <1>3 DEF InDeque
  <2>2. ASSUME InDeque(u) PROVE InDeque(u)'
    <3>1. PICK j \in 1..Len(futures) : futures[j] = u /\ j # n
      BY <2>2 DEF InDeque
    <3>2. PICK i \in 1..Len(futures') : old(i) = j
      BY <1>5, <3>1
    <3>. QED  BY <1>3, <3>1, <3>2 DEF InDeque
  <2>. QED  BY <2>1, <2>2
<1>9. PrefixInv'
  <2>1. PICK k \in 0..Len(futures) : running = {futures[i] : i \in 1..k}
    BY Zenon DEF PrefixInv
  <2>. DEFINE m == IF n <= k THEN k - 1 ELSE k
  <2>2. m \in 0..Len(futures')
    BY <1>1, <1>2, <2>1
  <2>. USE DEF old
  <2>3. \A i \in 1..m : old(i) \in 1..k /\ i \in 1..Len(futures')
    BY <1>1, <1>2, <2>1
  <2>4. \A j \in 1..k : j # n => \E i \in 1..m : old(i) = j
    <3>. SUFFICES ASSUME NEW j \in 1..k, j # n
                  PROVE  \E i \in 1..m : old(i) = j
      BY Zenon
    <3>1. CASE j < n
      <4>1. j \in 1..m /\ old(j) = j
        BY <1>1, <2>1, <3>1
      <4>. QED  BY <4>1, Zenon
    <3>2. CASE j > n
      <4>1. j - 1 \in 1..m /\ old(j - 1) = j
        BY <1>1, <2>1, <3>2
      <4>. QED  BY <4>1, Zenon
    <3>. QED  BY <1>1, <2>1, <3>1, <3>2
  <2>. HIDE DEF m, old
  <2>5. running' = {futures'[i] : i \in 1..m}
    <3>1. ASSUME NEW u \in running' PROVE \E i \in 1..m : futures'[i] = u
      <4>1. PICK j \in 1..k : futures[j] = u /\ j # n
        BY <2>1, <3>1
      <4>2. PICK i \in 1..m : old(i) = j
        BY <2>4, <4>1
      <4>. QED  BY <1>3, <2>3, <4>1, <4>2
    <3>2. ASSUME NEW i \in 1..m PROVE futures'[i] \in running'
      <4>1. /\ futures'[i] = futures[old(i)] /\ old(i) \in 1..k
            /\ old(i) \in 1..Len(futures) /\ old(i) # n
        BY <1>3, <2>3
      <4>2. futures[old(i)] # t
        BY <4>1 DEF Distinct
      <4>. QED  BY <2>1, <4>1, <4>2
    <3>. QED  BY <3>1, <3>2
  <2>. QED  BY <2>2, <2>5, Zenon DEF PrefixInv
<1>. QED
  BY <1>6, <1>7, <1>8, <1>9
-----------------------------------------------------------------------------

\* Steps that keep the deque's content, apart from its order, and the main
\* coroutine where it waits
LEMMA SameContent ==
  ASSUME DequeInv, Distinct', PrefixInv', main # "loop", UNCHANGED mainVars,
         \A t \in Runner : InDeque(t)' <=> InDeque(t),
         \A t \in Runner : Alive(t)' <=> Alive(t),
         \A t \in Runner : phase[t] \in {"none", "gone"}
                             => phase'[t] = phase[t] /\ fate'[t] = fate[t]
  PROVE  DequeInv'
<1>1. DequeExact'
  BY DEF DequeInv, DequeExact, Alive
<1>2. LoopInv'
  BY ConstantsAssumption DEF DequeInv, LoopInv, mainVars
<1>3. OneIfSerial'
  BY ConstantsAssumption DEF DequeInv, OneIfSerial
<1>. QED
  BY <1>1, <1>2, <1>3 DEF DequeInv

\* A live task moves on, and the deque may be rotated under it
LEMMA LiveTaskMoves ==
  ASSUME TypeOK, DequeInv, Yielded, UNCHANGED mainVars, NEW t \in Runner,
         phase[t] \in Pending, NEW x \in Pending \union {"ended"},
         phase' = [phase EXCEPT ![t] = x],
         \A u \in Runner \ {t} : fate'[u] = fate[u],
         Distinct', PrefixInv', \A u \in Runner : InDeque(u)' <=> InDeque(u)
  PROVE  DequeInv'
<1>1. \A u \in Runner : Alive(u)' <=> Alive(u)
  BY DEF Alive, TypeOK, Pending, Holding, Killing
<1>2. \A u \in Runner : phase[u] \in {"none", "gone"}
                          => phase'[u] = phase[u] /\ fate'[u] = fate[u]
  BY DEF TypeOK, Pending, Holding, Killing
<1>. QED
  BY <1>1, <1>2, SameContent, Zenon DEF Yielded

LEMMA ProcessDeque ==
  ASSUME TypeOK, RunningInDeque, DequeInv, NEW t \in Runner, NEW res,
         NEW value, ProcessResult(t, res, value), Yielded, UNCHANGED mainVars,
         phase[t] \in Pending
  PROVE  DequeInv'
<1>1. phase' = [phase EXCEPT ![t] = "ended"]
      /\ \A u \in Runner \ {t} : fate'[u] = fate[u]
  BY DEF ProcessResult, EndTask, TypeOK
<1>2. Distinct' /\ PrefixInv' /\ \A u \in Runner : InDeque(u)' <=> InDeque(u)
  <2>1. CASE cancel_all_tests(t)
    BY <2>1, CancelAllDeque DEF DequeInv
  <2>2. CASE UNCHANGED <<listVars, cancelled>>
    BY <2>2 DEF DequeInv, listVars, Distinct, PrefixInv, InDeque
  <2>. QED  BY <2>1, <2>2 DEF ProcessResult
<1>. QED
  BY <1>1, <1>2, LiveTaskMoves, Zenon

LEMMA InitDeque == Init => DequeInv
<1>. SUFFICES ASSUME Init PROVE DequeInv
  OBVIOUS
<1>1. Len(futures) = 0
  BY EmptyList DEF Init
<1>2. Distinct /\ \A t \in Runner : ~InDeque(t)
  BY <1>1 DEF Distinct, InDeque
<1>3. PrefixInv
  <2>1. 0 \in 0..Len(futures) /\ running = {futures[i] : i \in 1..0}
    BY <1>1 DEF Init
  <2>. QED  BY <2>1 DEF PrefixInv
<1>4. \A t \in Runner : ~Alive(t) /\ phase[t] = "none"
  BY DEF Init, Alive
<1>. QED
  BY <1>2, <1>3, <1>4, ConstantsAssumption
  DEF Init, DequeInv, DequeExact, LoopInv, OneIfSerial

LEMMA CreateDeque ==
  ASSUME BaseInv, DequeInv, Create
  PROVE  DequeInv'
<1>1. next \in Runner /\ phase[next] = "none" /\ main = "loop"
  BY NextRunner DEF Create
<1>2. futures \in Seq(Runner) /\ Len(futures) \in Nat
  BY ListLength DEF BaseInv, TypeOK
<1>3. /\ Len(futures') = Len(futures) + 1
      /\ \A i \in 1..Len(futures) : futures'[i] = futures[i]
      /\ futures'[Len(futures) + 1] = next
  BY <1>1, <1>2, ListAppend DEF Create
<1>4. ~InDeque(next)
  BY <1>1 DEF DequeInv, DequeExact, Alive
<1>5. Distinct'
  <2>. SUFFICES ASSUME NEW i \in 1..Len(futures'), NEW j \in 1..Len(futures'),
                       futures'[i] = futures'[j]
                PROVE  i = j
    BY DEF Distinct
  <2>1. CASE i \in 1..Len(futures) /\ j \in 1..Len(futures)
    BY <1>3, <2>1 DEF DequeInv, Distinct
  <2>2. CASE i = Len(futures) + 1 /\ j \in 1..Len(futures)
    BY <1>3, <1>4, <2>2 DEF InDeque
  <2>3. CASE i \in 1..Len(futures) /\ j = Len(futures) + 1
    BY <1>3, <1>4, <2>3 DEF InDeque
  <2>4. CASE i = Len(futures) + 1 /\ j = Len(futures) + 1
    BY <2>4
  <2>. QED  BY <1>2, <1>3, <2>1, <2>2, <2>3, <2>4
<1>6. \A t \in Runner : InDeque(t)' <=> InDeque(t) \/ t = next
  <2>. TAKE t \in Runner
  <2>1. ASSUME InDeque(t)' PROVE InDeque(t) \/ t = next
    <3>1. PICK i \in 1..Len(futures') : futures'[i] = t
      BY <2>1 DEF InDeque
    <3>. QED  BY <1>2, <1>3, <3>1 DEF InDeque
  <2>2. ASSUME InDeque(t) PROVE InDeque(t)'
    <3>1. PICK i \in 1..Len(futures) : futures[i] = t
      BY <2>2 DEF InDeque
    <3>2. i \in 1..Len(futures') /\ futures'[i] = t
      BY <1>2, <1>3, <3>1
    <3>. QED  BY <3>2 DEF InDeque
  <2>3. ASSUME t = next PROVE InDeque(t)'
    <3>1. Len(futures) + 1 \in 1..Len(futures')
      BY <1>2, <1>3
    <3>. QED  BY <1>3, <2>3, <3>1 DEF InDeque
  <2>. QED  BY <2>1, <2>2, <2>3
<1>7. running' = {t \in Runner : InDeque(t)'}
  <2>1. running = {t \in Runner : InDeque(t)}
    BY <1>1, Zenon DEF BaseInv, TypeOK, RunningInDeque, DequeInv, LoopInv
  <2>. QED  BY <1>1, <1>6, <2>1 DEF Create
<1>8. PrefixInv'
  <2>1. futures' \in Seq(Runner)
    BY <1>1, <1>2, ListAppend DEF Create
  <2>2. \A i \in 1..Len(futures') : futures'[i] \in Runner
    BY <2>1, ListLength
  <2>3. running' = {futures'[i] : i \in 1..Len(futures')}
    BY <1>7, <2>2 DEF InDeque
  <2>4. Len(futures') \in 0..Len(futures')
    BY <1>2, <1>3
  <2>. QED  BY <2>3, <2>4 DEF PrefixInv
<1>9. \A t \in Runner : Alive(t)' <=> Alive(t) \/ t = next
  BY <1>1 DEF BaseInv, TypeOK, Create, Alive
<1>10. DequeExact'
  BY <1>1, <1>6, <1>9 DEF DequeInv, DequeExact, BaseInv, TypeOK, Create, Alive
<1>11. next \in Serial => \A t \in Runner : ~InDeque(t) /\ ~Alive(t)
  <2>. SUFFICES ASSUME next \in Serial, NEW t \in Runner PROVE ~InDeque(t)
    BY DEF DequeInv, DequeExact
  <2>1. futures = <<>>
    BY DEF Create, Drained
  <2>. QED  BY <2>1, EmptyList DEF InDeque
<1>12. \A s \in Serial : ~Alive(s)
  BY <1>1 DEF DequeInv, LoopInv
<1>13. OneIfSerial'
  BY <1>9, <1>11, <1>12, ConstantsAssumption DEF OneIfSerial
<1>14. LoopInv'
  <2>1. CASE next \in Serial
    <3>1. main' = "serial" /\ next' = next + 1
      BY <2>1 DEF Create
    <3>2. next' > 1 /\ next' - 1 = next
      BY <1>1, <3>1, ConstantsAssumption DEF Runner
    <3>. QED  BY <1>6, <1>11, <2>1, <3>1, <3>2 DEF LoopInv
  <2>2. CASE next \notin Serial
    <3>1. main' \in {"loop", "final"}
      BY <2>2 DEF Create
    <3>2. \A s \in Serial : ~Alive(s)'
      BY <1>9, <1>12, <2>2, ConstantsAssumption
    <3>. QED  BY <1>7, <3>1, <3>2 DEF LoopInv
  <2>. QED  BY <2>1, <2>2
<1>. QED
  BY <1>5, <1>8, <1>10, <1>13, <1>14 DEF DequeInv
\* The main coroutine moves on; nothing else changes
LEMMA MainMoves ==
  ASSUME DequeInv, UNCHANGED <<next, phase, fate, futures, running>>, LoopInv'
  PROVE  DequeInv'
  BY DEF DequeInv, Distinct, DequeExact, PrefixInv, OneIfSerial, InDeque, Alive

LEMMA DoneDeque ==
  ASSUME BaseInv, DequeInv, NEW t \in Runner, test_done(t)
  PROVE  DequeInv'
<1>1. /\ phase[t] = "ended" /\ phase' = [phase EXCEPT ![t] = "gone"]
      /\ main # "loop" /\ UNCHANGED <<mainVars, fate>>
  BY Zenon DEF test_done, Yielded
<1>2. \A u \in Runner : Alive(u)' <=> Alive(u) /\ u # t
  BY <1>1 DEF BaseInv, TypeOK, Alive
<1>3. OneIfSerial'
  BY <1>2, ConstantsAssumption DEF DequeInv, OneIfSerial
<1>4. CASE fate[t] = "raised"
  <2>1. UNCHANGED <<futures, running>>
    BY <1>4, Zenon DEF test_done
  <2>2. Distinct' /\ PrefixInv' /\ \A u \in Runner : InDeque(u)' <=> InDeque(u)
    <3>1. Distinct'
      BY <2>1, Zenon DEF DequeInv, Distinct
    <3>2. PrefixInv'
      BY <2>1, Zenon DEF DequeInv, PrefixInv
    <3>3. \A u \in Runner : InDeque(u)' <=> InDeque(u)
      BY <2>1, Zenon DEF InDeque
    <3>. QED  BY <3>1, <3>2, <3>3, Zenon
  <2>3. DequeExact'
    BY <1>1, <1>2, <1>4, <2>2
    DEF DequeInv, DequeExact, BaseInv, TypeOK, Alive
  <2>4. LoopInv'
    BY <1>1, <1>2, <2>2, ConstantsAssumption DEF DequeInv, LoopInv, mainVars
  <2>. QED  BY <1>3, <2>2, <2>3, <2>4, Zenon DEF DequeInv
<1>5. CASE fate[t] # "raised"
  <2>1. PICK n \in 1..Len(futures) :
          futures[n] = t /\ futures' = RemoveAt(futures, n)
    BY <1>5 DEF test_done
  <2>2. running' = running \ {t}
    BY <1>5 DEF test_done
  <2>3. /\ Distinct' /\ PrefixInv' /\ ~InDeque(t)'
        /\ \A u \in Runner \ {t} : InDeque(u)' <=> InDeque(u)
    BY <2>1, <2>2, RemoveDeque DEF BaseInv, DequeInv
  <2>4. DequeExact'
    BY <1>1, <1>2, <1>5, <2>3
    DEF DequeInv, DequeExact, BaseInv, TypeOK, Alive
  <2>5. LoopInv'
    BY <1>1, <1>2, <2>3, ConstantsAssumption DEF DequeInv, LoopInv, mainVars
  <2>. QED  BY <1>3, <2>3, <2>4, <2>5 DEF DequeInv
<1>. QED
  BY <1>4, <1>5, Zenon

LEMMA NextDeque == BaseInv /\ DequeInv /\ [Next]_vars => DequeInv'
<1>. SUFFICES ASSUME BaseInv, DequeInv, [Next]_vars PROVE DequeInv'
  OBVIOUS
<1>. USE DEF taskVars, listVars
<1>1. CASE Create
  BY <1>1, CreateDeque
<1>2. CASE AwaitAll \/ DrainDone \/ SerialDone \/ FinalDone \/ MainAbort
             \/ AbortDone
  <2>1. UNCHANGED <<next, phase, fate, futures, running>>
    BY <1>2 DEF AwaitAll, DrainDone, SerialDone, FinalDone, MainAbort, AbortDone
  <2>2. \A t \in Runner : (InDeque(t)' <=> InDeque(t)) /\ (Alive(t)' <=> Alive(t))
    BY <2>1 DEF InDeque, Alive
  <2>4. LoopInv' => DequeInv'
    BY <2>1, MainMoves
  <2>5. CASE AwaitAll
    <3>1. main = "loop" /\ main' \in {"drain", "final"}
      BY <2>5 DEF AwaitAll
    <3>2. LoopInv'
      BY <2>2, <3>1, ConstantsAssumption DEF DequeInv, LoopInv
    <3>. QED  BY <2>4, <3>2
  <2>6. CASE DrainDone
    <3>1. main = "drain" /\ main' = "loop" /\ \A t \in Runner : ~InDeque(t)
      BY <2>6, EmptyList DEF DrainDone, InDeque
    <3>2. LoopInv'
      BY <2>2, <3>1, ConstantsAssumption DEF DequeInv, LoopInv
    <3>. QED  BY <2>4, <3>2
  <2>7. CASE SerialDone
    <3>1. /\ main = "serial" /\ main' \in {"loop", "final"}
          /\ phase[next - 1] = "gone" /\ fate[next - 1] # "raised"
      BY <2>7 DEF SerialDone
    <3>2. next - 1 \in Runner /\ \A t \in Runner : InDeque(t) => t = next - 1
      BY <3>1, ConstantsAssumption DEF DequeInv, LoopInv
    <3>3. \A t \in Runner : ~InDeque(t) /\ ~Alive(t)
      BY <3>1, <3>2 DEF DequeInv, DequeExact, Alive
    <3>4. LoopInv'
      BY <2>2, <3>1, <3>3, ConstantsAssumption DEF LoopInv
    <3>. QED  BY <2>4, <3>4
  <2>8. CASE FinalDone \/ MainAbort \/ AbortDone
    <3>1. main' \in {"done", "abort", "failed"}
      BY <2>8 DEF FinalDone, MainAbort, AbortDone
    <3>2. LoopInv'
      BY <3>1 DEF LoopInv
    <3>. QED  BY <2>4, <3>2
  <2>. QED  BY <1>2, <2>5, <2>6, <2>7, <2>8
<1>3. CASE sigterm_handler \/ sigint_handler
  <2>1. main # "loop" /\ UNCHANGED <<mainVars, phase, fate>>
    BY <1>3 DEF sigterm_handler, sigint_handler, HandlersInstalled
  <2>2. Distinct' /\ PrefixInv' /\ \A t \in Runner : InDeque(t)' <=> InDeque(t)
    <3>1. CASE cancel_all_tests(0)
      BY <3>1, CancelAllDeque DEF BaseInv, DequeInv
    <3>2. CASE running # {} /\ cancel_one_test
      BY <3>2, CancelOneDeque DEF BaseInv, DequeInv
    <3>3. CASE UNCHANGED <<futures, running, cancelled>>
      BY <3>3 DEF DequeInv, Distinct, PrefixInv, InDeque
    <3>. QED  BY <1>3, <3>1, <3>2, <3>3 DEF sigterm_handler, sigint_handler
  <2>3. \A t \in Runner : Alive(t)' <=> Alive(t)
    BY <2>1 DEF Alive
  <2>. QED  BY <2>1, <2>2, <2>3, SameContent
<1>4. ASSUME NEW t \in Runner, TaskStep(t) PROVE DequeInv'
  <2>1. CASE Skip(t) \/ Start(t) \/ Spawn(t) \/ SpawnFails(t) \/ FinishParsed(t)
               \/ Timeout(t) \/ Escalate(t) \/ Killed(t) \/ Cancel(t)
    <3>1. Yielded /\ phase[t] \in Pending
      BY <2>1 DEF Skip, Start, Spawn, SpawnFails, FinishParsed, Timeout,
                  Escalate, Killed, Cancel, Acquirable, Exited, Pending, Holding
    <3>2. UNCHANGED <<mainVars, futures, running>>
      BY <2>1 DEF Skip, Start, Spawn, SpawnFails, FinishParsed, Timeout,
                  Escalate, Killed, Cancel
    <3>3. PICK x \in Pending \union {"ended"} : phase' = [phase EXCEPT ![t] = x]
      BY <2>1, Zenon DEF Skip, Start, Spawn, SpawnFails, FinishParsed, Timeout,
                  Escalate, Killed, Cancel, EndTask, BeginKill, Pending,
                  Holding, Killing
    <3>4. \A u \in Runner \ {t} : fate'[u] = fate[u]
      BY <2>1 DEF Skip, Start, Spawn, SpawnFails, FinishParsed, Timeout,
                  Escalate, Killed, Cancel, EndTask, BaseInv, TypeOK
    <3>5. Distinct' /\ PrefixInv' /\ \A u \in Runner : InDeque(u)' <=> InDeque(u)
      BY <3>2 DEF DequeInv, Distinct, PrefixInv, InDeque
    <3>. QED  BY <3>1, <3>2, <3>3, <3>4, <3>5, LiveTaskMoves, Zenon DEF BaseInv
  <2>2. CASE RunSkip(t) \/ Finish(t) \/ Collected(t)
    <3>1. PICK res, value : ProcessResult(t, res, value)
      BY <2>2 DEF RunSkip, Finish, Collected
    <3>2. Yielded /\ phase[t] \in Pending /\ UNCHANGED mainVars
      BY <2>2 DEF RunSkip, Finish, Collected, Acquirable, Exited, Pending,
                  Holding
    <3>. QED  BY <3>1, <3>2, ProcessDeque DEF BaseInv
  <2>3. CASE test_done(t)
    BY <2>3, DoneDeque
  <2>4. CASE CancelSwallowed(t)
    <3>1. UNCHANGED <<main, next, phase, fate, futures, running>>
      BY <2>4 DEF CancelSwallowed, mainVars
    <3>2. LoopInv'
      BY <3>1 DEF DequeInv, LoopInv, InDeque, Alive
    <3>. QED  BY <3>1, <3>2, MainMoves
  <2>. QED  BY <1>4, <2>1, <2>2, <2>3, <2>4 DEF TaskStep
<1>5. CASE (\E t \in Runner : LeaderExits(t) \/ HelperExits(t)) \/ UNCHANGED vars
  <2>1. UNCHANGED <<main, next, phase, fate, futures, running>>
    BY <1>5 DEF LeaderExits, HelperExits, vars, mainVars
  <2>2. LoopInv'
    BY <2>1 DEF DequeInv, LoopInv, InDeque, Alive
  <2>. QED  BY <2>1, <2>2, MainMoves
<1>. QED
  BY <1>1, <1>2, <1>3, <1>4, <1>5 DEF Next, MainStep, Terminating

\* The deque holds each live task once, and the running futures before the
\* cancelled ones.
THEOREM DequeInvariant == Spec => []DequeInv
  BY InitDeque, NextDeque, TypesAndSlots, PTL DEF Spec

\* running_tests and the deque agree, so cancel_one_test never raises KeyError,
\* for any number of tests and signals.
THEOREM RunningStaysPrefix == Spec => []RunningIsPrefix
<1>1. BaseInv /\ DequeInv => RunningIsPrefix
  BY PrefixCounted DEF BaseInv, DequeInv
<1>. QED
  BY <1>1, TypesAndSlots, DequeInvariant, PTL

\* A test with is_parallel: false holds a slot only while no other test does.
THEOREM SerialRunsAlone == Spec => []SerialAlone
<1>1. DequeInv => SerialAlone
  <2>. SUFFICES ASSUME DequeInv, NEW s \in Serial, s \in Holders,
                       NEW t \in Holders
                PROVE  t = s
    BY DEF SerialAlone
  <2>1. Alive(s) /\ Alive(t) /\ t \in Runner
    BY DEF Holders, Holding, Killing, Alive
  <2>. QED  BY <2>1 DEF DequeInv, OneIfSerial
<1>. QED
  BY <1>1, DequeInvariant, PTL

-----------------------------------------------------------------------------
(* Which test a Ctrl-C interrupts *)

\* The futures that were not cancelled are in the order of their creation, and
\* before every one that was
OldestFirst ==
  \A i, j \in 1..Len(futures) :
    i < j /\ futures[j] \in running => futures[i] < futures[j]

\* The semaphore was given out in that order too
InTurn ==
  \A u, v \in Runner :
    u < v /\ phase[u] = "queued" /\ ~cancelled[u] => phase[v] \notin Holding

OrderInv == OldestFirst /\ InTurn

LEMMA CreateOldest ==
  ASSUME BaseInv, DequeInv, OldestFirst, Create
  PROVE  OldestFirst'
<1>1. next \in Runner /\ phase[next] = "none"
  BY NextRunner
<1>2. futures \in Seq(Runner) /\ Len(futures) \in Nat
      /\ \A i \in 1..Len(futures) : futures[i] \in Runner
  BY ListLength DEF BaseInv, TypeOK
<1>3. /\ Len(futures') = Len(futures) + 1
      /\ \A i \in 1..Len(futures) : futures'[i] = futures[i]
      /\ futures'[Len(futures) + 1] = next
  BY <1>1, <1>2, ListAppend DEF Create
<1>4. \A i \in 1..Len(futures) : futures[i] < next
  <2>. TAKE i \in 1..Len(futures)
  <2>1. InDeque(futures[i])
    BY DEF InDeque
  <2>2. phase[futures[i]] # "none"
    BY <1>2, <2>1 DEF DequeInv, DequeExact, Alive
  <2>. QED  BY <1>1, <1>2, <2>2, ConstantsAssumption DEF BaseInv, Created, Runner
<1>5. running' = running \union {next}
  BY DEF Create
<1>. SUFFICES ASSUME NEW i \in 1..Len(futures'), NEW j \in 1..Len(futures'),
                     i < j, futures'[j] \in running'
              PROVE  futures'[i] < futures'[j]
  BY DEF OldestFirst
<1>6. i \in 1..Len(futures) /\ futures'[i] = futures[i]
  BY <1>2, <1>3
<1>7. CASE j = Len(futures) + 1
  BY <1>3, <1>4, <1>6, <1>7
<1>8. CASE j # Len(futures) + 1
  <2>1. j \in 1..Len(futures) /\ futures'[j] = futures[j]
    BY <1>2, <1>3, <1>8
  <2>2. futures[j] # next
    BY <1>1, <1>2, <1>4, <2>1, ConstantsAssumption DEF Runner
  <2>. QED  BY <1>5, <1>6, <2>1, <2>2 DEF OldestFirst
<1>. QED
  BY <1>7, <1>8

LEMMA CancelOneOldest ==
  ASSUME TypeOK, OldestFirst, futures # <<>>, cancel_one_test
  PROVE  OldestFirst'
<1>1. Len(futures) \in Nat \ {0}
  BY EmptyList, ListLength DEF TypeOK
<1>2. /\ Len(futures') = Len(futures)
      /\ \A i \in 1..(Len(futures) - 1) : futures'[i] = futures[i + 1]
      /\ futures'[Len(futures)] = futures[1]
  BY RotateOne DEF TypeOK, cancel_one_test
<1>3. running' = running \ {futures[1]}
  BY <1>1, ListTail DEF TypeOK, cancel_one_test
<1>. SUFFICES ASSUME NEW i \in 1..Len(futures'), NEW j \in 1..Len(futures'),
                     i < j, futures'[j] \in running'
              PROVE  futures'[i] < futures'[j]
  BY DEF OldestFirst
<1>4. j # Len(futures)
  BY <1>2, <1>3
<1>5. /\ i \in 1..(Len(futures) - 1) /\ j \in 1..(Len(futures) - 1)
      /\ i + 1 \in 1..Len(futures) /\ j + 1 \in 1..Len(futures)
      /\ i + 1 < j + 1
  BY <1>1, <1>2, <1>4
<1>6. futures[j + 1] \in running
  BY <1>2, <1>3, <1>5
<1>7. futures[i + 1] < futures[j + 1]
  BY <1>5, <1>6 DEF OldestFirst
<1>. QED
  BY <1>2, <1>5, <1>7

LEMMA RemoveOldest ==
  ASSUME TypeOK, OldestFirst, NEW t, NEW n \in 1..Len(futures),
         futures' = RemoveAt(futures, n), running' = running \ {t}
  PROVE  OldestFirst'
<1>1. futures \in Seq(Runner) /\ Len(futures) \in Nat
  BY ListLength DEF TypeOK
<1>2. /\ Len(futures') = Len(futures) - 1
      /\ \A i \in 1..(Len(futures) - 1) :
           futures'[i] = IF i < n THEN futures[i] ELSE futures[i + 1]
  BY <1>1, RemoveOne
<1>. DEFINE old(i) == IF i < n THEN i ELSE i + 1
<1>3. \A i \in 1..Len(futures') : /\ old(i) \in 1..Len(futures)
                                  /\ futures'[i] = futures[old(i)]
  BY <1>1, <1>2
<1>4. \A i, j \in 1..Len(futures') : i < j => old(i) < old(j)
  BY <1>1, <1>2
<1>. HIDE DEF old
<1>. QED
  BY <1>3, <1>4 DEF OldestFirst


LEMMA InitOrder == Init => OrderInv
<1>. SUFFICES ASSUME Init PROVE OrderInv
  OBVIOUS
<1>1. Len(futures) = 0
  BY EmptyList DEF Init
<1>. QED
  BY <1>1 DEF Init, OrderInv, OldestFirst, InTurn

\* A running future was created, so the deque is not empty
LEMMA NotEmpty ==
  ASSUME RunningInDeque, running # {}
  PROVE  futures # <<>>
<1>1. PICK u \in running : InDeque(u)
  BY DEF RunningInDeque
<1>. QED
  BY <1>1, EmptyList DEF InDeque

\* A task that was not waiting for the semaphore goes on, or one that waited
\* goes away; cancellations may be added
LEMMA TurnKept ==
  ASSUME TypeOK, InTurn, NEW t \in Runner, NEW x, x # "queued",
         x \in Holding => phase[t] \in Holding,
         phase' = [phase EXCEPT ![t] = x],
         \A u \in Runner \ {t} : cancelled[u] => cancelled'[u]
  PROVE  InTurn'
  BY DEF TypeOK, InTurn

LEMMA ProcessOrder ==
  ASSUME TypeOK, OrderInv, NEW t \in Runner, NEW res, NEW value,
         ProcessResult(t, res, value)
  PROVE  OrderInv'
<1>1. phase' = [phase EXCEPT ![t] = "ended"] /\ "ended" \notin Holding
  BY DEF ProcessResult, EndTask, Holding, Killing
<1>2. CASE cancel_all_tests(t)
  <2>1. OldestFirst'
    BY <1>2 DEF cancel_all_tests, OldestFirst
  <2>2. \A u \in Runner : cancelled[u] => cancelled'[u]
    BY <1>2, Zenon DEF cancel_all_tests
  <2>. QED  BY <1>1, <2>1, <2>2, TurnKept, Zenon DEF OrderInv
<1>3. CASE UNCHANGED <<listVars, cancelled>>
  <2>1. OldestFirst' /\ cancelled' = cancelled
    BY <1>3 DEF listVars, OrderInv, OldestFirst
  <2>. QED  BY <1>1, <2>1, TurnKept, Zenon DEF OrderInv
<1>. QED
  BY <1>2, <1>3 DEF ProcessResult

LEMMA NextOrder == BaseInv /\ DequeInv /\ OrderInv /\ [Next]_vars => OrderInv'
<1>. SUFFICES ASSUME BaseInv, DequeInv, OrderInv, [Next]_vars PROVE OrderInv'
  OBVIOUS
<1>. USE DEF taskVars, listVars
<1>0. TypeOK /\ OldestFirst /\ InTurn
  BY DEF BaseInv, OrderInv
<1>1. CASE Create
  <2>1. /\ next \in Runner
        /\ \A v \in Runner : v > next => phase[v] = "none"
    BY <1>0, <1>1, ConstantsAssumption
    DEF BaseInv, Create, Created, TypeOK, Runner
  <2>2. InTurn'
    BY <1>0, <1>1, <2>1, ConstantsAssumption
    DEF Create, InTurn, TypeOK, Holding, Killing, Runner
  <2>. QED  BY <1>0, <1>1, <2>2, CreateOldest DEF OrderInv
<1>2. CASE \/ AwaitAll \/ DrainDone \/ SerialDone \/ FinalDone \/ AbortDone
           \/ \E t \in Runner : LeaderExits(t) \/ HelperExits(t)
           \/ UNCHANGED vars
  <2>1. UNCHANGED <<phase, cancelled, futures, running>>
    BY <1>2 DEF AwaitAll, DrainDone, SerialDone, FinalDone, AbortDone,
                LeaderExits, HelperExits, vars
  <2>. QED  BY <1>0, <2>1 DEF OrderInv, OldestFirst, InTurn
<1>3. CASE MainAbort
  <2>1. UNCHANGED <<phase, futures, running>>
        /\ \A t \in Runner : cancelled[t] => cancelled'[t]
    BY <1>3, Zenon DEF MainAbort
  <2>. QED  BY <1>0, <2>1 DEF OrderInv, OldestFirst, InTurn
<1>4. CASE sigterm_handler \/ sigint_handler
  <2>1. UNCHANGED phase
    BY <1>4 DEF sigterm_handler, sigint_handler
  <2>2. CASE cancel_all_tests(0)
    <3>1. OldestFirst'
      BY <2>2 DEF cancel_all_tests, OldestFirst
    <3>2. \A u \in Runner : cancelled[u] => cancelled'[u]
      BY <2>2, Zenon DEF cancel_all_tests
    <3>. QED  BY <1>0, <2>1, <3>1, <3>2 DEF OrderInv, InTurn
  <2>3. CASE running # {} /\ cancel_one_test
    <3>1. futures # <<>>
      BY <2>3, NotEmpty DEF BaseInv
    <3>2. OldestFirst'
      BY <1>0, <2>3, <3>1, CancelOneOldest
    <3>3. Head(futures) \in Runner
      BY <1>0, <3>1, ListTail DEF TypeOK
    <3>4. \A u \in Runner : cancelled[u] => cancelled'[u]
      BY <1>0, <2>3, <3>3 DEF cancel_one_test, TypeOK
    <3>. QED  BY <1>0, <2>1, <3>2, <3>4 DEF OrderInv, InTurn
  <2>4. CASE UNCHANGED <<futures, running, cancelled>>
    BY <1>0, <2>1, <2>4 DEF OrderInv, OldestFirst, InTurn
  <2>. QED  BY <1>4, <2>2, <2>3, <2>4, Zenon DEF sigterm_handler, sigint_handler
<1>5. ASSUME NEW t \in Runner, Start(t) PROVE OrderInv'
  <2>1. /\ phase' = [phase EXCEPT ![t] = "starting"]
        /\ \A u \in Runner : u < t => ~(phase[u] = "queued" /\ ~cancelled[u])
        /\ UNCHANGED <<cancelled, futures, running>>
    BY <1>5 DEF Start, Acquirable
  <2>2. InTurn'
    BY <1>0, <2>1 DEF InTurn, TypeOK
  <2>. QED  BY <1>0, <2>1, <2>2 DEF OrderInv, OldestFirst
<1>6. ASSUME NEW t \in Runner, Skip(t) \/ Spawn(t) \/ SpawnFails(t)
               \/ FinishParsed(t) \/ Timeout(t) \/ Escalate(t) \/ Killed(t)
               \/ Cancel(t)
      PROVE  OrderInv'
  <2>1. PICK x : /\ phase' = [phase EXCEPT ![t] = x] /\ x # "queued"
                 /\ x \in Holding => phase[t] \in Holding
    <3>1. \/ phase' = [phase EXCEPT ![t] = "ended"]
          \/ /\ phase[t] \in Holding
             /\ \E x \in {"running", "collect", "term", "kill", "last"} :
                  phase' = [phase EXCEPT ![t] = x]
      BY <1>6, Zenon DEF Skip, Spawn, SpawnFails, FinishParsed, Exited, Timeout,
                  Escalate, Killed, Cancel, EndTask, BeginKill, Holding, Killing
    <3>. QED  BY <3>1, Zenon DEF Holding, Killing
  <2>2. /\ UNCHANGED <<futures, running>>
        /\ \A u \in Runner \ {t} : cancelled[u] => cancelled'[u]
    BY <1>0, <1>6 DEF Skip, Spawn, SpawnFails, FinishParsed, Timeout, Escalate,
                      Killed, Cancel, TypeOK
  <2>3. InTurn'
    BY <1>0, <2>1, <2>2, TurnKept, Zenon
  <2>. QED  BY <1>0, <2>2, <2>3, Zenon DEF OrderInv, OldestFirst
<1>7. ASSUME NEW t \in Runner, RunSkip(t) \/ Finish(t) \/ Collected(t)
      PROVE  OrderInv'
  <2>1. PICK res, value : ProcessResult(t, res, value)
    BY <1>7, Zenon DEF RunSkip, Finish, Collected
  <2>. QED  BY <1>0, <2>1, ProcessOrder
<1>8. ASSUME NEW t \in Runner, test_done(t) PROVE OrderInv'
  <2>1. phase' = [phase EXCEPT ![t] = "gone"] /\ cancelled' = cancelled
    BY <1>8 DEF test_done
  <2>2. InTurn'
    BY <1>0, <2>1, TurnKept, Zenon DEF Holding, Killing
  <2>3. CASE UNCHANGED <<futures, running>>
    BY <1>0, <2>2, <2>3 DEF OrderInv, OldestFirst
  <2>4. CASE /\ \E i \in 1..Len(futures) : futures' = RemoveAt(futures, i)
             /\ running' = running \ {t}
    BY <1>0, <2>2, <2>4, RemoveOldest, Zenon DEF OrderInv
  <2>. QED  BY <1>8, <2>3, <2>4, Zenon DEF test_done
<1>9. ASSUME NEW t \in Runner, CancelSwallowed(t) PROVE OrderInv'
  <2>1. /\ UNCHANGED <<phase, futures, running>> /\ phase[t] = "collect"
        /\ \A u \in Runner \ {t} : cancelled[u] => cancelled'[u]
    BY <1>0, <1>9 DEF CancelSwallowed, TypeOK
  <2>. QED  BY <1>0, <2>1 DEF OrderInv, OldestFirst, InTurn
<1>. QED
  BY <1>1, <1>2, <1>3, <1>4, <1>5, <1>6, <1>7, <1>8, <1>9
  DEF Next, MainStep, TaskStep, Terminating

THEOREM OrderInvariant == Spec => []OrderInv
  BY InitOrder, NextOrder, TypesAndSlots, DequeInvariant, PTL DEF Spec

\* A cancellation of one test comes from cancel_one_test
LEMMA CancelledByOne ==
  ASSUME BaseInv, [Next]_vars, NEW t \in Runner, cancelled'[t], ~cancelled[t],
         ~interrupted', main' # "abort"
  PROVE  running # {} /\ cancel_one_test
<1>. USE DEF taskVars, listVars
<1>0. TypeOK
  BY DEF BaseInv
<1>1. CASE MainAbort
  BY <1>1 DEF MainAbort
<1>2. CASE sigterm_handler \/ sigint_handler
  BY <1>2, Zenon DEF sigterm_handler, sigint_handler, cancel_all_tests
<1>3. ASSUME NEW u \in Runner, RunSkip(u) \/ Finish(u) \/ Collected(u)
      PROVE  FALSE
  <2>1. PICK res, value : ProcessResult(u, res, value)
    BY <1>3 DEF RunSkip, Finish, Collected
  <2>2. interrupted' = TRUE \/ UNCHANGED cancelled
    BY <2>1, Zenon DEF ProcessResult, cancel_all_tests
  <2>. QED  BY <2>2
<1>4. ASSUME NEW u \in Runner, Cancel(u) \/ CancelSwallowed(u) PROVE FALSE
  BY <1>0, <1>4 DEF Cancel, CancelSwallowed, TypeOK
<1>5. CASE \/ Create \/ AwaitAll \/ DrainDone \/ SerialDone \/ FinalDone
           \/ AbortDone \/ UNCHANGED vars
  BY <1>5, Zenon DEF Create, AwaitAll, DrainDone, SerialDone, FinalDone, AbortDone, vars
<1>6. ASSUME NEW u \in Runner,
             Skip(u) \/ Start(u) \/ Spawn(u) \/ SpawnFails(u) \/ FinishParsed(u)
             \/ Timeout(u) \/ Escalate(u) \/ Killed(u) \/ test_done(u)
             \/ LeaderExits(u) \/ HelperExits(u)
      PROVE  FALSE
  BY <1>6 DEF Skip, Start, Spawn, SpawnFails, FinishParsed, Timeout, Escalate,
              Killed, test_done, LeaderExits, HelperExits
<1>. QED
  BY <1>1, <1>2, <1>3, <1>4, <1>5, <1>6, Zenon
  DEF Next, MainStep, TaskStep, Terminating

\* One Ctrl-C interrupts the test that has been running for longest among
\* those not interrupted before, for any number of tests, slots and signals.
THEOREM CtrlCPicksLongestRunning == Spec => LongestRunningFirst
<1>. DEFINE Picked ==
       \A t \in Runner :
         (cancelled'[t] /\ ~cancelled[t] /\ ~interrupted' /\ main' # "abort")
           => \A u \in running : phase[u] \in Holding
                                   => u >= t /\ phase[t] # "queued"
<1>1. BaseInv /\ DequeInv /\ OrderInv /\ [Next]_vars => [Picked]_vars
  <2>. SUFFICES ASSUME BaseInv, OrderInv, [Next]_vars, NEW t \in Runner,
                       cancelled'[t], ~cancelled[t], ~interrupted',
                       main' # "abort", NEW u \in running, phase[u] \in Holding
                PROVE  u >= t /\ phase[t] # "queued"
    OBVIOUS
  <2>1. running # {} /\ cancel_one_test
    BY CancelledByOne
  <2>2. futures # <<>> /\ Len(futures) \in Nat \ {0}
    BY <2>1, NotEmpty, EmptyList, ListLength DEF BaseInv, TypeOK
  <2>3. Head(futures) = futures[1] /\ futures[1] \in Runner
    BY <2>2, ListTail DEF BaseInv, TypeOK
  <2>4. t = futures[1]
    BY <2>1, <2>3 DEF cancel_one_test, BaseInv, TypeOK
  <2>5. PICK j \in 1..Len(futures) : futures[j] = u
    BY DEF BaseInv, RunningInDeque, InDeque
  <2>6. u \in Runner
    BY DEF BaseInv, TypeOK
  <2>7. u = t \/ t < u
    <3>1. CASE j = 1
      BY <2>4, <2>5, <3>1
    <3>2. CASE j # 1
      <4>1. 1 \in 1..Len(futures) /\ 1 < j
        BY <2>2, <2>5, <3>2
      <4>. QED  BY <2>4, <2>5, <4>1 DEF OrderInv, OldestFirst
    <3>. QED  BY <3>1, <3>2
  <2>8. u >= t
    BY <2>6, <2>7, ConstantsAssumption DEF Runner
  <2>9. phase[t] # "queued"
    BY <2>6, <2>7 DEF OrderInv, InTurn, Holding, Killing
  <2>. QED  BY <2>8, <2>9
<1>. QED
  BY <1>1, TypesAndSlots, DequeInvariant, OrderInvariant, PTL
  DEF Spec, LongestRunningFirst

-----------------------------------------------------------------------------
(* What is reported, and interruptions                                     *)

\* A test that may still spawn its program and was not told to stop is one of
\* those the next cancel_all_tests reaches
Reachable ==
  \A t \in Runner :
    phase[t] \in {"queued", "starting"} /\ ~cancelled[t] => t \in running

\* ... so that, from then on, those about to spawn have been told
ToldToStop ==
  interrupted => \A t \in Runner : phase[t] = "starting" => cancelled[t]

InterruptInv == Reachable /\ ToldToStop

RecordedOnce ==
  \A t \in Runner : recorded[t] # "none" => phase[t] \in {"ended", "gone"}

\* Output is collected only when the program is gone or given up
CollectReaped ==
  \A t \in Runner : phase[t] = "collect" => leader[t] = "dead" \/ t \in stuck

FailuresListed ==
  /\ collected # {} <=> \E t \in Runner : recorded[t] \in is_bad
  /\ maxfail_reached => collected # {}

ResultInv == RecordedOnce /\ CollectReaped /\ RecordedIsReaped /\ FailuresListed

-----------------------------------------------------------------------------

LEMMA InitInterrupt == Init => InterruptInv
  BY DEF Init, InterruptInv, Reachable, ToldToStop

LEMMA CancelAllInterrupt ==
  ASSUME TypeOK, Reachable, NEW self, cancel_all_tests(self)
  PROVE  \A t \in Runner \ {self} :
           phase[t] \in {"queued", "starting"} => cancelled'[t]
  BY DEF TypeOK, Reachable, cancel_all_tests, Pending, Holding

LEMMA ProcessInterrupt ==
  ASSUME BaseInv, InterruptInv, NEW t \in Runner, NEW res, NEW value,
         ProcessResult(t, res, value)
  PROVE  InterruptInv'
<1>1. phase' = [phase EXCEPT ![t] = "ended"]
  BY DEF ProcessResult, EndTask
<1>2. CASE cancel_all_tests(t)
  <2>1. \A u \in Runner \ {t} :
           phase[u] \in {"queued", "starting"} => cancelled'[u]
    BY <1>2, CancelAllInterrupt DEF BaseInv, InterruptInv
  <2>2. \A u \in Runner : phase'[u] \in {"queued", "starting"}
                            => phase[u] \in {"queued", "starting"} /\ u # t
    BY <1>1 DEF BaseInv, TypeOK
  <2>. QED  BY <2>1, <2>2 DEF InterruptInv, Reachable, ToldToStop
<1>3. CASE UNCHANGED <<listVars, cancelled>>
  BY <1>1, <1>3
  DEF BaseInv, TypeOK, InterruptInv, Reachable, ToldToStop, listVars
<1>. QED
  BY <1>2, <1>3 DEF ProcessResult

LEMMA NextInterrupt == BaseInv /\ InterruptInv /\ [Next]_vars => InterruptInv'
<1>. SUFFICES ASSUME BaseInv, InterruptInv, [Next]_vars PROVE InterruptInv'
  OBVIOUS
<1>. USE DEF taskVars, listVars, InterruptInv
<1>0. TypeOK
  BY DEF BaseInv
<1>1. CASE Create
  <2>1. next \in Runner
    BY <1>0, <1>1, ConstantsAssumption DEF Create, TypeOK, Runner
  <2>. QED  BY <1>0, <1>1, <2>1 DEF Create, TypeOK, Reachable, ToldToStop
<1>2. CASE MainAbort
  BY <1>0, <1>2 DEF MainAbort, TypeOK, Reachable, ToldToStop, Pending, Holding
<1>3. CASE sigterm_handler \/ sigint_handler
  <2>1. UNCHANGED phase
    BY <1>3 DEF sigterm_handler, sigint_handler
  <2>2. CASE cancel_all_tests(0)
    <3>1. \A t \in Runner : phase[t] \in {"queued", "starting"} => cancelled'[t]
      BY <1>0, <2>2, CancelAllInterrupt DEF Runner
    <3>. QED  BY <2>1, <3>1, Zenon DEF Reachable, ToldToStop
  <2>3. CASE running # {} /\ cancel_one_test /\ UNCHANGED interrupted
    <3>1. Head(futures) \in Runner
      <4>1. PICK u \in running : InDeque(u)
        BY <2>3 DEF BaseInv, RunningInDeque
      <4>2. futures # <<>>
        BY <4>1, EmptyList DEF InDeque
      <4>. QED  BY <1>0, <4>2, ListTail DEF TypeOK
    <3>2. \A t \in Runner : cancelled[t] => cancelled'[t]
      BY <1>0, <2>3, <3>1 DEF cancel_one_test, TypeOK
    <3>3. \A t \in Runner : t \in running /\ t \notin running'
                              => (phase[t] \in Pending => cancelled'[t])
      BY <1>0, <2>3, <3>1, Zenon DEF cancel_one_test, TypeOK
    <3>. QED  BY <2>1, <2>3, <3>2, <3>3, Zenon
              DEF Reachable, ToldToStop, Pending, Holding
  <2>4. CASE /\ running = {} /\ interrupted' = TRUE
             /\ UNCHANGED <<futures, running, cancelled>>
    BY <2>1, <2>4 DEF Reachable, ToldToStop
  <2>. QED  BY <1>3, <2>2, <2>3, <2>4, Zenon DEF sigterm_handler, sigint_handler
<1>4. ASSUME NEW t \in Runner, Start(t) PROVE InterruptInv'
  <2>1. /\ phase[t] = "queued" /\ ~cancelled[t] /\ ~interrupted
        /\ phase' = [phase EXCEPT ![t] = "starting"]
        /\ UNCHANGED <<cancelled, running, interrupted>>
    BY <1>4 DEF Start, Acquirable, NotWanted
  <2>. QED  BY <1>0, <2>1 DEF TypeOK, Reachable, ToldToStop
<1>5. ASSUME NEW t \in Runner, Skip(t) \/ Spawn(t) \/ SpawnFails(t)
               \/ FinishParsed(t) \/ Timeout(t) \/ Escalate(t) \/ Killed(t)
      PROVE  InterruptInv'
  <2>1. PICK x \in {"ended", "running", "collect", "term", "kill", "last"} :
          phase' = [phase EXCEPT ![t] = x]
    BY <1>5 DEF Skip, Spawn, SpawnFails, FinishParsed, Timeout, Escalate,
                Killed, EndTask, BeginKill, Killing
  <2>2. UNCHANGED <<cancelled, running, interrupted>>
    BY <1>5 DEF Skip, Spawn, SpawnFails, FinishParsed, Timeout, Escalate, Killed
  <2>. QED  BY <1>0, <2>1, <2>2 DEF TypeOK, Reachable, ToldToStop
<1>6. ASSUME NEW t \in Runner, Cancel(t) PROVE InterruptInv'
  <2>1. PICK x \in {"ended", "term"} : phase' = [phase EXCEPT ![t] = x]
    BY <1>6 DEF Cancel, BeginKill, EndTask
  <2>2. /\ UNCHANGED <<running, interrupted>>
        /\ cancelled' = [cancelled EXCEPT ![t] = FALSE]
    BY <1>6 DEF Cancel
  <2>. QED  BY <1>0, <2>1, <2>2 DEF TypeOK, Reachable, ToldToStop
<1>7. ASSUME NEW t \in Runner, RunSkip(t) \/ Finish(t) \/ Collected(t)
      PROVE  InterruptInv'
  <2>1. PICK res, value : ProcessResult(t, res, value)
    BY <1>7 DEF RunSkip, Finish, Collected
  <2>. QED  BY <2>1, ProcessInterrupt
<1>8. ASSUME NEW t \in Runner, test_done(t) PROVE InterruptInv'
  <2>1. /\ phase' = [phase EXCEPT ![t] = "gone"]
        /\ running \ {t} \subseteq running'
        /\ UNCHANGED <<cancelled, interrupted>>
    BY <1>8, Zenon DEF test_done
  <2>. QED  BY <1>0, <2>1 DEF TypeOK, Reachable, ToldToStop
<1>9. CASE \/ AwaitAll \/ DrainDone \/ SerialDone \/ FinalDone \/ AbortDone
           \/ \E t \in Runner : LeaderExits(t) \/ HelperExits(t)
           \/ UNCHANGED vars
  <2>1. UNCHANGED <<phase, cancelled, running, interrupted>>
    BY <1>9, Zenon DEF AwaitAll, DrainDone, SerialDone, FinalDone, AbortDone,
                LeaderExits, HelperExits, vars
  <2>. QED  BY <2>1 DEF Reachable, ToldToStop
<1>10. ASSUME NEW t \in Runner, CancelSwallowed(t) PROVE InterruptInv'
  <2>1. /\ UNCHANGED <<phase, running, interrupted>> /\ phase[t] = "collect"
        /\ cancelled' = [cancelled EXCEPT ![t] = FALSE]
    BY <1>10 DEF CancelSwallowed
  <2>. QED  BY <1>0, <2>1 DEF TypeOK, Reachable, ToldToStop
<1>. QED
  BY <1>1, <1>2, <1>3, <1>4, <1>5, <1>6, <1>7, <1>8, <1>9, <1>10
  DEF Next, MainStep, TaskStep, Terminating

THEOREM InterruptInvariant == Spec => []InterruptInv
  BY InitInterrupt, NextInterrupt, TypesAndSlots, PTL DEF Spec

\* Once the run is interrupted no test program is started any more, neither by
\* a test that holds a slot already nor by one that gets it later.
THEOREM InterruptedStaysQuiet == Spec => NoSpawnOnceInterrupted
<1>1. BaseInv /\ InterruptInv /\ [Next]_vars
        => [interrupted => \A t \in Runner :
              leader[t] = "none" => leader'[t] = "none"]_vars
  <2>. SUFFICES ASSUME BaseInv, InterruptInv, [Next]_vars, interrupted,
                       NEW t \in Runner, leader[t] = "none"
                PROVE  leader'[t] = "none"
    OBVIOUS
  <2>. USE DEF procVars
  <2>0. TypeOK
    BY DEF BaseInv
  <2>1. CASE MainStep \/ sigterm_handler \/ sigint_handler \/ UNCHANGED vars
    BY <2>1, Zenon DEF MainStep, Create, AwaitAll, DrainDone, SerialDone, FinalDone,
                MainAbort, AbortDone, sigterm_handler, sigint_handler, vars
  <2>2. ASSUME NEW u \in Runner, TaskStep(u) PROVE leader'[t] = "none"
    <3>1. ~Spawn(u)
      BY Zenon DEF Spawn, InterruptInv, ToldToStop
    <3>. QED  BY <2>2, <3>1, Zenon DEF TaskStep, Skip, Start, RunSkip, SpawnFails, Finish,
                     FinishParsed, Timeout, Escalate, Killed, Collected,
                     Cancel, CancelSwallowed, test_done
  <2>3. ASSUME NEW u \in Runner, LeaderExits(u) \/ HelperExits(u)
        PROVE  leader'[t] = "none"
    BY <2>0, <2>3 DEF LeaderExits, HelperExits, TypeOK
  <2>. QED  BY <2>1, <2>2, <2>3, Zenon DEF Next, Terminating
<1>. QED
  BY <1>1, TypesAndSlots, InterruptInvariant, PTL
  DEF Spec, NoSpawnOnceInterrupted
-----------------------------------------------------------------------------

LEMMA InitResult == Init => ResultInv
  BY DEF Init, ResultInv, RecordedOnce, CollectReaped, RecordedIsReaped,
         FailuresListed, is_bad

\* A result is given to a test that had none, after its program is gone
LEMMA ProcessGivesResult ==
  ASSUME TypeOK, ResultInv, NEW t \in Runner, NEW res \in Result, NEW value,
         ProcessResult(t, res, value), UNCHANGED procVars,
         phase[t] \in Pending,
         t \in NoCmd \/ leader[t] = "dead" \/ t \in stuck
  PROVE  ResultInv'
<1>1. /\ phase' = [phase EXCEPT ![t] = "ended"]
      /\ recorded' = [recorded EXCEPT ![t] = res]
      /\ collected' = IF is_bad_result(res) THEN collected \union {t} ELSE collected
      /\ UNCHANGED <<leader, stuck>>
  BY DEF ProcessResult, EndTask, procVars
<1>2. recorded[t] = "none"
  BY Zenon DEF ResultInv, RecordedOnce, Pending, Holding, Killing
<1>3. RecordedOnce' /\ CollectReaped' /\ RecordedIsReaped'
  BY <1>1 DEF TypeOK, ResultInv, RecordedOnce, CollectReaped, RecordedIsReaped
<1>4. \A u \in Runner : recorded'[u] = IF u = t THEN res ELSE recorded[u]
  BY <1>1 DEF TypeOK
<1>5. maxfail_reached' => maxfail_reached \/ res \in is_bad
  BY Zenon DEF ProcessResult
<1>6. FailuresListed'
  <2>1. CASE res \in is_bad
    <3>1. collected' # {}
      BY <1>1, <2>1, Zenon DEF is_bad_result, ResultInv, FailuresListed
    <3>. QED  BY <1>4, <2>1, <3>1 DEF FailuresListed
  <2>2. CASE res \notin is_bad
    <3>1. collected' = collected
      BY <1>1, <2>2 DEF is_bad_result
    <3>2. (\E u \in Runner : recorded'[u] \in is_bad)
            <=> \E u \in Runner : recorded[u] \in is_bad
      BY <1>2, <1>4, <2>2 DEF is_bad
    <3>. QED  BY <1>5, <2>2, <3>1, <3>2, Zenon DEF ResultInv, FailuresListed
  <2>. QED  BY <2>1, <2>2
<1>. QED
  BY <1>3, <1>6, Zenon DEF ResultInv

\* Steps that give no result
LEMMA NoNewResult ==
  ASSUME ResultInv, UNCHANGED resultVars, RecordedOnce', CollectReaped',
         RecordedIsReaped'
  PROVE  ResultInv'
  BY DEF ResultInv, FailuresListed, resultVars

LEMMA NextResult == BaseInv /\ ResultInv /\ [Next]_vars => ResultInv'
<1>. SUFFICES ASSUME BaseInv, ResultInv, [Next]_vars PROVE ResultInv'
  OBVIOUS
<1>. USE DEF taskVars, procVars, resultVars
<1>0. /\ TypeOK /\ RecordedOnce /\ CollectReaped /\ RecordedIsReaped
      /\ Outcomes \subseteq Result /\ "SKIP" \in Result
  BY ConstantsAssumption DEF BaseInv, ResultInv, Result
<1>. USE DEF RecordedOnce, CollectReaped, RecordedIsReaped
<1>1. CASE Create
  <2>1. next \in Runner /\ phase[next] = "none"
    BY <1>1, NextRunner
  <2>2. RecordedOnce' /\ CollectReaped' /\ RecordedIsReaped'
    BY <1>0, <1>1, <2>1 DEF Create, TypeOK
  <2>. QED  BY <1>1, <2>2, NoNewResult DEF Create
<1>2. CASE \/ AwaitAll \/ DrainDone \/ SerialDone \/ FinalDone \/ MainAbort
           \/ AbortDone \/ sigterm_handler \/ sigint_handler \/ UNCHANGED vars
  <2>1. UNCHANGED <<phase, recorded, leader, stuck, resultVars>>
    BY <1>2, Zenon DEF AwaitAll, DrainDone, SerialDone, FinalDone, MainAbort,
                AbortDone, sigterm_handler, sigint_handler, vars
  <2>2. RecordedOnce' /\ CollectReaped' /\ RecordedIsReaped'
    BY <1>0, <2>1
  <2>. QED  BY <2>1, <2>2, NoNewResult, Zenon
<1>3. ASSUME NEW t \in Runner, RunSkip(t) \/ Finish(t) \/ Collected(t)
      PROVE  ResultInv'
  <2>0. PICK res \in Result : \E v : ProcessResult(t, res, v)
    BY <1>0, <1>3 DEF RunSkip, Finish, Collected, TypeOK, Result
  <2>1. PICK value : ProcessResult(t, res, value)
    BY <2>0
  <2>2. phase[t] \in Pending
    BY <1>3 DEF RunSkip, Finish, Collected, Acquirable, Exited, Pending, Holding
  <2>3. t \in NoCmd \/ leader[t] = "dead" \/ t \in stuck
    BY <1>0, <1>3, Zenon DEF RunSkip, Finish, Collected, Exited
  <2>4. UNCHANGED procVars
    BY <1>3 DEF RunSkip, Finish, Collected
  <2>. QED  BY <1>0, <2>1, <2>2, <2>3, <2>4, ProcessGivesResult
<1>4. ASSUME NEW t \in Runner,
             Skip(t) \/ Start(t) \/ SpawnFails(t) \/ Timeout(t) \/ Cancel(t)
      PROVE  ResultInv'
  <2>1. PICK x \in {"ended", "starting", "term"} : phase' = [phase EXCEPT ![t] = x]
    BY <1>4 DEF Skip, Start, SpawnFails, Timeout, Cancel, EndTask, BeginKill
  <2>2. UNCHANGED <<resultVars, leader, stuck>>
    BY <1>4, Zenon DEF Skip, Start, SpawnFails, Timeout, Cancel
  <2>3. recorded[t] = "none"
    BY <1>0, <1>4, Zenon DEF Skip, Start, SpawnFails, Timeout, Cancel, Acquirable,
                      Pending, Holding, Killing
  <2>4. RecordedOnce' /\ CollectReaped' /\ RecordedIsReaped'
    BY <1>0, <2>1, <2>2, <2>3 DEF TypeOK
  <2>. QED  BY <2>2, <2>4, NoNewResult
<1>5. ASSUME NEW t \in Runner, Spawn(t) PROVE ResultInv'
  <2>1. recorded[t] = "none"
    BY <1>0, <1>5, Zenon DEF Spawn
  <2>2. RecordedOnce' /\ CollectReaped' /\ RecordedIsReaped'
    BY <1>0, <1>5, <2>1 DEF Spawn, TypeOK
  <2>. QED  BY <1>5, <2>2, NoNewResult, Zenon DEF Spawn
<1>6. ASSUME NEW t \in Runner, FinishParsed(t) \/ Escalate(t) \/ Killed(t)
      PROVE  ResultInv'
  <2>1. PICK x \in {"kill", "last", "collect"} :
          /\ phase' = [phase EXCEPT ![t] = x]
          /\ x = "collect" => leader[t] = "dead" \/ t \in stuck'
    BY <1>6 DEF FinishParsed, Exited, Escalate, Killed, Killing
  <2>2. recorded[t] = "none"
    BY <1>0, <1>6 DEF FinishParsed, Exited, Escalate, Killed, Killing
  <2>3. UNCHANGED <<resultVars, leader>> /\ stuck \subseteq stuck'
    BY <1>6 DEF FinishParsed, Escalate, Killed
  <2>4. RecordedOnce' /\ CollectReaped' /\ RecordedIsReaped'
    BY <1>0, <2>1, <2>2, <2>3, Zenon DEF TypeOK
  <2>. QED  BY <2>3, <2>4, NoNewResult, Zenon
<1>7. ASSUME NEW t \in Runner, test_done(t) PROVE ResultInv'
  <2>1. RecordedOnce' /\ CollectReaped' /\ RecordedIsReaped'
    BY <1>0, <1>7, Zenon DEF test_done, TypeOK
  <2>. QED  BY <1>7, <2>1, NoNewResult, Zenon DEF test_done
<1>8. ASSUME NEW t \in Runner, LeaderExits(t) \/ HelperExits(t)
      PROVE  ResultInv'
  <2>1. RecordedOnce' /\ CollectReaped' /\ RecordedIsReaped'
    BY <1>0, <1>8 DEF LeaderExits, HelperExits, TypeOK
  <2>. QED  BY <1>8, <2>1, NoNewResult DEF LeaderExits, HelperExits
<1>9. ASSUME NEW t \in Runner, CancelSwallowed(t) PROVE ResultInv'
  <2>1. UNCHANGED <<phase, recorded, leader, stuck, resultVars>>
    BY <1>9, Zenon DEF CancelSwallowed
  <2>2. RecordedOnce' /\ CollectReaped' /\ RecordedIsReaped'
    BY <1>0, <2>1
  <2>. QED  BY <2>1, <2>2, NoNewResult, Zenon
<1>. QED
  BY <1>1, <1>2, <1>3, <1>4, <1>5, <1>6, <1>7, <1>8, <1>9
  DEF Next, MainStep, TaskStep, Terminating

THEOREM ResultInvariant == Spec => []ResultInv
  BY InitResult, NextResult, TypesAndSlots, PTL DEF Spec

\* A test that was started gets a result only when its program is gone or could
\* not be killed.
THEOREM ResultsAreReaped == Spec => []RecordedIsReaped
  BY ResultInvariant, PTL DEF ResultInv

\* The failure total counts the bad results
LEMMA FailuresCounted ==
  total_failure_count > 0 <=> \E t \in Runner : recorded[t] \in is_bad
<1>. DEFINE A == {t \in Runner : recorded[t] \in {"FAIL", "ERROR", "INTERRUPT"}}
            B == {t \in Runner : recorded[t] = "UNEXPECTEDPASS"}
            C == {t \in Runner : recorded[t] = "TIMEOUT"}
<1>1. /\ Cardinality(A) \in Nat /\ (Cardinality(A) = 0 <=> A = {})
      /\ Cardinality(B) \in Nat /\ (Cardinality(B) = 0 <=> B = {})
      /\ Cardinality(C) \in Nat /\ (Cardinality(C) = 0 <=> C = {})
  <2>1. IsFiniteSet(A) /\ IsFiniteSet(B) /\ IsFiniteSet(C)
    BY RunnerFinite, FS_Subset
  <2>. HIDE DEF A, B, C
  <2>. QED  BY <2>1, FS_CardinalityType, FS_EmptySet
<1>2. total_failure_count = (Cardinality(A) + Cardinality(B)) + Cardinality(C)
  BY DEF total_failure_count, fail_count, unexpectedpass_count, timeout_count
<1>3. (A # {} \/ B # {} \/ C # {}) <=> \E t \in Runner : recorded[t] \in is_bad
  BY DEF is_bad
<1>. HIDE DEF A, B, C
<1>. QED
  BY <1>1, <1>2, <1>3

\* `meson test` exits with 1 exactly if its summary lists a failure, although
\* the interruptions caused by --maxfail count and are not listed.
THEOREM ExitCodeIsExplained == Spec => []ExitCodeExplained
<1>1. ResultInv => ExitCodeExplained
  BY FailuresCounted
  DEF ResultInv, FailuresListed, ExitCodeExplained, ExitCode
<1>. QED
  BY <1>1, ResultInvariant, PTL

-----------------------------------------------------------------------------
(* What a run that ended has reported *)

\* A task that ended has a fate, and only such a task
FateKnown ==
  \A t \in Runner : fate[t] # "none" <=> phase[t] \in {"ended", "gone"}

\* run_test returns without a result only because it was not wanted
ReturnedReported ==
  \A t \in Runner : fate[t] = "returned" => recorded[t] # "none" \/ NotWanted

AllCreated == \A t \in Runner : t < next => phase[t] # "none"

\* The loop over the runners ended, or a repetition failed
LoopEnded == main \in {"final", "done"} => next > N \/ StopRepeating

\* complete_all has seen every task end, and none raise
NothingLeft ==
  main = "done" =>
    \A t \in Runner : phase[t] \in {"none", "gone"} /\ fate[t] # "raised"

ReportInv == FateKnown /\ ReturnedReported /\ AllCreated /\ LoopEnded /\ NothingLeft

LEMMA InitReport == Init => ReportInv
  BY ConstantsAssumption
  DEF Init, ReportInv, FateKnown, ReturnedReported, AllCreated, LoopEnded,
      NothingLeft, Runner

\* fail_count counts the failures among any results r
LEMMA FailCounted ==
  ASSUME NEW r
  PROVE  Cardinality({t \in Runner : r[t] \in {"FAIL", "ERROR", "INTERRUPT"}}) > 0
           <=> \E t \in Runner : r[t] \in {"FAIL", "ERROR", "INTERRUPT"}
<1>. DEFINE A == {t \in Runner : r[t] \in {"FAIL", "ERROR", "INTERRUPT"}}
<1>1. Cardinality(A) \in Nat /\ (Cardinality(A) = 0 <=> A = {})
  <2>1. IsFiniteSet(A)
    BY RunnerFinite, FS_Subset
  <2>. HIDE DEF A
  <2>. QED  BY <2>1, FS_CardinalityType, FS_EmptySet
<1>2. A # {} <=> \E t \in Runner : r[t] \in {"FAIL", "ERROR", "INTERRUPT"}
  OBVIOUS
<1>3. Cardinality(A) > 0 <=> A # {}
  <2>. HIDE DEF A
  <2>. QED  BY <1>1
<1>. QED
  BY <1>2, <1>3

\* A run that is not wanted any more never is again
LEMMA StillNotWanted ==
  ASSUME interrupted => interrupted',
         \A t \in Runner : recorded[t] # "none" => recorded'[t] = recorded[t]
  PROVE  /\ NotWanted => NotWanted'
         /\ StopRepeating => StopRepeating'
<1>1. fail_count > 0
        <=> \E t \in Runner : recorded[t] \in {"FAIL", "ERROR", "INTERRUPT"}
  BY FailCounted DEF fail_count
<1>2. fail_count' > 0
        <=> \E t \in Runner : recorded'[t] \in {"FAIL", "ERROR", "INTERRUPT"}
  BY FailCounted DEF fail_count
<1>3. fail_count > 0 => fail_count' > 0
  BY <1>1, <1>2
<1>. QED
  BY <1>3 DEF NotWanted, StopRepeating

\* Results that were given stay as they are, and an interruption lasts
LEMMA ResultsStay ==
  ASSUME TypeOK, RecordedOnce, [Next]_vars
  PROVE  /\ interrupted => interrupted'
         /\ \A t \in Runner : recorded[t] # "none" => recorded'[t] = recorded[t]
<1>. USE DEF taskVars, listVars, resultVars
<1>1. CASE sigterm_handler \/ sigint_handler
  BY <1>1, Zenon DEF sigterm_handler, sigint_handler, cancel_all_tests
<1>2. ASSUME NEW t \in Runner, RunSkip(t) \/ Finish(t) \/ Collected(t)
      PROVE  /\ interrupted => interrupted'
             /\ \A u \in Runner : recorded[u] # "none" => recorded'[u] = recorded[u]
  <2>1. PICK res, value : ProcessResult(t, res, value)
    BY <1>2 DEF RunSkip, Finish, Collected
  <2>2. phase[t] \in Pending
    BY <1>2 DEF RunSkip, Finish, Collected, Acquirable, Exited, Pending, Holding
  <2>3. recorded[t] = "none"
    BY <2>2, Zenon DEF RecordedOnce, Pending, Holding, Killing
  <2>4. recorded' = [recorded EXCEPT ![t] = res]
    BY <2>1, Zenon DEF ProcessResult
  <2>5. interrupted => interrupted'
    BY <2>1, Zenon DEF ProcessResult, cancel_all_tests
  <2>. QED  BY <2>3, <2>4, <2>5 DEF TypeOK
<1>3. CASE \/ Create \/ AwaitAll \/ DrainDone \/ SerialDone \/ FinalDone
           \/ MainAbort \/ AbortDone \/ UNCHANGED vars
  <2>1. recorded' = recorded BY <1>3 DEF Create, AwaitAll, DrainDone, SerialDone, FinalDone, MainAbort,
                                         AbortDone, vars
  <2>2. interrupted => interrupted' BY <1>3, Zenon DEF Create, AwaitAll, DrainDone, SerialDone, FinalDone, MainAbort,
                                                AbortDone, vars
  <2>. QED BY <2>1, <2>2
<1>4. ASSUME NEW t \in Runner,
             Skip(t) \/ Start(t) \/ Spawn(t) \/ SpawnFails(t) \/ FinishParsed(t)
             \/ Timeout(t) \/ Escalate(t) \/ Killed(t) \/ Cancel(t) \/ CancelSwallowed(t)
             \/ test_done(t) \/ LeaderExits(t) \/ HelperExits(t)
      PROVE  UNCHANGED <<interrupted, recorded>>
  BY <1>4 DEF Skip, Start, Spawn, SpawnFails, FinishParsed, Timeout, Escalate,
              Killed, Cancel, CancelSwallowed, test_done, LeaderExits, HelperExits
<1>. QED
  BY <1>1, <1>2, <1>3, <1>4 DEF Next, MainStep, TaskStep, Terminating

\* A task that is not done moves on; if it ends, its fate is settled
LEMMA TaskReports ==
  ASSUME TypeOK, ReportInv, Yielded, UNCHANGED mainVars,
         NotWanted => NotWanted', StopRepeating => StopRepeating',
         NEW t \in Runner, phase[t] \in Pending,
         NEW x \in Pending \union {"ended"}, phase' = [phase EXCEPT ![t] = x],
         NEW how, x = "ended" <=> how # "none", fate' = [fate EXCEPT ![t] = how],
         how = "returned" => recorded'[t] # "none" \/ NotWanted',
         \A u \in Runner : recorded[u] # "none" => recorded'[u] # "none"
  PROVE  ReportInv'
<1>1. x \notin {"none", "gone"} /\ phase[t] \notin {"none", "ended", "gone"}
  BY DEF Pending, Holding, Killing
<1>2. main # "done"
  BY <1>1 DEF ReportInv, NothingLeft
<1>3. FateKnown'
  BY <1>1 DEF ReportInv, FateKnown, TypeOK
<1>4. ReturnedReported'
  BY DEF ReportInv, ReturnedReported, TypeOK
<1>5. AllCreated'
  BY <1>1 DEF ReportInv, AllCreated, TypeOK, mainVars
<1>6. LoopEnded' /\ NothingLeft'
  BY <1>2, Zenon DEF ReportInv, LoopEnded, NothingLeft, mainVars
<1>. QED
  BY <1>3, <1>4, <1>5, <1>6, Zenon DEF ReportInv


LEMMA NextReport ==
  BaseInv /\ DequeInv /\ ResultInv /\ ReportInv /\ [Next]_vars => ReportInv'
<1>. SUFFICES ASSUME BaseInv, DequeInv, ResultInv, ReportInv, [Next]_vars
              PROVE  ReportInv'
  OBVIOUS
<1>. USE DEF taskVars, listVars, resultVars
<1>0. TypeOK /\ RecordedOnce
  BY DEF BaseInv, ResultInv
<1>1. /\ NotWanted => NotWanted'
      /\ StopRepeating => StopRepeating'
      /\ \A t \in Runner : recorded[t] # "none" => recorded'[t] = recorded[t]
  BY <1>0, ResultsStay, StillNotWanted, Zenon
<1>2. \A u \in Runner : recorded[u] # "none" => recorded'[u] # "none"
  BY <1>1
<1>3. CASE Create
  <2>1. next \in Runner /\ phase[next] = "none"
    BY <1>0, <1>3, NextRunner
  <2>2. main' # "done" /\ (main' = "final" => StopRepeating)
        /\ next' = next + 1 /\ phase' = [phase EXCEPT ![next] = "queued"]
        /\ fate' = fate
    BY <1>3 DEF Create
  <2>3. FateKnown'
    BY <1>0, <2>1, <2>2 DEF ReportInv, FateKnown, TypeOK
  <2>4. ReturnedReported'
    BY <1>1, <1>2, <2>2 DEF ReportInv, ReturnedReported
  <2>5. AllCreated'
    BY <1>0, <2>1, <2>2, ConstantsAssumption
    DEF ReportInv, AllCreated, TypeOK, Runner
  <2>6. LoopEnded' /\ NothingLeft'
    BY <1>1, <2>2 DEF LoopEnded, NothingLeft
  <2>. QED  BY <2>3, <2>4, <2>5, <2>6 DEF ReportInv
<1>4. CASE \/ AwaitAll \/ DrainDone \/ SerialDone \/ FinalDone \/ MainAbort
           \/ AbortDone \/ sigterm_handler \/ sigint_handler \/ UNCHANGED vars
           \/ \E t \in Runner : LeaderExits(t) \/ HelperExits(t)
  <2>1. UNCHANGED <<next, phase, fate>>
    BY <1>4, Zenon DEF AwaitAll, DrainDone, SerialDone, FinalDone, MainAbort,
       AbortDone, sigterm_handler, sigint_handler, LeaderExits, HelperExits,
       vars, mainVars
  <2>2. FateKnown' /\ AllCreated'
    BY <2>1 DEF ReportInv, FateKnown, AllCreated
  <2>3. ReturnedReported'
    BY <1>1, <1>2, <2>1 DEF ReportInv, ReturnedReported
  <2>4. main' = "final" => main = "final" \/ next > N \/ StopRepeating
    <3>1. CASE AwaitAll \/ SerialDone
      BY <3>1 DEF AwaitAll, SerialDone
    <3>2. CASE DrainDone \/ FinalDone \/ MainAbort \/ AbortDone
      BY <3>2, Zenon DEF DrainDone, FinalDone, MainAbort, AbortDone
    <3>3. CASE \/ sigterm_handler \/ sigint_handler \/ UNCHANGED vars
               \/ \E t \in Runner : LeaderExits(t) \/ HelperExits(t)
      BY <3>3, Zenon DEF sigterm_handler, sigint_handler, LeaderExits, HelperExits, vars,
         mainVars
    <3>. QED  BY <1>4, <3>1, <3>2, <3>3
  <2>5. main' = "done" => main = "done" \/ (main = "final" /\ futures = <<>>)
    <3>1. CASE AwaitAll \/ SerialDone
      BY <3>1 DEF AwaitAll, SerialDone
    <3>2. CASE DrainDone \/ FinalDone \/ MainAbort \/ AbortDone
      BY <3>2, Zenon DEF DrainDone, FinalDone, MainAbort, AbortDone
    <3>3. CASE \/ sigterm_handler \/ sigint_handler \/ UNCHANGED vars
               \/ \E t \in Runner : LeaderExits(t) \/ HelperExits(t)
      BY <3>3 DEF sigterm_handler, sigint_handler, LeaderExits, HelperExits, vars,
         mainVars
    <3>. QED  BY <1>4, <3>1, <3>2, <3>3
  <2>6. LoopEnded'
    BY <1>1, <2>1, <2>4, <2>5 DEF ReportInv, LoopEnded
  <2>7. futures = <<>> =>
          \A t \in Runner : phase[t] \in {"none", "gone"} /\ fate[t] # "raised"
    <3>. SUFFICES ASSUME futures = <<>>, NEW t \in Runner
                  PROVE  phase[t] \in {"none", "gone"} /\ fate[t] # "raised"
      OBVIOUS
    <3>1. ~InDeque(t)
      BY EmptyList DEF InDeque
    <3>. QED  BY <3>1 DEF DequeInv, DequeExact, Alive, ReportInv, FateKnown
  <2>8. NothingLeft'
    BY <2>1, <2>5, <2>7 DEF ReportInv, NothingLeft
  <2>. QED  BY <2>2, <2>3, <2>6, <2>8 DEF ReportInv
<1>5. ASSUME NEW t \in Runner, Start(t) \/ Spawn(t) \/ FinishParsed(t)
               \/ Timeout(t) \/ Escalate(t) \/ Killed(t) \/ Cancel(t)
               \/ CancelSwallowed(t) \/ SpawnFails(t) \/ Skip(t) \/ RunSkip(t) \/ Finish(t)
               \/ Collected(t)
      PROVE  ReportInv'
  <2>1. phase[t] \in Pending /\ Yielded /\ UNCHANGED mainVars
    BY <1>5 DEF Start, Spawn, FinishParsed, Timeout, Escalate, Killed, Cancel,
       CancelSwallowed, SpawnFails, Skip, RunSkip, Finish, Collected, Acquirable, Exited, Pending,
       Holding
  <2>2. fate[t] = "none"
    BY <1>0, <2>1 DEF ReportInv, FateKnown, Pending, Holding, Killing
  <2>. DEFINE Settled(x, how) ==
                /\ phase' = [phase EXCEPT ![t] = x]
                /\ x = "ended" <=> how # "none"
                /\ fate' = [fate EXCEPT ![t] = how]
                /\ how = "returned" => recorded'[t] # "none" \/ NotWanted'
  <2>3. \E x \in Pending \union {"ended"} : \E how : Settled(x, how)
    <3>1. ASSUME NEW x \in Pending, phase' = [phase EXCEPT ![t] = x],
                 UNCHANGED fate
          PROVE  Settled(x, "none")
      <4>1. fate' = [fate EXCEPT ![t] = "none"]
        BY <1>0, <2>2, <3>1 DEF TypeOK
      <4>2. x # "ended"
        BY DEF Pending, Holding, Killing
      <4>. QED  BY <3>1, <4>1, <4>2, Zenon
    <3>2. ASSUME NEW how \in {"returned", "cancelled", "raised"},
                 phase' = [phase EXCEPT ![t] = "ended"],
                 fate' = [fate EXCEPT ![t] = how],
                 how = "returned" => recorded'[t] # "none" \/ NotWanted'
          PROVE  Settled("ended", how)
      BY <3>2
    <3>3. CASE Start(t) \/ Spawn(t) \/ FinishParsed(t) \/ Timeout(t)
                 \/ Escalate(t) \/ Killed(t) \/ (Cancel(t) /\ phase[t] = "running")
      <4>1. UNCHANGED fate /\ \E x \in Pending : phase' = [phase EXCEPT ![t] = x]
        BY <3>3 DEF Start, Spawn, FinishParsed, Timeout, Escalate, Killed, Cancel,
           BeginKill, Pending, Holding, Killing
      <4>. QED  BY <3>1, <4>1, Zenon
    <3>4. CASE (Cancel(t) /\ phase[t] # "running") \/ SpawnFails(t)
      BY <3>2, <3>4, Zenon DEF Cancel, SpawnFails, EndTask
    <3>5. CASE Skip(t)
      BY <1>1, <3>2, <3>5, Zenon DEF Skip, EndTask
    <3>6. CASE RunSkip(t) \/ Finish(t) \/ Collected(t)
      <4>1. PICK res \in Result : \E v : ProcessResult(t, res, v)
        BY <1>0, <3>6, ConstantsAssumption
        DEF RunSkip, Finish, Collected, TypeOK, Result
      <4>2. PICK how \in {"returned", "cancelled"} :
              /\ phase' = [phase EXCEPT ![t] = "ended"]
              /\ fate' = [fate EXCEPT ![t] = how]
        BY <4>1, Zenon DEF ProcessResult, EndTask
      <4>3. recorded' = [recorded EXCEPT ![t] = res]
        BY <4>1, Zenon DEF ProcessResult
      <4>4. recorded'[t] # "none"
        BY <1>0, <4>1, <4>3 DEF TypeOK, Result
      <4>. QED  BY <3>2, <4>2, <4>4, Zenon
    <3>7. CASE CancelSwallowed(t)
      <4>1. "collect" \in Pending /\ UNCHANGED fate
        BY <3>7 DEF CancelSwallowed, Pending, Holding
      <4>2. phase' = [phase EXCEPT ![t] = "collect"]
        BY <1>0, <3>7 DEF CancelSwallowed, TypeOK
      <4>. QED  BY <3>1, <4>1, <4>2, Zenon
    <3>. QED  BY <1>5, <3>3, <3>4, <3>5, <3>6, <3>7
  <2>. QED  BY <1>0, <1>1, <1>2, <2>1, <2>3, TaskReports, Zenon
<1>6. ASSUME NEW t \in Runner, test_done(t) PROVE ReportInv'
  <2>1. /\ phase[t] = "ended" /\ phase' = [phase EXCEPT ![t] = "gone"]
        /\ UNCHANGED <<mainVars, fate>>
    BY <1>6, Zenon DEF test_done
  <2>2. main # "done"
    BY <2>1 DEF ReportInv, NothingLeft
  <2>3. FateKnown' /\ AllCreated'
    BY <1>0, <2>1 DEF ReportInv, FateKnown, AllCreated, TypeOK, mainVars
  <2>4. ReturnedReported'
    BY <1>1, <1>2, <2>1 DEF ReportInv, ReturnedReported
  <2>5. LoopEnded' /\ NothingLeft'
    BY <1>1, <2>1, <2>2 DEF ReportInv, LoopEnded, NothingLeft, mainVars
  <2>. QED  BY <2>3, <2>4, <2>5 DEF ReportInv
<1>. QED
  BY <1>3, <1>4, <1>5, <1>6 DEF Next, MainStep, TaskStep, Terminating

\* When _run_tests returns normally, every test has a result, was cancelled, or
\* was passed over because the run was interrupted or a repetition failed.
THEOREM EverythingIsReported == Spec => []AllReported
<1>1. BaseInv /\ ReportInv => AllReported
  <2>. SUFFICES ASSUME BaseInv, ReportInv, main = "done", NEW t \in Runner
                PROVE  \/ recorded[t] # "none"
                       \/ fate[t] = "cancelled"
                       \/ fate[t] \in {"none", "returned"} /\ NotWanted
    BY DEF AllReported
  <2>1. fate[t] # "raised" /\ phase[t] \in {"none", "gone"}
    BY DEF ReportInv, NothingLeft
  <2>2. CASE phase[t] = "none"
    <3>1. fate[t] = "none"
      BY <2>2 DEF ReportInv, FateKnown
    <3>2. ~(t < next)
      BY <2>2 DEF ReportInv, AllCreated
    <3>3. ~(next > N)
      BY <3>2, ConstantsAssumption DEF BaseInv, TypeOK, Runner
    <3>. QED  BY <3>1, <3>3 DEF ReportInv, LoopEnded, NotWanted
  <2>3. CASE phase[t] = "gone"
    <3>1. fate[t] \in {"returned", "cancelled"}
      BY <2>1, <2>3 DEF ReportInv, FateKnown, BaseInv, TypeOK
    <3>. QED  BY <3>1 DEF ReportInv, ReturnedReported
  <2>. QED  BY <2>1, <2>2, <2>3
<1>. QED
  BY <1>1, InitReport, NextReport, TypesAndSlots, DequeInvariant,
     ResultInvariant, PTL DEF Spec

=============================================================================
