------------------------ MODULE CompilerArgs_proof ------------------------
(***************************************************************************)
(* Proofs about CompilerArgs, for any arguments: the flag is up whenever   *)
(* it must be, the list that reads show is the one ArgList prescribes, and *)
(* the newest argument wins.                                               *)
(***************************************************************************)
EXTENDS CompilerArgs, WellFoundedInduction, TLAPS

-----------------------------------------------------------------------------
(* Lists *)

\* A list is a function on the numbers up to its length.
LEMMA ListLength ==
  ASSUME NEW S, NEW s \in Seq(S)
  PROVE  Len(s) \in Nat /\ DOMAIN s = 1..Len(s) /\ s \in [1..Len(s) -> S] /\ (s = <<>> <=> Len(s) = 0)
OBVIOUS

\* One element more.
LEMMA ListAppend ==
  ASSUME NEW S, NEW s \in Seq(S), NEW e \in S
  PROVE  /\ Append(s, e) \in Seq(S) /\ Len(Append(s, e)) = Len(s) + 1
         /\ Append(s, e)[Len(s) + 1] = e /\ \A i \in 1..Len(s) : Append(s, e)[i] = s[i]
OBVIOUS

\* One list after the other.
LEMMA ListConcat ==
  ASSUME NEW S, NEW s \in Seq(S), NEW t \in Seq(S)
  PROVE  /\ s \o t \in Seq(S) /\ Len(s \o t) = Len(s) + Len(t)
         /\ \A i \in 1..Len(s) + Len(t) : (s \o t)[i] = IF i <= Len(s) THEN s[i] ELSE t[i - Len(s)]
OBVIOUS

\* Lists with the same elements are equal.
LEMMA ListsEqual ==
  ASSUME NEW S, NEW s \in Seq(S), NEW t \in Seq(S), Len(s) = Len(t), \A i \in 1..Len(s) : s[i] = t[i]
  PROVE  s = t
OBVIOUS

\* A list that is not empty has a last element.
LEMMA LastElement ==
  ASSUME NEW S, NEW s \in Seq(S), s # <<>>
  PROVE  \E f \in Seq(S), a \in S : s = Append(f, a)
<1>1. SubSeq(s, 1, Len(s) - 1) \in Seq(S) /\ s[Len(s)] \in S OBVIOUS
<1>2. s = Append(SubSeq(s, 1, Len(s) - 1), s[Len(s)]) OBVIOUS
<1>. QED BY <1>1, <1>2, Zenon

-----------------------------------------------------------------------------
(* Loops over a list *)

\* A set of numbers has a least one.
LEMMA Least ==
  ASSUME NEW T, T \subseteq Nat, T # {}
  PROVE  \E n \in T : \A m \in T : ~(m < n)
<1>. DEFINE R == OpToRel(<, Nat)
<1>1. IsWellFoundedOn(R, Nat) BY NatLessThanWellFounded, Zenon
<1>. HIDE DEF R
<1>2. PICK n \in T : \A y \in T : ~(<<y, n>> \in R) BY <1>1, WFMin, Zenon
<1>3. \A y \in T : ~(y < n)
  <2>. TAKE y \in T
  <2>1. <<y, n>> \in R <=> <<y, n>> \in Nat \X Nat /\ y < n BY DEF R, OpToRel
  <2>2. <<y, n>> \in Nat \X Nat OBVIOUS
  <2>. QED BY <1>2, <2>1, <2>2, Zenon
<1>. QED BY <1>3

\* A set of lists that has the empty one and grows by appending has them all.
LEMMA SeqInduction ==
  ASSUME NEW S, NEW T, <<>> \in T,
         \A s \in Seq(S) : s \in T => \A a \in S : Append(s, a) \in T
  PROVE  \A s \in Seq(S) : s \in T
<1>. SUFFICES ASSUME NEW z \in Seq(S), z \notin T PROVE FALSE
  OBVIOUS
<1>. DEFINE bad == {n \in Nat : \E s \in Seq(S) : Len(s) = n /\ s \notin T}
<1>1. Len(z) \in bad BY ListLength
<1>2. PICK n \in bad : \A m \in bad : ~(m < n)
  <2>1. bad \subseteq Nat /\ bad # {} BY <1>1
  <2>. HIDE DEF bad
  <2>. QED BY <2>1, Least, Zenon
<1>3. PICK s \in Seq(S) : Len(s) = n /\ s \notin T OBVIOUS
<1>4. s # <<>> BY <1>3
<1>5. PICK f \in Seq(S), a \in S : s = Append(f, a) BY <1>4, LastElement
<1>6. Len(f) \in Nat /\ Len(s) = Len(f) + 1 BY <1>5, ListAppend, ListLength
<1>7. Len(f) \notin bad BY <1>2, <1>3, <1>6
<1>8. f \in T BY <1>6, <1>7
<1>. QED BY <1>3, <1>5, <1>8

\* The values x[0], x[1], ... that a loop's variable takes.
Running(step, base, s, x) == x = [i \in 0..Len(s) |-> IF i = 0 THEN base ELSE step[x[i - 1]][s[i]]]

Steps(step, base, s, x) == x[0] = base /\ \A i \in 1..Len(s) : x[i] = step[x[i - 1]][s[i]]

\* One value of a loop's variable follows from the one before.
LEMMA RunningAt ==
  ASSUME NEW step, NEW base, NEW s, NEW x, Running(step, base, s, x), Len(s) \in Nat
  PROVE  Steps(step, base, s, x)
<1>. DEFINE values == [i \in 0..Len(s) |-> IF i = 0 THEN base ELSE step[x[i - 1]][s[i]]]
<1>1. \A i \in 0..Len(s) : values[i] = IF i = 0 THEN base ELSE step[x[i - 1]][s[i]] OBVIOUS
<1>2. x = values BY DEF Running
<1>. HIDE DEF values
<1>3. \A i \in 0..Len(s) : x[i] = IF i = 0 THEN base ELSE step[x[i - 1]][s[i]]
  BY <1>1, <1>2, Zenon
<1>. HIDE <1>2
<1>4. 0 \in 0..Len(s) /\ \A i \in 1..Len(s) : i \in 0..Len(s) /\ i # 0 OBVIOUS
<1>. QED BY <1>3, <1>4, Zenon DEF Steps

\* The values that a loop's variable takes exist, and are of the loop's type.
LEMMA RunningExists ==
  ASSUME NEW S, NEW X, NEW step \in [X -> [S -> X]], NEW base \in X
  PROVE  \A s \in Seq(S) : \E x : Running(step, base, s, x) /\ \A i \in 0..Len(s) : x[i] \in X
<1>. DEFINE T == {s \in Seq(S) : \E x : Running(step, base, s, x) /\ \A i \in 0..Len(s) : x[i] \in X}
<1>1. <<>> \in T
  <2>. DEFINE x == [i \in 0..0 |-> base]
  <2>1. Len(<<>>) = 0 /\ <<>> \in Seq(S) OBVIOUS
  <2>2. Running(step, base, <<>>, x) BY <2>1 DEF Running
  <2>3. \A i \in 0..0 : x[i] \in X OBVIOUS
  <2>. QED BY <2>1, <2>2, <2>3
<1>2. ASSUME NEW s \in Seq(S), s \in T, NEW a \in S PROVE Append(s, a) \in T
  <2>1. PICK x : Running(step, base, s, x) /\ \A i \in 0..Len(s) : x[i] \in X BY <1>2
  <2>. DEFINE n == Len(s)
              t == Append(s, a)
              y == [i \in 0..n + 1 |-> IF i <= n THEN x[i] ELSE step[x[n]][a]]
  <2>2. n \in Nat /\ Len(t) = n + 1 /\ t \in Seq(S) /\ t[n + 1] = a /\ \A i \in 1..n : t[i] = s[i]
    BY ListAppend, ListLength
  <2>3. x[0] = base /\ \A i \in 1..n : x[i] = step[x[i - 1]][s[i]] BY <2>1, <2>2, RunningAt DEF n, Steps
  <2>4. x[n] \in X /\ step[x[n]][a] \in X BY <2>1, <2>2
  <2>. HIDE DEF t, n
  <2>5. \A i \in 0..n + 1 : y[i] \in X BY <2>1, <2>2, <2>4 DEF n
  <2>6. \A i \in 0..n + 1 : y[i] = IF i = 0 THEN base ELSE step[y[i - 1]][t[i]]
    <3>. TAKE i \in 0..n + 1
    <3>1. CASE i = 0 BY <2>2, <2>3, <3>1
    <3>2. CASE i \in 1..n
      <4>1. i <= n /\ i - 1 <= n /\ i \in 0..n + 1 /\ i - 1 \in 0..n + 1 /\ i # 0 BY <2>2, <3>2
      <4>2. y[i] = x[i] /\ y[i - 1] = x[i - 1] BY <4>1, Zenon
      <4>. QED BY <2>2, <2>3, <3>2, <4>1, <4>2, Zenon
    <3>3. CASE i = n + 1
      <4>1. y[i] = step[x[n]][a] /\ y[i - 1] = x[n] BY <2>2, <3>3
      <4>. QED BY <2>2, <3>3, <4>1
    <3>. QED BY <2>2, <3>1, <3>2, <3>3
  <2>7. Running(step, base, t, y) BY <2>2, <2>6, Zenon DEF Running
  <2>. QED BY <2>2, <2>5, <2>7, Zenon DEF t
<1>. HIDE DEF T
<1>3. \A s \in Seq(S) : s \in T BY <1>1, <1>2, SeqInduction
<1>. QED BY <1>3 DEF T

\* There is only one such function.
LEMMA RunningUnique ==
  ASSUME NEW step, NEW base, NEW s, Len(s) \in Nat,
         NEW x, Running(step, base, s, x), NEW y, Running(step, base, s, y)
  PROVE  x = y
<1>1. /\ x[0] = base /\ \A i \in 1..Len(s) : x[i] = step[x[i - 1]][s[i]]
      /\ y[0] = base /\ \A i \in 1..Len(s) : y[i] = step[y[i - 1]][s[i]]
  BY RunningAt DEF Steps
<1>2. \A i \in 0..Len(s) : x[i] = y[i]
  <2>. SUFFICES ASSUME NEW j \in 0..Len(s), x[j] # y[j] PROVE FALSE
    OBVIOUS
  <2>. DEFINE bad == {i \in 0..Len(s) : x[i] # y[i]}
  <2>1. PICK i \in bad : \A m \in bad : ~(m < i)
    <3>1. bad \subseteq Nat /\ bad # {} OBVIOUS
    <3>. HIDE DEF bad
    <3>. QED BY <3>1, Least, Zenon
  <2>2. i \in 1..Len(s) /\ i - 1 \in 0..Len(s) /\ i - 1 < i BY <1>1
  <2>3. x[i - 1] = y[i - 1] BY <2>1, <2>2
  <2>. QED BY <1>1, <2>2, <2>3
<1>. DEFINE vx == [i \in 0..Len(s) |-> IF i = 0 THEN base ELSE step[x[i - 1]][s[i]]]
            vy == [i \in 0..Len(s) |-> IF i = 0 THEN base ELSE step[y[i - 1]][s[i]]]
<1>3. x = vx /\ y = vy BY Zenon DEF Running
<1>4. vx = vy
  <2>1. \A i \in 0..Len(s) : i # 0 => i - 1 \in 0..Len(s) OBVIOUS
  <2>2. \A i \in 0..Len(s) : i # 0 => x[i - 1] = y[i - 1] BY <1>2, <2>1, Zenon
  <2>. QED BY <2>2, Zenon
<1>. QED BY <1>3, <1>4, Zenon

\* A loop over no argument, and over one more.
Loops(step, base, s, S, X) ==
  /\ Fold(step, base, s) \in X
  /\ Fold(step, base, <<>>) = base
  /\ \A a \in S : Fold(step, base, Append(s, a)) = step[Fold(step, base, s)][a]

\* What Fold computes, argument by argument.
LEMMA FoldIs ==
  ASSUME NEW S, NEW X, NEW step \in [X -> [S -> X]], NEW base \in X, NEW s \in Seq(S)
  PROVE  Loops(step, base, s, S, X)
<1>. DEFINE Values(t) == CHOOSE x : Running(step, base, t, x)
<1>1. \A t : Fold(step, base, t) = Values(t)[Len(t)] BY DEF Fold, Running
<1>2. ASSUME NEW t \in Seq(S)
      PROVE  Running(step, base, t, Values(t)) /\ \A i \in 0..Len(t) : Values(t)[i] \in X
  <2>1. PICK x : Running(step, base, t, x) /\ \A i \in 0..Len(t) : x[i] \in X BY RunningExists, Zenon
  <2>2. Running(step, base, t, Values(t)) BY <2>1, Zenon
  <2>. HIDE DEF Values
  <2>3. Len(t) \in Nat BY ListLength
  <2>4. x = Values(t) BY <2>1, <2>2, <2>3, RunningUnique, Zenon
  <2>. QED BY <2>1, <2>2, <2>4, Zenon
<1>. HIDE DEF Values
<1>3. Fold(step, base, s) \in X
  <2>1. Len(s) \in Nat BY ListLength
  <2>2. Len(s) \in 0..Len(s) BY <2>1
  <2>3. Values(s)[Len(s)] \in X BY <1>2, <2>2, Zenon
  <2>. QED BY <1>1, <2>3, Zenon
<1>4. Fold(step, base, <<>>) = base
  <2>1. <<>> \in Seq(S) /\ Len(<<>>) = 0 /\ Len(<<>>) \in Nat OBVIOUS
  <2>2. Running(step, base, <<>>, Values(<<>>)) BY <1>2, <2>1, Zenon
  <2>. DEFINE none == <<>>
              x == Values(none)
  <2>3. Running(step, base, none, x) /\ Len(none) \in Nat BY <2>1, <2>2, Zenon
  <2>. HIDE DEF none, x
  <2>4. Steps(step, base, none, x) BY <2>3, RunningAt, Zenon
  <2>5. x[0] = base BY <2>4 DEF Steps
  <2>. QED BY <1>1, <2>1, <2>5, Zenon DEF none, x
<1>5. ASSUME NEW a \in S PROVE Fold(step, base, Append(s, a)) = step[Fold(step, base, s)][a]
  <2>. DEFINE n == Len(s)
              t == Append(s, a)
              x == Values(t)
              y == [i \in 0..n |-> x[i]]
  <2>1. n \in Nat BY ListLength
  <2>2. Len(t) = n + 1 /\ t \in Seq(S) /\ t[n + 1] = a /\ \A i \in 1..n : t[i] = s[i]
    BY ListAppend, ListLength
  <2>3. Running(step, base, t, x) BY <1>2, <2>2, Zenon
  <2>. HIDE DEF n, t, x
  <2>4. Len(t) \in Nat BY <2>1, <2>2
  <2>5. x[0] = base /\ \A i \in 1..Len(t) : x[i] = step[x[i - 1]][t[i]]
    <3>1. Steps(step, base, t, x) BY <2>3, <2>4, RunningAt, Zenon
    <3>. QED BY <3>1, Zenon DEF Steps
  <2>6. \A i \in 1..n : i \in 1..Len(t) /\ i \in 0..n /\ i - 1 \in 0..n /\ i # 0 BY <2>1, <2>2
  <2>7. \A i \in 1..n : x[i] = step[x[i - 1]][s[i]]
    <3>. TAKE i \in 1..n
    <3>1. x[i] = step[x[i - 1]][t[i]] BY <2>5, <2>6, Zenon
    <3>2. t[i] = s[i] BY <2>2, Zenon
    <3>. QED BY <3>1, <3>2, Zenon
  <2>8. Running(step, base, s, y)
    <3>1. \A i \in 0..n : i = 0 \/ i \in 1..n BY <2>1
    <3>2. \A i \in 0..n : y[i] = IF i = 0 THEN base ELSE step[y[i - 1]][s[i]]
      <4>. TAKE i \in 0..n
      <4>1. CASE i = 0 BY <2>5, <4>1, Zenon
      <4>2. CASE i \in 1..n
        <5>1. y[i] = x[i] /\ y[i - 1] = x[i - 1] /\ i # 0 BY <2>6, <4>2, Zenon
        <5>. QED BY <2>7, <4>2, <5>1, Zenon
      <4>. QED BY <3>1, <4>1, <4>2, Zenon
    <3>. QED BY <3>2, Zenon DEF Running, n
  <2>9. y = Values(s)
    <3>1. Len(s) \in Nat BY <2>1 DEF n
    <3>2. Running(step, base, s, Values(s)) BY <1>2, Zenon
    <3>. HIDE DEF y
    <3>. QED BY <2>8, <3>1, <3>2, RunningUnique, Zenon
  <2>10. Fold(step, base, s) = x[n]
    <3>1. n \in 0..n BY <2>1
    <3>2. y[n] = x[n] BY <3>1, Zenon
    <3>. HIDE DEF y
    <3>. QED BY <1>1, <2>9, <3>2, Zenon DEF n
  <2>11. Fold(step, base, t) = x[n + 1] BY <1>1, <2>2, Zenon DEF x
  <2>12. x[n + 1] = step[x[n]][a]
    <3>1. n + 1 \in 1..Len(t) /\ (n + 1) - 1 = n BY <2>1, <2>2
    <3>2. x[n + 1] = step[x[(n + 1) - 1]][t[n + 1]] BY <2>5, <3>1, Zenon
    <3>. QED BY <2>2, <3>1, <3>2, Zenon
  <2>. QED BY <2>10, <2>11, <2>12, Zenon DEF t
<1>. QED BY <1>3, <1>4, <1>5 DEF Loops


-----------------------------------------------------------------------------
(* Lists of arguments *)

\* The empty list, and one argument more.
LEMMA ArgumentsIs ==
  /\ <<>> \in Arguments
  /\ \A s \in Arguments : Len(s) \in Nat /\ \A a \in Args : Append(s, a) \in Arguments
  /\ \A s, t \in Arguments : s \o t \in Arguments
  /\ \A a \in Args : <<a>> \in Arguments
BY DEF Arguments

\* Induction over the lists of arguments.
LEMMA Induction ==
  ASSUME NEW T, <<>> \in T, \A s \in Arguments : s \in T => \A a \in Args : Append(s, a) \in T
  PROVE  \A s \in Arguments : s \in T
BY SeqInduction, Zenon DEF Arguments

FilterSteps(s, S) ==
  /\ Filter(s, S) \in Arguments
  /\ Filter(<<>>, S) = <<>>
  /\ \A a \in Args : Filter(Append(s, a), S) = IF a \in S THEN Append(Filter(s, S), a) ELSE Filter(s, S)

\* Filter, argument by argument.
LEMMA FilterIs == ASSUME NEW s \in Arguments, NEW S PROVE FilterSteps(s, S)
<1>. DEFINE step == [kept \in Arguments |-> [a \in Args |-> IF a \in S THEN Append(kept, a) ELSE kept]]
<1>1. step \in [Arguments -> [Args -> Arguments]] BY ArgumentsIs
<1>2. \A kept \in Arguments, a \in Args : step[kept][a] = IF a \in S THEN Append(kept, a) ELSE kept OBVIOUS
<1>3. \A x : Filter(x, S) = Fold(step, <<>>, x) BY DEF Filter
<1>. HIDE DEF step
<1>4. Loops(step, <<>>, s, Args, Arguments) BY <1>1, FoldIs, ArgumentsIs, Zenon DEF Arguments
<1>. QED BY <1>2, <1>3, <1>4, Zenon DEF Loops, FilterSteps

KeepFirstSteps(s) ==
  /\ KeepFirst(s) \in Arguments
  /\ KeepFirst(<<>>) = <<>>
  /\ \A a \in Args : KeepFirst(Append(s, a)) =
        IF a \in Overriding /\ a \in Elements(KeepFirst(s)) THEN KeepFirst(s) ELSE Append(KeepFirst(s), a)

\* KeepFirst, argument by argument.
LEMMA KeepFirstIs == ASSUME NEW s \in Arguments PROVE KeepFirstSteps(s)
<1>. DEFINE step == [kept \in Arguments |-> [a \in Args |->
                       IF a \in Overriding /\ a \in Elements(kept) THEN kept ELSE Append(kept, a)]]
<1>1. step \in [Arguments -> [Args -> Arguments]] BY ArgumentsIs
<1>2. \A kept \in Arguments, a \in Args :
        step[kept][a] = IF a \in Overriding /\ a \in Elements(kept) THEN kept ELSE Append(kept, a)
  OBVIOUS
<1>3. \A x : KeepFirst(x) = Fold(step, <<>>, x) BY DEF KeepFirst
<1>. HIDE DEF step
<1>4. Loops(step, <<>>, s, Args, Arguments) BY <1>1, FoldIs, ArgumentsIs, Zenon DEF Arguments
<1>. QED BY <1>2, <1>3, <1>4, Zenon DEF Loops, KeepFirstSteps

NewSteps(old, s) ==
  /\ New(old, s) \in Arguments
  /\ New(old, <<>>) = <<>>
  /\ \A a \in Args : New(old, Append(s, a)) =
        IF a \in Unique /\ a \in Elements(old) \union (Elements(New(old, s)) \ Prepended) THEN New(old, s)
        ELSE Append(New(old, s), a)

\* New, argument by argument.
LEMMA NewIs == ASSUME NEW old, NEW s \in Arguments PROVE NewSteps(old, s)
<1>. DEFINE step == [new \in Arguments |-> [a \in Args |->
                       IF a \in Unique /\ a \in Elements(old) \union (Elements(new) \ Prepended) THEN new
                       ELSE Append(new, a)]]
<1>1. step \in [Arguments -> [Args -> Arguments]] BY ArgumentsIs
<1>2. \A new \in Arguments, a \in Args :
        step[new][a] = IF a \in Unique /\ a \in Elements(old) \union (Elements(new) \ Prepended) THEN new ELSE Append(new, a)
  OBVIOUS
<1>3. \A x : New(old, x) = Fold(step, <<>>, x) BY DEF New
<1>. HIDE DEF step
<1>4. Loops(step, <<>>, s, Args, Arguments) BY <1>1, FoldIs, ArgumentsIs, Zenon DEF Arguments
<1>5. New(old, s) \in Arguments /\ New(old, <<>>) = <<>> BY <1>3, <1>4, Zenon DEF Loops
<1>6. \A a \in Args : New(old, Append(s, a)) = step[New(old, s)][a] BY <1>3, <1>4, Zenon DEF Loops
<1>7. \A a \in Args : New(old, Append(s, a)) =
        IF a \in Unique /\ a \in Elements(old) \union (Elements(New(old, s)) \ Prepended) THEN New(old, s)
        ELSE Append(New(old, s), a)
  BY <1>2, <1>5, <1>6, Zenon
<1>. QED BY <1>5, <1>7, Zenon DEF NewSteps


\* The elements of a list, as it grows.
LEMMA ElementsIs ==
  /\ Elements(<<>>) = {}
  /\ \A s \in Arguments : Elements(s) \subseteq Args
  /\ \A s \in Arguments, a \in Args : Elements(Append(s, a)) = Elements(s) \union {a}
  /\ \A s, t \in Arguments : Elements(s \o t) = Elements(s) \union Elements(t)
<1>1. Elements(<<>>) = {} BY DEF Elements
<1>2. \A s \in Arguments : Elements(s) \subseteq Args BY DEF Elements, Arguments
<1>3. ASSUME NEW s \in Arguments, NEW a \in Args PROVE Elements(Append(s, a)) = Elements(s) \union {a}
  <2>1. /\ Len(s) \in Nat /\ Len(Append(s, a)) = Len(s) + 1 /\ Append(s, a)[Len(s) + 1] = a
        /\ \A i \in 1..Len(s) : Append(s, a)[i] = s[i]
    BY ListAppend, ListLength DEF Arguments
  <2>. DEFINE t == Append(s, a)
  <2>. HIDE DEF t
  <2>2. \A i \in 1..Len(s) + 1 : i \in 1..Len(s) \/ i = Len(s) + 1 BY <2>1
  <2>3. \A i \in 1..Len(s) : i \in 1..Len(s) + 1 BY <2>1
  <2>4. Len(s) + 1 \in 1..Len(s) + 1 BY <2>1
  <2>5. Elements(t) = {t[i] : i \in 1..Len(s) + 1} BY <2>1 DEF Elements, t
  <2>6. Elements(s) = {s[i] : i \in 1..Len(s)} BY DEF Elements
  <2>7. t[Len(s) + 1] = a /\ \A i \in 1..Len(s) : t[i] = s[i] BY <2>1 DEF t
  <2>. QED BY <2>2, <2>3, <2>4, <2>5, <2>6, <2>7, Zenon DEF t
<1>4. ASSUME NEW s \in Arguments, NEW t \in Arguments PROVE Elements(s \o t) = Elements(s) \union Elements(t)
  <2>. DEFINE u == s \o t
  <2>1. /\ Len(s) \in Nat /\ Len(t) \in Nat /\ Len(u) = Len(s) + Len(t)
        /\ \A i \in 1..Len(s) + Len(t) : u[i] = IF i <= Len(s) THEN s[i] ELSE t[i - Len(s)]
    BY ListConcat, ListLength DEF Arguments
  <2>. HIDE DEF u
  <2>2. \A i \in 1..Len(s) : i \in 1..Len(u) /\ u[i] = s[i] BY <2>1
  <2>3. \A i \in 1..Len(t) : i + Len(s) \in 1..Len(u) /\ u[i + Len(s)] = t[i] BY <2>1
  <2>4. \A i \in 1..Len(u) : i \in 1..Len(s) \/ (i - Len(s) \in 1..Len(t) /\ u[i] = t[i - Len(s)]) BY <2>1
  <2>5. \A e : e \in Elements(u) <=> \E i \in 1..Len(u) : e = u[i] BY Zenon DEF Elements
  <2>6. \A e : e \in Elements(s) <=> \E i \in 1..Len(s) : e = s[i] BY Zenon DEF Elements
  <2>7. \A e : e \in Elements(t) <=> \E i \in 1..Len(t) : e = t[i] BY Zenon DEF Elements
  <2>8. ASSUME NEW e \in Elements(u) PROVE e \in Elements(s) \union Elements(t)
    <3>1. PICK i \in 1..Len(u) : e = u[i] BY <2>5, Zenon
    <3>. QED BY <2>2, <2>4, <2>6, <2>7, <3>1
  <2>9. ASSUME NEW e \in Elements(s) PROVE e \in Elements(u) BY <2>2, <2>5, <2>6, Zenon
  <2>10. ASSUME NEW e \in Elements(t) PROVE e \in Elements(u) BY <2>3, <2>5, <2>7, Zenon
  <2>. QED BY <2>8, <2>9, <2>10 DEF u
<1>. QED BY <1>1, <1>2, <1>3, <1>4

\* Appending is concatenating, and concatenating is associative.
LEMMA Concat ==
  /\ \A s, t \in Arguments, a \in Args : s \o Append(t, a) = Append(s \o t, a)
  /\ \A s \in Arguments : s \o <<>> = s /\ <<>> \o s = s
  /\ \A s, t, u \in Arguments : (s \o t) \o u = s \o (t \o u)
  /\ \A s \in Arguments, a \in Args : Append(s, a) = s \o <<a>>
  /\ \A s, t \in Arguments : Len(s \o t) = Len(s) + Len(t)
<1>1. \A s \in Arguments, a \in Args : Append(s, a) = s \o <<a>> BY DEF Arguments
<1>2. \A s \in Arguments : s \o <<>> = s /\ <<>> \o s = s BY DEF Arguments
<1>3. \A s, t, u \in Arguments : (s \o t) \o u = s \o (t \o u) BY DEF Arguments
<1>4. \A s, t \in Arguments, a \in Args : s \o Append(t, a) = Append(s \o t, a)
  <2>. TAKE s, t \in Arguments, a \in Args
  <2>1. <<a>> \in Arguments /\ s \o t \in Arguments BY ArgumentsIs
  <2>. QED BY <1>1, <1>3, <2>1
<1>5. \A s, t \in Arguments : Len(s \o t) = Len(s) + Len(t) BY ListConcat DEF Arguments
<1>. QED BY <1>1, <1>2, <1>3, <1>4, <1>5, Zenon


-----------------------------------------------------------------------------
(* Filter *)

\* What a filter keeps.
LEMMA FilterElements ==
  ASSUME NEW S
  PROVE  \A s \in Arguments : Elements(Filter(s, S)) = Elements(s) \cap S /\ Len(Filter(s, S)) <= Len(s)
<1>. DEFINE T == {s \in Arguments : Elements(Filter(s, S)) = Elements(s) \cap S /\ Len(Filter(s, S)) <= Len(s)}
<1>1. <<>> \in T
  <2>1. Filter(<<>>, S) = <<>> BY FilterIs, ArgumentsIs DEF FilterSteps
  <2>. QED BY <2>1, ElementsIs, ArgumentsIs
<1>2. ASSUME NEW s \in Arguments, s \in T, NEW a \in Args PROVE Append(s, a) \in T
  <2>1. FilterSteps(s, S) BY FilterIs
  <2>. DEFINE f == Filter(s, S)
              g == Filter(Append(s, a), S)
  <2>2. f \in Arguments /\ g = IF a \in S THEN Append(f, a) ELSE f BY <2>1 DEF FilterSteps
  <2>3. Elements(f) = Elements(s) \cap S /\ Len(f) <= Len(s) BY <1>2
  <2>. HIDE DEF f, g
  <2>4. Elements(Append(s, a)) = Elements(s) \union {a} /\ Elements(Append(f, a)) = Elements(f) \union {a}
    BY <2>2, ElementsIs
  <2>5. Elements(g) = Elements(Append(s, a)) \cap S BY <2>2, <2>3, <2>4
  <2>6. Len(g) <= Len(Append(s, a))
    <3>1. Len(Append(s, a)) = Len(s) + 1 /\ Len(Append(f, a)) = Len(f) + 1 /\ Len(s) \in Nat /\ Len(f) \in Nat
      BY <2>2, ListAppend, ListLength DEF Arguments
    <3>. QED BY <2>2, <2>3, <3>1
  <2>7. Append(s, a) \in Arguments BY ArgumentsIs
  <2>. QED BY <2>5, <2>6, <2>7 DEF g
<1>. HIDE DEF T
<1>3. \A s \in Arguments : s \in T BY <1>1, <1>2, Induction
<1>. QED BY <1>3 DEF T

\* A filter works on the parts of a list.
LEMMA FilterConcat ==
  ASSUME NEW S, NEW x \in Arguments
  PROVE  \A y \in Arguments : Filter(x \o y, S) = Filter(x, S) \o Filter(y, S)
<1>. DEFINE T == {y \in Arguments : Filter(x \o y, S) = Filter(x, S) \o Filter(y, S)}
<1>0. Filter(x, S) \in Arguments BY FilterIs DEF FilterSteps
<1>1. <<>> \in T
  <2>1. Filter(<<>>, S) = <<>> BY FilterIs, ArgumentsIs DEF FilterSteps
  <2>2. x \o <<>> = x /\ Filter(x, S) \o <<>> = Filter(x, S) BY <1>0, Concat
  <2>. QED BY <2>1, <2>2, ArgumentsIs, Zenon
<1>2. ASSUME NEW y \in Arguments, y \in T, NEW a \in Args PROVE Append(y, a) \in T
  <2>1. x \o y \in Arguments /\ Append(y, a) \in Arguments BY ArgumentsIs
  <2>2. FilterSteps(y, S) /\ FilterSteps(x \o y, S) BY <2>1, FilterIs
  <2>3. x \o Append(y, a) = Append(x \o y, a) BY Concat
  <2>. DEFINE f == Filter(x, S)
              g == Filter(y, S)
              h == Filter(x \o y, S)
              k == Filter(Append(x \o y, a), S)
              l == Filter(Append(y, a), S)
  <2>4. h = f \o g BY <1>2
  <2>5. g \in Arguments /\ (l = IF a \in S THEN Append(g, a) ELSE g) /\ (k = IF a \in S THEN Append(h, a) ELSE h)
    BY <2>2 DEF FilterSteps
  <2>6. f \in Arguments BY <1>0
  <2>. HIDE DEF f, g, h, k, l
  <2>7. f \o Append(g, a) = Append(f \o g, a) BY <2>5, <2>6, Concat, Zenon
  <2>8. k = f \o l BY <2>4, <2>5, <2>7, Zenon
  <2>. QED BY <2>1, <2>3, <2>8, Zenon DEF f, k, l
<1>. HIDE DEF T
<1>3. \A s \in Arguments : s \in T BY <1>1, <1>2, Induction
<1>. QED BY <1>3 DEF T

\* Only what a list has in a set matters for a filter.
LEMMA FilterSame ==
  ASSUME NEW S, NEW R
  PROVE  \A s \in Arguments : Elements(s) \cap S = Elements(s) \cap R => Filter(s, S) = Filter(s, R)
<1>. DEFINE T == {s \in Arguments : Elements(s) \cap S = Elements(s) \cap R => Filter(s, S) = Filter(s, R)}
<1>1. <<>> \in T
  <2>1. Filter(<<>>, S) = <<>> /\ Filter(<<>>, R) = <<>> BY FilterIs, ArgumentsIs DEF FilterSteps
  <2>. QED BY <2>1, ArgumentsIs
<1>2. ASSUME NEW s \in Arguments, s \in T, NEW a \in Args PROVE Append(s, a) \in T
  <2>1. FilterSteps(s, S) /\ FilterSteps(s, R) BY FilterIs
  <2>2. Elements(Append(s, a)) = Elements(s) \union {a} /\ Append(s, a) \in Arguments BY ElementsIs, ArgumentsIs
  <2>3. SUFFICES ASSUME Elements(Append(s, a)) \cap S = Elements(Append(s, a)) \cap R
                 PROVE  Filter(Append(s, a), S) = Filter(Append(s, a), R)
    BY <2>2
  <2>4. Elements(s) \cap S = Elements(s) \cap R BY <2>2, <2>3
  <2>5. a \in S <=> a \in R BY <2>2, <2>3
  <2>6. Filter(s, S) = Filter(s, R) BY <1>2, <2>4
  <2>. QED BY <2>1, <2>5, <2>6 DEF FilterSteps
<1>. HIDE DEF T
<1>3. \A s \in Arguments : s \in T BY <1>1, <1>2, Induction
<1>. QED BY <1>3 DEF T

\* A filter that keeps everything.
LEMMA FilterAll ==
  ASSUME NEW S
  PROVE  \A s \in Arguments : Elements(s) \subseteq S => Filter(s, S) = s
<1>. DEFINE T == {s \in Arguments : Elements(s) \subseteq S => Filter(s, S) = s}
<1>1. <<>> \in T BY FilterIs, ArgumentsIs DEF FilterSteps
<1>2. ASSUME NEW s \in Arguments, s \in T, NEW a \in Args PROVE Append(s, a) \in T
  <2>1. FilterSteps(s, S) BY FilterIs
  <2>2. Elements(Append(s, a)) = Elements(s) \union {a} /\ Append(s, a) \in Arguments BY ElementsIs, ArgumentsIs
  <2>. QED BY <1>2, <2>1, <2>2 DEF FilterSteps
<1>. HIDE DEF T
<1>3. \A s \in Arguments : s \in T BY <1>1, <1>2, Induction
<1>. QED BY <1>3 DEF T

\* Two filters are one.
LEMMA FilterTwice ==
  ASSUME NEW S, NEW R
  PROVE  \A s \in Arguments : Filter(Filter(s, S), R) = Filter(s, S \cap R)
<1>. DEFINE T == {s \in Arguments : Filter(Filter(s, S), R) = Filter(s, S \cap R)}
<1>1. <<>> \in T
  <2>1. \A Q : Filter(<<>>, Q) = <<>> BY FilterIs, ArgumentsIs DEF FilterSteps
  <2>. QED BY <2>1, ArgumentsIs
<1>2. ASSUME NEW s \in Arguments, s \in T, NEW a \in Args PROVE Append(s, a) \in T
  <2>. DEFINE f == Filter(s, S)
              g == Filter(s, S \cap R)
              h == Filter(f, R)
              k == Filter(Append(s, a), S)
              l == Filter(Append(s, a), S \cap R)
  <2>1. FilterSteps(s, S) /\ FilterSteps(s, S \cap R) BY FilterIs
  <2>2. f \in Arguments /\ (k = IF a \in S THEN Append(f, a) ELSE f) BY <2>1 DEF FilterSteps
  <2>3. l = IF a \in S \cap R THEN Append(g, a) ELSE g BY <2>1, Zenon DEF FilterSteps
  <2>4. FilterSteps(f, R) BY <2>2, FilterIs
  <2>5. Filter(Append(f, a), R) = IF a \in R THEN Append(h, a) ELSE h BY <2>4 DEF FilterSteps
  <2>6. h = g BY <1>2
  <2>. HIDE DEF f, g, h, k, l
  <2>7. h = Filter(f, R) BY DEF h
  <2>8. Filter(k, R) = l BY <2>2, <2>3, <2>5, <2>6, <2>7, Zenon
  <2>9. Append(s, a) \in Arguments BY ArgumentsIs
  <2>. QED BY <2>8, <2>9 DEF k, l
<1>. HIDE DEF T
<1>3. \A s \in Arguments : s \in T BY <1>1, <1>2, Induction
<1>. QED BY <1>3 DEF T


-----------------------------------------------------------------------------
(* KeepFirst, Reverse and KeepLast *)

\* KeepFirst loses no argument, only copies.
LEMMA KeepFirstElements ==
  \A s \in Arguments : Elements(KeepFirst(s)) = Elements(s) /\ Len(KeepFirst(s)) <= Len(s)
<1>. DEFINE T == {s \in Arguments : Elements(KeepFirst(s)) = Elements(s) /\ Len(KeepFirst(s)) <= Len(s)}
<1>1. <<>> \in T
  <2>1. KeepFirst(<<>>) = <<>> BY KeepFirstIs, ArgumentsIs DEF KeepFirstSteps
  <2>. QED BY <2>1, ArgumentsIs
<1>2. ASSUME NEW s \in Arguments, s \in T, NEW a \in Args PROVE Append(s, a) \in T
  <2>1. KeepFirstSteps(s) BY KeepFirstIs
  <2>. DEFINE f == KeepFirst(s)
              g == KeepFirst(Append(s, a))
  <2>2. f \in Arguments /\ g = IF a \in Overriding /\ a \in Elements(f) THEN f ELSE Append(f, a)
    BY <2>1 DEF KeepFirstSteps
  <2>3. Elements(f) = Elements(s) /\ Len(f) <= Len(s) BY <1>2
  <2>. HIDE DEF f, g
  <2>4. Elements(Append(s, a)) = Elements(s) \union {a} /\ Elements(Append(f, a)) = Elements(f) \union {a}
    BY <2>2, ElementsIs
  <2>5. Elements(g) = Elements(Append(s, a)) BY <2>2, <2>3, <2>4
  <2>6. Len(g) <= Len(Append(s, a))
    <3>1. Len(Append(s, a)) = Len(s) + 1 /\ Len(Append(f, a)) = Len(f) + 1 /\ Len(s) \in Nat /\ Len(f) \in Nat
      BY <2>2, ListAppend, ListLength DEF Arguments
    <3>. QED BY <2>2, <2>3, <3>1
  <2>7. Append(s, a) \in Arguments BY ArgumentsIs
  <2>. QED BY <2>5, <2>6, <2>7 DEF g
<1>. HIDE DEF T
<1>3. \A s \in Arguments : s \in T BY <1>1, <1>2, Induction
<1>. QED BY <1>3 DEF T

\* In a list of two parts the first one's overriding arguments win.
LEMMA KeepFirstConcat ==
  ASSUME NEW x \in Arguments
  PROVE  \A y \in Arguments :
            KeepFirst(x \o y) = KeepFirst(x) \o Filter(KeepFirst(y), Args \ (Overriding \cap Elements(x)))
<1>. DEFINE S == Args \ (Overriding \cap Elements(x))
            T == {y \in Arguments : KeepFirst(x \o y) = KeepFirst(x) \o Filter(KeepFirst(y), S)}
<1>0. KeepFirst(x) \in Arguments BY KeepFirstIs DEF KeepFirstSteps
<1>1. <<>> \in T
  <2>1. KeepFirst(<<>>) = <<>> BY KeepFirstIs, ArgumentsIs DEF KeepFirstSteps
  <2>2. Filter(<<>>, S) = <<>> BY FilterIs, ArgumentsIs DEF FilterSteps
  <2>3. x \o <<>> = x /\ KeepFirst(x) \o <<>> = KeepFirst(x) BY <1>0, Concat
  <2>. QED BY <2>1, <2>2, <2>3, ArgumentsIs, Zenon
<1>2. ASSUME NEW y \in Arguments, y \in T, NEW a \in Args PROVE Append(y, a) \in T
  <2>1. x \o y \in Arguments /\ Append(y, a) \in Arguments BY ArgumentsIs
  <2>2. x \o Append(y, a) = Append(x \o y, a) BY Concat
  <2>. DEFINE f == KeepFirst(x)
              g == KeepFirst(y)
              h == KeepFirst(x \o y)
              k == KeepFirst(Append(x \o y, a))
              l == KeepFirst(Append(y, a))
  <2>3. KeepFirstSteps(y) /\ KeepFirstSteps(x \o y) BY <2>1, KeepFirstIs
  <2>4. Elements(g) = Elements(y) /\ Elements(h) = Elements(x) \union Elements(y)
    BY <2>1, KeepFirstElements, ElementsIs
  <2>5. g \in Arguments /\ (l = IF a \in Overriding /\ a \in Elements(g) THEN g ELSE Append(g, a))
    BY <2>3 DEF KeepFirstSteps
  <2>6. k = IF a \in Overriding /\ a \in Elements(h) THEN h ELSE Append(h, a)
    BY <2>3 DEF KeepFirstSteps
  <2>7. FilterSteps(g, S) BY <2>5, FilterIs
  <2>8. Filter(g, S) \in Arguments /\ Filter(Append(g, a), S) = IF a \in S THEN Append(Filter(g, S), a) ELSE Filter(g, S)
    BY <2>7, Zenon DEF FilterSteps
  <2>9. h = f \o Filter(g, S) BY <1>2, Zenon
  <2>10. a \in S <=> ~(a \in Overriding /\ a \in Elements(x)) OBVIOUS
  <2>11. f \in Arguments BY <1>0
  <2>. HIDE DEF f, g, h, k, l, S
  <2>12. f \o Append(Filter(g, S), a) = Append(f \o Filter(g, S), a) BY <2>8, <2>11, Concat
  <2>13. k = f \o Filter(l, S)
    <3>1. CASE a \in Overriding /\ a \in Elements(y) BY <2>4, <2>5, <2>6, <2>9, <3>1
    <3>2. CASE a \in Overriding /\ a \notin Elements(y) /\ a \in Elements(x)
      BY <2>4, <2>5, <2>6, <2>8, <2>9, <2>10, <3>2
    <3>3. CASE a \notin Overriding \/ (a \notin Elements(y) /\ a \notin Elements(x))
      BY <2>4, <2>5, <2>6, <2>8, <2>9, <2>10, <2>12, <3>3, Zenon
    <3>. QED BY <3>1, <3>2, <3>3
  <2>. QED BY <2>1, <2>2, <2>13, Zenon DEF f, k, l
<1>. HIDE DEF T
<1>3. \A s \in Arguments : s \in T BY <1>1, <1>2, Induction
<1>. QED BY <1>3, Zenon DEF T

\* A list without overriding arguments stays as it is.
LEMMA KeepFirstAll ==
  \A s \in Arguments : Elements(s) \cap Overriding = {} => KeepFirst(s) = s
<1>. DEFINE T == {s \in Arguments : Elements(s) \cap Overriding = {} => KeepFirst(s) = s}
<1>1. <<>> \in T BY KeepFirstIs, ArgumentsIs DEF KeepFirstSteps
<1>2. ASSUME NEW s \in Arguments, s \in T, NEW a \in Args PROVE Append(s, a) \in T
  <2>1. KeepFirstSteps(s) BY KeepFirstIs
  <2>2. Elements(Append(s, a)) = Elements(s) \union {a} /\ Append(s, a) \in Arguments BY ElementsIs, ArgumentsIs
  <2>. QED BY <1>2, <2>1, <2>2 DEF KeepFirstSteps
<1>. HIDE DEF T
<1>3. \A s \in Arguments : s \in T BY <1>1, <1>2, Induction
<1>. QED BY <1>3 DEF T

\* A list backwards.
LEMMA ReverseIs ==
  ASSUME NEW s \in Arguments
  PROVE  /\ Reverse(s) \in Arguments /\ Len(Reverse(s)) = Len(s)
         /\ \A i \in 1..Len(s) : Reverse(s)[i] = s[Len(s) + 1 - i]
<1>1. Len(s) \in Nat /\ s \in [1..Len(s) -> Args] BY ListLength DEF Arguments
<1>2. \A i \in 1..Len(s) : Len(s) + 1 - i \in 1..Len(s) BY <1>1
<1>3. \A i \in 1..Len(s) : s[Len(s) + 1 - i] \in Args BY <1>1, <1>2
<1>4. Reverse(s) \in [1..Len(s) -> Args] BY <1>3 DEF Reverse
<1>5. Reverse(s) \in Seq(Args) BY <1>1, <1>4
<1>6. Len(Reverse(s)) = Len(s) BY <1>1, <1>4, <1>5, ListLength
<1>. QED BY <1>5, <1>6 DEF Reverse, Arguments

\* The parts of a list change places when it is read backwards.
LEMMA ReverseConcat ==
  ASSUME NEW x \in Arguments, NEW y \in Arguments
  PROVE  Reverse(x \o y) = Reverse(y) \o Reverse(x)
<1>. DEFINE u == x \o y
            p == Reverse(x)
            q == Reverse(y)
            r == Reverse(u)
<1>1. /\ u \in Arguments /\ Len(u) = Len(x) + Len(y) /\ Len(x) \in Nat /\ Len(y) \in Nat
      /\ \A i \in 1..Len(x) + Len(y) : u[i] = IF i <= Len(x) THEN x[i] ELSE y[i - Len(x)]
  BY ListConcat, ListLength DEF Arguments
<1>2. /\ p \in Arguments /\ Len(p) = Len(x) /\ \A i \in 1..Len(x) : p[i] = x[Len(x) + 1 - i]
      /\ q \in Arguments /\ Len(q) = Len(y) /\ \A i \in 1..Len(y) : q[i] = y[Len(y) + 1 - i]
      /\ r \in Arguments /\ Len(r) = Len(u) /\ \A i \in 1..Len(u) : r[i] = u[Len(u) + 1 - i]
  BY <1>1, ReverseIs, Zenon
<1>. HIDE DEF u, p, q, r
<1>3. /\ q \o p \in Arguments /\ Len(q \o p) = Len(q) + Len(p)
      /\ \A i \in 1..Len(q) + Len(p) : (q \o p)[i] = IF i <= Len(q) THEN q[i] ELSE p[i - Len(q)]
  <2>1. p \in Seq(Args) /\ q \in Seq(Args) BY <1>2 DEF Arguments
  <2>. QED BY <2>1, ListConcat DEF Arguments
<1>4. ASSUME NEW i \in 1..Len(r) PROVE r[i] = (q \o p)[i]
  <2>1. r[i] = u[Len(u) + 1 - i] BY <1>2
  <2>2. CASE i <= Len(y)
    <3>1. Len(u) + 1 - i \in 1..Len(x) + Len(y) /\ ~(Len(u) + 1 - i <= Len(x)) BY <1>1, <1>2, <2>2
    <3>2. u[Len(u) + 1 - i] = y[(Len(u) + 1 - i) - Len(x)] BY <1>1, <3>1
    <3>3. (Len(u) + 1 - i) - Len(x) = Len(y) + 1 - i BY <1>1, <1>2, <2>2
    <3>4. (q \o p)[i] = y[Len(y) + 1 - i] BY <1>1, <1>2, <1>3, <2>2
    <3>. QED BY <2>1, <3>2, <3>3, <3>4
  <2>3. CASE ~(i <= Len(y))
    <3>1. Len(u) + 1 - i \in 1..Len(x) + Len(y) /\ Len(u) + 1 - i <= Len(x) BY <1>1, <1>2, <2>3
    <3>2. u[Len(u) + 1 - i] = x[Len(u) + 1 - i] BY <1>1, <3>1
    <3>3. (q \o p)[i] = p[i - Len(y)] /\ i - Len(y) \in 1..Len(x) BY <1>1, <1>2, <1>3, <2>3
    <3>4. p[i - Len(y)] = x[Len(x) + 1 - (i - Len(y))] BY <1>2, <3>3, Zenon
    <3>5. Len(x) + 1 - (i - Len(y)) = Len(u) + 1 - i BY <1>1, <1>2, <2>3
    <3>. QED BY <2>1, <3>2, <3>3, <3>4, <3>5
  <2>. QED BY <2>2, <2>3, Zenon
<1>5. Len(r) = Len(q \o p) BY <1>1, <1>2, <1>3
<1>6. r = q \o p BY <1>2, <1>3, <1>4, <1>5, ListsEqual, Zenon DEF Arguments
<1>. QED BY <1>6 DEF p, q, r, u


\* Backwards twice is forwards, and backwards has the same arguments.
LEMMA ReverseProperties ==
  ASSUME NEW s \in Arguments
  PROVE  /\ Reverse(Reverse(s)) = s
         /\ Elements(Reverse(s)) = Elements(s)
         /\ Reverse(<<>>) = <<>>
         /\ \A a \in Args : Reverse(<<a>>) = <<a>> /\ Reverse(Append(s, a)) = <<a>> \o Reverse(s)
<1>. DEFINE r == Reverse(s)
            t == Reverse(r)
<1>1. /\ r \in Arguments /\ Len(r) = Len(s) /\ Len(s) \in Nat /\ s \in Seq(Args)
      /\ \A i \in 1..Len(s) : r[i] = s[Len(s) + 1 - i]
  BY ReverseIs, ArgumentsIs DEF Arguments
<1>2. t \in Arguments /\ Len(t) = Len(r) /\ \A i \in 1..Len(r) : t[i] = r[Len(r) + 1 - i]
  BY <1>1, ReverseIs
<1>. HIDE DEF r, t
<1>3. \A i \in 1..Len(s) : Len(s) + 1 - i \in 1..Len(s) /\ Len(s) + 1 - (Len(s) + 1 - i) = i BY <1>1
<1>4. t = s
  <2>1. \A i \in 1..Len(t) : t[i] = s[i]
    <3>. TAKE i \in 1..Len(t)
    <3>1. i \in 1..Len(s) /\ t[i] = r[Len(s) + 1 - i] BY <1>1, <1>2
    <3>2. r[Len(s) + 1 - i] = s[Len(s) + 1 - (Len(s) + 1 - i)] BY <1>1, <1>3, <3>1, Zenon
    <3>. QED BY <1>3, <3>1, <3>2
  <2>2. t \in Seq(Args) /\ Len(t) = Len(s) BY <1>1, <1>2 DEF Arguments
  <2>. QED BY <1>1, <2>1, <2>2, ListsEqual
<1>5. Elements(r) = Elements(s)
  <2>1. Elements(r) = {r[i] : i \in 1..Len(s)} BY <1>1 DEF Elements
  <2>2. Elements(s) = {s[i] : i \in 1..Len(s)} BY DEF Elements
  <2>3. \A i \in 1..Len(s) : \E j \in 1..Len(s) : r[i] = s[j] BY <1>1, <1>3
  <2>4. \A j \in 1..Len(s) : \E i \in 1..Len(s) : s[j] = r[i]
    <3>. TAKE j \in 1..Len(s)
    <3>1. r[Len(s) + 1 - j] = s[Len(s) + 1 - (Len(s) + 1 - j)] BY <1>1, <1>3
    <3>. QED BY <1>3, <3>1
  <2>. QED BY <2>1, <2>2, <2>3, <2>4, Zenon
<1>6. Reverse(<<>>) = <<>> BY DEF Reverse
<1>7. \A a \in Args : Reverse(<<a>>) = <<a>>
  <2>. TAKE a \in Args
  <2>. DEFINE x == <<a>>
              y == Reverse(x)
  <2>1. x \in Arguments /\ x \in Seq(Args) /\ Len(x) = 1 /\ x[1] = a BY ArgumentsIs
  <2>2. y \in Arguments /\ Len(y) = Len(x) /\ \A i \in 1..Len(x) : y[i] = x[Len(x) + 1 - i] BY <2>1, ReverseIs
  <2>. HIDE DEF x, y
  <2>3. y \in Seq(Args) /\ \A i \in 1..Len(y) : y[i] = x[i] BY <2>1, <2>2 DEF Arguments
  <2>4. y = x BY <2>1, <2>2, <2>3, ListsEqual
  <2>. QED BY <2>4 DEF x, y
<1>8. \A a \in Args : Reverse(Append(s, a)) = <<a>> \o Reverse(s)
  <2>. TAKE a \in Args
  <2>1. Append(s, a) = s \o <<a>> /\ <<a>> \in Arguments BY Concat, ArgumentsIs DEF Arguments
  <2>. QED BY <1>7, <2>1, ReverseConcat, Zenon
<1>. QED BY <1>4, <1>5, <1>6, <1>7, <1>8 DEF r, t

\* Filtering a list backwards.
LEMMA FilterReverse ==
  ASSUME NEW S
  PROVE  \A s \in Arguments : Filter(Reverse(s), S) = Reverse(Filter(s, S))
<1>. DEFINE T == {s \in Arguments : Filter(Reverse(s), S) = Reverse(Filter(s, S))}
<1>1. <<>> \in T
  <2>1. Reverse(<<>>) = <<>> BY ReverseProperties, ArgumentsIs
  <2>2. Filter(<<>>, S) = <<>> BY FilterIs, ArgumentsIs DEF FilterSteps
  <2>. QED BY <2>1, <2>2, ArgumentsIs
<1>2. ASSUME NEW s \in Arguments, s \in T, NEW a \in Args PROVE Append(s, a) \in T
  <2>. DEFINE one == <<a>>
              r == Reverse(s)
              f == Filter(s, S)
  <2>1. one \in Arguments /\ Append(s, a) \in Arguments /\ Reverse(Append(s, a)) = one \o r /\ r \in Arguments
    BY ArgumentsIs, ReverseProperties, ReverseIs, Zenon
  <2>2. Filter(one \o r, S) = Filter(one, S) \o Filter(r, S) BY <2>1, FilterConcat, Zenon
  <2>3. Filter(one, S) = IF a \in S THEN one ELSE <<>>
    <3>1. FilterSteps(<<>>, S) /\ one = Append(<<>>, a) BY FilterIs, ArgumentsIs
    <3>. QED BY <3>1 DEF FilterSteps
  <2>4. f \in Arguments /\ Filter(Append(s, a), S) = IF a \in S THEN Append(f, a) ELSE f
    <3>1. FilterSteps(s, S) BY FilterIs
    <3>. QED BY <3>1 DEF FilterSteps
  <2>5. Filter(r, S) = Reverse(f) BY <1>2
  <2>. HIDE DEF one, r, f
  <2>6. Reverse(f) \in Arguments /\ Reverse(Append(f, a)) = one \o Reverse(f)
    BY <2>4, ReverseIs, ReverseProperties DEF one
  <2>7. <<>> \o Reverse(f) = Reverse(f) BY <2>6, Concat
  <2>8. Filter(one \o r, S) = Reverse(Filter(Append(s, a), S))
    BY <2>2, <2>3, <2>4, <2>5, <2>6, <2>7, Zenon
  <2>. QED BY <2>1, <2>8, Zenon DEF one, r
<1>. HIDE DEF T
<1>3. \A s \in Arguments : s \in T BY <1>1, <1>2, Induction
<1>. QED BY <1>3 DEF T

\* KeepLast loses no argument, only copies.
LEMMA KeepLastElements ==
  ASSUME NEW s \in Arguments
  PROVE  /\ KeepLast(s) \in Arguments /\ Elements(KeepLast(s)) = Elements(s) /\ Len(KeepLast(s)) <= Len(s)
         /\ Elements(s) \cap Overriding = {} => KeepLast(s) = s
<1>. DEFINE r == Reverse(s)
            k == KeepFirst(r)
<1>1. r \in Arguments /\ Elements(r) = Elements(s) /\ Len(r) = Len(s) /\ Reverse(r) = s
  BY ReverseIs, ReverseProperties
<1>2. k \in Arguments BY <1>1, KeepFirstIs DEF KeepFirstSteps
<1>3. Elements(k) = Elements(r) /\ Len(k) <= Len(r) /\ (Elements(r) \cap Overriding = {} => k = r)
  BY <1>1, KeepFirstElements, KeepFirstAll
<1>4. KeepLast(s) = Reverse(k) BY DEF KeepLast
<1>. HIDE DEF r, k
<1>5. Reverse(k) \in Arguments /\ Elements(Reverse(k)) = Elements(k) /\ Len(Reverse(k)) = Len(k)
  BY <1>2, ReverseIs, ReverseProperties
<1>. QED BY <1>1, <1>3, <1>4, <1>5

\* In a list of two parts the last one's overriding arguments win.
LEMMA KeepLastConcat ==
  ASSUME NEW x \in Arguments, NEW y \in Arguments
  PROVE  KeepLast(x \o y) = Filter(KeepLast(x), Args \ (Overriding \cap Elements(y))) \o KeepLast(y)
<1>. DEFINE S == Args \ (Overriding \cap Elements(y))
            p == Reverse(x)
            q == Reverse(y)
            f == KeepFirst(p)
            g == KeepFirst(q)
<1>1. p \in Arguments /\ q \in Arguments /\ Elements(q) = Elements(y) BY ReverseIs, ReverseProperties
<1>2. Reverse(x \o y) = q \o p BY ReverseConcat
<1>3. KeepFirst(q \o p) = g \o Filter(f, Args \ (Overriding \cap Elements(q))) BY <1>1, KeepFirstConcat, Zenon
<1>4. f \in Arguments /\ g \in Arguments BY <1>1, KeepFirstIs DEF KeepFirstSteps
<1>5. KeepFirst(q \o p) = g \o Filter(f, S) BY <1>1, <1>3, Zenon
<1>6. KeepLast(x \o y) = Reverse(KeepFirst(q \o p)) BY <1>2 DEF KeepLast
<1>7. KeepLast(x) = Reverse(f) /\ KeepLast(y) = Reverse(g) BY DEF KeepLast
<1>. HIDE DEF S, p, q, f, g
<1>8. Filter(f, S) \in Arguments BY <1>4, FilterIs DEF FilterSteps
<1>9. Reverse(g \o Filter(f, S)) = Reverse(Filter(f, S)) \o Reverse(g) BY <1>4, <1>8, ReverseConcat
<1>10. Reverse(Filter(f, S)) = Filter(Reverse(f), S) BY <1>4, FilterReverse
<1>11. KeepLast(x \o y) = Filter(KeepLast(x), S) \o KeepLast(y)
  BY <1>5, <1>6, <1>7, <1>9, <1>10, Zenon
<1>. QED BY <1>11 DEF S


-----------------------------------------------------------------------------
(* Merging what was collected *)

\* What one walk of flush_pre_post finds.
LEMMA WalkIs ==
  \A s \in Arguments : Walk(s) = [kept |-> KeepFirst(s), flush_set |-> Overriding \cap Elements(s)]
<1>. DEFINE X == [kept : Arguments, flush_set : SUBSET Args]
            step == [w \in X |-> [a \in Args |->
                       IF a \in w.flush_set THEN w
                       ELSE [kept |-> Append(w.kept, a),
                             flush_set |-> IF a \in Overriding THEN w.flush_set \union {a} ELSE w.flush_set]]]
            base == [kept |-> <<>>, flush_set |-> {}]
            Found(s) == [kept |-> KeepFirst(s), flush_set |-> Overriding \cap Elements(s)]
            T == {s \in Arguments : Walk(s) = Found(s)}
<1>1. step \in [X -> [Args -> X]] /\ base \in X BY ArgumentsIs
<1>2. \A s : Walk(s) = Fold(step, base, s) BY DEF Walk
<1>3. \A w \in X, a \in Args :
        step[w][a] = IF a \in w.flush_set THEN w
                     ELSE [kept |-> Append(w.kept, a),
                           flush_set |-> IF a \in Overriding THEN w.flush_set \union {a} ELSE w.flush_set]
  BY Zenon
<1>. HIDE DEF step, base
<1>4. \A s \in Arguments : Loops(step, base, s, Args, X)
  <2>. TAKE s \in Arguments
  <2>. HIDE DEF X
  <2>. QED BY <1>1, FoldIs, Zenon DEF Arguments
<1>5. <<>> \in T
  <2>1. Walk(<<>>) = base BY <1>2, <1>4, ArgumentsIs DEF Loops
  <2>2. KeepFirst(<<>>) = <<>> BY KeepFirstIs, ArgumentsIs DEF KeepFirstSteps
  <2>3. Elements(<<>>) = {} BY ElementsIs
  <2>. QED BY <2>1, <2>2, <2>3, ArgumentsIs DEF base
<1>6. ASSUME NEW s \in Arguments, s \in T, NEW a \in Args PROVE Append(s, a) \in T
  <2>. DEFINE t == Append(s, a)
              f == KeepFirst(s)
              w == Walk(s)
  <2>1. w \in X /\ Walk(t) = step[w][a] BY <1>2, <1>4, Zenon DEF Loops
  <2>2. w = Found(s) BY <1>6
  <2>3. w.kept = f /\ w.flush_set = Overriding \cap Elements(s) BY <2>2
  <2>4. Elements(t) = Elements(s) \union {a} /\ Elements(f) = Elements(s) /\ t \in Arguments
    BY ElementsIs, KeepFirstElements, ArgumentsIs
  <2>5. KeepFirst(t) = IF a \in Overriding /\ a \in Elements(f) THEN f ELSE Append(f, a)
    <3>1. KeepFirstSteps(s) BY KeepFirstIs
    <3>. QED BY <3>1 DEF KeepFirstSteps
  <2>6. step[w][a] = IF a \in w.flush_set THEN w
                     ELSE [kept |-> Append(w.kept, a),
                           flush_set |-> IF a \in Overriding THEN w.flush_set \union {a} ELSE w.flush_set]
    BY <1>3, <2>1, Zenon
  <2>. HIDE DEF t, f, w, X
  <2>7. CASE a \in w.flush_set
    <3>1. KeepFirst(t) = f /\ Overriding \cap Elements(t) = Overriding \cap Elements(s) BY <2>3, <2>4, <2>5, <2>7
    <3>2. Walk(t) = w BY <2>1, <2>6, <2>7
    <3>3. Found(t) = Found(s) BY <3>1 DEF f
    <3>. QED BY <2>2, <2>4, <3>2, <3>3 DEF t
  <2>8. CASE a \notin w.flush_set
    <3>1. KeepFirst(t) = Append(f, a) BY <2>3, <2>4, <2>5, <2>8
    <3>2. Overriding \cap Elements(t) = IF a \in Overriding THEN w.flush_set \union {a} ELSE w.flush_set
      BY <2>3, <2>4
    <3>3. Walk(t) = [kept |-> Append(f, a), flush_set |-> Overriding \cap Elements(t)]
      BY <2>1, <2>3, <2>6, <2>8, <3>2, Zenon
    <3>4. Walk(t) = Found(t) BY <3>1, <3>3
    <3>. QED BY <2>4, <3>4 DEF t
  <2>. QED BY <2>7, <2>8
<1>. HIDE DEF T
<1>7. \A s \in Arguments : s \in T BY <1>5, <1>6, Induction
<1>. QED BY <1>7 DEF T

\* What PendingOK says, of any object.
OK(o) ==
  /\ o \in Objects
  /\ Elements(o.pre) \subseteq Prepended
  /\ Elements(o.post) \cap Prepended = {}
  /\ Overriding \cap (Elements(o.pre) \union Elements(o.post)) # {} => o.check

\* The list that a read of o shows.
Rest(o)  == Filter(o.container, Args \ (Overriding \cap (Elements(o.pre) \union Elements(o.post))))
Shown(o) == (KeepFirst(o.pre) \o Rest(o)) \o KeepLast(o.post)

ShownResult(o) ==
  /\ KeepFirst(o.pre) \in Arguments /\ Rest(o) \in Arguments /\ KeepLast(o.post) \in Arguments
  /\ Shown(o) \in Arguments
  /\ Elements(Shown(o)) = (Elements(o.container) \union Elements(o.pre)) \union Elements(o.post)

\* A read shows the arguments of all three lists.
LEMMA ShownIs == ASSUME NEW o \in Objects PROVE ShownResult(o)
<1>. DEFINE c == o.container
            p == o.pre
            q == o.post
            S == Args \ (Overriding \cap (Elements(p) \union Elements(q)))
<1>1. c \in Arguments /\ p \in Arguments /\ q \in Arguments BY DEF Objects
<1>2. Rest(o) = Filter(c, S) /\ Shown(o) = (KeepFirst(p) \o Rest(o)) \o KeepLast(q) BY DEF Rest, Shown
<1>. HIDE DEF c, p, q, S
<1>3. KeepFirst(p) \in Arguments /\ Elements(KeepFirst(p)) = Elements(p)
  BY <1>1, KeepFirstIs, KeepFirstElements DEF KeepFirstSteps
<1>4. KeepLast(q) \in Arguments /\ Elements(KeepLast(q)) = Elements(q) BY <1>1, KeepLastElements
<1>5. Filter(c, S) \in Arguments /\ Elements(Filter(c, S)) = Elements(c) \cap S
  BY <1>1, FilterIs, FilterElements DEF FilterSteps
<1>6. KeepFirst(p) \o Rest(o) \in Arguments /\ Shown(o) \in Arguments BY <1>2, <1>3, <1>4, <1>5, ArgumentsIs
<1>7. Elements(Shown(o)) = (Elements(p) \union (Elements(c) \cap S)) \union Elements(q)
  BY <1>2, <1>3, <1>4, <1>5, <1>6, ElementsIs
<1>8. Elements(c) \subseteq Args BY <1>1, ElementsIs
<1>9. Elements(Shown(o)) = (Elements(c) \union Elements(p)) \union Elements(q) BY <1>7, <1>8 DEF S
<1>. QED BY <1>2, <1>3, <1>4, <1>5, <1>6, <1>9 DEF ShownResult, c, p, q

\* Objects that have collected nothing.
LEMMA NewObjectIs ==
  ASSUME NEW s \in Arguments
  PROVE  OK(NewObject(s)) /\ Shown(NewObject(s)) = s /\ NewObject(s).container = s
<1>. DEFINE o == NewObject(s)
<1>1. o \in Objects /\ o.pre = <<>> /\ o.post = <<>> /\ o.container = s BY ArgumentsIs DEF NewObject, Objects
<1>2. Elements(o.pre) = {} /\ Elements(o.post) = {} BY <1>1, ElementsIs
<1>3. OK(o) BY <1>1, <1>2 DEF OK
<1>. HIDE DEF o
<1>4. KeepFirst(<<>>) = <<>> BY KeepFirstIs, ArgumentsIs DEF KeepFirstSteps
<1>5. KeepLast(<<>>) = <<>> BY KeepLastElements, ElementsIs, ArgumentsIs
<1>6. Args \ (Overriding \cap (Elements(o.pre) \union Elements(o.post))) = Args BY <1>2
<1>7. Rest(o) = Filter(s, Args) BY <1>1, <1>6 DEF Rest
<1>8. Rest(o) = s
  <2>1. Elements(s) \subseteq Args BY ElementsIs
  <2>. QED BY <1>7, <2>1, FilterAll
<1>9. Shown(o) = s
  <2>1. <<>> \o s = s /\ s \o <<>> = s BY Concat
  <2>2. Shown(o) = (KeepFirst(<<>>) \o s) \o KeepLast(<<>>) BY <1>1, <1>8, Zenon DEF Shown
  <2>. QED BY <1>4, <1>5, <2>1, <2>2, Zenon
<1>. QED BY <1>1, <1>3, <1>9 DEF o

\* flush_pre_post leaves the list that Shown describes, with or without its search.
LEMMA FlushedIs == ASSUME NEW o, OK(o) PROVE Flushed(o) = NewObject(Shown(o))
<1>. DEFINE c == o.container
            p == o.pre
            q == o.post
            r == Reverse(q)
            over == Overriding \cap (Elements(p) \union Elements(q))
<1>1. o \in Objects BY DEF OK
<1>2. c \in Arguments /\ p \in Arguments /\ q \in Arguments BY <1>1 DEF Objects
<1>3. Rest(o) = Filter(c, Args \ over) /\ Shown(o) = (KeepFirst(p) \o Rest(o)) \o KeepLast(q) BY DEF Rest, Shown
<1>4. over # {} => o.check BY DEF OK
<1>5. Flushed(o) = NewObject(IF o.check
                             THEN (Walk(p).kept \o Filter(c, Args \ (Walk(p).flush_set \union Walk(r).flush_set)))
                                    \o Reverse(Walk(r).kept)
                             ELSE (p \o c) \o q)
  BY DEF Flushed
<1>6. r \in Arguments /\ Elements(r) = Elements(q) BY <1>2, ReverseIs, ReverseProperties
<1>7. KeepLast(q) = Reverse(KeepFirst(r)) BY DEF KeepLast
<1>. HIDE DEF c, p, q, r
<1>8. CASE o.check
  <2>1. Walk(p).kept = KeepFirst(p) /\ Walk(p).flush_set = Overriding \cap Elements(p) BY <1>2, WalkIs
  <2>2. Walk(r).kept = KeepFirst(r) /\ Walk(r).flush_set = Overriding \cap Elements(r) BY <1>6, WalkIs
  <2>3. Walk(p).flush_set \union Walk(r).flush_set = over BY <1>6, <2>1, <2>2
  <2>. QED BY <1>3, <1>5, <1>7, <1>8, <2>1, <2>2, <2>3, Zenon
<1>9. CASE ~o.check
  <2>1. over = {} BY <1>4, <1>9
  <2>2. Elements(p) \cap Overriding = {} /\ Elements(q) \cap Overriding = {} BY <2>1
  <2>3. KeepFirst(p) = p /\ KeepLast(q) = q BY <1>2, <2>2, KeepFirstAll, KeepLastElements
  <2>4. Elements(c) \subseteq Args \ over BY <1>2, <2>1, ElementsIs
  <2>. HIDE DEF over
  <2>5. Filter(c, Args \ over) = c BY <1>2, <2>4, FilterAll
  <2>. QED BY <1>3, <1>5, <1>9, <2>3, <2>5
<1>. QED BY <1>8, <1>9


-----------------------------------------------------------------------------
(* Adding arguments *)

\* The loop of __iadd__ over args, for an object whose list shows old.
Loop(o, old, args) ==
  [tmp_pre |-> Reverse(Filter(New(old, args), Prepended)),
   post    |-> o.post \o Filter(New(old, args), Args \ Prepended),
   check   |-> o.check \/ Overriding \cap Elements(New(old, args)) # {}]

\* The loop of __iadd__ collects the new arguments, each on its side, and raises the flag.
LEMMA LoopIs ==
  ASSUME NEW o \in Objects, NEW old \in Arguments,
         Elements(old) = (Elements(o.container) \union Elements(o.pre)) \union Elements(o.post)
  PROVE  \A args \in Arguments :
            Fold(Add(o), [tmp_pre |-> <<>>, post |-> o.post, check |-> o.check], args) = Loop(o, old, args)
<1>. DEFINE X == [tmp_pre : Arguments, post : Arguments, check : BOOLEAN]
            base == [tmp_pre |-> <<>>, post |-> o.post, check |-> o.check]
            At(args) == Fold(Add(o), base, args)
            T == {args \in Arguments : At(args) = Loop(o, old, args)}
            Gone(t, a) == a \in Unique /\ a \in (Elements(o.container) \union Elements(o.pre)) \union Elements(t.post)
            More(t, a) == [tmp_pre |-> IF a \in Prepended THEN <<a>> \o t.tmp_pre ELSE t.tmp_pre,
                           post    |-> IF a \in Prepended THEN t.post ELSE Append(t.post, a),
                           check   |-> t.check \/ a \in Overriding]
<1>0. o.post \in Arguments /\ o.check \in BOOLEAN BY DEF Objects
<1>1. base \in X BY <1>0, ArgumentsIs
<1>2. ASSUME NEW t \in X, NEW a \in Args PROVE More(t, a) \in X
  <2>1. t.tmp_pre \in Arguments /\ t.post \in Arguments /\ t.check \in BOOLEAN OBVIOUS
  <2>2. <<a>> \o t.tmp_pre \in Arguments /\ Append(t.post, a) \in Arguments BY <2>1, ArgumentsIs
  <2>3. (t.check \/ a \in Overriding) \in BOOLEAN OBVIOUS
  <2>. QED BY <2>1, <2>2, <2>3
<1>. DEFINE step == [t \in X |-> [a \in Args |-> IF Gone(t, a) THEN t ELSE More(t, a)]]
<1>3. Add(o) = step BY DEF Add
<1>. HIDE DEF More, Gone, X
<1>4. step \in [X -> [Args -> X]] BY <1>2
<1>5. \A t \in X, a \in Args : step[t][a] = IF Gone(t, a) THEN t ELSE More(t, a) BY Zenon
<1>. HIDE DEF step
<1>6. \A args \in Arguments : Loops(Add(o), base, args, Args, X)
  <2>. TAKE args \in Arguments
  <2>. HIDE DEF base
  <2>. QED BY <1>1, <1>3, <1>4, FoldIs, Zenon DEF Arguments
<1>7. <<>> \in T
  <2>1. At(<<>>) = base
    <3>. HIDE DEF base
    <3>. QED BY <1>6, ArgumentsIs, Zenon DEF Loops
  <2>2. New(old, <<>>) = <<>> BY NewIs, ArgumentsIs DEF NewSteps
  <2>3. \A S : Filter(<<>>, S) = <<>> BY FilterIs, ArgumentsIs DEF FilterSteps
  <2>4. Reverse(<<>>) = <<>> /\ Elements(<<>>) = {} /\ o.post \o <<>> = o.post
    BY <1>0, ArgumentsIs, ReverseProperties, ElementsIs, Concat
  <2>5. (o.check \/ Overriding \cap {} # {}) = o.check BY <1>0
  <2>6. Loop(o, old, <<>>) = base BY <2>2, <2>3, <2>4, <2>5, Zenon DEF Loop
  <2>. QED BY <2>1, <2>6, ArgumentsIs
<1>8. ASSUME NEW s \in Arguments, s \in T, NEW a \in Args PROVE Append(s, a) \in T
  <2>. DEFINE t == At(s)
              n == New(old, s)
              m == New(old, Append(s, a))
              f == Filter(n, Prepended)
              g == Filter(n, Args \ Prepended)
  <2>1. t \in X /\ At(Append(s, a)) = Add(o)[t][a]
    <3>. HIDE DEF base
    <3>. QED BY <1>6, Zenon DEF Loops
  <2>2. t = Loop(o, old, s) BY <1>8
  <2>3. t.tmp_pre = Reverse(f) /\ t.post = o.post \o g /\ t.check = (o.check \/ Overriding \cap Elements(n) # {})
    <3>1. /\ Loop(o, old, s).tmp_pre = Reverse(f) /\ Loop(o, old, s).post = o.post \o g
          /\ Loop(o, old, s).check = (o.check \/ Overriding \cap Elements(n) # {})
      BY Zenon DEF Loop
    <3>. HIDE DEF t, f, g, n
    <3>. QED BY <2>2, <3>1, Zenon
  <2>4. n \in Arguments /\ m = IF a \in Unique /\ a \in Elements(old) \union (Elements(n) \ Prepended) THEN n ELSE Append(n, a)
    <3>1. NewSteps(old, s) BY NewIs
    <3>. QED BY <3>1, Zenon DEF NewSteps
  <2>5. Add(o)[t][a] = IF Gone(t, a) THEN t ELSE More(t, a) BY <1>3, <1>5, <2>1, Zenon
  <2>6. Append(s, a) \in Arguments BY ArgumentsIs
  <2>7. f \in Arguments /\ g \in Arguments /\ Elements(g) = Elements(n) \cap (Args \ Prepended)
    BY <2>4, FilterIs, FilterElements DEF FilterSteps
  <2>. HIDE DEF At, n, m, T, base
  <2>8. Elements(o.post \o g) = Elements(o.post) \union Elements(g) BY <1>0, <2>7, ElementsIs
  <2>9. Gone(t, a) <=> a \in Unique /\ a \in Elements(old) \union (Elements(n) \ Prepended)
    <3>1. a \in Unique => a \in Args OBVIOUS
    <3>2. Gone(t, a) <=> a \in Unique /\ a \in (Elements(o.container) \union Elements(o.pre)) \union Elements(t.post)
      BY Zenon DEF Gone
    <3>. HIDE DEF t, f, g
    <3>3. Elements(t.post) = Elements(o.post) \union Elements(g) BY <2>3, <2>8
    <3>. QED BY <2>7, <3>1, <3>2, <3>3
  <2>10. CASE Gone(t, a)
    <3>1. m = n BY <2>4, <2>9, <2>10
    <3>2. At(Append(s, a)) = t BY <2>1, <2>5, <2>10
    <3>3. Loop(o, old, Append(s, a)) = Loop(o, old, s) BY <3>1, Zenon DEF Loop, m, n
    <3>. QED BY <2>2, <2>6, <3>2, <3>3, Zenon DEF T
  <2>11. CASE ~Gone(t, a)
    <3>1. m = Append(n, a) BY <2>4, <2>9, <2>11
    <3>2. At(Append(s, a)) = More(t, a) BY <2>1, <2>5, <2>11
    <3>. DEFINE F == Filter(m, Prepended)
                G == Filter(m, Args \ Prepended)
    <3>3. F = IF a \in Prepended THEN Append(f, a) ELSE f
      <4>1. FilterSteps(n, Prepended) BY <2>4, FilterIs
      <4>. QED BY <3>1, <4>1 DEF FilterSteps
    <3>4. G = IF a \in Prepended THEN g ELSE Append(g, a)
      <4>1. FilterSteps(n, Args \ Prepended) BY <2>4, FilterIs
      <4>. QED BY <3>1, <4>1, Zenon DEF FilterSteps
    <3>5. Reverse(Append(f, a)) = <<a>> \o Reverse(f) BY <2>7, ReverseProperties
    <3>6. o.post \o Append(g, a) = Append(o.post \o g, a)
      <4>. DEFINE q == o.post
      <4>1. q \in Arguments BY <1>0
      <4>. HIDE DEF f, g, t, q
      <4>2. q \o Append(g, a) = Append(q \o g, a) BY <2>7, <4>1, Concat
      <4>. QED BY <4>2 DEF q
    <3>7. Elements(m) = Elements(n) \union {a} BY <2>4, <3>1, ElementsIs
    <3>8. Loop(o, old, Append(s, a)) =
            [tmp_pre |-> Reverse(F), post |-> o.post \o G, check |-> (o.check \/ Overriding \cap Elements(m) # {})]
      BY DEF Loop, m
    <3>9. More(t, a) = [tmp_pre |-> IF a \in Prepended THEN <<a>> \o t.tmp_pre ELSE t.tmp_pre,
                        post    |-> IF a \in Prepended THEN t.post ELSE Append(t.post, a),
                        check   |-> t.check \/ a \in Overriding]
      BY DEF More
    <3>. HIDE DEF t, f, g, F, G
    <3>10. Reverse(F) = IF a \in Prepended THEN <<a>> \o t.tmp_pre ELSE t.tmp_pre BY <2>3, <3>3, <3>5, Zenon
    <3>11. o.post \o G = IF a \in Prepended THEN t.post ELSE Append(t.post, a) BY <2>3, <3>4, <3>6, Zenon
    <3>12. (o.check \/ Overriding \cap Elements(m) # {}) = (t.check \/ a \in Overriding)
      <4>1. (Overriding \cap Elements(m) # {}) <=> (Overriding \cap Elements(n) # {} \/ a \in Overriding)
        BY <3>7
      <4>. QED BY <2>3, <4>1, Zenon
    <3>13. Loop(o, old, Append(s, a)) = More(t, a) BY <3>8, <3>9, <3>10, <3>11, <3>12, Zenon
    <3>. QED BY <2>6, <3>2, <3>13, Zenon DEF T
  <2>. QED BY <2>10, <2>11
<1>. HIDE DEF T
<1>9. \A s \in Arguments : s \in T BY <1>7, <1>8, Induction
<1>. QED BY <1>9 DEF T


Assoc(s, t, u) == (s \o t) \o u = s \o (t \o u)

\* Three lists in a row.
LEMMA Associative ==
  ASSUME NEW s \in Arguments, NEW t \in Arguments, NEW u \in Arguments
  PROVE  Assoc(s, t, u)
BY DEF Arguments, Assoc

\* A read of what has collected the arguments n shows them around what it showed before.
LEMMA ShownSum ==
  ASSUME NEW o \in Objects, Elements(o.pre) \subseteq Prepended, Elements(o.post) \cap Prepended = {},
         NEW n \in Arguments, NEW r,
         r.container = o.container,
         r.pre = Filter(n, Prepended) \o o.pre,
         r.post = o.post \o Filter(n, Args \ Prepended)
  PROVE  Shown(r) = (KeepFirst(Filter(n, Prepended)) \o Filter(Shown(o), Args \ (Overriding \cap Elements(n))))
                      \o KeepLast(Filter(n, Args \ Prepended))
<1>. DEFINE c == o.container
            p == o.pre
            q == o.post
            F == Filter(n, Prepended)
            G == Filter(n, Args \ Prepended)
            A == Args \ (Overriding \cap (Elements(p) \union Elements(q)))
            B == Args \ (Overriding \cap Elements(n))
            K == KeepFirst(p)
            R == Filter(c, A)
            L == KeepLast(q)
<1>1. c \in Arguments /\ p \in Arguments /\ q \in Arguments BY DEF Objects
<1>2. F \in Arguments /\ G \in Arguments BY FilterIs DEF FilterSteps
<1>3. Elements(F) = Elements(n) \cap Prepended /\ Elements(G) = Elements(n) \cap (Args \ Prepended)
      /\ Elements(n) \subseteq Args /\ Elements(q) \subseteq Args
  BY <1>1, FilterElements, ElementsIs
<1>4. Shown(o) = (K \o R) \o L BY DEF Shown, Rest
<1>5. r.container = c /\ r.pre = F \o p /\ r.post = q \o G OBVIOUS
<1>6. Elements(p) \subseteq Prepended /\ Elements(q) \cap Prepended = {} OBVIOUS
<1>. HIDE DEF c, p, q, F, G
<1>7. K \in Arguments /\ Elements(K) = Elements(p) BY <1>1, KeepFirstIs, KeepFirstElements DEF KeepFirstSteps
<1>8. L \in Arguments /\ Elements(L) = Elements(q) BY <1>1, KeepLastElements
<1>9. R \in Arguments BY <1>1, FilterIs DEF FilterSteps
<1>10. Filter(Shown(o), B) = (Filter(K, B) \o Filter(R, B)) \o Filter(L, B)
  <2>. HIDE DEF K, R, L, B
  <2>1. K \o R \in Arguments BY <1>7, <1>9, ArgumentsIs
  <2>2. Filter((K \o R) \o L, B) = Filter(K \o R, B) \o Filter(L, B) BY <1>8, <2>1, FilterConcat, Zenon
  <2>3. Filter(K \o R, B) = Filter(K, B) \o Filter(R, B) BY <1>7, <1>9, FilterConcat, Zenon
  <2>. QED BY <1>4, <2>2, <2>3
<1>11. KeepFirst(F \o p) = KeepFirst(F) \o Filter(K, B)
  <2>1. KeepFirst(F \o p) = KeepFirst(F) \o Filter(K, Args \ (Overriding \cap Elements(F)))
    BY <1>1, <1>2, KeepFirstConcat, Zenon
  <2>2. Elements(K) \cap (Args \ (Overriding \cap Elements(F))) = Elements(K) \cap B BY <1>3, <1>6, <1>7
  <2>. HIDE DEF K, B
  <2>3. Filter(K, Args \ (Overriding \cap Elements(F))) = Filter(K, B) BY <1>7, <2>2, FilterSame
  <2>. QED BY <2>1, <2>3, Zenon
<1>12. KeepLast(q \o G) = Filter(L, B) \o KeepLast(G)
  <2>1. KeepLast(q \o G) = Filter(L, Args \ (Overriding \cap Elements(G))) \o KeepLast(G)
    BY <1>1, <1>2, KeepLastConcat, Zenon
  <2>2. Elements(L) \cap (Args \ (Overriding \cap Elements(G))) = Elements(L) \cap B BY <1>3, <1>6, <1>8
  <2>. HIDE DEF L, B
  <2>3. Filter(L, Args \ (Overriding \cap Elements(G))) = Filter(L, B) BY <1>8, <2>2, FilterSame
  <2>. QED BY <2>1, <2>3, Zenon
<1>13. Rest(r) = Filter(R, B)
  <2>. DEFINE S == Args \ (Overriding \cap (Elements(r.pre) \union Elements(r.post)))
  <2>1. Rest(r) = Filter(c, S) BY <1>5 DEF Rest
  <2>2. Elements(F \o p) = Elements(F) \union Elements(p) /\ Elements(q \o G) = Elements(q) \union Elements(G)
    BY <1>1, <1>2, ElementsIs
  <2>3. S = A \cap B BY <1>3, <1>5, <2>2, Zenon
  <2>. HIDE DEF A, B, S
  <2>4. Filter(Filter(c, A), B) = Filter(c, A \cap B) BY <1>1, FilterTwice
  <2>. QED BY <2>1, <2>3, <2>4
<1>14. Shown(r) = (KeepFirst(F \o p) \o Rest(r)) \o KeepLast(q \o G) BY <1>5, Zenon DEF Shown
<1>. HIDE DEF K, R, L, A, B
<1>. DEFINE f == KeepFirst(F)
            g == KeepLast(G)
            k == Filter(K, B)
            m == Filter(R, B)
            l == Filter(L, B)
<1>15. f \in Arguments /\ g \in Arguments /\ k \in Arguments /\ m \in Arguments /\ l \in Arguments
  BY <1>2, <1>7, <1>8, <1>9, KeepFirstIs, KeepLastElements, FilterIs DEF KeepFirstSteps, FilterSteps
<1>16. Shown(r) = ((f \o k) \o m) \o (l \o g) BY <1>11, <1>12, <1>13, <1>14, Zenon
<1>17. Filter(Shown(o), B) = (k \o m) \o l BY <1>10
<1>. HIDE DEF f, g, k, m, l
<1>18. ((f \o k) \o m) \o (l \o g) = (f \o ((k \o m) \o l)) \o g
  <2>1. f \o k \in Arguments /\ k \o m \in Arguments /\ l \o g \in Arguments /\ (k \o m) \o l \in Arguments
        /\ (f \o k) \o m \in Arguments
    BY <1>15, ArgumentsIs
  <2>2. Assoc(f, k, m) BY <1>15, Associative, Zenon
  <2>3. Assoc(f, k \o m, l) BY <1>15, <2>1, Associative, Zenon
  <2>4. Assoc((f \o k) \o m, l, g) BY <1>15, <2>1, Associative, Zenon
  <2>. QED BY <2>2, <2>3, <2>4, Zenon DEF Assoc
<1>. QED BY <1>16, <1>17, <1>18, Zenon DEF B, F, G, f, g

\* What `+=` makes of an object.
Extended(o, r, args) == OK(r) /\ Shown(r) = Plus(Shown(o), args)

\* `+=` keeps what PendingOK says, and a read shows what merging at once would have given.
LEMMA IaddIs ==
  ASSUME NEW o, OK(o), NEW args \in Arguments
  PROVE  Extended(o, iadd(o, args), args)
<1>. DEFINE old == Shown(o)
            n == New(old, args)
            F == Filter(n, Prepended)
            G == Filter(n, Args \ Prepended)
            t == Fold(Add(o), [tmp_pre |-> <<>>, post |-> o.post, check |-> o.check], args)
            r == iadd(o, args)
            flag == o.check \/ Overriding \cap Elements(n) # {}
<1>1. /\ o \in Objects /\ Elements(o.pre) \subseteq Prepended /\ Elements(o.post) \cap Prepended = {}
      /\ (Overriding \cap (Elements(o.pre) \union Elements(o.post)) # {} => o.check)
  BY DEF OK
<1>2. /\ o.container \in Arguments /\ o.pre \in Arguments /\ o.post \in Arguments /\ o.check \in BOOLEAN
  BY <1>1 DEF Objects
<1>3. old \in Arguments /\ Elements(old) = (Elements(o.container) \union Elements(o.pre)) \union Elements(o.post)
  BY <1>1, ShownIs DEF ShownResult
<1>4. t = Loop(o, old, args)
  <2>. HIDE DEF old
  <2>. QED BY <1>1, <1>3, LoopIs
<1>5. t.tmp_pre = Reverse(F) /\ t.post = o.post \o G /\ t.check = flag
  <2>1. /\ Loop(o, old, args).tmp_pre = Reverse(F) /\ Loop(o, old, args).post = o.post \o G
        /\ Loop(o, old, args).check = flag
    BY Zenon DEF Loop
  <2>. HIDE DEF t, F, G, n, old
  <2>. QED BY <1>4, <2>1, Zenon
<1>6. r = [o EXCEPT !.pre = Reverse(t.tmp_pre) \o @, !.post = t.post, !.check = t.check] BY DEF iadd
<1>7. n \in Arguments
  <2>1. NewSteps(old, args) BY NewIs
  <2>. QED BY <2>1 DEF NewSteps
<1>. HIDE DEF t, n, r, old
<1>8. F \in Arguments /\ G \in Arguments /\ Elements(F) = Elements(n) \cap Prepended
      /\ Elements(G) = Elements(n) \cap (Args \ Prepended)
  BY <1>7, FilterIs, FilterElements, Zenon DEF FilterSteps
<1>. HIDE DEF F, G, flag
<1>9. Reverse(Reverse(F)) = F BY <1>8, ReverseProperties
<1>10. r = [o EXCEPT !.pre = F \o @, !.post = o.post \o G, !.check = flag] BY <1>5, <1>6, <1>9
<1>11. F \o o.pre \in Arguments /\ o.post \o G \in Arguments BY <1>2, <1>8, ArgumentsIs
<1>12. flag \in BOOLEAN BY Zenon DEF flag
<1>13. r = [container |-> o.container, pre |-> F \o o.pre, post |-> o.post \o G, check |-> flag]
  BY <1>1, <1>10, Zenon DEF Objects
<1>14. r \in Objects BY <1>2, <1>11, <1>12, <1>13, Zenon DEF Objects
<1>15. r.container = o.container /\ r.pre = F \o o.pre /\ r.post = o.post \o G /\ r.check = flag
  BY <1>13, Zenon
<1>16. Elements(r.pre) = Elements(F) \union Elements(o.pre) /\ Elements(r.post) = Elements(o.post) \union Elements(G)
  BY <1>2, <1>8, <1>15, ElementsIs
<1>17. OK(r)
  <2>1. Elements(r.pre) \subseteq Prepended /\ Elements(r.post) \cap Prepended = {} BY <1>1, <1>8, <1>16
  <2>2. ASSUME Overriding \cap (Elements(r.pre) \union Elements(r.post)) # {} PROVE r.check
    <3>1. Overriding \cap (Elements(o.pre) \union Elements(o.post)) # {} \/ Overriding \cap Elements(n) # {}
      BY <1>8, <1>16, <2>2
    <3>. QED BY <1>1, <1>15, <3>1, Zenon DEF flag
  <2>. QED BY <1>14, <2>1, <2>2, Zenon DEF OK
<1>18. Shown(r) = (KeepFirst(F) \o Filter(old, Args \ (Overriding \cap Elements(n)))) \o KeepLast(G)
  BY <1>1, <1>7, <1>15, ShownSum, Zenon DEF old, F, G
<1>19. Plus(old, args) = (KeepFirst(F) \o Filter(old, Args \ (Overriding \cap Elements(n)))) \o KeepLast(G)
  BY DEF Plus, n, F, G
<1>. QED BY <1>17, <1>18, <1>19, Zenon DEF Extended, r, old


\* `+=` on a list gives a list.
LEMMA PlusIs == ASSUME NEW old \in Arguments, NEW args \in Arguments PROVE Plus(old, args) \in Arguments
<1>1. OK(NewObject(old)) /\ Shown(NewObject(old)) = old BY NewObjectIs
<1>2. Extended(NewObject(old), iadd(NewObject(old), args), args) BY <1>1, IaddIs, Zenon
<1>3. OK(iadd(NewObject(old), args)) /\ Shown(iadd(NewObject(old), args)) = Plus(old, args)
  BY <1>1, <1>2, Zenon DEF Extended
<1>4. iadd(NewObject(old), args) \in Objects BY <1>3, Zenon DEF OK
<1>5. ShownResult(iadd(NewObject(old), args)) BY <1>4, ShownIs, Zenon
<1>. QED BY <1>3, <1>5, Zenon DEF ShownResult

\* The list that a read shows is a list of arguments.
LEMMA ShownType == ASSUME NEW o, OK(o) PROVE Shown(o) \in Arguments
BY ShownIs DEF OK, ShownResult

\* __radd__ adds what the list shows to the arguments before it.
LEMMA RaddIs ==
  ASSUME NEW o, OK(o), NEW args \in Arguments
  PROVE  OK(radd(args, o)) /\ Shown(radd(args, o)) = Plus(args, Shown(o))
<1>1. Shown(o) \in Arguments BY ShownType
<1>2. Flushed(o).container = Shown(o) BY <1>1, FlushedIs, NewObjectIs
<1>3. OK(NewObject(args)) /\ Shown(NewObject(args)) = args BY NewObjectIs
<1>4. radd(args, o) = iadd(NewObject(args), Shown(o)) BY <1>2 DEF radd
<1>5. Extended(NewObject(args), iadd(NewObject(args), Shown(o)), Shown(o)) BY <1>1, <1>3, IaddIs, Zenon
<1>. QED BY <1>3, <1>4, <1>5, Zenon DEF Extended

\* flush_pre_post leaves an object that has collected nothing, whatever the flag.
LEMMA FlushedType == ASSUME NEW o \in Objects PROVE \E s \in Arguments : Flushed(o) = NewObject(s)
<1>. DEFINE c == o.container
            p == o.pre
            q == o.post
            r == Reverse(q)
            S == Args \ (Walk(p).flush_set \union Walk(r).flush_set)
            s == IF o.check THEN (Walk(p).kept \o Filter(c, S)) \o Reverse(Walk(r).kept) ELSE (p \o c) \o q
<1>1. c \in Arguments /\ p \in Arguments /\ q \in Arguments BY DEF Objects
<1>2. r \in Arguments BY <1>1, ReverseIs
<1>3. Flushed(o) = NewObject(s) BY DEF Flushed
<1>. HIDE DEF c, p, q, r
<1>4. Walk(p).kept = KeepFirst(p) /\ Walk(r).kept = KeepFirst(r) BY <1>1, <1>2, WalkIs
<1>5. KeepFirst(p) \in Arguments /\ KeepFirst(r) \in Arguments BY <1>1, <1>2, KeepFirstIs DEF KeepFirstSteps
<1>6. Reverse(KeepFirst(r)) \in Arguments BY <1>5, ReverseIs
<1>. HIDE DEF S
<1>7. Filter(c, S) \in Arguments BY <1>1, FilterIs DEF FilterSteps
<1>8. (Walk(p).kept \o Filter(c, S)) \o Reverse(Walk(r).kept) \in Arguments BY <1>4, <1>5, <1>6, <1>7, ArgumentsIs
<1>9. (p \o c) \o q \in Arguments BY <1>1, ArgumentsIs
<1>10. s \in Arguments BY <1>8, <1>9
<1>. HIDE DEF s
<1>. QED BY <1>3, <1>10, Zenon

\* Writing the list of an object that has collected nothing.
LEMMA NewContainer ==
  ASSUME NEW s, NEW t
  PROVE  [NewObject(s) EXCEPT !.container = t] = NewObject(t)
<1>1. NewObject(s) = [container |-> s, pre |-> <<>>, post |-> <<>>, check |-> FALSE] BY DEF NewObject
<1>2. NewObject(t) = [container |-> t, pre |-> <<>>, post |-> <<>>, check |-> FALSE] BY DEF NewObject
<1>. DEFINE o == NewObject(s)
            none == <<>>
            no == FALSE
<1>3. o = [container |-> s, pre |-> none, post |-> none, check |-> no] BY <1>1
<1>. HIDE DEF o, none, no
<1>4. [o EXCEPT !.container = t] = [container |-> t, pre |-> none, post |-> none, check |-> no] BY <1>3
<1>. QED BY <1>2, <1>4 DEF o, none, no

\* One argument as it is, or added when it is an absolute path.
LEMMA AppendDirectIs ==
  ASSUME NEW s \in Arguments, NEW o, Flushed(o) = NewObject(s), NEW a \in Args
  PROVE  /\ OK(append_direct(o, a))
         /\ Shown(append_direct(o, a)) = IF a \in isabs THEN Plus(s, <<a>>) ELSE Append(s, a)
<1>. DEFINE f == NewObject(s)
            r == append_direct(o, a)
            one == <<a>>
<1>1. OK(f) /\ Shown(f) = s BY NewObjectIs
<1>2. one \in Arguments /\ Append(s, a) \in Arguments BY ArgumentsIs
<1>3. r = IF a \in isabs THEN iadd(f, one) ELSE [f EXCEPT !.container = Append(@, a)] BY DEF append_direct
<1>4. [f EXCEPT !.container = Append(@, a)] = NewObject(Append(s, a))
  <2>1. f.container = s BY NewObjectIs
  <2>2. [f EXCEPT !.container = Append(s, a)] = NewObject(Append(s, a)) BY NewContainer, Zenon
  <2>. HIDE DEF f
  <2>. QED BY <2>1, <2>2
<1>. HIDE DEF f, r, one
<1>5. CASE a \in isabs
  <2>1. Extended(f, iadd(f, one), one) BY <1>1, <1>2, IaddIs, Zenon
  <2>2. OK(r) /\ Shown(r) = Plus(s, one) BY <1>1, <1>3, <1>5, <2>1, Zenon DEF Extended
  <2>. QED BY <1>5, <2>2, Zenon DEF r, one
<1>6. CASE a \notin isabs
  <2>1. r = NewObject(Append(s, a)) BY <1>3, <1>4, <1>6
  <2>2. OK(NewObject(Append(s, a))) /\ Shown(NewObject(Append(s, a))) = Append(s, a) BY <1>2, NewObjectIs, Zenon
  <2>. QED BY <1>6, <2>1, <2>2, Zenon DEF r
<1>. QED BY <1>5, <1>6

DirectSteps(old, s) ==
  /\ Direct(old, s) \in Arguments
  /\ Direct(old, <<>>) = old
  /\ \A a \in Args : Direct(old, Append(s, a)) =
        IF a \in isabs THEN Plus(Direct(old, s), <<a>>) ELSE Append(Direct(old, s), a)

\* Direct, argument by argument.
LEMMA DirectIs == ASSUME NEW old \in Arguments, NEW s \in Arguments PROVE DirectSteps(old, s)
<1>. DEFINE step == [l \in Arguments |-> [a \in Args |-> IF a \in isabs THEN Plus(l, <<a>>) ELSE Append(l, a)]]
<1>1. step \in [Arguments -> [Args -> Arguments]] BY ArgumentsIs, PlusIs
<1>2. \A l \in Arguments, a \in Args : step[l][a] = IF a \in isabs THEN Plus(l, <<a>>) ELSE Append(l, a) OBVIOUS
<1>3. \A x : Direct(old, x) = Fold(step, old, x) BY DEF Direct
<1>. HIDE DEF step
<1>4. Loops(step, old, s, Args, Arguments) BY <1>1, FoldIs, ArgumentsIs, Zenon DEF Arguments
<1>5. Direct(old, s) \in Arguments /\ Direct(old, <<>>) = old BY <1>3, <1>4, Zenon DEF Loops
<1>6. \A a \in Args : Direct(old, Append(s, a)) = step[Direct(old, s)][a] BY <1>3, <1>4, Zenon DEF Loops
<1>. QED BY <1>2, <1>5, <1>6, Zenon DEF DirectSteps

\* extend_direct keeps what PendingOK says, and a read shows what Direct describes.
LEMMA ExtendDirectIs ==
  ASSUME NEW o, OK(o)
  PROVE  \A args \in Arguments :
            OK(extend_direct(o, args)) /\ Shown(extend_direct(o, args)) = Direct(Shown(o), args)
<1>. DEFINE old == Shown(o)
            base == NewObject(old)
            step == [x \in Objects |-> [a \in Args |-> append_direct(x, a)]]
            At(args) == extend_direct(o, args)
            T == {args \in Arguments : OK(At(args)) /\ Shown(At(args)) = Direct(old, args)}
<1>1. old \in Arguments BY ShownType
<1>. HIDE DEF old
<1>2. OK(base) /\ Shown(base) = old BY <1>1, NewObjectIs
<1>3. base \in Objects BY <1>2 DEF OK
<1>4. \A x \in Objects, a \in Args : append_direct(x, a) \in Objects
  <2>. TAKE x \in Objects, a \in Args
  <2>1. PICK s \in Arguments : Flushed(x) = NewObject(s) BY FlushedType, Zenon
  <2>2. OK(append_direct(x, a)) BY <2>1, AppendDirectIs, Zenon
  <2>. QED BY <2>2, Zenon DEF OK
<1>5. step \in [Objects -> [Args -> Objects]] BY <1>4
<1>6. \A x \in Objects, a \in Args : step[x][a] = append_direct(x, a) BY Zenon
<1>7. \A args : At(args) = Fold(step, base, args)
  <2>1. Flushed(o) = base BY FlushedIs DEF old
  <2>. HIDE DEF base
  <2>. QED BY <2>1 DEF extend_direct
<1>. HIDE DEF base, step, At
<1>8. \A args \in Arguments : Loops(step, base, args, Args, Objects)
  <2>. TAKE args \in Arguments
  <2>. QED BY <1>3, <1>5, FoldIs, Zenon DEF Arguments
<1>9. <<>> \in T
  <2>1. At(<<>>) = base BY <1>7, <1>8, ArgumentsIs, Zenon DEF Loops
  <2>2. Direct(old, <<>>) = old BY <1>1, DirectIs, ArgumentsIs DEF DirectSteps
  <2>. QED BY <1>2, <2>1, <2>2, ArgumentsIs, Zenon
<1>10. ASSUME NEW s \in Arguments, s \in T, NEW a \in Args PROVE Append(s, a) \in T
  <2>1. At(s) \in Objects /\ At(Append(s, a)) = step[At(s)][a] BY <1>7, <1>8, Zenon DEF Loops
  <2>2. At(Append(s, a)) = append_direct(At(s), a) BY <1>6, <2>1, Zenon
  <2>3. OK(At(s)) /\ Shown(At(s)) = Direct(old, s) BY <1>10
  <2>4. DirectSteps(old, s) BY <1>1, DirectIs
  <2>5. Direct(old, s) \in Arguments BY <2>4, Zenon DEF DirectSteps
  <2>6. Flushed(At(s)) = NewObject(Direct(old, s)) BY <2>3, FlushedIs, Zenon
  <2>7. /\ OK(append_direct(At(s), a))
        /\ Shown(append_direct(At(s), a)) =
             IF a \in isabs THEN Plus(Direct(old, s), <<a>>) ELSE Append(Direct(old, s), a)
    BY <2>5, <2>6, AppendDirectIs, Zenon
  <2>8. Shown(append_direct(At(s), a)) = Direct(old, Append(s, a)) BY <2>4, <2>7, Zenon DEF DirectSteps
  <2>9. Append(s, a) \in Arguments BY ArgumentsIs
  <2>. QED BY <2>2, <2>7, <2>8, <2>9, Zenon
<1>. HIDE DEF T
<1>11. \A s \in Arguments : s \in T BY <1>9, <1>10, Induction
<1>. QED BY <1>11 DEF T, At, old

\* extend_preserving_lflags: the other arguments with +=, then the library flags as they are.
LEMMA ExtendLflagsIs ==
  ASSUME NEW o, OK(o), NEW args \in Arguments
  PROVE  /\ OK(extend_preserving_lflags(o, args))
         /\ Shown(extend_preserving_lflags(o, args)) =
              Direct(Plus(Shown(o), Filter(args, Args \ lflags)), Filter(args, lflags))
<1>. DEFINE f == Filter(args, Args \ lflags)
            g == Filter(args, lflags)
            r == iadd(o, f)
<1>1. f \in Arguments /\ g \in Arguments BY FilterIs DEF FilterSteps
<1>2. extend_preserving_lflags(o, args) = extend_direct(r, g) BY DEF extend_preserving_lflags
<1>. HIDE DEF f, g
<1>3. Extended(o, r, f) BY <1>1, IaddIs, Zenon
<1>. HIDE DEF r
<1>4. OK(r) /\ Shown(r) = Plus(Shown(o), f) BY <1>3, Zenon DEF Extended
<1>5. OK(extend_direct(r, g)) /\ Shown(extend_direct(r, g)) = Direct(Shown(r), g) BY <1>1, <1>4, ExtendDirectIs, Zenon
<1>. QED BY <1>2, <1>4, <1>5, Zenon DEF f, g


-----------------------------------------------------------------------------
(* The operations by index *)

\* What the operations by index make of a list.
LEMMA IndexOperations ==
  ASSUME NEW s \in Arguments
  PROVE  /\ \A i \in 1..Len(s) + 1, a \in Args : InsertAt(s, i, a) \in Arguments
         /\ \A i \in 1..Len(s) : RemoveAt(s, i) \in Arguments
         /\ \A i \in 1..Len(s), a \in Args : [s EXCEPT ![i] = a] \in Arguments
<1>1. Len(s) \in Nat /\ s \in Seq(Args) BY ArgumentsIs DEF Arguments
<1>2. ASSUME NEW i \in 1..Len(s) + 1, NEW a \in Args PROVE InsertAt(s, i, a) \in Arguments
  <2>1. SubSeq(s, 1, i - 1) \in Seq(Args) BY <1>1
  <2>2. SubSeq(s, i, Len(s)) \in Seq(Args) BY <1>1
  <2>3. <<a>> \in Seq(Args) OBVIOUS
  <2>. QED BY <2>1, <2>2, <2>3, ListConcat DEF InsertAt, Arguments
<1>3. ASSUME NEW i \in 1..Len(s) PROVE RemoveAt(s, i) \in Arguments
  <2>1. SubSeq(s, 1, i - 1) \in Seq(Args) BY <1>1
  <2>2. SubSeq(s, i + 1, Len(s)) \in Seq(Args) BY <1>1
  <2>. QED BY <2>1, <2>2, ListConcat DEF RemoveAt, Arguments
<1>4. ASSUME NEW i \in 1..Len(s), NEW a \in Args PROVE [s EXCEPT ![i] = a] \in Arguments
  BY <1>1 DEF Arguments
<1>. QED BY <1>2, <1>3, <1>4

-----------------------------------------------------------------------------
(* The steps *)

\* The state after Become.
LEMMA BecomeIs ==
  ASSUME NEW o, OK(o), Become(o)
  PROVE  OK(Object)' /\ View' = Shown(o)
<1>1. o = [container |-> o.container, pre |-> o.pre, post |-> o.post, check |-> o.check] BY DEF OK, Objects
<1>2. Object' = o BY <1>1 DEF Become, Object
<1>3. OK(Object') BY <1>2, Zenon
<1>4. Flushed(o) = NewObject(Shown(o)) BY FlushedIs
<1>5. Flushed(Object').container = Shown(o)
  <2>1. Shown(o) \in Arguments BY ShownType
  <2>2. Flushed(Object') = NewObject(Shown(o)) BY <1>2, <1>4, Zenon
  <2>. QED BY <2>1, <2>2, NewObjectIs
<1>. QED BY <1>3, <1>5 DEF View, OK

\* The list that a read would show.
LEMMA ViewIs == ASSUME OK(Object) PROVE View = Shown(Object) /\ View \in Arguments
<1>. DEFINE o == Object
<1>1. OK(o) OBVIOUS
<1>2. View = Flushed(o).container BY DEF View
<1>. HIDE DEF o
<1>3. Shown(o) \in Arguments /\ Flushed(o) = NewObject(Shown(o)) BY <1>1, ShownType, FlushedIs
<1>4. Flushed(o).container = Shown(o) BY <1>3, NewObjectIs
<1>. QED BY <1>2, <1>3, <1>4 DEF o

\* Added is a set of lists of arguments.
LEMMA AddedIs == Added \subseteq Arguments
<1>. SUFFICES ASSUME NEW s \in Added PROVE s \in Arguments
  OBVIOUS
<1>1. PICK n \in 0..MaxAdded : s \in [1..n -> Args] BY DEF Added
<1>2. n \in Nat BY BoundsAssumption
<1>. QED BY <1>1, <1>2 DEF Arguments


\* The operators of the instance of ArgList are the ones of CompilerArgs.
LEMMA EagerIs ==
  /\ Eager!Arguments = Arguments
  /\ \A s, t : Eager!Filter(s, t) = Filter(s, t) /\ Eager!Plus(s, t) = Plus(s, t) /\ Eager!Direct(s, t) = Direct(s, t)
  /\ \A s, i : Eager!RemoveAt(s, i) = RemoveAt(s, i) /\ \A a : Eager!InsertAt(s, i, a) = InsertAt(s, i, a)
<1>1. Eager!Arguments = Arguments BY DEF Eager!Arguments, Arguments
<1>2. Eager!Unique = Unique /\ Eager!Overriding = Overriding /\ Eager!Prepended = Prepended
  BY DEF Eager!Unique, Eager!Overriding, Eager!Prepended, Unique, Overriding, Prepended
<1>3. \A f, b, s : Eager!Fold(f, b, s) = Fold(f, b, s) BY DEF Eager!Fold, Fold
<1>4. \A s : Eager!Elements(s) = Elements(s) /\ Eager!Reverse(s) = Reverse(s)
  BY DEF Eager!Elements, Elements, Eager!Reverse, Reverse
<1>5. \A s, S : Eager!Filter(s, S) = Filter(s, S) BY <1>1, <1>3, Zenon DEF Eager!Filter, Filter
<1>6. \A s : Eager!KeepFirst(s) = KeepFirst(s)
  BY DEF Eager!KeepFirst, KeepFirst, Eager!Arguments, Arguments, Eager!Overriding, Overriding, Eager!Elements, Elements,
         Eager!Fold, Fold
<1>7. \A s : Eager!KeepLast(s) = KeepLast(s) BY <1>4, <1>6, Zenon DEF Eager!KeepLast, KeepLast
<1>8. \A s, t : Eager!New(s, t) = New(s, t)
  BY DEF Eager!New, New, Eager!Arguments, Arguments, Eager!Unique, Unique, Eager!Prepended, Prepended,
         Eager!Elements, Elements, Eager!Fold, Fold
<1>9. \A s, t : Eager!Plus(s, t) = Plus(s, t)
  BY <1>2, <1>4, <1>5, <1>6, <1>7, <1>8, Zenon DEF Eager!Plus, Plus
<1>10. \A s, t : Eager!Direct(s, t) = Direct(s, t)
  <2>. TAKE s, t
  <2>1. [l \in Eager!Arguments |-> [a \in Args |-> IF a \in isabs THEN Eager!Plus(l, <<a>>) ELSE Append(l, a)]]
          = [l \in Arguments |-> [a \in Args |-> IF a \in isabs THEN Plus(l, <<a>>) ELSE Append(l, a)]]
    BY <1>1, <1>9, Zenon
  <2>. QED BY <1>3, <2>1, Zenon DEF Eager!Direct, Direct
<1>11. \A s, i : Eager!RemoveAt(s, i) = RemoveAt(s, i) /\ \A a : Eager!InsertAt(s, i, a) = InsertAt(s, i, a)
  BY DEF Eager!RemoveAt, RemoveAt, Eager!InsertAt, InsertAt
<1>. QED BY <1>1, <1>5, <1>9, <1>10, <1>11, Zenon

\* A step of ArgList, or none.
EagerStep == op' \in Eager!Operation /\ View' = Eager!Result(op')

\* An operation that adds args.
LEMMA ExtendStep ==
  ASSUME OK(Object), NEW args \in Added, Extend(args)
  PROVE  OK(Object)' /\ EagerStep /\ op'.args = args /\ (op'.name = "iadd" => View' = Plus(View, args))
<1>. DEFINE o == Object
<1>0. OK(o) /\ args \in Arguments BY AddedIs
<1>1. View = Shown(o) /\ View \in Arguments BY ViewIs
<1>. HIDE DEF o
<1>2. ASSUME NEW name \in {"iadd", "radd", "extend_direct", "extend_preserving_lflags"}, Asked(name, args, 0)
      PROVE  op' \in Eager!Operation /\ op'.name = name /\ op'.args = args
  <2>1. op' = [name |-> name, args |-> args, i |-> 0] BY <1>2 DEF Asked
  <2>2. op' \in [name : {"iadd", "radd", "extend_direct", "extend_preserving_lflags"}, args : Arguments, i : {0}]
    BY <1>0, <2>1
  <2>3. Eager!Arguments = Arguments BY EagerIs
  <2>4. op'.name = name /\ op'.args = args BY <2>1
  <2>. QED BY <2>2, <2>3, <2>4, Zenon DEF Eager!Operation
<1>3. CASE Become(iadd(o, args)) /\ Asked("iadd", args, 0)
  <2>1. op' \in Eager!Operation /\ op'.name = "iadd" /\ op'.args = args BY <1>2, <1>3
  <2>2. Extended(o, iadd(o, args), args) BY <1>0, IaddIs, Zenon
  <2>3. OK(Object)' /\ View' = Plus(View, args) BY <1>1, <1>3, <2>2, BecomeIs, Zenon DEF Extended
  <2>4. Eager!Result(op') = Eager!Plus(View, op'.args) BY <2>1 DEF Eager!Result
  <2>5. Eager!Plus(View, op'.args) = Plus(View, args) BY <2>1, EagerIs, Zenon
  <2>. QED BY <2>1, <2>3, <2>4, <2>5, Zenon DEF EagerStep
<1>4. CASE Become(radd(args, o)) /\ Asked("radd", args, 0)
  <2>1. op' \in Eager!Operation /\ op'.name = "radd" /\ op'.args = args BY <1>2, <1>4
  <2>2. OK(radd(args, o)) /\ Shown(radd(args, o)) = Plus(args, View) BY <1>0, <1>1, RaddIs, Zenon
  <2>3. OK(Object)' /\ View' = Plus(args, View) BY <1>4, <2>2, BecomeIs, Zenon
  <2>4. Eager!Result(op') = Eager!Plus(op'.args, View) BY <2>1 DEF Eager!Result
  <2>5. Eager!Plus(op'.args, View) = Plus(args, View) BY <2>1, EagerIs, Zenon
  <2>6. op'.name # "iadd" BY <2>1
  <2>. QED BY <2>1, <2>3, <2>4, <2>5, <2>6, Zenon DEF EagerStep
<1>5. CASE Become(extend_direct(o, args)) /\ Asked("extend_direct", args, 0)
  <2>1. op' \in Eager!Operation /\ op'.name = "extend_direct" /\ op'.args = args BY <1>2, <1>5
  <2>2. OK(extend_direct(o, args)) /\ Shown(extend_direct(o, args)) = Direct(View, args)
    BY <1>0, <1>1, ExtendDirectIs, Zenon
  <2>3. OK(Object)' /\ View' = Direct(View, args) BY <1>5, <2>2, BecomeIs, Zenon
  <2>4. Eager!Result(op') = Eager!Direct(View, op'.args) BY <2>1 DEF Eager!Result
  <2>5. Eager!Direct(View, op'.args) = Direct(View, args) BY <2>1, EagerIs, Zenon
  <2>6. op'.name # "iadd" BY <2>1
  <2>. QED BY <2>1, <2>3, <2>4, <2>5, <2>6, Zenon DEF EagerStep
<1>6. CASE Become(extend_preserving_lflags(o, args)) /\ Asked("extend_preserving_lflags", args, 0)
  <2>. DEFINE x == extend_preserving_lflags(o, args)
              v == Direct(Plus(View, Filter(args, Args \ lflags)), Filter(args, lflags))
  <2>1. op' \in Eager!Operation /\ op'.name = "extend_preserving_lflags" /\ op'.args = args BY <1>2, <1>6
  <2>2. OK(x) /\ Shown(x) = v BY <1>0, <1>1, ExtendLflagsIs, Zenon
  <2>3. OK(Object)' /\ View' = v
    <3>1. Become(x) BY <1>6
    <3>. HIDE DEF x, v
    <3>. QED BY <2>2, <3>1, BecomeIs, Zenon
  <2>4. Eager!Result(op') = Eager!Direct(Eager!Plus(View, Eager!Filter(op'.args, Args \ lflags)),
                                         Eager!Filter(op'.args, lflags))
    BY <2>1 DEF Eager!Result
  <2>5. Eager!Result(op') = v BY <2>1, <2>4, EagerIs, Zenon
  <2>6. op'.name # "iadd" BY <2>1
  <2>. QED BY <2>1, <2>3, <2>5, <2>6, Zenon DEF EagerStep
<1>. QED BY <1>3, <1>4, <1>5, <1>6 DEF Extend, o


-----------------------------------------------------------------------------
(* The copies of an argument *)

CopiesSteps(s, a) ==
  /\ Copies(s, a) \in Nat
  /\ Copies(<<>>, a) = 0
  /\ \A b \in Args : Copies(Append(s, b), a) = IF b = a THEN Copies(s, a) + 1 ELSE Copies(s, a)
  /\ Copies(Reverse(s), a) = Copies(s, a)
  /\ \A t \in Arguments : Copies(s \o t, a) = Copies(s, a) + Copies(t, a)

\* Counting copies, argument by argument.
LEMMA CopiesIs == ASSUME NEW s \in Arguments, NEW a \in Args PROVE CopiesSteps(s, a)
<1>. DEFINE f == Filter(s, {a})
<1>1. FilterSteps(s, {a}) BY FilterIs
<1>2. f \in Arguments /\ Filter(<<>>, {a}) = <<>>
      /\ \A b \in Args : Filter(Append(s, b), {a}) = IF b = a THEN Append(f, b) ELSE f
  BY <1>1, Zenon DEF FilterSteps
<1>. HIDE DEF f
<1>3. Len(f) \in Nat /\ \A b \in Args : Len(Append(f, b)) = Len(f) + 1 BY <1>2, ListAppend, ListLength DEF Arguments
<1>4. Copies(s, a) = Len(f) /\ Copies(<<>>, a) = 0 BY <1>2 DEF Copies, f
<1>5. \A b \in Args : Copies(Append(s, b), a) = IF b = a THEN Copies(s, a) + 1 ELSE Copies(s, a)
  BY <1>2, <1>3, <1>4, Zenon DEF Copies
<1>6. Copies(Reverse(s), a) = Copies(s, a)
  <2>1. Filter(Reverse(s), {a}) = Reverse(f) BY FilterReverse DEF f
  <2>2. Len(Reverse(f)) = Len(f) BY <1>2, ReverseIs
  <2>. QED BY <1>4, <2>1, <2>2 DEF Copies
<1>7. \A t \in Arguments : Copies(s \o t, a) = Copies(s, a) + Copies(t, a)
  <2>. TAKE t \in Arguments
  <2>1. Filter(s \o t, {a}) = f \o Filter(t, {a}) BY FilterConcat DEF f
  <2>2. Filter(t, {a}) \in Arguments BY FilterIs DEF FilterSteps
  <2>3. Len(f \o Filter(t, {a})) = Len(f) + Len(Filter(t, {a})) BY <1>2, <2>2, Concat
  <2>. QED BY <1>4, <2>1, <2>3, Zenon DEF Copies
<1>. QED BY <1>3, <1>4, <1>5, <1>6, <1>7 DEF CopiesSteps

\* No copies, and the copies that filtering leaves.
LEMMA NoCopies ==
  ASSUME NEW s \in Arguments, NEW a \in Args
  PROVE  /\ Copies(s, a) = 0 <=> a \notin Elements(s)
         /\ \A S : Copies(Filter(s, S), a) = IF a \in S THEN Copies(s, a) ELSE 0
<1>. DEFINE f == Filter(s, {a})
<1>1. f \in Arguments /\ Elements(f) = Elements(s) \cap {a} BY FilterIs, FilterElements DEF FilterSteps
<1>2. Copies(s, a) = Len(f) BY DEF Copies
<1>. HIDE DEF f
<1>3. Len(f) = 0 <=> Elements(f) = {}
  <2>1. Len(f) \in Nat BY <1>1, ArgumentsIs
  <2>2. Len(f) = 0 => Elements(f) = {} BY <2>1 DEF Elements
  <2>3. Len(f) # 0 => f[1] \in Elements(f) BY <2>1 DEF Elements
  <2>. QED BY <2>2, <2>3
<1>4. ASSUME NEW S PROVE Copies(Filter(s, S), a) = IF a \in S THEN Copies(s, a) ELSE 0
  <2>1. Filter(Filter(s, S), {a}) = Filter(s, S \cap {a}) BY FilterTwice
  <2>2. CASE a \in S
    <3>1. S \cap {a} = {a} BY <2>2
    <3>. QED BY <2>1, <2>2, <3>1, Zenon DEF Copies
  <2>3. CASE a \notin S
    <3>1. S \cap {a} = {} BY <2>3
    <3>. DEFINE g == Filter(s, {})
    <3>2. g \in Arguments /\ Elements(g) = {} BY FilterIs, FilterElements DEF FilterSteps
    <3>. HIDE DEF g
    <3>3. Len(g) \in Nat BY <3>2, ArgumentsIs
    <3>4. Len(g) # 0 => g[1] \in Elements(g) BY <3>3 DEF Elements
    <3>5. Len(g) = 0 BY <3>2, <3>4
    <3>. QED BY <2>1, <2>3, <3>1, <3>5 DEF Copies, g
  <2>. QED BY <2>2, <2>3
<1>. QED BY <1>1, <1>2, <1>3, <1>4

\* KeepFirst leaves one copy of an overriding argument, and all of another.
LEMMA KeepFirstCopies ==
  ASSUME NEW a \in Args
  PROVE  \A s \in Arguments :
            Copies(KeepFirst(s), a) = IF a \notin Overriding THEN Copies(s, a) ELSE IF a \in Elements(s) THEN 1 ELSE 0
<1>. DEFINE Kept(s) == IF a \notin Overriding THEN Copies(s, a) ELSE IF a \in Elements(s) THEN 1 ELSE 0
            T == {s \in Arguments : Copies(KeepFirst(s), a) = Kept(s)}
<1>1. <<>> \in T
  <2>1. KeepFirst(<<>>) = <<>> BY KeepFirstIs, ArgumentsIs DEF KeepFirstSteps
  <2>2. Copies(<<>>, a) = 0 BY CopiesIs, ArgumentsIs DEF CopiesSteps
  <2>. QED BY <2>1, <2>2, ElementsIs, ArgumentsIs
<1>2. ASSUME NEW s \in Arguments, s \in T, NEW b \in Args PROVE Append(s, b) \in T
  <2>. DEFINE f == KeepFirst(s)
              t == Append(s, b)
              g == KeepFirst(t)
  <2>1. f \in Arguments /\ g = IF b \in Overriding /\ b \in Elements(f) THEN f ELSE Append(f, b)
    <3>1. KeepFirstSteps(s) BY KeepFirstIs
    <3>. QED BY <3>1 DEF KeepFirstSteps
  <2>2. Elements(f) = Elements(s) /\ Elements(t) = Elements(s) \union {b} /\ t \in Arguments
    BY KeepFirstElements, ElementsIs, ArgumentsIs
  <2>3. Copies(f, a) = Kept(s) BY <1>2
  <2>. HIDE DEF f, g
  <2>4. Copies(Append(f, b), a) = IF b = a THEN Copies(f, a) + 1 ELSE Copies(f, a)
    BY <2>1, CopiesIs DEF CopiesSteps
  <2>5. Copies(t, a) = IF b = a THEN Copies(s, a) + 1 ELSE Copies(s, a) BY CopiesIs DEF CopiesSteps
  <2>. HIDE DEF t
  <2>6. Copies(g, a) = Kept(t)
    <3>1. CASE b # a BY <2>1, <2>2, <2>3, <2>4, <2>5, <3>1
    <3>2. CASE b = a /\ a \notin Overriding BY <2>1, <2>2, <2>3, <2>4, <2>5, <3>2
    <3>3. CASE b = a /\ a \in Overriding BY <2>1, <2>2, <2>3, <2>4, <2>5, <3>3
    <3>. QED BY <3>1, <3>2, <3>3
  <2>. QED BY <2>2, <2>6 DEF g, t
<1>. HIDE DEF T
<1>3. \A s \in Arguments : s \in T BY <1>1, <1>2, Induction
<1>. QED BY <1>3 DEF T

\* KeepLast likewise.
LEMMA KeepLastCopies ==
  ASSUME NEW a \in Args, NEW s \in Arguments
  PROVE  Copies(KeepLast(s), a) = IF a \notin Overriding THEN Copies(s, a) ELSE IF a \in Elements(s) THEN 1 ELSE 0
<1>. DEFINE r == Reverse(s)
            k == KeepFirst(r)
<1>1. r \in Arguments /\ Elements(r) = Elements(s) BY ReverseIs, ReverseProperties
<1>2. Copies(r, a) = Copies(s, a) BY CopiesIs DEF CopiesSteps
<1>3. k \in Arguments BY <1>1, KeepFirstIs DEF KeepFirstSteps
<1>4. KeepLast(s) = Reverse(k) BY DEF KeepLast
<1>. HIDE DEF r
<1>5. Copies(k, a) = IF a \notin Overriding THEN Copies(r, a) ELSE IF a \in Elements(r) THEN 1 ELSE 0
  BY <1>1, KeepFirstCopies
<1>. HIDE DEF k
<1>6. Copies(Reverse(k), a) = Copies(k, a) BY <1>3, CopiesIs DEF CopiesSteps
<1>. QED BY <1>1, <1>2, <1>4, <1>5, <1>6

Fresh(old, s, a) ==
  /\ a \in Unique /\ a \in Elements(old) => Copies(New(old, s), a) = 0
  /\ a \notin Unique \/ a \notin Elements(old) => (a \in Elements(New(old, s)) <=> a \in Elements(s))
  /\ a \in Unique \ Prepended => Copies(New(old, s), a) \in {0, 1}
  /\ Len(New(old, s)) <= Len(s)

\* What New keeps: the arguments but for the UNIQUE ones that were there, and one copy of a UNIQUE
\* one that is not prepended.
LEMMA NewCopies == ASSUME NEW old, NEW a \in Args PROVE \A s \in Arguments : Fresh(old, s, a)
<1>. DEFINE T == {s \in Arguments : Fresh(old, s, a)}
<1>1. <<>> \in T
  <2>1. New(old, <<>>) = <<>> BY NewIs, ArgumentsIs DEF NewSteps
  <2>2. Copies(<<>>, a) = 0 BY CopiesIs, ArgumentsIs DEF CopiesSteps
  <2>. QED BY <2>1, <2>2, ElementsIs, ArgumentsIs DEF Fresh
<1>2. ASSUME NEW s \in Arguments, s \in T, NEW b \in Args PROVE Append(s, b) \in T
  <2>. DEFINE n == New(old, s)
              t == Append(s, b)
              m == New(old, t)
  <2>1. n \in Arguments /\ m = IF b \in Unique /\ b \in Elements(old) \union (Elements(n) \ Prepended) THEN n ELSE Append(n, b)
    <3>1. NewSteps(old, s) BY NewIs
    <3>. QED BY <3>1, Zenon DEF NewSteps
  <2>2. Fresh(old, s, a) BY <1>2
  <2>3. /\ a \in Unique /\ a \in Elements(old) => Copies(n, a) = 0
        /\ a \notin Unique \/ a \notin Elements(old) => (a \in Elements(n) <=> a \in Elements(s))
        /\ a \in Unique \ Prepended => Copies(n, a) \in {0, 1}
        /\ Len(n) <= Len(s)
    BY <2>2, Zenon DEF Fresh
  <2>4. Elements(t) = Elements(s) \union {b} /\ t \in Arguments BY ElementsIs, ArgumentsIs
  <2>. HIDE DEF n, m
  <2>5. Elements(Append(n, b)) = Elements(n) \union {b} BY <2>1, ElementsIs
  <2>6. Copies(Append(n, b), a) = IF b = a THEN Copies(n, a) + 1 ELSE Copies(n, a)
    BY <2>1, CopiesIs DEF CopiesSteps
  <2>7. Copies(n, a) = 0 <=> a \notin Elements(n) BY <2>1, NoCopies
  <2>8. Len(m) <= Len(t)
    <3>1. Len(t) = Len(s) + 1 /\ Len(Append(n, b)) = Len(n) + 1 /\ Len(s) \in Nat /\ Len(n) \in Nat
      BY <2>1, ListAppend, ListLength DEF Arguments
    <3>. QED BY <2>1, <2>3, <3>1
  <2>. HIDE DEF t
  <2>9. /\ a \in Unique /\ a \in Elements(old) => Copies(m, a) = 0
        /\ a \in Unique \ Prepended => Copies(m, a) \in {0, 1}
    <3>1. CASE b # a BY <2>1, <2>3, <2>4, <2>6, <3>1
    <3>2. CASE b = a BY <2>1, <2>3, <2>4, <2>6, <2>7, <3>2
    <3>. QED BY <3>1, <3>2
  <2>10. a \notin Unique \/ a \notin Elements(old) => (a \in Elements(m) <=> a \in Elements(t))
    BY <2>1, <2>3, <2>4, <2>5
  <2>. QED BY <2>4, <2>8, <2>9, <2>10 DEF Fresh, m, t
<1>. HIDE DEF T
<1>3. \A s \in Arguments : s \in T BY <1>1, <1>2, Induction
<1>. QED BY <1>3 DEF T


\* What NewestWins says of a list after args were added.
Newest(v, args) ==
  \A a \in Elements(args) :
     /\ a \in Elements(v)
     /\ a \in Overriding =>
          /\ Copies(v, a) = 1
          /\ \E i \in 1..Len(v) :
               v[i] = a /\ IF a \in Prepended THEN i <= Len(args) ELSE i > Len(v) - Len(args)

\* No second copy of a UNIQUE argument.
NoSecond(old, v, args) ==
  \A a \in Elements(args) :
     a \in Unique => IF a \in Elements(old) THEN Copies(v, a) = Copies(old, a)
                     ELSE a \notin Prepended => Copies(v, a) = 1

AtEnds(f, g, v, a) ==
  /\ a \in Elements(f) => \E i \in 1..Len(v) : v[i] = a /\ i <= Len(f)
  /\ a \in Elements(g) => \E i \in 1..Len(v) : v[i] = a /\ i > Len(v) - Len(g)

\* An element of one of three lists is found in their concatenation.
LEMMA ConcatPosition ==
  ASSUME NEW f \in Arguments, NEW m \in Arguments, NEW g \in Arguments, NEW a
  PROVE  AtEnds(f, g, (f \o m) \o g, a)
<1>. DEFINE u == f \o m
            v == u \o g
<1>1. /\ u \in Arguments /\ Len(u) = Len(f) + Len(m) /\ Len(f) \in Nat /\ Len(m) \in Nat /\ Len(g) \in Nat
      /\ \A i \in 1..Len(f) + Len(m) : u[i] = IF i <= Len(f) THEN f[i] ELSE m[i - Len(f)]
  BY ListConcat, ListLength DEF Arguments
<1>. HIDE DEF u
<1>2. /\ Len(v) = Len(u) + Len(g)
      /\ \A i \in 1..Len(u) + Len(g) : v[i] = IF i <= Len(u) THEN u[i] ELSE g[i - Len(u)]
  <2>1. u \in Seq(Args) /\ g \in Seq(Args) BY <1>1 DEF Arguments
  <2>. QED BY <2>1, ListConcat
<1>. HIDE DEF v
<1>3. ASSUME a \in Elements(f) PROVE \E i \in 1..Len(v) : v[i] = a /\ i <= Len(f)
  <2>1. PICK i \in 1..Len(f) : f[i] = a BY <1>3 DEF Elements
  <2>2. i \in 1..Len(v) /\ i <= Len(u) /\ i <= Len(f) BY <1>1, <1>2
  <2>3. v[i] = u[i] /\ u[i] = f[i] BY <1>1, <1>2, <2>2
  <2>. QED BY <2>1, <2>2, <2>3
<1>4. ASSUME a \in Elements(g) PROVE \E i \in 1..Len(v) : v[i] = a /\ i > Len(v) - Len(g)
  <2>1. PICK j \in 1..Len(g) : g[j] = a BY <1>4 DEF Elements
  <2>. DEFINE i == Len(u) + j
  <2>2. i \in 1..Len(v) /\ ~(i <= Len(u)) /\ i - Len(u) = j /\ i > Len(v) - Len(g) BY <1>1, <1>2
  <2>. HIDE DEF i
  <2>3. v[i] = g[j] BY <1>1, <1>2, <2>2
  <2>. QED BY <2>1, <2>2, <2>3
<1>. QED BY <1>3, <1>4 DEF AtEnds, v, u

\* `+=` leaves the newest arguments where they belong, and no second copy of a UNIQUE one.
LEMMA PlusNewest ==
  ASSUME NEW old \in Arguments, NEW args \in Arguments
  PROVE  Newest(Plus(old, args), args) /\ NoSecond(old, Plus(old, args), args)
<1>. DEFINE n == New(old, args)
            F == Filter(n, Prepended)
            G == Filter(n, Args \ Prepended)
            f == KeepFirst(F)
            m == Filter(old, Args \ (Overriding \cap Elements(n)))
            g == KeepLast(G)
            v == (f \o m) \o g
<1>1. Plus(old, args) = v BY DEF Plus
<1>2. n \in Arguments /\ Elements(n) \subseteq Args
  <2>1. NewSteps(old, args) BY NewIs
  <2>2. n \in Arguments BY <2>1, Zenon DEF NewSteps
  <2>. HIDE DEF n
  <2>. QED BY <2>2, ElementsIs
<1>. HIDE DEF n
<1>3. F \in Arguments /\ G \in Arguments BY <1>2, FilterIs DEF FilterSteps
<1>4. /\ Elements(F) = Elements(n) \cap Prepended /\ Elements(G) = Elements(n) \cap (Args \ Prepended)
      /\ Len(F) <= Len(n) /\ Len(G) <= Len(n)
  BY <1>2, FilterElements
<1>5. m \in Arguments /\ Elements(m) = Elements(old) \cap (Args \ (Overriding \cap Elements(n)))
  BY FilterIs, FilterElements DEF FilterSteps
<1>. HIDE DEF F, G
<1>6. f \in Arguments /\ Elements(f) = Elements(F) /\ Len(f) <= Len(F)
  BY <1>3, KeepFirstIs, KeepFirstElements DEF KeepFirstSteps
<1>7. g \in Arguments /\ Elements(g) = Elements(G) /\ Len(g) <= Len(G) BY <1>3, KeepLastElements
<1>8. ASSUME NEW a \in Args PROVE Copies(v, a) = (Copies(f, a) + Copies(m, a)) + Copies(g, a)
  <2>. HIDE DEF f, m, g
  <2>1. f \o m \in Arguments BY <1>5, <1>6, ArgumentsIs
  <2>2. CopiesSteps(f, a) /\ CopiesSteps(f \o m, a) BY <1>6, <2>1, CopiesIs
  <2>3. Copies(f \o m, a) = Copies(f, a) + Copies(m, a) BY <1>5, <2>2, Zenon DEF CopiesSteps
  <2>4. Copies((f \o m) \o g, a) = Copies(f \o m, a) + Copies(g, a) BY <1>7, <2>2, Zenon DEF CopiesSteps
  <2>. QED BY <2>3, <2>4, Zenon
<1>9. Elements(v) = (Elements(f) \union Elements(m)) \union Elements(g)
  <2>. HIDE DEF f, m, g
  <2>1. f \o m \in Arguments BY <1>5, <1>6, ArgumentsIs
  <2>. QED BY <1>5, <1>6, <1>7, <2>1, ElementsIs
<1>10. \A a \in Args :
         /\ Copies(f, a) = IF a \notin Overriding THEN Copies(F, a) ELSE IF a \in Elements(F) THEN 1 ELSE 0
         /\ Copies(g, a) = IF a \notin Overriding THEN Copies(G, a) ELSE IF a \in Elements(G) THEN 1 ELSE 0
  BY <1>3, KeepFirstCopies, KeepLastCopies, Zenon
<1>11. \A a \in Args :
         /\ Copies(F, a) = IF a \in Prepended THEN Copies(n, a) ELSE 0
         /\ Copies(G, a) = IF a \in Args \ Prepended THEN Copies(n, a) ELSE 0
         /\ Copies(m, a) = IF a \in Args \ (Overriding \cap Elements(n)) THEN Copies(old, a) ELSE 0
  BY <1>2, NoCopies DEF F, G
<1>12. \A a \in Args : (Copies(n, a) = 0 <=> a \notin Elements(n)) /\ (Copies(old, a) = 0 <=> a \notin Elements(old))
  BY <1>2, NoCopies
<1>13. \A a \in Args : Fresh(old, args, a) BY NewCopies
<1>14. Len(args) \in Nat /\ Len(n) \in Nat /\ Len(f) \in Nat /\ Len(g) \in Nat /\ Len(F) \in Nat /\ Len(G) \in Nat
       /\ Len(v) \in Nat
  <2>. HIDE DEF f, m, g
  <2>1. (f \o m) \o g \in Arguments BY <1>5, <1>6, <1>7, ArgumentsIs
  <2>. QED BY <1>2, <1>3, <1>6, <1>7, <2>1, ArgumentsIs
<1>15. \A a : AtEnds(f, g, v, a)
  <2>. HIDE DEF f, m, g
  <2>1. f \in Arguments /\ m \in Arguments /\ g \in Arguments BY <1>5, <1>6, <1>7
  <2>. QED BY <2>1, ConcatPosition, Zenon
<1>. HIDE DEF f, m, g, v
<1>16. ASSUME NEW a \in Elements(args), a \in Args
       PROVE  /\ a \in Elements(v)
              /\ a \in Overriding =>
                   /\ Copies(v, a) = 1
                   /\ \E i \in 1..Len(v) :
                        v[i] = a /\ IF a \in Prepended THEN i <= Len(args) ELSE i > Len(v) - Len(args)
              /\ a \in Unique => IF a \in Elements(old) THEN Copies(v, a) = Copies(old, a)
                                 ELSE a \notin Prepended => Copies(v, a) = 1
  <2>0. a \in Args BY <1>16
  <2>1. /\ a \in Unique /\ a \in Elements(old) => Copies(n, a) = 0
        /\ a \notin Unique \/ a \notin Elements(old) => (a \in Elements(n) <=> a \in Elements(args))
        /\ a \in Unique \ Prepended => Copies(n, a) \in {0, 1}
        /\ Len(n) <= Len(args)
    <3>1. Fresh(old, args, a) BY <1>13, <2>0
    <3>. QED BY <3>1, Zenon DEF Fresh, n
  <2>2. Copies(v, a) = (Copies(f, a) + Copies(m, a)) + Copies(g, a) BY <1>8, <2>0
  <2>3. a \in Unique => a \notin Overriding BY <2>0 DEF Unique, Overriding
  <2>4. Copies(old, a) \in Nat /\ Copies(n, a) \in Nat BY <1>2, <2>0, CopiesIs DEF CopiesSteps
  <2>5. CASE a \in Unique
    <3>1. Copies(m, a) = Copies(old, a) /\ Copies(f, a) + Copies(g, a) = Copies(n, a)
      <4>1. CASE a \in Prepended BY <1>10, <1>11, <2>0, <2>3, <2>4, <2>5, <4>1
      <4>2. CASE a \notin Prepended BY <1>10, <1>11, <2>0, <2>3, <2>4, <2>5, <4>2
      <4>. QED BY <4>1, <4>2
    <3>2. Copies(f, a) \in Nat /\ Copies(g, a) \in Nat BY <1>6, <1>7, <2>0, CopiesIs DEF CopiesSteps
    <3>3. Copies(v, a) = Copies(n, a) + Copies(old, a) BY <2>2, <2>4, <3>1, <3>2
    <3>4. CASE a \in Elements(old)
      <4>1. Copies(v, a) = Copies(old, a) BY <2>1, <2>4, <2>5, <3>3, <3>4
      <4>2. a \in Elements(v) BY <1>5, <1>9, <2>0, <2>3, <2>5, <3>4
      <4>. QED BY <2>3, <2>5, <3>4, <4>1, <4>2
    <3>5. CASE a \notin Elements(old)
      <4>1. a \in Elements(n) BY <2>1, <3>5
      <4>2. a \in Elements(v) BY <1>4, <1>6, <1>7, <1>9, <2>0, <4>1
      <4>3. Copies(old, a) = 0 /\ Copies(n, a) # 0 BY <1>12, <2>0, <3>5, <4>1
      <4>4. a \notin Prepended => Copies(v, a) = 1 BY <2>1, <2>5, <3>3, <4>3
      <4>. QED BY <2>3, <2>5, <3>5, <4>2, <4>4
    <3>. QED BY <3>4, <3>5
  <2>6. CASE a \notin Unique
    <3>1. a \in Elements(n) BY <2>1, <2>6
    <3>2. a \in Elements(v) BY <1>4, <1>6, <1>7, <1>9, <2>0, <3>1
    <3>3. ASSUME a \in Overriding
          PROVE  /\ Copies(v, a) = 1
                 /\ \E i \in 1..Len(v) :
                      v[i] = a /\ IF a \in Prepended THEN i <= Len(args) ELSE i > Len(v) - Len(args)
      <4>1. Copies(m, a) = 0 BY <1>11, <2>0, <3>1, <3>3
      <4>2. CASE a \in Prepended
        <5>1. a \in Elements(F) /\ a \notin Elements(G) BY <1>4, <3>1, <4>2
        <5>2. Copies(v, a) = 1 BY <1>10, <2>0, <2>2, <3>3, <4>1, <5>1
        <5>3. PICK i \in 1..Len(v) : v[i] = a /\ i <= Len(f) BY <1>6, <1>15, <5>1 DEF AtEnds
        <5>4. i <= Len(args) BY <1>4, <1>6, <1>14, <2>1, <5>3
        <5>. QED BY <4>2, <5>2, <5>3, <5>4
      <4>3. CASE a \notin Prepended
        <5>1. a \in Elements(G) /\ a \notin Elements(F) BY <1>4, <2>0, <3>1, <4>3
        <5>2. Copies(v, a) = 1 BY <1>10, <2>0, <2>2, <3>3, <4>1, <5>1
        <5>3. PICK i \in 1..Len(v) : v[i] = a /\ i > Len(v) - Len(g) BY <1>7, <1>15, <5>1 DEF AtEnds
        <5>4. i > Len(v) - Len(args) BY <1>4, <1>7, <1>14, <2>1, <5>3
        <5>. QED BY <4>3, <5>2, <5>3, <5>4
      <4>. QED BY <4>2, <4>3
    <3>. QED BY <2>6, <3>2, <3>3
  <2>. QED BY <2>5, <2>6
<1>17. Elements(args) \subseteq Args BY ElementsIs
<1>18. Newest(v, args) /\ NoSecond(old, v, args) BY <1>16, <1>17 DEF Newest, NoSecond
<1>. QED BY <1>1, <1>18


-----------------------------------------------------------------------------
(* The theorems *)

\* flush_pre_post leaves what PendingOK says, and the list that a read shows.
LEMMA FlushStep == ASSUME OK(Object), flush_pre_post PROVE OK(Object)' /\ View' = View /\ op' = op
<1>. DEFINE r == NewObject(View)
<1>1. View = Shown(Object) /\ View \in Arguments BY ViewIs
<1>2. Flushed(Object) = r BY <1>1, FlushedIs
<1>3. OK(r) /\ Shown(r) = View BY <1>1, NewObjectIs, Zenon
<1>4. Become(r) /\ op' = op BY <1>2, Zenon DEF flush_pre_post
<1>. HIDE DEF r
<1>. QED BY <1>3, <1>4, BecomeIs, Zenon

\* An operation by index.
LEMMA IndexStep ==
  ASSUME OK(Object), NEW t \in Arguments, Become([Flushed(Object) EXCEPT !.container = t])
  PROVE  OK(Object)' /\ View' = t
<1>1. Flushed(Object) = NewObject(View) BY ViewIs, FlushedIs
<1>2. [Flushed(Object) EXCEPT !.container = t] = NewObject(t) BY <1>1, NewContainer, Zenon
<1>3. OK(NewObject(t)) /\ Shown(NewObject(t)) = t BY NewObjectIs
<1>4. Become(NewObject(t)) BY <1>2, Zenon
<1>. QED BY <1>3, <1>4, BecomeIs, Zenon

\* What flush_pre_post leaves as the list.
LEMMA FlushedContainer == ASSUME OK(Object) PROVE Flushed(Object).container = View
BY DEF View

\* insert is a step of ArgList.
LEMMA InsertStep ==
  ASSUME OK(Object), NEW i \in 1..Len(View) + 1, NEW a \in Args, insert(i, a)
  PROVE  OK(Object)' /\ EagerStep /\ op'.name = "insert"
<1>1. View \in Arguments BY ViewIs
<1>2. InsertAt(View, i, a) \in Arguments
  <2>. DEFINE v == View
  <2>1. v \in Arguments /\ i \in 1..Len(v) + 1 BY <1>1
  <2>. HIDE DEF v
  <2>2. InsertAt(v, i, a) \in Arguments BY <2>1, IndexOperations
  <2>. QED BY <2>2 DEF v
<1>3. Become([Flushed(Object) EXCEPT !.container = InsertAt(View, i, a)])
  BY FlushedContainer DEF insert
<1>4. OK(Object)' /\ View' = InsertAt(View, i, a) BY <1>2, <1>3, IndexStep, Zenon
<1>5. op' = [name |-> "insert", args |-> <<a>>, i |-> i] BY DEF insert, Asked
<1>6. op'.name = "insert" /\ op'.args = <<a>> /\ op'.i = i /\ op'.args[1] = a BY <1>5
<1>7. op' \in Eager!Operation
  <2>1. op' \in [name : {"insert"}, args : {<<b>> : b \in Args}, i : 1..Len(View) + 1] BY <1>5
  <2>. QED BY <2>1, Zenon DEF Eager!Operation
<1>8. Eager!Result(op') = Eager!InsertAt(View, op'.i, op'.args[1]) BY <1>6 DEF Eager!Result
<1>9. Eager!Result(op') = InsertAt(View, i, a) BY <1>6, <1>8, EagerIs, Zenon
<1>. QED BY <1>4, <1>6, <1>7, <1>9, Zenon DEF EagerStep

\* Writing an element is a step of ArgList.
LEMMA SetitemStep ==
  ASSUME OK(Object), NEW i \in 1..Len(View), NEW a \in Args, setitem(i, a)
  PROVE  OK(Object)' /\ EagerStep /\ op'.name = "setitem"
<1>1. View \in Arguments BY ViewIs
<1>2. [View EXCEPT ![i] = a] \in Arguments
  <2>. DEFINE v == View
  <2>1. v \in Arguments /\ i \in 1..Len(v) BY <1>1
  <2>. HIDE DEF v
  <2>2. [v EXCEPT ![i] = a] \in Arguments BY <2>1, IndexOperations
  <2>. QED BY <2>2 DEF v
<1>3. Become([Flushed(Object) EXCEPT !.container = [View EXCEPT ![i] = a]])
  BY FlushedContainer, Zenon DEF setitem
<1>4. OK(Object)' /\ View' = [View EXCEPT ![i] = a] BY <1>2, <1>3, IndexStep, Zenon
<1>5. op' = [name |-> "setitem", args |-> <<a>>, i |-> i] BY DEF setitem, Asked
<1>6. op'.name = "setitem" /\ op'.args = <<a>> /\ op'.i = i /\ op'.args[1] = a BY <1>5
<1>7. op' \in Eager!Operation
  <2>1. op' \in [name : {"setitem"}, args : {<<b>> : b \in Args}, i : 1..Len(View)] BY <1>5
  <2>. QED BY <2>1, Zenon DEF Eager!Operation
<1>8. Eager!Result(op') = [View EXCEPT ![op'.i] = op'.args[1]] BY <1>6 DEF Eager!Result
<1>9. Eager!Result(op') = [View EXCEPT ![i] = a] BY <1>6, <1>8, Zenon
<1>. QED BY <1>4, <1>6, <1>7, <1>9, Zenon DEF EagerStep

\* Deleting an element is a step of ArgList.
LEMMA DelitemStep ==
  ASSUME OK(Object), NEW i \in 1..Len(View), delitem(i)
  PROVE  OK(Object)' /\ EagerStep /\ op'.name = "delitem"
<1>1. View \in Arguments BY ViewIs
<1>2. RemoveAt(View, i) \in Arguments
  <2>. DEFINE v == View
  <2>1. v \in Arguments /\ i \in 1..Len(v) BY <1>1
  <2>. HIDE DEF v
  <2>2. RemoveAt(v, i) \in Arguments BY <2>1, IndexOperations
  <2>. QED BY <2>2 DEF v
<1>3. Become([Flushed(Object) EXCEPT !.container = RemoveAt(View, i)])
  BY FlushedContainer DEF delitem
<1>4. OK(Object)' /\ View' = RemoveAt(View, i) BY <1>2, <1>3, IndexStep, Zenon
<1>5. op' = [name |-> "delitem", args |-> <<>>, i |-> i] BY DEF delitem, Asked
<1>6. op'.name = "delitem" /\ op'.i = i BY <1>5
<1>7. op' \in Eager!Operation
  <2>1. op' \in [name : {"delitem"}, args : {<<>>}, i : 1..Len(View)] BY <1>5
  <2>. QED BY <2>1, Zenon DEF Eager!Operation
<1>8. Eager!Result(op') = Eager!RemoveAt(View, op'.i) BY <1>6 DEF Eager!Result
<1>9. Eager!Result(op') = RemoveAt(View, i) BY <1>6, <1>8, EagerIs, Zenon
<1>. QED BY <1>4, <1>6, <1>7, <1>9, Zenon DEF EagerStep

\* A step shows the same list, or takes one step of ArgList.
StepIs ==
  \/ View' = View /\ op' = op
  \/ EagerStep /\ (op'.name = "iadd" => op'.args \in Arguments /\ View' = Plus(View, op'.args))

\* Every step keeps what PendingOK says, and is one of ArgList or none.
LEMMA NextStep == ASSUME OK(Object), [Next]_vars PROVE OK(Object)' /\ StepIs
<1>1. CASE flush_pre_post BY <1>1, FlushStep, Zenon DEF StepIs
<1>2. CASE \E args \in Added : Extend(args)
  <2>1. PICK args \in Added : Extend(args) BY <1>2
  <2>2. args \in Arguments BY AddedIs
  <2>. QED BY <2>1, <2>2, ExtendStep, Zenon DEF StepIs
<1>3. CASE \E i \in 1..Len(View) + 1, a \in Args : insert(i, a)
  <2>1. OK(Object)' /\ EagerStep /\ op'.name = "insert" BY <1>3, InsertStep, Zenon
  <2>2. op'.name # "iadd" BY <2>1
  <2>. QED BY <2>1, <2>2, Zenon DEF StepIs
<1>4. CASE \E i \in 1..Len(View), a \in Args : setitem(i, a)
  <2>1. OK(Object)' /\ EagerStep /\ op'.name = "setitem" BY <1>4, SetitemStep, Zenon
  <2>2. op'.name # "iadd" BY <2>1
  <2>. QED BY <2>1, <2>2, Zenon DEF StepIs
<1>5. CASE \E i \in 1..Len(View) : delitem(i)
  <2>1. OK(Object)' /\ EagerStep /\ op'.name = "delitem" BY <1>5, DelitemStep, Zenon
  <2>2. op'.name # "iadd" BY <2>1
  <2>. QED BY <2>1, <2>2, Zenon DEF StepIs
<1>6. CASE UNCHANGED vars
  <2>1. Object' = Object /\ op' = op BY <1>6 DEF vars, Object
  <2>2. OK(Object)' BY <2>1 DEF OK
  <2>3. View' = View BY <2>1 DEF View
  <2>. QED BY <2>1, <2>2, <2>3, Zenon DEF StepIs
<1>. QED BY <1>1, <1>2, <1>3, <1>4, <1>5, <1>6, Zenon DEF Next

\* The inductive invariant.
IInv == OK(Object) /\ (op.name = "iadd" => Newest(View, op.args))

\* It holds initially.
LEMMA InitIInv == Init => IInv
<1>. SUFFICES ASSUME Init PROVE IInv
  OBVIOUS
<1>1. Object = NewObject(<<>>) BY Zenon DEF Init, Object, NewObject
<1>2. OK(Object) BY <1>1, NewObjectIs, ArgumentsIs
<1>3. op.name # "iadd" BY DEF Init
<1>. QED BY <1>2, <1>3 DEF IInv

\* Every step keeps it, and an addition has no second copy of a UNIQUE argument.
LEMMA NextIInv ==
  IInv /\ [Next]_vars => IInv' /\ (op'.name = "iadd" => NoSecond(View, View', op'.args))
<1>. SUFFICES ASSUME IInv, [Next]_vars PROVE IInv' /\ (op'.name = "iadd" => NoSecond(View, View', op'.args))
  OBVIOUS
<1>1. OK(Object) BY DEF IInv
<1>2. OK(Object)' /\ StepIs BY <1>1, NextStep
<1>3. View \in Arguments BY <1>1, ViewIs
<1>. SUFFICES ASSUME op'.name = "iadd" PROVE Newest(View', op'.args) /\ NoSecond(View, View', op'.args)
  BY <1>2, Zenon DEF IInv, Newest
<1>4. CASE View' = View /\ op' = op
  <2>1. Newest(View, op.args) BY <1>4 DEF IInv
  <2>2. NoSecond(View, View, op.args) BY <2>1 DEF Newest, NoSecond
  <2>. QED BY <1>4, <2>1, <2>2, Zenon
<1>5. CASE op'.args \in Arguments /\ View' = Plus(View, op'.args)
  BY <1>3, <1>5, PlusNewest, Zenon
<1>. QED BY <1>2, <1>4, <1>5, Zenon DEF StepIs

\* The inductive invariant holds in every state.
LEMMA Invariance == Spec => []IInv
BY InitIInv, NextIInv, PTL DEF Spec

\* PendingOK for any arguments: the flag that lets flush_pre_post skip its search is up whenever pre
\* or post holds an argument that overrides others, each collected on the side where it belongs.
THEOREM FlagIsUp == Spec => []PendingOK
<1>1. IInv => PendingOK
  <2>. SUFFICES ASSUME IInv PROVE PendingOK
    OBVIOUS
  <2>. DEFINE o == Object
  <2>1. OK(o) BY DEF IInv
  <2>2. o.container = container /\ o.pre = pre /\ o.post = post /\ o.check = needs_override_check BY DEF Object
  <2>. HIDE DEF o
  <2>3. container \in Arguments /\ pre \in Arguments /\ post \in Arguments
    <3>1. o.container \in Arguments /\ o.pre \in Arguments /\ o.post \in Arguments BY <2>1 DEF OK, Objects
    <3>. QED BY <2>2, <3>1, Zenon
  <2>4. /\ Elements(pre) \subseteq Prepended /\ Elements(post) \cap Prepended = {}
        /\ Overriding \cap (Elements(pre) \union Elements(post)) # {} => needs_override_check
    BY <2>1, <2>2, Zenon DEF OK
  <2>5. pre \in Seq(Prepended)
    <3>1. Len(pre) \in Nat /\ pre \in [1..Len(pre) -> Args] BY <2>3, ListLength DEF Arguments
    <3>2. \A i \in 1..Len(pre) : pre[i] \in Prepended BY <2>4 DEF Elements
    <3>. QED BY <3>1, <3>2
  <2>6. post \in Seq(Args \ Prepended)
    <3>1. Len(post) \in Nat /\ post \in [1..Len(post) -> Args] BY <2>3, ListLength DEF Arguments
    <3>2. \A i \in 1..Len(post) : post[i] \in Args \ Prepended BY <2>4, <3>1 DEF Elements
    <3>. QED BY <3>1, <3>2
  <2>. QED BY <2>3, <2>4, <2>5, <2>6, Zenon DEF PendingOK, Arguments
<1>. QED BY <1>1, Invariance, PTL

\* CompilerArgs implements ArgList for any arguments: wherever the reads fall between the additions,
\* they show the list that merging every `+=` at once would have given.
THEOREM MergeMayWait == Spec => MergesAsIfAtOnce
<1>1. Init => Eager!Init
  <2>. SUFFICES ASSUME Init PROVE Eager!Init
    OBVIOUS
  <2>1. Object = NewObject(<<>>) BY Zenon DEF Init, Object, NewObject
  <2>2. OK(Object) /\ Shown(Object) = <<>> BY <2>1, NewObjectIs, ArgumentsIs
  <2>3. View = <<>> BY <2>2, ViewIs
  <2>. QED BY <2>3 DEF Init, Eager!Init, Eager!None
<1>2. IInv /\ [Next]_vars => [Eager!Next]_(Eager!vars)
  <2>. SUFFICES ASSUME IInv, [Next]_vars PROVE [Eager!Next]_(Eager!vars)
    OBVIOUS
  <2>1. StepIs BY NextStep DEF IInv
  <2>. QED BY <2>1, Zenon DEF StepIs, EagerStep, Eager!Next, Eager!vars
<1>. QED BY <1>1, <1>2, Invariance, PTL DEF Spec, MergesAsIfAtOnce, Eager!Spec

\* NewestWins for any arguments: after `+=` an overriding argument is in the list once, before all
\* that was there or after it, and a UNIQUE one that was there has got no second copy.
THEOREM NewestOverride == Spec => NewestWins
<1>. DEFINE Wins ==
      op'.name = "iadd" =>
        \A a \in Elements(op'.args) :
          /\ a \in Overriding =>
               /\ Copies(View', a) = 1
               /\ \E i \in 1..Len(View') :
                    /\ View'[i] = a
                    /\ IF a \in Prepended THEN i <= Len(op'.args) ELSE i > Len(View') - Len(op'.args)
          /\ a \in Unique => IF a \in Elements(View) THEN Copies(View', a) = Copies(View, a)
                             ELSE a \notin Prepended => Copies(View', a) = 1
<1>1. IInv /\ [Next]_vars => [Wins]_vars
  <2>. SUFFICES ASSUME IInv, [Next]_vars, op'.name = "iadd" PROVE Wins
    BY Zenon
  <2>1. IInv' /\ NoSecond(View, View', op'.args) BY NextIInv
  <2>2. Newest(View', op'.args) BY <2>1, Zenon DEF IInv, Newest
  <2>. QED BY <2>1, <2>2, Zenon DEF Newest, NoSecond
<1>2. NewestWins <=> [][Wins]_vars BY DEF NewestWins
<1>. QED BY <1>1, <1>2, Invariance, PTL DEF Spec
=============================================================================
