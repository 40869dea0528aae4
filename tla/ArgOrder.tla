------------------------------ MODULE ArgOrder ------------------------------
(***************************************************************************)
(* Lists of compiler arguments, and what mesonbuild/arglist.py promises of *)
(* the order in which additions leave them.  A loop over a list is Fold,   *)
(* its body a function of the loop's variable and the next argument.       *)
(***************************************************************************)
EXTENDS Naturals, Sequences

CONSTANTS
  Args,           \* compiler and linker arguments
  can_dedup,      \* Args -> {"NO_DEDUP", "UNIQUE", "OVERRIDDEN"}
  should_prepend, \* Args -> BOOLEAN
  isabs,          \* the absolute paths among Args
  lflags          \* the -l and -L among Args that may be repeated

ASSUME ArgsAssumption ==
  /\ can_dedup \in [Args -> {"NO_DEDUP", "UNIQUE", "OVERRIDDEN"}]
  /\ should_prepend \in [Args -> BOOLEAN]
  /\ isabs \subseteq Args /\ lflags \subseteq Args

Unique     == {a \in Args : can_dedup[a] = "UNIQUE"}
Overriding == {a \in Args : can_dedup[a] = "OVERRIDDEN"}
Prepended  == {a \in Args : should_prepend[a]}

Arguments == Seq(Args)

\* x after `for a in s: x = step[x][a]`, from x = base
Fold(step, base, s) ==
  LET x[i \in 0..Len(s)] == IF i = 0 THEN base ELSE step[x[i - 1]][s[i]]
  IN  x[Len(s)]

Elements(s) == {s[i] : i \in 1..Len(s)}

Reverse(s) == [i \in 1..Len(s) |-> s[Len(s) + 1 - i]]

InsertAt(s, i, a) == SubSeq(s, 1, i - 1) \o <<a>> \o SubSeq(s, i, Len(s))
RemoveAt(s, i)    == SubSeq(s, 1, i - 1) \o SubSeq(s, i + 1, Len(s))

\* the arguments of s that are in S
Filter(s, S) ==
  Fold([kept \in Arguments |-> [a \in Args |-> IF a \in S THEN Append(kept, a) ELSE kept]], <<>>, s)

\* s with one copy of each overriding argument: the first, or the last
KeepFirst(s) ==
  Fold([kept \in Arguments |-> [a \in Args |->
          IF a \in Overriding /\ a \in Elements(kept) THEN kept ELSE Append(kept, a)]], <<>>, s)
KeepLast(s) == Reverse(KeepFirst(Reverse(s)))

\* the UNIQUE arguments that are there already add nothing; __iadd__ does not look for them in
\* tmp_pre, where one that is prepended (-Llibx.so of the D compiler) waits for the end of args
New(old, args) ==
  Fold([new \in Arguments |-> [a \in Args |->
          IF a \in Unique /\ a \in Elements(old) \union (Elements(new) \ Prepended) THEN new ELSE Append(new, a)]],
       <<>>, args)

\* old += args
Plus(old, args) ==
  LET new == New(old, args)
  IN  KeepFirst(Filter(new, Prepended)) \o Filter(old, Args \ (Overriding \cap Elements(new)))
        \o KeepLast(Filter(new, Args \ Prepended))

\* old with args at the end as they are, but for absolute paths
Direct(old, args) ==
  Fold([l \in Arguments |-> [a \in Args |-> IF a \in isabs THEN Plus(l, <<a>>) ELSE Append(l, a)]],
       old, args)
=============================================================================
