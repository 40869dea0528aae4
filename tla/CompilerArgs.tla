---------------------------- MODULE CompilerArgs ----------------------------
(***************************************************************************)
(* The class CompilerArgs of mesonbuild/arglist.py.  `+=` only collects the*)
(* arguments in pre and post; the first use of the list merges them, and   *)
(* looks for arguments that are overridden only when one was seen.         *)
(***************************************************************************)
EXTENDS ArgOrder

CONSTANTS
  MaxAdded,       \* bound on the arguments of one +=
  MaxLen          \* bound on the length of the list

ASSUME BoundsAssumption == MaxAdded \in Nat /\ MaxLen \in Nat

VARIABLES
  container, pre, post, needs_override_check,
  op              \* the last operation, as in ArgList

vars == <<container, pre, post, needs_override_check, op>>

\* a CompilerArgs object
Object == [container |-> container, pre |-> pre, post |-> post,
           check |-> needs_override_check]

Objects == [container : Arguments, pre : Arguments, post : Arguments, check : BOOLEAN]

NewObject(iterable) == [container |-> iterable, pre |-> <<>>, post |-> <<>>, check |-> FALSE]

Become(o) ==
  /\ container' = o.container /\ pre' = o.pre /\ post' = o.post
  /\ needs_override_check' = o.check

\* one walk of flush_pre_post: the kept arguments and the set of overriding ones
Walk(s) ==
  Fold([w \in [kept : Arguments, flush_set : SUBSET Args] |-> [a \in Args |->
          IF a \in w.flush_set THEN w
          ELSE [kept |-> Append(w.kept, a),
                flush_set |-> IF a \in Overriding THEN w.flush_set \union {a} ELSE w.flush_set]]],
       [kept |-> <<>>, flush_set |-> {}], s)

\* mutant: what is prepended overrides nothing in the list
Flushed_append_wins(o) ==
  LET post_walk == Walk(o.post)
  IN  NewObject(Walk(o.pre).kept \o Filter(o.container, Args \ post_walk.flush_set) \o post_walk.kept)

\* mutant: nothing is overridden
Flushed_plain(o) == NewObject(o.pre \o o.container \o o.post)

Flushed(o) ==
  LET pre_walk  == Walk(o.pre)
      post_walk == Walk(Reverse(o.post))
      rest      == Filter(o.container, Args \ (pre_walk.flush_set \union post_walk.flush_set))
  IN  NewObject(IF o.check THEN pre_walk.kept \o rest \o Reverse(post_walk.kept)
                ELSE o.pre \o o.container \o o.post)

\* mutant: the flag is not raised
iadd_unchecked(o, args) ==
  [o EXCEPT !.pre = Filter(args, Prepended) \o @, !.post = @ \o Filter(args, Args \ Prepended)]

\* the body of the loop of __iadd__: tmp_pre holds the new prefix arguments backwards
Add(o) ==
  [t \in [tmp_pre : Arguments, post : Arguments, check : BOOLEAN] |-> [a \in Args |->
     IF a \in Unique /\ a \in Elements(o.container) \union Elements(o.pre) \union Elements(t.post) THEN t
     ELSE [tmp_pre |-> IF a \in Prepended THEN <<a>> \o t.tmp_pre ELSE t.tmp_pre,
           post    |-> IF a \in Prepended THEN t.post ELSE Append(t.post, a),
           check   |-> t.check \/ a \in Overriding]]]

iadd(o, args) ==
  LET t == Fold(Add(o), [tmp_pre |-> <<>>, post |-> o.post, check |-> o.check], args)
  IN  [o EXCEPT !.pre = Reverse(t.tmp_pre) \o @, !.post = t.post, !.check = t.check]

append_direct(o, a) ==
  LET f == Flushed(o)
  IN  IF a \in isabs THEN iadd(f, <<a>>) ELSE [f EXCEPT !.container = Append(@, a)]

extend_direct(o, args) ==
  Fold([x \in Objects |-> [a \in Args |-> append_direct(x, a)]], Flushed(o), args)

extend_preserving_lflags(o, args) ==
  extend_direct(iadd(o, Filter(args, Args \ lflags)), Filter(args, lflags))

radd(args, o) == iadd(NewObject(args), Flushed(o).container)

(***************************************************************************)
(* The operations of a program that builds one list.  Reading it, in any   *)
(* way but with len(), merges what was collected.                          *)
(***************************************************************************)
Added == UNION {[1..n -> Args] : n \in 0..MaxAdded}

len == Len(container) + Len(pre) + Len(post)

Asked(name, args, i) == op' = [name |-> name, args |-> args, i |-> i]

Init ==
  /\ container = <<>> /\ pre = <<>> /\ post = <<>> /\ needs_override_check = FALSE
  /\ op = [name |-> "none", args |-> <<>>, i |-> 0]

flush_pre_post == Become(Flushed(Object)) /\ UNCHANGED op

Extend(args) ==
  /\ len + Len(args) <= MaxLen
  /\ \/ Become(iadd(Object, args)) /\ Asked("iadd", args, 0)
     \/ Become(radd(args, Object)) /\ Asked("radd", args, 0)
     \/ Become(extend_direct(Object, args)) /\ Asked("extend_direct", args, 0)
     \/ /\ Become(extend_preserving_lflags(Object, args))
        /\ Asked("extend_preserving_lflags", args, 0)

insert(i, a) ==
  /\ len < MaxLen
  /\ Become([Flushed(Object) EXCEPT !.container = InsertAt(@, i, a)])
  /\ Asked("insert", <<a>>, i)

setitem(i, a) ==
  Become([Flushed(Object) EXCEPT !.container = [@ EXCEPT ![i] = a]]) /\ Asked("setitem", <<a>>, i)

delitem(i) ==
  Become([Flushed(Object) EXCEPT !.container = RemoveAt(@, i)]) /\ Asked("delitem", <<>>, i)

View == Flushed(Object).container

Next ==
  \/ flush_pre_post
  \/ \E args \in Added : Extend(args)
  \/ \E i \in 1..Len(View) + 1, a \in Args : insert(i, a)
  \/ \E i \in 1..Len(View), a \in Args : setitem(i, a)
  \/ \E i \in 1..Len(View) : delitem(i)

Spec == Init /\ [][Next]_vars

-----------------------------------------------------------------------------
(***************************************************************************)
(* The flag that lets flush_pre_post skip its search is up whenever pre or *)
(* post holds an argument that overrides others, and the collected         *)
(* arguments are on the side where they belong.                            *)
(***************************************************************************)
PendingOK ==
  /\ container \in Seq(Args)
  /\ pre \in Seq(Prepended)
  /\ post \in Seq(Args \ Prepended)
  /\ Overriding \cap (Elements(pre) \union Elements(post)) # {} => needs_override_check

(***************************************************************************)
(* Wherever the reads fall between the additions, the list they show is the*)
(* one that merging at once would have given: CompilerArgs implements      *)
(* ArgList, with what a read would show as the list.                       *)
(***************************************************************************)
Eager == INSTANCE ArgList WITH list <- View
MergesAsIfAtOnce == Eager!Spec

Copies(s, a) == Len(Filter(s, {a}))

(***************************************************************************)
(* Arguments added with += override the earlier ones (the docstring of     *)
(* CompilerArgs): an overriding argument is there once, before everything  *)
(* that was there or after it, and a UNIQUE one gets no second copy (but   *)
(* where one += brings several copies of one that is prepended).           *)
(***************************************************************************)
NewestWins ==
  [][op'.name = "iadd" =>
       \A a \in Elements(op'.args) :
         /\ a \in Overriding =>
              /\ Copies(View', a) = 1
              /\ \E i \in 1..Len(View') :
                   /\ View'[i] = a
                   /\ IF a \in Prepended THEN i <= Len(op'.args) ELSE i > Len(View') - Len(op'.args)
         /\ a \in Unique => IF a \in Elements(View) THEN Copies(View', a) = Copies(View, a)
                            ELSE a \notin Prepended => Copies(View', a) = 1]_vars
=============================================================================
