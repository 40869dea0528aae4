------------------------------ MODULE ArgList ------------------------------
(***************************************************************************)
(* What the class CompilerArgs of mesonbuild/arglist.py promises: one list *)
(* of arguments, in which every `+=` takes effect at once.                 *)
(***************************************************************************)
EXTENDS ArgOrder

VARIABLES
  list,
  op              \* the last operation that was asked for

vars == <<list, op>>

\* the operations that can be asked for: of index i, i is a position of list
Operation ==
  [name : {"iadd", "radd", "extend_direct", "extend_preserving_lflags"}, args : Arguments, i : {0}]
    \union [name : {"insert"}, args : {<<a>> : a \in Args}, i : 1..Len(list) + 1]
    \union [name : {"setitem"}, args : {<<a>> : a \in Args}, i : 1..Len(list)]
    \union [name : {"delitem"}, args : {<<>>}, i : 1..Len(list)]

\* what o makes of the list
Result(o) ==
  CASE o.name = "iadd"          -> Plus(list, o.args)
    [] o.name = "radd"          -> Plus(o.args, list)
    [] o.name = "extend_direct" -> Direct(list, o.args)
    [] o.name = "extend_preserving_lflags" ->
         Direct(Plus(list, Filter(o.args, Args \ lflags)), Filter(o.args, lflags))
    [] o.name = "insert"        -> InsertAt(list, o.i, o.args[1])
    [] o.name = "setitem"       -> [list EXCEPT ![o.i] = o.args[1]]
    [] o.name = "delitem"       -> RemoveAt(list, o.i)

None == [name |-> "none", args |-> <<>>, i |-> 0]

Init == list = <<>> /\ op = None

Next == op' \in Operation /\ list' = Result(op')

Spec == Init /\ [][Next]_vars
=============================================================================
