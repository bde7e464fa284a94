---------------------------- MODULE MCQueryListener ----------------------------
(* QueryListener on every document of one definition over a few selections, and  *)
(* on pairs of such definitions.                                                 *)
EXTENDS QueryListener

CONSTANT Null  \* the value null

const_Other == {"GREATER", "LESS", "NOT_EQUAL"}
const_Names == {"zip", "customer", "alias", "name"}
const_Values == {1, 2, Null}

ZipArg(comparator, value) == [name |-> "zip", comparator |-> comparator, value |-> value]
Customer(alias, args, value, subs) ==
  [alias |-> alias, name |-> "customer", args |-> args, value |-> value, subs |-> subs]
Define(kind, name, sels) == [type |-> kind, name |-> name, selections |-> sels]

Arguments ==
  {ZipArg("LESS", 1), ZipArg("EQUAL", Null), ZipArg(Absent, 1), ZipArg("GREATER", Absent)}
ArgumentLists == {<<>>} \cup {<<a>> : a \in Arguments}
                   \cup {<<a, ZipArg("NOT_EQUAL", 2)>> : a \in Arguments}

Leaves == {Customer(Absent, args, value, <<>>) : args \in ArgumentLists, value \in {Absent, 1, Null}}
Parents == {Customer("alias", args, Absent, <<leaf>>) :
              args \in {<<>>, <<ZipArg("LESS", 1)>>}, leaf \in Leaves}
Seconds == {Customer(Absent, <<>>, 1, <<>>),
            Customer("alias", <<>>, Absent, <<Customer(Absent, <<>>, Null, <<>>)>>)}
Outer == {Customer(Absent, <<>>, Absent, <<first, second>>) :
            first \in Leaves \cup Parents, second \in Seconds}

const_Selections == Leaves \cup Parents \cup Seconds \cup Outer

const_Documents ==
  {<<Define(kind, "name", <<sel>>)>> : kind \in {Absent, "INSERT"}, sel \in Leaves \cup Parents \cup Outer}
    \cup {<<Define(first, Absent, <<sel>>), Define(second, "name", <<sel, other>>)>> :
            first \in {Absent, "DELETE"}, second \in {Absent, "MODIFY"}, sel \in Leaves, other \in Parents}
================================================================================
