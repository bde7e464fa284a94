------------------------------ MODULE QueryCalls -------------------------------
(* The calls a query makes: parse_query, update_query and parse_selections of    *)
(* Lab3/server/main.c.                                                           *)
EXTENDS QueryEval

CONSTANTS
  NoValue,  \* a selection that assigns no value
  Null      \* the type of a null value

(* A selection is [name, value, args, subs].  Those below it that assign a value *)
(* are what an INSERT describes a node with, ...                                 *)
Assigned(sel) == SelectSeq(sel.subs, LAMBDA s : s.value # NoValue)

(* ... those that have selections of their own are the nodes it is connected to. *)
Nested(sel) == SelectSeq(sel.subs, LAMBDA s : s.value = NoValue /\ s.subs # <<>>)

(* The properties of a selection; a value leaves the comparator at its 0, EQUAL. *)
Description(type, sel) ==
  IF type # "INSERT" THEN sel.args
  ELSE LET a == Assigned(sel)
       IN  [i \in DOMAIN a |-> [type |-> a[i].value.type, key |-> a[i].name,
                                val |-> a[i].value.val, cmp |-> "EQUAL"]]

(* A null value is "corrupted data", and the server exits. *)
Corrupted(desc) == \E i \in DOMAIN desc : desc[i].type = Null

NodeOp == [INSERT |-> "add_node", DELETE |-> "remove_node"]
RelationOp ==
  [INSERT |-> "add_relationship", DELETE |-> "remove_relationship", SELECT |-> "dump"]

RECURSIVE SelectionCalls(_, _)

(* parse_selections: the node of the selection first, then for each node below   *)
(* it that node's calls and the relationship to it.                              *)
SelectionCalls(type, sel) ==
  LET desc == Description(type, sel)
      own == IF type \in DOMAIN NodeOp THEN <<[op |-> NodeOp[type], node |-> desc]>> ELSE <<>>
      relate(s) == [op |-> RelationOp[type],
                    rel |-> [first |-> desc, second |-> Description(type, s), type |-> s.name]]
  IN  IF Corrupted(desc) THEN <<[op |-> "exit"]>>
      ELSE FoldLeft(LAMBDA calls, s : Append(calls \o SelectionCalls(type, s), relate(s)),
                    own, Nested(sel))

(* parse_query. *)
CallsAs(type, q) ==
  FoldLeft(LAMBDA calls, sel : calls \o SelectionCalls(type, sel), <<>>, q.selections)

(* update_query: a MODIFY is a DELETE and an INSERT of the same selections. *)
AllCalls ==
  [q \in Queries |-> IF q.type = "MODIFY" THEN CallsAs("DELETE", q) \o CallsAs("INSERT", q)
                     ELSE CallsAs(q.type, q)]
--------------------------------------------------------------------------------
RECURSIVE Connections(_)

(* The pairs of nodes an INSERT describes as connected. *)
Connections(sel) ==
  UNION {{[first |-> Description("INSERT", sel), second |-> Description("INSERT", s), type |-> s.name]}
           \cup Connections(s) : s \in ToSet(Nested(sel))}

(* An INSERT without a null value calls add_relationship for all of them, at any *)
(* depth, and for no others.                                                     *)
ASSUME ConnectionsCalled ==
  \A q \in Queries :
    LET calls == ToSet(AllCalls[q])
    IN  q.type = "INSERT" /\ (\A c \in calls : c.op # "exit") =>
          UNION {Connections(sel) : sel \in ToSet(q.selections)}
            = {c.rel : c \in {x \in calls : x.op = "add_relationship"}}
================================================================================
