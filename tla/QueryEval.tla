------------------------------- MODULE QueryEval --------------------------------
(* How the server executes a query: parse_query and dump_relationships of        *)
(* Lab3/server/main.c over the graph operations of GraphStore.  No result of an  *)
(* operation is looked at, so a query is a fixed sequence of calls (QueryCalls   *)
(* says which); between two of them, and between two writes of one, the process  *)
(* may stop.                                                                     *)
EXTENDS GraphStore

CONSTANTS
  Queries,    \* the queries clients send: records type and selections
  CallsOf,    \* the calls each of them makes, in order
  MaxQueries  \* bound: how many queries are executed

(* An INSERT adds a node before it connects it, unless it exits before. *)
NodesFirst(calls) ==
  \A i \in DOMAIN calls :
    calls[i].op = "add_relationship" =>
      \A desc \in {calls[i].rel.first, calls[i].rel.second} :
        \E j \in 1 .. i - 1 :
          calls[j].op = "exit" \/ (calls[j].op = "add_node" /\ calls[j].node = desc)

(* What it describes a node with are values: a property equals what it is made of.*)
Values(desc) ==
  \A i \in DOMAIN desc : desc[i].cmp = "EQUAL" /\ (desc[i].type = "DOUBLE" => desc[i].val \in Int)

(* Calls of graph.h with descriptions that are lists, dump_relationships, and    *)
(* exit_with_error.  No query removes a property, a SELECT changes nothing, and  *)
(* an INSERT removes nothing.                                                    *)
ASSUME CallsOfAssumption ==
  \A q \in Queries :
    /\ CallsOf[q] \in Seq(ToSet(CallsOf[q]))
    /\ \A c \in ToSet(CallsOf[q]) :
         /\ c.op \in {"add_node", "remove_node", "add_relationship", "remove_relationship",
                      "dump", "exit"}
         /\ c.op \in {"add_node", "remove_node"} => c.node \in Seq(ToSet(c.node))
         /\ q.type = "SELECT" => c.op \in {"dump", "exit"}
         /\ q.type = "INSERT" => c.op \in {"add_node", "add_relationship", "exit"}
         /\ q.type = "INSERT" /\ c.op = "add_node" => Values(c.node)
    /\ q.type = "INSERT" => NodesFirst(CallsOf[q])

VARIABLES
  pc,       \* "idle", "calls", "dump", "answered", or "loops": for ever
  query,    \* the query under way, or the last one
  todo,     \* the calls it still makes
  cursor,   \* current_node_addr of dump_relationships
  result,   \* the chains of the result
  queries,  \* how many queries have begun
  risky     \* auxiliary: a node of a relationship, or one that is not there, or a
            \* relationship was to be removed

eval == <<pc, query, todo, cursor, result, queries, risky>>

NoQuery == [type |-> "SELECT", selections |-> <<>>]

EvalInit ==
  /\ Init
  /\ pc = "idle" /\ query = NoQuery /\ todo = <<>> /\ cursor = 0 /\ result = <<>>
  /\ queries = 0 /\ risky = FALSE
--------------------------------------------------------------------------------
Begin(q) ==
  /\ pc \in {"idle", "answered"} /\ ~astray /\ queries < MaxQueries
  /\ queries' = queries + 1
  /\ query' = q
  /\ todo' = CallsOf[q]
  /\ result' = <<>>
  /\ pc' = "calls"
  /\ UNCHANGED <<vars, cursor, risky>>

(* A removal that may end on another kind of record (in a file that is typed). *)
Risky(c) ==
  \/ c.op = "remove_relationship"
  \/ /\ c.op = "remove_node" /\ Ready
     /\ LET n == FindNode(disk, meta.first, c.node) IN n = 0 \/ ~Unconnected(disk, n)

MakeCall ==
  /\ pc = "calls" /\ todo # <<>>
  /\ Call(Head(todo))
  /\ todo' = Tail(todo)
  /\ risky' = (risky \/ Risky(Head(todo)))
  /\ UNCHANGED <<pc, query, cursor, result, queries>>

MakeWrite == Flush /\ UNCHANGED eval

(* dump_relationships: the result starts again, from the first node. *)
StartDump ==
  /\ pc = "calls" /\ todo # <<>> /\ Head(todo).op = "dump" /\ Ready
  /\ cursor' = meta.first
  /\ result' = <<>>
  /\ pc' = "dump"
  /\ UNCHANGED <<vars, query, todo, queries, risky>>

(* dump_node and dump_relationship: what a chain of the result has. *)
Dumped(d, r) ==
  [first |-> PropertiesOf(d, d[r].first), name |-> Text(d, d[r].type),
   second |-> PropertiesOf(d, d[r].second)]

(* Mutant of DumpedFrom: the node may be on either side. *)
DumpedFromBothEnds(n) ==
  Gather(Link(disk, "relationship", "fnext"),
         [b \in 0 .. Len(disk) + 1 |->
            IF IsA(disk, b, "relationship") /\ RelationshipEqual(disk, b, Head(todo).rel)
            THEN <<Dumped(disk, b)>> ELSE <<>>],
         Address(disk, disk[n].rel))

(* The relationships a node contributes: those met along first_next that match   *)
(* and have the node as their first.                                             *)
DumpedFrom(n) ==
  Gather(Link(disk, "relationship", "fnext"),
         [b \in 0 .. Len(disk) + 1 |->
            IF /\ IsA(disk, b, "relationship") /\ RelationshipEqual(disk, b, Head(todo).rel)
               /\ disk[b].first = n
            THEN <<Dumped(disk, b)>> ELSE <<>>],
         Address(disk, disk[n].rel))

(* Mutant of DumpNode: a node without relationships is not passed. *)
DumpNodeStays ==
  /\ pc = "dump" /\ cursor # 0
  /\ NodesEqual(disk, cursor, Head(todo).rel.first)
  /\ result' = result \o DumpedFrom(cursor)
  /\ cursor' = IF disk[cursor].rel = 0 THEN cursor ELSE disk[cursor].next
  /\ UNCHANGED <<vars, pc, query, todo, queries, risky>>

DumpNode ==
  /\ pc = "dump" /\ cursor # 0
  /\ NodesEqual(disk, cursor, Head(todo).rel.first)
  /\ result' = result \o DumpedFrom(cursor)
  /\ cursor' = IF disk[cursor].next = cursor THEN 0 ELSE disk[cursor].next
  /\ UNCHANGED <<vars, pc, query, todo, queries, risky>>

(* A node that does not match: the continue goes back to the same node. *)
DumpLoops ==
  /\ pc = "dump" /\ cursor # 0
  /\ ~NodesEqual(disk, cursor, Head(todo).rel.first)
  /\ pc' = "loops"
  /\ UNCHANGED <<vars, query, todo, cursor, result, queries, risky>>

EndDump ==
  /\ pc = "dump" /\ cursor = 0
  /\ todo' = Tail(todo)
  /\ pc' = "calls"
  /\ UNCHANGED <<vars, query, cursor, result, queries, risky>>

Answer ==
  /\ pc = "calls" /\ todo = <<>> /\ Quiet
  /\ pc' = "answered"
  /\ UNCHANGED <<vars, query, todo, cursor, result, queries, risky>>

Forget == todo' = <<>> /\ cursor' = 0 /\ result' = <<>> /\ pc' = "idle"

(* exit_with_error, between two calls; the server is started again. *)
Exit ==
  /\ pc = "calls" /\ todo # <<>> /\ Head(todo).op = "exit" /\ Quiet
  /\ meta' = dmeta
  /\ Forget
  /\ UNCHANGED <<disk, dmeta, pend, graph, astray, ops, crashes, torn, query, queries, risky>>

Stop == Crash /\ Forget /\ UNCHANGED <<query, queries, risky>>

(* What the thread does next by itself: with the file, and without a change to it.*)
ChangeStep == MakeCall \/ MakeWrite
ReadStep == StartDump \/ DumpNode \/ DumpLoops \/ EndDump \/ Answer \/ Exit

EvalNext == ChangeStep \/ ReadStep \/ Stop \/ \E q \in Queries : Begin(q)

(* The server is a running thread. *)
EvalSpec == EvalInit /\ [][EvalNext]_<<vars, eval>> /\ WF_<<vars, eval>>(ReadStep)
--------------------------------------------------------------------------------
(* As long as clients only INSERT, SELECT, and DELETE or MODIFY nodes that are    *)
(* there and have no relationships, no pointer in the file ever leads to another *)
(* kind of record and no operation goes astray.  (Nor after a stop, unless it    *)
(* left the list of nodes half linked.)  A DELETE with a nested selection is not *)
(* among them: it removes a relationship after the nodes it is searched by.      *)
StaysOnFile ==
  ~risky /\ ~torn => ~astray /\ (Quiet => Typed(disk, meta))

(* The relationships of a file that match a description. *)
MatchingOnes(rel) == {r \in Relationships(disk, meta) : RelationshipEqual(disk, r, rel)}

(* No node is the first of one relationship and the second of another, and both  *)
(* nodes of each are in the list.                                                *)
OneSided ==
  LET rels == Relationships(disk, meta)
      firsts == {disk[r].first : r \in rels}
      seconds == {disk[r].second : r \in rels}
  IN  firsts \cap seconds = {} /\ firsts \cup seconds \subseteq Nodes(disk, meta)

(* While nodes are on one side only, the answer to a SELECT has each relationship *)
(* that matches its last nested selection once, though the walk follows           *)
(* first_next from every node.                                                    *)
SelectExact ==
  pc = "answered" /\ query.type = "SELECT" /\ CallsOf[query] # <<>> /\ OneSided =>
    LET matching == MatchingOnes(Last(CallsOf[query]).rel)
    IN  /\ Len(result) = Cardinality(matching)
        /\ \A r \in matching :
             Cardinality({i \in DOMAIN result : result[i] = Dumped(disk, r)})
               = Cardinality({x \in matching : Dumped(disk, x) = Dumped(disk, r)})

(* parse_selections ignores every return value, and looks nodes up again by what *)
(* they were described with to connect them.  Still, when an INSERT is answered, *)
(* the nodes of each pair it connects are there, with a relationship between     *)
(* them, whatever was there before.                                              *)
InsertConnects ==
  pc = "answered" /\ query.type = "INSERT" /\ ~torn =>
    \A c \in ToSet(CallsOf[query]) :
      c.op = "add_relationship" =>
        \E r \in Relationships(disk, meta) :
          /\ Text(disk, disk[r].type) = c.rel.type
          /\ disk[r].first = FindNode(disk, meta.first, c.rel.first)
          /\ disk[r].second = FindNode(disk, meta.first, c.rel.second)

(* A SELECT ends if every node matches the outer one of each pair it asks for,   *)
(* as with the queries of Lab3/README.md, where that one has no arguments.       *)
EveryNodeMatches(q) ==
  \A c \in ToSet(CallsOf[q]) :
    c.op = "dump" => \A n \in Nodes(disk, meta) : NodesEqual(disk, n, c.rel.first)

SelectEnds ==
  (pc \in {"calls", "dump"} /\ query.type = "SELECT" /\ Ready /\ EveryNodeMatches(query))
    ~> pc \in {"answered", "idle"}
================================================================================
