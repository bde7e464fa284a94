------------------------------ MODULE GraphStore -------------------------------
(* The graph operations of Lab1/solution/src/graph.c over the data file.  An     *)
(* operation is one action: it reads the file, computes its writes and leaves    *)
(* them in pend; Flush makes them one by one, so that a crash (and every         *)
(* invariant) can see the file between two writes of one operation.  The server  *)
(* runs one operation at a time.                                                 *)
EXTENDS GraphFile, Matching

CONSTANTS
  Calls,       \* what the operations are called with: records with the name op and
               \* the arguments node, prop or rel (first, second, type)
  MaxOps,      \* bound: how many operations change the file
  MaxCrashes   \* bound: how often the process stops

(* A description is a list. *)
ASSUME CallsAssumption ==
  \A c \in Calls :
    c.op \in {"add_node", "remove_node", "add_property", "remove_property"}
      => c.node \in Seq(ToSet(c.node))

(* The bounds are numbers. *)
ASSUME BoundsAssumption == MaxOps \in Nat /\ MaxCrashes \in Nat

VARIABLES
  disk,     \* the blocks of the file
  dmeta,    \* the header of the file
  meta,     \* file_.metadata, as it is when the operation under way ends
  pend,     \* the writes the operation under way has not made yet
  graph,    \* auxiliary: the graph in the file when it has made them all
  astray,   \* an operation went where the stored bytes decide what happens next
  ops,      \* how many operations have changed the file
  crashes,  \* how often the process has stopped
  torn      \* auxiliary: a restart found the list of nodes half linked

vars == <<disk, dmeta, meta, pend, graph, astray, ops, crashes, torn>>

Init ==
  /\ disk = <<>>
  /\ dmeta = EmptyMeta
  /\ meta = EmptyMeta
  /\ pend = <<>>
  /\ graph = <<>>
  /\ astray = FALSE
  /\ ops = 0
  /\ crashes = 0
  /\ torn = FALSE
--------------------------------------------------------------------------------
(* Reading properties and nodes.                                                 *)
Overwritten == 0  \* what is in a block that is no chunk any more: no string

Text(d, a) == IF IsA(d, a, "chunk") THEN d[a].data ELSE Overwritten

PropertyAt(d, p) ==
  [type |-> d[p].type, key |-> Text(d, d[p].key),
   val |-> IF d[p].type = "STRING" THEN Text(d, d[p].val) ELSE d[p].val]

(* The properties of a node, as a loop over their records reads them. *)
PropertiesOf(d, n) ==
  Gather(Link(d, "property", "next"),
         [b \in 0 .. Len(d) + 1 |-> IF IsA(d, b, "property") THEN <<PropertyAt(d, b)>> ELSE <<>>],
         Address(d, d[n].prop))

(* The graph a reader of the file finds from a header: the properties of the     *)
(* nodes in the order of their list.                                             *)
Graph(d, m) ==
  Gather(Link(d, "node", "next"),
         [b \in 0 .. Len(d) + 1 |-> IF IsA(d, b, "node") THEN <<PropertiesOf(d, b)>> ELSE <<>>],
         Address(d, m.first))

(* Mutant of NodesEqual: one property in common is enough. *)
NodesEqualAny(d, n, desc) == Matched(PropertiesOf(d, n), desc) # {}

(* nodes_equal on the file. *)
NodesEqual(d, n, desc) == Matches(PropertiesOf(d, n), desc)

(* find_node from the first node: 0 stands for the -1 of the code, ...           *)
FindNode(d, first, desc) ==
  LET ns == NodeChain(d, first)
      i == SelectInSeq(ns, LAMBDA n : NodesEqual(d, n, desc))
  IN  IF i = 0 THEN 0 ELSE ns[i]

(* ... and called again from after the one it found: all nodes that match.       *)
Found(d, first, desc) ==
  SelectSeq(NodeChain(d, first), LAMBDA n : NodesEqual(d, n, desc))

(* relationship_equal, for the direction the server uses, BIDIRECTIONAL.         *)
RelationshipEqual(d, r, rel) ==
  /\ Text(d, d[r].type) = rel.type
  /\ \/ NodesEqual(d, d[r].first, rel.first) /\ NodesEqual(d, d[r].second, rel.second)
     \/ NodesEqual(d, d[r].second, rel.first) /\ NodesEqual(d, d[r].first, rel.second)

(* find_relationship: from each matching node in turn, always along first_next.  *)
FindRelationship(d, first, rel) ==
  LET seen == FoldLeft(LAMBDA c, n : c \o FirstNextChain(d, n), <<>>, Found(d, first, rel.first))
      i == SelectInSeq(seen, LAMBDA r : RelationshipEqual(d, r, rel))
  IN  IF i = 0 THEN 0 ELSE seen[i]
--------------------------------------------------------------------------------
(* The pointers node.h, property.h and relationship.h give a type, in the part   *)
(* of the file that is reachable from the header.                                *)
Nodes(d, m) == {n \in ToSet(NodeChain(d, m.first)) : IsA(d, n, "node")}
Properties(d, m) ==
  {p \in UNION {ToSet(PropertyChain(d, n)) : n \in Nodes(d, m)} : IsA(d, p, "property")}
Relationships(d, m) ==
  {r \in UNION {ToSet(RelationshipChain(d, n)) : n \in Nodes(d, m)} : IsA(d, r, "relationship")}

Points(d, a, kind) == a # 0 => IsA(d, a, kind)

NodePointers(d, m) ==
  /\ Points(d, m.first, "node") /\ Points(d, m.last, "node")
  /\ \A n \in Nodes(d, m) : Points(d, d[n].next, "node") /\ Points(d, d[n].prev, "node")

PropertyPointers(d, m) ==
  /\ \A n \in Nodes(d, m) : Points(d, d[n].prop, "property")
  /\ \A p \in Properties(d, m) :
       /\ Points(d, d[p].next, "property")
       /\ IsA(d, d[p].key, "chunk")
       /\ d[p].type = "STRING" => IsA(d, d[p].val, "chunk")

RelationshipPointers(d, m) ==
  /\ \A n \in Nodes(d, m) : Points(d, d[n].rel, "relationship")
  /\ \A r \in Relationships(d, m) :
       /\ IsA(d, d[r].first, "node") /\ IsA(d, d[r].second, "node")
       /\ IsA(d, d[r].type, "chunk")
       /\ \A f \in {"fprev", "fnext", "sprev", "snext"} : Points(d, d[r][f], "relationship")

Typed(d, m) == NodePointers(d, m) /\ PropertyPointers(d, m) /\ RelationshipPointers(d, m)
--------------------------------------------------------------------------------
(* Operations are followed on a file whose pointers are typed: what a call does  *)
(* with an address that holds something else depends on left-over bytes.         *)
Quiet == pend = <<>> /\ ~astray
Ready == Quiet /\ Typed(disk, meta)

Start == [disk |-> disk, meta |-> meta, log |-> <<>>]

Perform(s) ==
  /\ ops < MaxOps
  /\ ops' = ops + 1
  /\ meta' = s.meta
  /\ pend' = s.log
  /\ graph' = Graph(s.disk, s.meta)
  /\ UNCHANGED <<disk, dmeta, astray, crashes, torn>>
--------------------------------------------------------------------------------
(* The blocks of one property: its key, its value if it is a STRING, itself.     *)
StoreProperty(s, prop, next) ==
  LET k == Available(s, "dynamic")
      s1 == Place(s, "dynamic", Chunk(prop.key))
      v == IF prop.type = "STRING" THEN Available(s1, "dynamic") ELSE prop.val
      s2 == IF prop.type = "STRING" THEN Place(s1, "dynamic", Chunk(prop.val)) ELSE s1
  IN  Place(s2, "static", Property(prop.type, k, v, next))

(* Where StoreProperty put the property: the block it wrote last.                *)
Stored(s) == s.log[Len(s.log)].at

(* The properties of a description, from the last to the first, each linked to   *)
(* the one written before it: what the first i turns of the loop do.             *)
StoreProperties(s, desc) ==
  LET after[i \in 0 .. Len(desc)] ==
        IF i = 0 THEN s
        ELSE StoreProperty(after[i - 1], desc[Len(desc) + 1 - i],
                           IF i = 1 THEN 0 ELSE Stored(after[i - 1]))
  IN  after

(* Mutant of AddNode: find_node is not asked first. *)
AddNodeAgain(desc) ==
  LET s1 == StoreProperties(Start, desc)[Len(desc)]
      head == IF desc = <<>> THEN 0 ELSE Stored(s1)
  IN  Ready /\ Perform(InsertNode(s1, Node(0, head)))

(* add_node: the properties first, and the node after them all. *)
AddNode(desc) ==
  LET s1 == StoreProperties(Start, desc)[Len(desc)]
      head == IF desc = <<>> THEN 0 ELSE Stored(s1)
  IN  /\ Ready
      /\ FindNode(disk, meta.first, desc) = 0
      /\ Perform(InsertNode(s1, Node(0, head)))

(* add_property: the new property becomes the first of its node. *)
AddProperty(desc, prop) ==
  LET n == FindNode(disk, meta.first, desc)
      s1 == StoreProperty(Start, prop, disk[n].prop)
  IN  /\ Ready /\ n # 0
      /\ Perform(Write(s1, n, [disk[n] EXCEPT !.prop = Stored(s1)]))

(* The record an empty relationship chain makes add_relationship write: the      *)
(* bytes of the header, with one field set, in a block nothing points to.        *)
Junk == [kind |-> "junk"]

(* relationship_write of the head of a chain, with its first_previous set. *)
SetPrevious(s, head, r) ==
  IF head = 0 THEN Place(s, "static", Junk)
  ELSE Write(s, head, [s.disk[head] EXCEPT !.fprev = r])

(* Mutant of AddRelationship: the second node keeps its chain. *)
AddRelationshipOnce(rel) ==
  LET n1 == FindNode(disk, meta.first, rel.first)
      n2 == FindNode(disk, meta.first, rel.second)
      t == Available(Start, "dynamic")
      s1 == Place(Start, "dynamic", Chunk(rel.type))
      r == Available(s1, "static")
      s2 == Place(s1, "static", Relationship(t, n1, n2, disk[n1].rel, disk[n2].rel))
      s3 == SetPrevious(SetPrevious(s2, disk[n1].rel, r), disk[n2].rel, r)
  IN  /\ Ready /\ n1 # 0 /\ n2 # 0
      /\ Perform(Write(s3, n1, [disk[n1] EXCEPT !.rel = r]))

(* Mutant of AddRelationship: the block is looked for before the type is written.*)
AddRelationshipEarly(rel) ==
  LET n1 == FindNode(disk, meta.first, rel.first)
      n2 == FindNode(disk, meta.first, rel.second)
      t == Available(Start, "dynamic")
      r == Available(Start, "static")
      s1 == Place(Start, "dynamic", Chunk(rel.type))
      s2 == Place(s1, "static", Relationship(t, n1, n2, disk[n1].rel, disk[n2].rel))
      s3 == SetPrevious(SetPrevious(s2, disk[n1].rel, r), disk[n2].rel, r)
      s4 == Write(s3, n1, [disk[n1] EXCEPT !.rel = r])
  IN  /\ Ready /\ n1 # 0 /\ n2 # 0
      /\ Perform(Write(s4, n2, [disk[n2] EXCEPT !.rel = r]))

(* Mutant of AddRelationship: the record names the two nodes the other way round.*)
AddRelationshipSwapped(rel) ==
  LET n1 == FindNode(disk, meta.first, rel.first)
      n2 == FindNode(disk, meta.first, rel.second)
      t == Available(Start, "dynamic")
      s1 == Place(Start, "dynamic", Chunk(rel.type))
      r == Available(s1, "static")
      s2 == Place(s1, "static", Relationship(t, n2, n1, disk[n1].rel, disk[n2].rel))
      s3 == SetPrevious(SetPrevious(s2, disk[n1].rel, r), disk[n2].rel, r)
      s4 == Write(s3, n1, [disk[n1] EXCEPT !.rel = r])
  IN  /\ Ready /\ n1 # 0 /\ n2 # 0
      /\ Perform(Write(s4, n2, [disk[n2] EXCEPT !.rel = r]))

(* add_relationship: the new record goes in front of the chains of both nodes,   *)
(* and the heads of both get it as their first_previous.                         *)
AddRelationship(rel) ==
  LET n1 == FindNode(disk, meta.first, rel.first)
      n2 == FindNode(disk, meta.first, rel.second)
      t == Available(Start, "dynamic")
      s1 == Place(Start, "dynamic", Chunk(rel.type))
      r == Available(s1, "static")
      s2 == Place(s1, "static", Relationship(t, n1, n2, disk[n1].rel, disk[n2].rel))
      s3 == SetPrevious(SetPrevious(s2, disk[n1].rel, r), disk[n2].rel, r)
      s4 == Write(s3, n1, [disk[n1] EXCEPT !.rel = r])
  IN  /\ Ready /\ n1 # 0 /\ n2 # 0
      /\ Perform(Write(s4, n2, [disk[n2] EXCEPT !.rel = r]))

(* remove_node, the blocks of one property of it. *)
FreeProperty(s, p) ==
  LET s1 == RemoveChain(s, s.disk[p].key)
      s2 == IF s.disk[p].type = "STRING" THEN RemoveChain(s1, s.disk[p].val) ELSE s1
  IN  RemoveData(s2, p, "static")

FreeProperties(s, ps) ==
  LET after[i \in 0 .. Len(ps)] == IF i = 0 THEN s ELSE FreeProperty(after[i - 1], ps[i])
  IN  after

(* remove_node and remove_relationship, the blocks of one relationship. *)
FreeRelationship(s, r) == RemoveData(RemoveChain(s, s.disk[r].type), r, "static")

FreeRelationships(s, rs) ==
  LET after[i \in 0 .. Len(rs)] == IF i = 0 THEN s ELSE FreeRelationship(after[i - 1], rs[i])
  IN  after

(* remove_node, the nodes on both sides and the header (n is disk[node]). *)
Unlink(s, node, n) ==
  LET s1 == IF n.prev = 0 THEN s ELSE Write(s, n.prev, [s.disk[n.prev] EXCEPT !.next = n.next])
      s2 == IF n.next = 0 THEN s1 ELSE Write(s1, n.next, [s1.disk[n.next] EXCEPT !.prev = n.prev])
      s3 == [s2 EXCEPT !.meta.first = IF @ = node THEN n.next ELSE @,
                       !.meta.last = IF @ = node THEN n.prev ELSE @]
  IN  IF s3.meta = s2.meta THEN s3 ELSE SaveMeta(s3)

(* Mutant of RemoveNode: the blocks are released before the node is unlinked. *)
RemoveNodeEarly(desc) ==
  LET node == FindNode(disk, meta.first, desc)
      ps == PropertyChain(disk, node)
      rs == RelationshipChain(disk, node)
      s1 == FreeProperties(Start, ps)[Len(ps)]
      s2 == FreeRelationships(s1, rs)[Len(rs)]
  IN  /\ Ready /\ node # 0
      /\ Perform(RemoveData(Unlink(s2, node, disk[node]), node, "static"))

(* Mutant of RemoveNode: the blocks of the properties are not released. *)
RemoveNodeOnly(desc) ==
  LET node == FindNode(disk, meta.first, desc)
  IN  /\ Ready /\ node # 0
      /\ Perform(RemoveData(Unlink(Start, node, disk[node]), node, "static"))

(* remove_node: unlink the node, release its properties, then the relationships  *)
(* of its chain, then the node itself.                                           *)
RemoveNode(desc) ==
  LET node == FindNode(disk, meta.first, desc)
      ps == PropertyChain(disk, node)
      rs == RelationshipChain(disk, node)
      s1 == FreeProperties(Unlink(Start, node, disk[node]), ps)[Len(ps)]
      s2 == FreeRelationships(s1, rs)[Len(rs)]
  IN  /\ Ready /\ node # 0
      /\ Perform(RemoveData(s2, node, "static"))

(* remove_property, its search: the place in the chain of a node of the first    *)
(* property with the type and key of prop, 0 if there is none.                   *)
FindProperty(n, prop) ==
  SelectInSeq(PropertyChain(disk, n), LAMBDA p : SameKey(PropertyAt(disk, p), prop))

(* Mutant of RemoveProperty: the property before it still leads to it. *)
RemovePropertyLinked(desc, prop) ==
  LET n == FindNode(disk, meta.first, desc)
      chain == PropertyChain(disk, n)
      i == FindProperty(n, prop)
  IN  /\ Ready /\ n # 0 /\ i # 0
      /\ Perform(FreeProperty(Start, chain[i]))

(* Mutant of RemoveProperty: the chunk of the value is not released. *)
RemovePropertyLeaks(desc, prop) ==
  LET n == FindNode(disk, meta.first, desc)
      chain == PropertyChain(disk, n)
      i == FindProperty(n, prop)
      p == chain[i]
      s1 == IF i = 1 THEN Start
            ELSE Write(Start, chain[i - 1], [disk[chain[i - 1]] EXCEPT !.next = disk[p].next])
  IN  /\ Ready /\ n # 0 /\ i # 0
      /\ Perform(RemoveData(RemoveChain(s1, disk[p].key), p, "static"))

(* Mutant of RemoveProperty: the chunk of the value is released before the       *)
(* property is unlinked.                                                         *)
RemovePropertyEarly(desc, prop) ==
  LET n == FindNode(disk, meta.first, desc)
      chain == PropertyChain(disk, n)
      i == FindProperty(n, prop)
      p == chain[i]
      s1 == IF disk[p].type = "STRING" THEN RemoveChain(Start, disk[p].val) ELSE Start
      s2 == IF i = 1 THEN s1
            ELSE Write(s1, chain[i - 1], [disk[chain[i - 1]] EXCEPT !.next = disk[p].next])
  IN  /\ Ready /\ n # 0 /\ i # 0
      /\ Perform(RemoveData(RemoveChain(s2, disk[p].key), p, "static"))

(* remove_property: the first property with that type and key is released; the   *)
(* one before it is linked past it, the node never is.                           *)
RemoveProperty(desc, prop) ==
  LET n == FindNode(disk, meta.first, desc)
      chain == PropertyChain(disk, n)
      i == FindProperty(n, prop)
      p == chain[i]
      s1 == IF i = 1 THEN Start
            ELSE Write(Start, chain[i - 1], [disk[chain[i - 1]] EXCEPT !.next = disk[p].next])
      s2 == IF disk[p].type = "STRING" THEN RemoveChain(s1, disk[p].val) ELSE s1
  IN  /\ Ready /\ n # 0 /\ i # 0
      /\ Perform(RemoveData(RemoveChain(s2, disk[p].key), p, "static"))

(* One of the four repairs of remove_relationship: a field of the record at a,   *)
(* chosen by whether a side of that record is the same node.                     *)
Repair(s, a, r, side, same, other, value) ==
  IF a = 0 THEN s
  ELSE LET field == IF s.disk[a][side] = r[side] THEN same ELSE other
       IN  Write(s, a, [s.disk[a] EXCEPT ![field] = value])

(* remove_relationship: repair the four neighbours the record names, release its *)
(* type and the record; the heads of the two nodes' chains stay as they are.     *)
RemoveRelationship(rel) ==
  LET a == FindRelationship(disk, meta.first, rel)
      r == disk[a]
      s1 == Repair(Start, r.fprev, r, "first", "fnext", "snext", r.fnext)
      s2 == Repair(s1, r.sprev, r, "second", "snext", "fnext", r.snext)
      s3 == Repair(s2, r.fnext, r, "first", "fprev", "sprev", r.fprev)
      s4 == Repair(s3, r.snext, r, "second", "sprev", "fprev", r.sprev)
  IN  /\ Ready /\ a # 0
      /\ Perform(RemoveData(RemoveChain(s4, r.type), a, "static"))

(* The calls that return without a write: add_node of a node that is there, ...  *)
NodeThere(c) == c.op = "add_node" /\ FindNode(disk, meta.first, c.node) # 0

(* ... add_property and add_relationship of a node that is not, ...              *)
NodeNotThere(c) == c.op = "add_property" /\ FindNode(disk, meta.first, c.node) = 0

EndNotThere(c) ==
  /\ c.op = "add_relationship"
  /\ 0 \in {FindNode(disk, meta.first, c.rel.first), FindNode(disk, meta.first, c.rel.second)}

(* ... and remove_property of a property that the node does not have.            *)
PropertyNotThere(c) ==
  /\ c.op = "remove_property" /\ FindNode(disk, meta.first, c.node) # 0
  /\ FindProperty(FindNode(disk, meta.first, c.node), c.prop) = 0

Refuse(c) ==
  /\ Ready
  /\ NodeThere(c) \/ NodeNotThere(c) \/ EndNotThere(c) \/ PropertyNotThere(c)
  /\ UNCHANGED vars

(* The removals use the -1 of find_node and find_relationship as an address, and *)
(* every operation follows a dangling pointer: not followed any further.         *)
GoAstray(c) ==
  /\ Quiet
  /\ Ready => \/ /\ c.op \in {"remove_node", "remove_property"}
                 /\ FindNode(disk, meta.first, c.node) = 0
              \/ /\ c.op = "remove_relationship"
                 /\ FindRelationship(disk, meta.first, c.rel) = 0
  /\ astray' = TRUE
  /\ UNCHANGED <<disk, dmeta, meta, pend, graph, ops, crashes, torn>>

(* A call of graph.h, with its arguments. *)
Call(c) ==
  \/ c.op = "add_node" /\ AddNode(c.node)
  \/ c.op = "remove_node" /\ RemoveNode(c.node)
  \/ c.op = "add_property" /\ AddProperty(c.node, c.prop)
  \/ c.op = "remove_property" /\ RemoveProperty(c.node, c.prop)
  \/ c.op = "add_relationship" /\ AddRelationship(c.rel)
  \/ c.op = "remove_relationship" /\ RemoveRelationship(c.rel)
  \/ Refuse(c)
  \/ GoAstray(c)

(* The next write of the operation under way reaches the file. *)
Flush ==
  /\ pend # <<>>
  /\ LET w == Head(pend)
     IN  IF w.at = 0 THEN dmeta' = w.data /\ UNCHANGED disk
         ELSE disk' = PutAt(disk, w.at, w.data) /\ UNCHANGED dmeta
  /\ pend' = Tail(pend)
  /\ UNCHANGED <<meta, graph, astray, ops, crashes, torn>>

(* The list of nodes can be walked both ways and ends at last_node_addr. *)
Linked(d, m) ==
  LET ns == NodeChain(d, m.first)
  IN  /\ m.last = IF ns = <<>> THEN 0 ELSE Last(ns)
      /\ \A i \in DOMAIN ns : IsA(d, ns[i], "node") /\ d[ns[i]].prev = IF i = 1 THEN 0 ELSE ns[i - 1]

(* The process stops, in an operation or between two, and starts again:          *)
(* backend_start reads the header.                                               *)
Crash ==
  /\ ~astray /\ crashes < MaxCrashes
  /\ crashes' = crashes + 1
  /\ meta' = dmeta
  /\ pend' = <<>>
  /\ graph' = Graph(disk, dmeta)
  /\ torn' = (torn \/ ~Linked(disk, dmeta))
  /\ UNCHANGED <<disk, dmeta, astray, ops>>

(* The process is one thread: a call begins when the one before it has ended.    *)
Next ==
  \/ Quiet /\ \E c \in Calls : Call(c)
  \/ Flush
  \/ Crash

Spec == Init /\ [][Next]_vars

(* A program that uses graph.h with care: it never removes a relationship, a node *)
(* that has one, or the first property of a node.  These are the calls that leave *)
(* a pointer to a released block behind.                                          *)
Unconnected(d, n) ==
  \A r \in DOMAIN d : d[r].kind = "relationship" => n \notin {d[r].first, d[r].second}

Careful(c) ==
  LET n == FindNode(disk, meta.first, c.node)
  IN  /\ c.op # "remove_relationship"
      /\ c.op = "remove_node" /\ Ready /\ n # 0 => Unconnected(disk, n)
      /\ c.op = "remove_property" /\ Ready /\ n # 0 => FindProperty(n, c.prop) # 1

CarefulNext ==
  \/ Quiet /\ \E c \in Calls : Careful(c) /\ Call(c)
  \/ Flush
  \/ Crash

CarefulSpec == Init /\ [][CarefulNext]_vars
--------------------------------------------------------------------------------
(* Types.                                                                        *)
TypeOK ==
  /\ \A b \in DOMAIN disk :
       disk[b].kind \in {"node", "property", "relationship", "chunk", "free", "junk"}
  /\ {meta, dmeta} \subseteq
       LET Addr == 0 .. Len(disk) + Len(pend)
       IN  [first : Addr, last : Addr, free : [static : Addr, dynamic : Addr]]
  /\ astray \in BOOLEAN /\ ops \in 0 .. MaxOps /\ crashes \in 0 .. MaxCrashes

(* Between operations nothing of file_.metadata is in memory only: node_write,   *)
(* remove_node, get_available_space and free_space_write each save what they     *)
(* changed, whichever of them an operation calls last.                           *)
MetaSaved == Quiet => meta = dmeta

(* The list of nodes stays linked, unless a stop fell between the writes that    *)
(* link or unlink a node: any other stop is harmless to it.                      *)
NodeListLinked == Quiet /\ ~torn => Linked(disk, meta)

(* What the parts of the file account for: <<part, of what, its place, block>>.  *)
Claims(d, m) ==
  LET claims(part, of, blocks) == {<<part, of, i, blocks[i]>> : i \in DOMAIN blocks}
      properties == Properties(d, m)
      relationships == Relationships(d, m)
  IN  claims("node", 0, NodeChain(d, m.first))
        \cup (UNION {claims("property", n, PropertyChain(d, n)) : n \in Nodes(d, m)})
        \cup {<<"key", p, 0, d[p].key>> : p \in properties}
        \cup {<<"value", p, 0, d[p].val>> : p \in {q \in properties : d[q].type = "STRING"}}
        \cup {<<"relationship", 0, 0, r>> : r \in relationships}
        \cup {<<"type", r, 0, d[r].type>> : r \in relationships}
        \cup (UNION {claims(c, 0, FreeChain(d, m.free[c])) : c \in {"static", "dynamic"}})

(* Every block belongs to one node, property or relationship, or to one free     *)
(* list, once: nothing is shared, and without a crash nothing leaks but the      *)
(* blocks add_relationship fills with junk.                                      *)
BlocksOwnedOnce ==
  Quiet /\ ~torn =>
    LET owned == Claims(disk, meta)
    IN  /\ \A x, y \in owned : x[4] = y[4] => x = y
        /\ crashes = 0 => {x[4] : x \in owned} = {b \in DOMAIN disk : disk[b] # Junk}

(* At every write boundary, so after a stop at any point: each free list in the  *)
(* file is a chain of free_space records of its class, without repetition, and   *)
(* shares no block with the other one.                                           *)
FreeListsInFile ==
  LET fs == FreeChain(disk, dmeta.free.static)
      fd == FreeChain(disk, dmeta.free.dynamic)
  IN  /\ \A b \in ToSet(fs) : IsA(disk, b, "free") /\ disk[b].class = "static"
      /\ \A b \in ToSet(fd) : IsA(disk, b, "free") /\ disk[b].class = "dynamic"
      /\ Len(fs \o fd) = Cardinality(ToSet(fs \o fd))

(* What can be reached from the header: the nodes, the records of their          *)
(* properties and relationships, and the strings of these.                       *)
Reachable(d, m) ==
  ToSet(NodeChain(d, m.first))
    \cup (UNION {ToSet(PropertyChain(d, n)) : n \in Nodes(d, m)})
    \cup {d[p].key : p \in Properties(d, m)}
    \cup {d[p].val : p \in {q \in Properties(d, m) : d[q].type = "STRING"}}
    \cup (UNION {ToSet(RelationshipChain(d, n)) : n \in Nodes(d, m)})
    \cup {d[r].type : r \in Relationships(d, m)}

OnFreeList(d, m) == ToSet(FreeChain(d, m.free.static) \o FreeChain(d, m.free.dynamic))

(* At every write boundary: no block that can be reached from the header of the  *)
(* file, along any pointer, is on a free list, where the next insertion would    *)
(* take it and write another record over it.                                     *)
ReachableNotFree == ~torn => Reachable(disk, dmeta) \cap OnFreeList(disk, dmeta) = {}

(* The chain of a node is its relationships, all of them, each once, and it ends, *)
(* though every record is on two chains.  (A stop may leave a record on one.)     *)
RelationshipChainsExact ==
  Quiet /\ crashes = 0 =>
    \A n \in Nodes(disk, meta) :
      LET c == RelationshipChain(disk, n)
      IN  /\ ToSet(c) = {r \in DOMAIN disk : /\ disk[r].kind = "relationship"
                                             /\ n \in {disk[r].first, disk[r].second}}
          /\ Len(c) = Cardinality(ToSet(c))

(* node.h:10 and property.h:18-26, the comments on the fields: the address of a  *)
(* node's properties, of the property after one, of a key or a value, is that of *)
(* a record of that type.                                                        *)
PropertyPointersTyped == Quiet /\ ~torn => PropertyPointers(disk, meta)

(* node.h:9 and relationship.h:16-22, the comments on the fields, likewise.      *)
RelationshipPointersTyped == Quiet /\ ~torn => RelationshipPointers(disk, meta)

(* graph.c:293-294: find_relationship "Starts from node if not 0, else from the   *)
(* first node", "Returns addr in file".  A relationship between two nodes is      *)
(* found, whatever relationships the nodes got later.                            *)
RelationshipFound ==
  Quiet =>
    \A rel \in {c.rel : c \in {c \in Calls : c.op = "add_relationship"}} :
      (\E r \in Relationships(disk, meta) : RelationshipEqual(disk, r, rel))
        => FindRelationship(disk, meta.first, rel) # 0

(* The file implements the graph of GraphModel: what a call does to the graph a  *)
(* reader finds is done by one single write of it, so that a stop between two    *)
(* writes loses the whole call or none of it.  (Not after a restart that found   *)
(* the list of nodes half linked.  A graph read from the file ends where the     *)
(* list does not lead to a node: an insertion links the last node to a block it  *)
(* has not written yet.)                                                         *)
Model == INSTANCE GraphModel WITH nodes <- graph, saved <- Graph(disk, dmeta)

ImplementsModel == Model!Init /\ [][torn' \/ Model!Next]_<<graph, Graph(disk, dmeta)>>
================================================================================
