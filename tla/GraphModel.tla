------------------------------- MODULE GraphModel -------------------------------
(* What Lab1/solution/include/graph.h offers its callers for nodes and           *)
(* properties, with no file: a sequence of nodes, each a sequence of properties. *)
(* A call changes the graph its callers see at once, and the one that outlives   *)
(* the process a moment later, at once too.  GraphStore is shown to implement    *)
(* this module.                                                                  *)
EXTENDS Matching, SequencesExt

CONSTANT Calls  \* what the operations are called with, as in GraphStore

VARIABLES
  nodes,  \* the graph the callers see
  saved   \* the graph that is there after a restart

Init == nodes = <<>> /\ saved = <<>>

(* The place of the first node a description matches, 0 if there is none.        *)
Place(desc) == SelectInSeq(nodes, LAMBDA props : Matches(props, desc))

(* A property of a description becomes one of a node, without its comparator.    *)
Plain(p) == [type |-> p.type, key |-> p.key, val |-> p.val]

Change(new) == saved = nodes /\ nodes' = new /\ UNCHANGED saved

AddNode(desc) ==
  /\ Place(desc) = 0
  /\ Change(Append(nodes, [i \in DOMAIN desc |-> Plain(desc[i])]))

AddProperty(desc, prop) ==
  /\ Place(desc) # 0
  /\ Change([nodes EXCEPT ![Place(desc)] = <<Plain(prop)>> \o @])

RemoveNode(desc) ==
  /\ Place(desc) # 0
  /\ Change(RemoveAt(nodes, Place(desc)))

(* The first property with the type and the key of prop, whatever its value.     *)
RemoveProperty(desc, prop) ==
  /\ Place(desc) # 0
  /\ Change([nodes EXCEPT ![Place(desc)] = RemoveFirstMatch(@, LAMBDA q : SameKey(q, prop))])

(* A call takes effect as a whole, ...                                           *)
Save == saved' = nodes /\ UNCHANGED nodes

(* ... or not at all.                                                            *)
Stop == nodes' = saved /\ UNCHANGED saved

Next ==
  \/ \E c \in Calls :
       \/ c.op = "add_node" /\ AddNode(c.node)
       \/ c.op = "remove_node" /\ RemoveNode(c.node)
       \/ c.op = "add_property" /\ AddProperty(c.node, c.prop)
       \/ c.op = "remove_property" /\ RemoveProperty(c.node, c.prop)
  \/ Save
  \/ Stop

Spec == Init /\ [][Next]_<<nodes, saved>>
================================================================================
