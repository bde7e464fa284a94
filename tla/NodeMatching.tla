------------------------------ MODULE NodeMatching ------------------------------
(* A node that gets properties and a description that asks for some, each built  *)
(* up one property at a time: when does nodes_equal of graph.c take one for the  *)
(* other?                                                                        *)
EXTENDS Matching

CONSTANTS
  Stored,    \* the properties a node may get
  Wanted,    \* the properties a description may have
  MaxStored, \* bound: how many properties a node has
  MaxWanted  \* bound: how many properties a description has

ASSUME StoredAssumption ==
  \A p \in Stored : p.type \in Type /\ p.val \in Int
ASSUME WantedAssumption ==
  \A q \in Wanted : q.type \in Type /\ q.val \in Int /\ q.cmp \in Comparator

VARIABLES
  props,  \* the property chain of the node, first to last
  desc    \* the description

Init == props = <<>> /\ desc = <<>>

(* add_property puts the property in front; add_node writes them all, also so.   *)
Store(p) ==
  /\ Len(props) < MaxStored
  /\ props' = <<p>> \o props
  /\ UNCHANGED desc

(* parse_selections puts the arguments in a description in their order. *)
Want(q) ==
  /\ Len(desc) < MaxWanted
  /\ desc' = Append(desc, q)
  /\ UNCHANGED props

Next ==
  \/ \E p \in Stored : Store(p)
  \/ \E q \in Wanted : Want(q)

Spec == Init /\ [][Next]_<<props, desc>>
--------------------------------------------------------------------------------
(* No type and key are there twice. *)
KeyedOnce(s) == \A i, j \in DOMAIN s : SameKey(s[i], s[j]) => i = j

(* nodes_equal counts properties of the node, not of the description.  While no  *)
(* key of a type is stored twice the count is still exact: it takes the node if  *)
(* and only if each property of the description is satisfied by one of the node, *)
(* and none is asked for twice.  (A range asked of one key never matches.)       *)
MatchExact ==
  KeyedOnce(props) =>
    (Matches(props, desc) <=>
       /\ KeyedOnce(desc)
       /\ \A j \in DOMAIN desc : \E i \in DOMAIN props : PropertyEqual(props[i], desc[j]))

(* add_node looks for the node it is to add by the node's own description, with  *)
(* the comparator EQUAL that parse_selections leaves: a node is found by what it *)
(* was made from, so an INSERT repeated adds nothing, even with keys repeated.   *)
OwnDescription == [i \in DOMAIN props |-> Asked(props[i], "EQUAL")]
FoundByItself == Matches(props, OwnDescription)
================================================================================
