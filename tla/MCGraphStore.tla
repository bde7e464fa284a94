----------------------------- MODULE MCGraphStore ------------------------------
(* GraphStore with a few small nodes; each configuration chooses the calls.      *)
EXTENDS GraphStore

const_Precision == 1

(* Strings: keys, a value and the type of a relationship, in the order of strcmp.*)
Knows == 1
NameKey == 2
ZipKey == 3
Ann == 4

(* An INT property, another value of its key, and a STRING property.             *)
ZipOne == [type |-> "INT", key |-> ZipKey, val |-> 1, cmp |-> "EQUAL"]
ZipTwo == [type |-> "INT", key |-> ZipKey, val |-> 2, cmp |-> "EQUAL"]
NameAnn == [type |-> "STRING", key |-> NameKey, val |-> Ann, cmp |-> "EQUAL"]

AddNodes(descs) == {[op |-> "add_node", node |-> desc] : desc \in descs}
RemoveNodes(descs) == {[op |-> "remove_node", node |-> desc] : desc \in descs}
AddTo(desc, prop) == [op |-> "add_property", node |-> desc, prop |-> prop]
RemoveFrom(desc, prop) == [op |-> "remove_property", node |-> desc, prop |-> prop]
Relate(p, q) == [op |-> "add_relationship",
                 rel |-> [first |-> <<p>>, second |-> <<q>>, type |-> Knows]]

const_Calls ==
  AddNodes({<<ZipOne>>, <<ZipTwo>>, <<NameAnn>>}) \cup RemoveNodes({<<ZipOne>>, <<NameAnn>>})
    \cup {AddTo(<<ZipTwo>>, NameAnn)}

(* Properties put behind others and taken from there, and relationships between  *)
(* two nodes, both ways, and of a node with itself.                              *)
chains_Calls ==
  AddNodes({<<ZipOne, NameAnn>>, <<ZipTwo>>})
    \cup {AddTo(<<ZipTwo>>, ZipOne), AddTo(<<ZipOne, NameAnn>>, ZipTwo),
          RemoveFrom(<<ZipOne>>, NameAnn), RemoveFrom(<<ZipTwo>>, ZipTwo)}
    \cup RemoveNodes({<<ZipTwo>>})
    \cup {
          Relate(ZipOne, ZipTwo), Relate(ZipTwo, ZipOne), Relate(ZipTwo, ZipTwo)}

first_Calls == AddNodes({<<ZipTwo>>}) \cup {AddTo(<<ZipTwo>>, ZipOne), RemoveFrom(<<ZipTwo>>, ZipTwo)}
connected_Calls == AddNodes({<<ZipOne>>, <<ZipTwo>>}) \cup RemoveNodes({<<ZipOne>>})
                     \cup {Relate(ZipOne, ZipTwo)}
later_Calls == AddNodes({<<ZipOne>>, <<ZipTwo>>, <<NameAnn>>})
                 \cup {Relate(ZipOne, ZipTwo), Relate(NameAnn, ZipOne)}
================================================================================
