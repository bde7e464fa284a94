------------------------------- MODULE GraphFile -------------------------------
(* The data file and the record layer of Lab1/solution/src/backend.c: what a     *)
(* call does to the file, as functions on a value                                *)
(*   s == [disk |-> the blocks, meta |-> file_.metadata, log |-> the writes].    *)
(* disk[a] is the record in block a; 0 is the address of the header, and the     *)
(* null address.  log lists the writes in the order the code makes them, so that *)
(* a specification can let a crash fall between any two.  Strings fit one chunk. *)
EXTENDS Chains, SequencesExt

(* The records of node.h, property.h, relationship.h, dynamic_store.h and        *)
(* free_space.h.  The val of a STRING property is the address of a chunk.        *)
Node(rel, prop) ==
  [kind |-> "node", rel |-> rel, prop |-> prop, next |-> 0, prev |-> 0]
Property(type, key, val, next) ==
  [kind |-> "property", type |-> type, key |-> key, val |-> val, next |-> next]
Relationship(type, first, second, fnext, snext) ==
  [kind |-> "relationship", type |-> type, first |-> first, second |-> second,
   fprev |-> 0, fnext |-> fnext, sprev |-> 0, snext |-> snext]
Chunk(data) == [kind |-> "chunk", data |-> data]
FreeSpace(class, next) == [kind |-> "free", class |-> class, next |-> next]

(* Mutant of EmptyMeta: a missing last node is -1. *)
EmptyMetaMinusOne == [first |-> 0, last |-> -1, free |-> [static |-> 0, dynamic |-> 0]]

(* The header of a new file. *)
EmptyMeta == [first |-> 0, last |-> 0, free |-> [static |-> 0, dynamic |-> 0]]

IsA(d, a, kind) == a \in DOMAIN d /\ d[a].kind = kind
--------------------------------------------------------------------------------
(* Writes.  A write at the end of the file extends it.                           *)
PutAt(d, a, rec) == IF a = Len(d) + 1 THEN Append(d, rec) ELSE [d EXCEPT ![a] = rec]

Write(s, a, rec) ==
  [s EXCEPT !.disk = PutAt(@, a, rec), !.log = Append(@, [at |-> a, data |-> rec])]

(* update_metadata_. *)
SaveMeta(s) == [s EXCEPT !.log = Append(@, [at |-> 0, data |-> s.meta])]

(* get_available_space: the address it returns, ... *)
Available(s, class) ==
  IF s.meta.free[class] = 0 THEN Len(s.disk) + 1 ELSE s.meta.free[class]

(* ... and what it does: the first free block leaves its list, in the file too.  *)
Take(s, class) ==
  IF s.meta.free[class] = 0 THEN s
  ELSE SaveMeta([s EXCEPT !.meta.free[class] = s.disk[@].next])

(* relationship_write, property_write and one chunk of dynamic_store_write_chain *)
(* with addr = 0; the block is placed at Available(s, class).                    *)
Place(s, class, rec) == Write(Take(s, class), Available(s, class), rec)

(* Mutant of InsertNode: the new node is not linked from the last one. *)
InsertNodeUnlinked(s, node) ==
  LET a == Available(s, "static")
      t == Take(s, "static")
      v == Write(t, a, [node EXCEPT !.prev = t.meta.last])
  IN  SaveMeta([v EXCEPT !.meta.last = a, !.meta.first = IF @ = 0 THEN a ELSE @])

(* node_write with addr = 0: the last node is linked to the new one before the   *)
(* new one is written, and the metadata is saved last.                           *)
InsertNode(s, node) ==
  LET a == Available(s, "static")
      t == Take(s, "static")
      last == t.meta.last
      u == IF last = 0 THEN t ELSE Write(t, last, [t.disk[last] EXCEPT !.next = a])
      v == Write(u, a, [node EXCEPT !.prev = last])
  IN  SaveMeta([v EXCEPT !.meta.last = a, !.meta.first = IF @ = 0 THEN a ELSE @])

(* Mutant of RemoveData: the list head is saved before the record is written. *)
RemoveDataSavesFirst(s, a, class) ==
  Write(SaveMeta([s EXCEPT !.meta.free[class] = a]), a,
        FreeSpace(class, s.meta.free[class]))

(* Mutant of RemoveData: update_metadata_ is not called. *)
RemoveDataUnsaved(s, a, class) ==
  Write([s EXCEPT !.meta.free[class] = a], a, FreeSpace(class, s.meta.free[class]))

(* remove_data and free_space_write: the record, then the list head. *)
RemoveData(s, a, class) ==
  SaveMeta(Write([s EXCEPT !.meta.free[class] = a], a,
                 FreeSpace(class, s.meta.free[class])))

(* dynamic_store_remove, on a chain of one chunk. *)
RemoveChain(s, a) == IF a = 0 THEN s ELSE RemoveData(s, a, "dynamic")
--------------------------------------------------------------------------------
(* An address that is read from a record; past the end there is nothing to read. *)
Address(d, a) == IF a \in 0 .. Len(d) + 1 THEN a ELSE 0

(* Where a field of the records of one kind leads; nowhere from other blocks.    *)
Link(d, kind, field) ==
  [b \in 0 .. Len(d) + 1 |-> IF IsA(d, b, kind) THEN Address(d, d[b][field]) ELSE 0]

NodeChain(d, first) == Chain(Link(d, "node", "next"), Address(d, first))
PropertyChain(d, n) == Chain(Link(d, "property", "next"), Address(d, d[n].prop))

(* The chain of a node, followed on the node's own side of each relationship, as *)
(* nodes_equal and remove_node do.                                               *)
RelationshipChain(d, n) ==
  LET fnext == Link(d, "relationship", "fnext")
      snext == Link(d, "relationship", "snext")
  IN  Chain([b \in 0 .. Len(d) + 1 |->
               IF IsA(d, b, "relationship") /\ d[b].first = n THEN fnext[b] ELSE snext[b]],
            Address(d, d[n].rel))

(* The chain find_relationship follows from a node: always first_next.           *)
FirstNextChain(d, n) == Chain(Link(d, "relationship", "fnext"), Address(d, d[n].rel))

FreeChain(d, a) == Chain(Link(d, "free", "next"), Address(d, a))
================================================================================
