---------------------------- MODULE GraphStoreProofs ----------------------------
(* Theorems about GraphStore. *)
EXTENDS GraphStore, ChainTheorems

(* A sequence, of whatever there is in it. *)
IsList(d) == \E S : d \in Seq(S)

(* What a call works on: the file, the header in memory, the writes so far.      *)
IsState(s) ==
  /\ s = [disk |-> s.disk, meta |-> s.meta, log |-> s.log]
  /\ IsList(s.disk) /\ IsList(s.log)

(* The last of the writes to the header, in a file with the header m0, is of m.  *)
Saved(log, m, m0) ==
  \/ \E i \in 1 .. Len(log) :
       log[i].at = 0 /\ log[i].data = m /\ \A j \in i + 1 .. Len(log) : log[j].at # 0
  \/ m = m0 /\ \A j \in 1 .. Len(log) : log[j].at # 0

Kept(s, m0) == IsState(s) /\ Saved(s.log, s.meta, m0)

(* The inductive invariant: what is in memory of the header is saved when the    *)
(* writes of the call have been made.                                            *)
SavedInv == IsList(disk) /\ IsList(pend) /\ Saved(pend, meta, dmeta)
--------------------------------------------------------------------------------
(* Lists. *)
LEMMA ListLength ==
  ASSUME NEW d, IsList(d)
  PROVE  Len(d) \in Nat /\ DOMAIN d = 1 .. Len(d)
BY DEF IsList

(* One more element. *)
LEMMA ListAppend ==
  ASSUME NEW d, IsList(d), NEW x
  PROVE  /\ IsList(Append(d, x)) /\ Len(Append(d, x)) = Len(d) + 1
         /\ Append(d, x)[Len(d) + 1] = x
         /\ \A i \in 1 .. Len(d) : Append(d, x)[i] = d[i]
<1>1. PICK S : d \in Seq(S)
  BY DEF IsList
<1>2. d \in Seq(S \cup {x}) /\ x \in S \cup {x}
  BY <1>1
<1>3. Append(d, x) \in Seq(S \cup {x})
  BY <1>2
<1> QED
  BY <1>1, <1>2, <1>3 DEF IsList

(* A block is written. *)
LEMMA ListPut ==
  ASSUME NEW d, IsList(d), NEW a, NEW x
  PROVE  IsList(PutAt(d, a, x))
<1>1. PICK S : d \in Seq(S)
  BY DEF IsList
<1>2. d \in Seq(S \cup {x}) /\ x \in S \cup {x}
  BY <1>1
<1> DEFINE T == S \cup {x}
           e == [d EXCEPT ![a] = x]
<1>3. Len(d) \in Nat /\ d \in [1 .. Len(d) -> T]
  BY <1>2
<1> HIDE DEF T
<1>4. e \in [1 .. Len(d) -> T]
  BY <1>2, <1>3 DEF T
<1> HIDE DEF e
<1>5. e \in Seq(T)
  BY <1>3, <1>4
<1> QED
  BY <1>5, ListAppend DEF IsList, PutAt, e

(* One element less. *)
LEMMA ListTail ==
  ASSUME NEW d, IsList(d), d # <<>>
  PROVE  /\ IsList(Tail(d)) /\ Len(d) \in Nat \ {0} /\ Len(Tail(d)) = Len(d) - 1
         /\ Head(d) = d[1]
         /\ \A i \in 1 .. Len(d) - 1 : Tail(d)[i] = d[i + 1]
BY DEF IsList
--------------------------------------------------------------------------------
(* A write of a record changes the file and not the header. *)
LEMMA WriteState ==
  ASSUME NEW s, IsState(s), NEW a, NEW rec
  PROVE  /\ IsState(Write(s, a, rec))
         /\ Write(s, a, rec).disk = PutAt(s.disk, a, rec)
         /\ Write(s, a, rec).meta = s.meta
         /\ Write(s, a, rec).log = Append(s.log, [at |-> a, data |-> rec])
<1> DEFINE d == s.disk
           m == s.meta
           l == s.log
<1>1. s = [disk |-> d, meta |-> m, log |-> l]
  BY DEF IsState
<1>2. IsList(d) /\ IsList(l)
  BY DEF IsState
<1> HIDE DEF d, m, l
<1>3. Write(s, a, rec) = [disk |-> PutAt(d, a, rec), meta |-> m,
                          log |-> Append(l, [at |-> a, data |-> rec])]
  <2> DEFINE e == PutAt(d, a, rec)
             k == Append(l, [at |-> a, data |-> rec])
  <2>1. s.disk = d /\ s.log = l
    BY <1>1
  <2>2. Write(s, a, rec) = [s EXCEPT !.disk = e, !.log = k]
    BY <2>1 DEF Write
  <2> HIDE DEF e, k
  <2> DEFINE u == [s EXCEPT !.disk = e]
  <2>3. u = [disk |-> e, meta |-> m, log |-> l]
    BY <1>1
  <2>4. [s EXCEPT !.disk = e, !.log = k] = [u EXCEPT !.log = k]
    OBVIOUS
  <2> HIDE DEF u
  <2>5. [u EXCEPT !.log = k] = [disk |-> e, meta |-> m, log |-> k]
    BY <2>3
  <2> QED
    BY <2>2, <2>4, <2>5 DEF e, k
<1>4. IsList(PutAt(d, a, rec)) /\ IsList(Append(l, [at |-> a, data |-> rec]))
  BY <1>2, ListPut, ListAppend
<1> QED
  BY <1>3, <1>4 DEF IsState, d, m, l

(* A block is written: the header that is saved last stays the same. *)
LEMMA WriteKeeps ==
  ASSUME NEW s, NEW m0, Kept(s, m0), NEW a, a # 0, NEW rec
  PROVE  Kept(Write(s, a, rec), m0)
<1> DEFINE w == [at |-> a, data |-> rec]
           l == s.log
           k == Append(l, w)
           t == Write(s, a, rec)
<1>1. IsState(s) /\ IsList(l) /\ Len(l) \in Nat
  BY ListLength DEF Kept, IsState
<1>2. IsState(t) /\ t.meta = s.meta /\ t.log = k
  BY <1>1, WriteState
<1>3. Len(k) = Len(l) + 1 /\ k[Len(l) + 1] = w /\ \A i \in 1 .. Len(l) : k[i] = l[i]
  BY <1>1, ListAppend
<1>4. w.at # 0
  OBVIOUS
<1>5. Saved(l, s.meta, m0)
  BY DEF Kept
<1> HIDE DEF w, l, k, t
<1>6. Saved(k, s.meta, m0)
  <2>1. CASE \E i \in 1 .. Len(l) : /\ l[i].at = 0 /\ l[i].data = s.meta
                                    /\ \A j \in i + 1 .. Len(l) : l[j].at # 0
    <3>1. PICK i \in 1 .. Len(l) : /\ l[i].at = 0 /\ l[i].data = s.meta
                                   /\ \A j \in i + 1 .. Len(l) : l[j].at # 0
      BY <2>1
    <3>2. i \in 1 .. Len(k) /\ k[i].at = 0 /\ k[i].data = s.meta
      BY <1>1, <1>3, <3>1
    <3>3. \A j \in i + 1 .. Len(k) : k[j].at # 0
      BY <1>1, <1>3, <1>4, <3>1
    <3> QED
      BY <3>2, <3>3 DEF Saved
  <2>2. CASE s.meta = m0 /\ \A j \in 1 .. Len(l) : l[j].at # 0
    <3>1. \A j \in 1 .. Len(k) : k[j].at # 0
      BY <1>1, <1>3, <1>4, <2>2
    <3> QED
      BY <2>2, <3>1 DEF Saved
  <2> QED
    BY <1>5, <2>1, <2>2 DEF Saved
<1> QED
  BY <1>2, <1>6 DEF Kept, t

(* update_metadata_ saves the header, ... *)
LEMMA SaveMetaKeeps ==
  ASSUME NEW s, NEW m0, IsState(s)
  PROVE  /\ Kept(SaveMeta(s), m0)
         /\ SaveMeta(s).disk = s.disk /\ SaveMeta(s).meta = s.meta
         /\ SaveMeta(s).log = Append(s.log, [at |-> 0, data |-> s.meta])
<1> DEFINE d == s.disk
           m == s.meta
           l == s.log
           w == [at |-> 0, data |-> m]
           k == Append(l, w)
           t == SaveMeta(s)
<1>1. s = [disk |-> d, meta |-> m, log |-> l]
  BY DEF IsState
<1>2. IsList(d) /\ IsList(l) /\ Len(l) \in Nat
  BY ListLength DEF IsState
<1>3. w.at = 0 /\ w.data = m
  OBVIOUS
<1> HIDE DEF d, m, l
<1>4. t = [disk |-> d, meta |-> m, log |-> k]
  BY <1>1, SMTT(30) DEF SaveMeta
<1>5. IsList(k) /\ Len(k) = Len(l) + 1 /\ k[Len(l) + 1] = w
  BY <1>2, ListAppend
<1>6. t.disk = d /\ t.meta = m /\ t.log = k
  BY <1>4
<1> HIDE DEF w, k, t
<1>7. IsState(t)
  BY <1>2, <1>4, <1>5, <1>6 DEF IsState
<1>8. Saved(k, m, m0)
  <2>1. Len(k) \in 1 .. Len(k) /\ Len(k) = Len(l) + 1
    BY <1>2, <1>5
  <2>2. k[Len(k)].at = 0 /\ k[Len(k)].data = m
    BY <1>3, <1>5, <2>1
  <2>3. \A j \in Len(k) + 1 .. Len(k) : k[j].at # 0
    BY <2>1
  <2> QED
    BY <2>1, <2>2, <2>3 DEF Saved
<1> QED
  BY <1>6, <1>7, <1>8 DEF Kept, d, m, l, t, k, w

(* ... whatever was changed in it before. *)
LEMMA MetaState ==
  ASSUME NEW s, IsState(s), NEW m
  PROVE  /\ IsState([s EXCEPT !.meta = m])
         /\ [s EXCEPT !.meta = m].disk = s.disk
         /\ [s EXCEPT !.meta = m].meta = m
         /\ [s EXCEPT !.meta = m].log = s.log
BY DEF IsState

(* get_available_space: the block it gives is none of the header, ... *)
LEMMA AvailableNotZero ==
  ASSUME NEW s, IsState(s), NEW class PROVE Available(s, class) # 0
BY ListLength DEF Available, IsState

(* ... and the header it changes is saved. *)
LEMMA TakeKeeps ==
  ASSUME NEW s, NEW m0, Kept(s, m0), NEW class
  PROVE  Kept(Take(s, class), m0)
<1> DEFINE u == [s EXCEPT !.meta.free[class] = s.disk[@].next]
<1>1. IsState(s)
  BY DEF Kept
<1>2. PICK m : u = [s EXCEPT !.meta = m]
  OBVIOUS
<1>3. IsState(u)
  BY <1>1, <1>2, MetaState
<1> HIDE DEF u
<1>4. Kept(SaveMeta(u), m0)
  BY <1>3, SaveMetaKeeps
<1> QED
  BY <1>4 DEF Take, u

(* A block is taken from its free list, and written. *)
LEMMA PlaceKeeps ==
  ASSUME NEW s, NEW m0, Kept(s, m0), NEW class, NEW rec
  PROVE  Kept(Place(s, class, rec), m0)
<1>1. Kept(Take(s, class), m0)
  BY TakeKeeps
<1>2. Available(s, class) # 0
  BY AvailableNotZero DEF Kept
<1> QED
  BY <1>1, <1>2, WriteKeeps DEF Place

(* node_write with addr = 0 saves the header last. *)
LEMMA InsertNodeKeeps ==
  ASSUME NEW s, NEW m0, Kept(s, m0), NEW node
  PROVE  Kept(InsertNode(s, node), m0)
<1> DEFINE a == Available(s, "static")
           t == Take(s, "static")
           last == t.meta.last
           u == IF last = 0 THEN t ELSE Write(t, last, [t.disk[last] EXCEPT !.next = a])
           v == Write(u, a, [node EXCEPT !.prev = last])
           x == [v EXCEPT !.meta.last = a, !.meta.first = IF @ = 0 THEN a ELSE @]
<1>1. IsState(t)
  BY TakeKeeps DEF Kept
<1> HIDE DEF t, a
<1>2. IsState(u)
  BY <1>1, WriteState
<1> HIDE DEF u
<1>3. IsState(v)
  BY <1>2, WriteState
<1> HIDE DEF v
<1>4. PICK m : x = [v EXCEPT !.meta = m]
  OBVIOUS
<1>5. IsState(x)
  BY <1>3, <1>4, MetaState
<1> HIDE DEF x
<1>6. Kept(SaveMeta(x), m0)
  BY <1>5, SaveMetaKeeps
<1> QED
  BY <1>6 DEF InsertNode, x, v, u, last, t, a

(* So does free_space_write. *)
LEMMA RemoveDataKeeps ==
  ASSUME NEW s, NEW m0, Kept(s, m0), NEW a, NEW class
  PROVE  Kept(RemoveData(s, a, class), m0)
<1> DEFINE u == [s EXCEPT !.meta.free[class] = a]
           v == Write(u, a, FreeSpace(class, s.meta.free[class]))
<1>1. PICK m : u = [s EXCEPT !.meta = m]
  OBVIOUS
<1>2. IsState(u)
  BY <1>1, MetaState DEF Kept
<1> HIDE DEF u
<1>3. IsState(v)
  BY <1>2, WriteState
<1> HIDE DEF v
<1>4. Kept(SaveMeta(v), m0)
  BY <1>3, SaveMetaKeeps
<1> QED
  BY <1>4 DEF RemoveData, v, u

(* A chunk is released. *)
LEMMA RemoveChainKeeps ==
  ASSUME NEW s, NEW m0, Kept(s, m0), NEW a
  PROVE  Kept(RemoveChain(s, a), m0)
BY RemoveDataKeeps DEF RemoveChain
--------------------------------------------------------------------------------
(* The parts of the operations. *)
LEMMA StorePropertyKeeps ==
  ASSUME NEW s, NEW m0, Kept(s, m0), NEW prop, NEW next
  PROVE  Kept(StoreProperty(s, prop, next), m0)
<1> DEFINE k == Available(s, "dynamic")
           s1 == Place(s, "dynamic", Chunk(prop.key))
           v == IF prop.type = "STRING" THEN Available(s1, "dynamic") ELSE prop.val
           s2 == IF prop.type = "STRING" THEN Place(s1, "dynamic", Chunk(prop.val)) ELSE s1
<1>1. Kept(s1, m0)
  BY PlaceKeeps
<1> HIDE DEF s1, k
<1>2. Kept(s2, m0)
  BY <1>1, PlaceKeeps
<1> HIDE DEF s2, v
<1>3. Kept(Place(s2, "static", Property(prop.type, k, v, next)), m0)
  BY <1>2, PlaceKeeps
<1> QED
  BY <1>3 DEF StoreProperty, s1, s2, k, v

(* The head of a chain is written. *)
LEMMA SetPreviousKeeps ==
  ASSUME NEW s, NEW m0, Kept(s, m0), NEW a, NEW r
  PROVE  Kept(SetPrevious(s, a, r), m0)
BY PlaceKeeps, WriteKeeps DEF SetPrevious

(* A neighbour is repaired. *)
LEMMA RepairKeeps ==
  ASSUME NEW s, NEW m0, Kept(s, m0), NEW a, NEW r, NEW side, NEW same, NEW other, NEW value
  PROVE  Kept(Repair(s, a, r, side, same, other, value), m0)
<1> DEFINE field == IF s.disk[a][side] = r[side] THEN same ELSE other
<1>1. a # 0 => Kept(Write(s, a, [s.disk[a] EXCEPT ![field] = value]), m0)
  BY WriteKeeps
<1> QED
  BY <1>1 DEF Repair

(* The blocks of a property are released, ... *)
LEMMA FreePropertyKeeps ==
  ASSUME NEW s, NEW m0, Kept(s, m0), NEW p
  PROVE  Kept(FreeProperty(s, p), m0)
<1> DEFINE s1 == RemoveChain(s, s.disk[p].key)
           s2 == IF s.disk[p].type = "STRING" THEN RemoveChain(s1, s.disk[p].val) ELSE s1
<1>1. Kept(s1, m0)
  BY RemoveChainKeeps
<1> HIDE DEF s1
<1>2. Kept(s2, m0)
  BY <1>1, RemoveChainKeeps
<1> HIDE DEF s2
<1>3. Kept(RemoveData(s2, p, "static"), m0)
  BY <1>2, RemoveDataKeeps
<1> QED
  BY <1>3 DEF FreeProperty, s1, s2

(* ... and those of a relationship. *)
LEMMA FreeRelationshipKeeps ==
  ASSUME NEW s, NEW m0, Kept(s, m0), NEW r
  PROVE  Kept(FreeRelationship(s, r), m0)
<1>1. Kept(RemoveChain(s, s.disk[r].type), m0)
  BY RemoveChainKeeps
<1> QED
  BY <1>1, RemoveDataKeeps DEF FreeRelationship

(* An unlinked node is one the header may name. *)
LEMMA UnlinkKeeps ==
  ASSUME NEW s, NEW m0, Kept(s, m0), NEW node, NEW n
  PROVE  Kept(Unlink(s, node, n), m0)
<1> DEFINE s1 == IF n.prev = 0 THEN s
                 ELSE Write(s, n.prev, [s.disk[n.prev] EXCEPT !.next = n.next])
           s2 == IF n.next = 0 THEN s1
                 ELSE Write(s1, n.next, [s1.disk[n.next] EXCEPT !.prev = n.prev])
           s3 == [s2 EXCEPT !.meta.first = IF @ = node THEN n.next ELSE @,
                            !.meta.last = IF @ = node THEN n.prev ELSE @]
<1>1. Kept(s1, m0)
  BY WriteKeeps
<1> HIDE DEF s1
<1>2. Kept(s2, m0)
  BY <1>1, WriteKeeps
<1> HIDE DEF s2
<1>3. PICK m : s3 = [s2 EXCEPT !.meta = m]
  OBVIOUS
<1>4. IsState(s3) /\ s3.log = s2.log
  BY <1>2, <1>3, MetaState DEF Kept
<1> HIDE DEF s3
<1>5. CASE s3.meta = s2.meta
  BY <1>2, <1>4, <1>5 DEF Kept, Unlink, s1, s2, s3
<1>6. CASE s3.meta # s2.meta
  <2>1. Kept(SaveMeta(s3), m0)
    BY <1>4, SaveMetaKeeps
  <2> QED
    BY <1>6, <2>1 DEF Unlink, s1, s2, s3
<1> QED
  BY <1>5, <1>6

--------------------------------------------------------------------------------
(* The loops over a chain. *)
(* The states of the loop of remove_node over the properties, one after another. *)
FreePropertiesLoop(s, ps, n, f) ==
  f = [i \in 0 .. n |-> IF i = 0 THEN s ELSE FreeProperty(f[i - 1], ps[i])]

(* The properties of a node are released in turn, ... *)
LEMMA FreePropertiesIs ==
  ASSUME NEW s, NEW ps, Len(ps) \in Nat
  PROVE  /\ FreeProperties(s, ps)[0] = s
         /\ \A i \in 1 .. Len(ps) :
              FreeProperties(s, ps)[i] = FreeProperty(FreeProperties(s, ps)[i - 1], ps[i])
<1> DEFINE Loop(n, f) == FreePropertiesLoop(s, ps, n, f)
           A == {n \in Nat : \E f : Loop(n, f)}
<1>1. 0 \in A
  <2> DEFINE f == [i \in 0 .. 0 |-> s]
  <2>1. Loop(0, f)
    BY DEF FreePropertiesLoop
  <2> QED
    BY <2>1
<1>2. ASSUME NEW n \in Nat, n \in A PROVE n + 1 \in A
  <2>1. PICK f : Loop(n, f)
    BY <1>2
  <2>2. /\ DOMAIN f = 0 .. n
        /\ \A i \in 0 .. n : f[i] = IF i = 0 THEN s ELSE FreeProperty(f[i - 1], ps[i])
    <3>1. f = [i \in 0 .. n |-> IF i = 0 THEN s ELSE FreeProperty(f[i - 1], ps[i])]
      BY <2>1 DEF FreePropertiesLoop
    <3> QED
      BY <3>1
  <2> DEFINE g == [i \in 0 .. n + 1 |-> IF i = n + 1 THEN FreeProperty(f[n], ps[n + 1]) ELSE f[i]]
  <2>3. \A i \in 0 .. n + 1 : g[i] = IF i = 0 THEN s ELSE FreeProperty(g[i - 1], ps[i])
    <3> TAKE i \in 0 .. n + 1
    <3>1. CASE i = n + 1
      <4>1. i # 0 /\ i - 1 = n /\ n \in 0 .. n + 1 /\ n # n + 1
        BY <3>1
      <4> QED
        BY <3>1, <4>1
    <3>2. CASE i # n + 1
      <4>1. i \in 0 .. n
        BY <3>2
      <4>2. i # 0 => i - 1 \in 0 .. n + 1 /\ i - 1 # n + 1
        BY <4>1
      <4> QED
        BY <2>2, <3>2, <4>1, <4>2
    <3> QED
      BY <3>1, <3>2
  <2>4. g = [i \in 0 .. n + 1 |-> IF i = 0 THEN s ELSE FreeProperty(g[i - 1], ps[i])]
    BY <2>3
  <2> HIDE DEF g
  <2>5. Loop(n + 1, g)
    BY <2>4 DEF FreePropertiesLoop
  <2> QED
    BY <2>5
<1> HIDE DEF A
<1>3. Nat \subseteq A
  BY <1>1, <1>2, Induct
<1> DEFINE after == FreeProperties(s, ps)
<1>4. \E f : Loop(Len(ps), f)
  BY <1>3 DEF A
<1>5. after = CHOOSE f : Loop(Len(ps), f)
  BY DEF FreeProperties, FreePropertiesLoop
<1>6. Loop(Len(ps), after)
  BY <1>4, <1>5
<1> HIDE DEF after
<1>7. after = [i \in 0 .. Len(ps) |->
                IF i = 0 THEN s ELSE FreeProperty(after[i - 1], ps[i])]
  BY <1>6 DEF FreePropertiesLoop
<1> QED
  BY <1>7 DEF after
(* Likewise, over the relationships. *)
FreeRelationshipsLoop(s, rs, n, f) ==
  f = [i \in 0 .. n |-> IF i = 0 THEN s ELSE FreeRelationship(f[i - 1], rs[i])]

(* ... and so are its relationships. *)
LEMMA FreeRelationshipsIs ==
  ASSUME NEW s, NEW rs, Len(rs) \in Nat
  PROVE  /\ FreeRelationships(s, rs)[0] = s
         /\ \A i \in 1 .. Len(rs) :
              FreeRelationships(s, rs)[i] = FreeRelationship(FreeRelationships(s, rs)[i - 1], rs[i])
<1> DEFINE Loop(n, f) == FreeRelationshipsLoop(s, rs, n, f)
           A == {n \in Nat : \E f : Loop(n, f)}
<1>1. 0 \in A
  <2> DEFINE f == [i \in 0 .. 0 |-> s]
  <2>1. Loop(0, f)
    BY DEF FreeRelationshipsLoop
  <2> QED
    BY <2>1
<1>2. ASSUME NEW n \in Nat, n \in A PROVE n + 1 \in A
  <2>1. PICK f : Loop(n, f)
    BY <1>2
  <2>2. /\ DOMAIN f = 0 .. n
        /\ \A i \in 0 .. n : f[i] = IF i = 0 THEN s ELSE FreeRelationship(f[i - 1], rs[i])
    <3>1. f = [i \in 0 .. n |-> IF i = 0 THEN s ELSE FreeRelationship(f[i - 1], rs[i])]
      BY <2>1 DEF FreeRelationshipsLoop
    <3> QED
      BY <3>1
  <2> DEFINE g == [i \in 0 .. n + 1 |-> IF i = n + 1 THEN FreeRelationship(f[n], rs[n + 1]) ELSE f[i]]
  <2>3. \A i \in 0 .. n + 1 : g[i] = IF i = 0 THEN s ELSE FreeRelationship(g[i - 1], rs[i])
    <3> TAKE i \in 0 .. n + 1
    <3>1. CASE i = n + 1
      <4>1. i # 0 /\ i - 1 = n /\ n \in 0 .. n + 1 /\ n # n + 1
        BY <3>1
      <4> QED
        BY <3>1, <4>1
    <3>2. CASE i # n + 1
      <4>1. i \in 0 .. n
        BY <3>2
      <4>2. i # 0 => i - 1 \in 0 .. n + 1 /\ i - 1 # n + 1
        BY <4>1
      <4> QED
        BY <2>2, <3>2, <4>1, <4>2
    <3> QED
      BY <3>1, <3>2
  <2>4. g = [i \in 0 .. n + 1 |-> IF i = 0 THEN s ELSE FreeRelationship(g[i - 1], rs[i])]
    BY <2>3
  <2> HIDE DEF g
  <2>5. Loop(n + 1, g)
    BY <2>4 DEF FreeRelationshipsLoop
  <2> QED
    BY <2>5
<1> HIDE DEF A
<1>3. Nat \subseteq A
  BY <1>1, <1>2, Induct
<1> DEFINE after == FreeRelationships(s, rs)
<1>4. \E f : Loop(Len(rs), f)
  BY <1>3 DEF A
<1>5. after = CHOOSE f : Loop(Len(rs), f)
  BY DEF FreeRelationships, FreeRelationshipsLoop
<1>6. Loop(Len(rs), after)
  BY <1>4, <1>5
<1> HIDE DEF after
<1>7. after = [i \in 0 .. Len(rs) |->
                IF i = 0 THEN s ELSE FreeRelationship(after[i - 1], rs[i])]
  BY <1>6 DEF FreeRelationshipsLoop
<1> QED
  BY <1>7 DEF after
(* Likewise, the loop of add_node over the properties of a description. *)
StoreNext(s, desc, i) ==
  StoreProperty(s, desc[Len(desc) + 1 - i], IF i = 1 THEN 0 ELSE Stored(s))

StorePropertiesLoop(s, desc, n, f) ==
  f = [i \in 0 .. n |-> IF i = 0 THEN s ELSE StoreNext(f[i - 1], desc, i)]

(* The properties of a description are written in turn. *)
LEMMA StorePropertiesIs ==
  ASSUME NEW s, NEW desc, Len(desc) \in Nat
  PROVE  /\ StoreProperties(s, desc)[0] = s
         /\ \A i \in 1 .. Len(desc) :
              StoreProperties(s, desc)[i] = StoreNext(StoreProperties(s, desc)[i - 1], desc, i)
<1> DEFINE Loop(n, f) == StorePropertiesLoop(s, desc, n, f)
           A == {n \in Nat : \E f : Loop(n, f)}
<1>1. 0 \in A
  <2> DEFINE f == [i \in 0 .. 0 |-> s]
  <2>1. Loop(0, f)
    BY DEF StorePropertiesLoop
  <2> QED
    BY <2>1
<1>2. ASSUME NEW n \in Nat, n \in A PROVE n + 1 \in A
  <2>1. PICK f : Loop(n, f)
    BY <1>2
  <2>2. /\ DOMAIN f = 0 .. n
        /\ \A i \in 0 .. n : f[i] = IF i = 0 THEN s ELSE StoreNext(f[i - 1], desc, i)
    <3>1. f = [i \in 0 .. n |-> IF i = 0 THEN s ELSE StoreNext(f[i - 1], desc, i)]
      BY <2>1 DEF StorePropertiesLoop
    <3> QED
      BY <3>1
  <2> DEFINE g == [i \in 0 .. n + 1 |-> IF i = n + 1 THEN StoreNext(f[n], desc, n + 1) ELSE f[i]]
  <2>3. \A i \in 0 .. n + 1 : g[i] = IF i = 0 THEN s ELSE StoreNext(g[i - 1], desc, i)
    <3> TAKE i \in 0 .. n + 1
    <3>1. CASE i = n + 1
      <4>1. i # 0 /\ i - 1 = n /\ n \in 0 .. n + 1 /\ n # n + 1
        BY <3>1
      <4> QED
        BY <3>1, <4>1
    <3>2. CASE i # n + 1
      <4>1. i \in 0 .. n
        BY <3>2
      <4>2. i # 0 => i - 1 \in 0 .. n + 1 /\ i - 1 # n + 1
        BY <4>1
      <4> QED
        BY <2>2, <3>2, <4>1, <4>2
    <3> QED
      BY <3>1, <3>2
  <2>4. g = [i \in 0 .. n + 1 |-> IF i = 0 THEN s ELSE StoreNext(g[i - 1], desc, i)]
    BY <2>3
  <2> HIDE DEF g
  <2>5. Loop(n + 1, g)
    BY <2>4 DEF StorePropertiesLoop
  <2> QED
    BY <2>5
<1> HIDE DEF A
<1>3. Nat \subseteq A
  BY <1>1, <1>2, Induct
<1> DEFINE after == StoreProperties(s, desc)
<1>4. \E f : Loop(Len(desc), f)
  BY <1>3 DEF A
<1>5. after = CHOOSE f : Loop(Len(desc), f)
  BY DEF StoreProperties, StorePropertiesLoop, StoreNext
<1>6. Loop(Len(desc), after)
  BY <1>4, <1>5
<1> HIDE DEF after
<1>7. after = [i \in 0 .. Len(desc) |->
                IF i = 0 THEN s ELSE StoreNext(after[i - 1], desc, i)]
  BY <1>6 DEF StorePropertiesLoop
<1> QED
  BY <1>7 DEF after

(* The three loops, whatever they are given. *)
LEMMA FreePropertiesKeep ==
  ASSUME NEW s, NEW m0, Kept(s, m0), NEW ps, Len(ps) \in Nat
  PROVE  Kept(FreeProperties(s, ps)[Len(ps)], m0)
<1> DEFINE A == {i \in Nat : i <= Len(ps) => Kept(FreeProperties(s, ps)[i], m0)}
<1>1. 0 \in A
  BY FreePropertiesIs
<1>2. ASSUME NEW i \in Nat, i \in A PROVE i + 1 \in A
  <2> SUFFICES ASSUME i + 1 <= Len(ps) PROVE Kept(FreeProperties(s, ps)[i + 1], m0)
    OBVIOUS
  <2>1. i + 1 \in 1 .. Len(ps) /\ (i + 1) - 1 = i /\ i <= Len(ps)
    OBVIOUS
  <2>2. FreeProperties(s, ps)[i + 1] = FreeProperty(FreeProperties(s, ps)[i], ps[i + 1])
    BY <2>1, FreePropertiesIs
  <2>3. Kept(FreeProperties(s, ps)[i], m0)
    BY <1>2, <2>1
  <2> QED
    BY <2>2, <2>3, FreePropertyKeeps
<1> HIDE DEF A
<1>3. Nat \subseteq A
  BY <1>1, <1>2, Induct
<1> QED
  BY <1>3 DEF A

(* The relationships of a node. *)
LEMMA FreeRelationshipsKeep ==
  ASSUME NEW s, NEW m0, Kept(s, m0), NEW rs, Len(rs) \in Nat
  PROVE  Kept(FreeRelationships(s, rs)[Len(rs)], m0)
<1> DEFINE A == {i \in Nat : i <= Len(rs) => Kept(FreeRelationships(s, rs)[i], m0)}
<1>1. 0 \in A
  BY FreeRelationshipsIs
<1>2. ASSUME NEW i \in Nat, i \in A PROVE i + 1 \in A
  <2> SUFFICES ASSUME i + 1 <= Len(rs) PROVE Kept(FreeRelationships(s, rs)[i + 1], m0)
    OBVIOUS
  <2>1. i + 1 \in 1 .. Len(rs) /\ (i + 1) - 1 = i /\ i <= Len(rs)
    OBVIOUS
  <2>2. FreeRelationships(s, rs)[i + 1]
          = FreeRelationship(FreeRelationships(s, rs)[i], rs[i + 1])
    BY <2>1, FreeRelationshipsIs
  <2>3. Kept(FreeRelationships(s, rs)[i], m0)
    BY <1>2, <2>1
  <2> QED
    BY <2>2, <2>3, FreeRelationshipKeeps
<1> HIDE DEF A
<1>3. Nat \subseteq A
  BY <1>1, <1>2, Induct
<1> QED
  BY <1>3 DEF A

(* The properties of a description. *)
LEMMA StorePropertiesKeep ==
  ASSUME NEW s, NEW m0, Kept(s, m0), NEW desc, Len(desc) \in Nat
  PROVE  Kept(StoreProperties(s, desc)[Len(desc)], m0)
<1> DEFINE A == {i \in Nat : i <= Len(desc) => Kept(StoreProperties(s, desc)[i], m0)}
<1>1. 0 \in A
  BY StorePropertiesIs
<1>2. ASSUME NEW i \in Nat, i \in A PROVE i + 1 \in A
  <2> SUFFICES ASSUME i + 1 <= Len(desc) PROVE Kept(StoreProperties(s, desc)[i + 1], m0)
    OBVIOUS
  <2>1. i + 1 \in 1 .. Len(desc) /\ (i + 1) - 1 = i /\ i <= Len(desc)
    OBVIOUS
  <2>2. StoreProperties(s, desc)[i + 1] = StoreNext(StoreProperties(s, desc)[i], desc, i + 1)
    BY <2>1, StorePropertiesIs
  <2>3. Kept(StoreProperties(s, desc)[i], m0)
    BY <1>2, <2>1
  <2> QED
    BY <2>2, <2>3, StorePropertyKeeps DEF StoreNext
<1> HIDE DEF A
<1>3. Nat \subseteq A
  BY <1>1, <1>2, Induct
<1> QED
  BY <1>3 DEF A
--------------------------------------------------------------------------------
(* The chains of a file. *)
LEMMA AddressIn ==
  ASSUME NEW d, IsList(d), NEW a PROVE Address(d, a) \in 0 .. Len(d) + 1
BY ListLength DEF Address

(* Whatever the records hold, a loop stays within the file. *)
LEMMA LinkClosed ==
  ASSUME NEW d, IsList(d), NEW kind, NEW field
  PROVE  /\ Closed(Link(d, kind, field))
         /\ DOMAIN Link(d, kind, field) = 0 .. Len(d) + 1
<1>1. Len(d) + 1 \in Nat
  BY ListLength
<1>2. IsFiniteSet(0 .. Len(d) + 1) /\ 0 \in 0 .. Len(d) + 1
  BY <1>1, FS_Interval
<1>3. \A b : Address(d, d[b][field]) \in 0 .. Len(d) + 1
  BY AddressIn
<1> QED
  BY <1>2, <1>3 DEF Link, Closed

(* The loop over the properties of a node ends, ... *)
LEMMA PropertyChainElements ==
  ASSUME NEW d, IsList(d), NEW n
  PROVE  PropertyChain(d, n) \in Seq((0 .. Len(d) + 1) \ {0})
<1>1. Address(d, d[n].prop) \in 0 .. Len(d) + 1
  BY AddressIn
<1> QED
  BY <1>1, LinkClosed, ChainNotZero DEF PropertyChain

(* ... and so does the one over its relationships. *)
LEMMA RelationshipChainElements ==
  ASSUME NEW d, IsList(d), NEW n
  PROVE  RelationshipChain(d, n) \in Seq((0 .. Len(d) + 1) \ {0})
<1> DEFINE X == 0 .. Len(d) + 1
           f == Link(d, "relationship", "fnext")
           g == Link(d, "relationship", "snext")
           l == [b \in X |->
                  IF IsA(d, b, "relationship") /\ d[b].first = n THEN f[b] ELSE g[b]]
<1>1. Closed(f) /\ Closed(g) /\ DOMAIN f = X /\ DOMAIN g = X
  BY LinkClosed
<1>2. Address(d, d[n].rel) \in X
  BY AddressIn
<1> HIDE DEF f, g, X
<1>3. Closed(l) /\ DOMAIN l = X
  BY <1>1 DEF Closed
<1>4. Chain(l, Address(d, d[n].rel)) \in Seq(X \ {0})
  BY <1>2, <1>3, ChainNotZero
<1> QED
  BY <1>4 DEF RelationshipChain, l, X, f, g

(* A set of indices has a least one. *)
LEMMA MinIn ==
  ASSUME NEW I, I \subseteq Nat, I # {} PROVE Min(I) \in I /\ \A y \in I : Min(I) <= y
<1> DEFINE R == OpToRel(<, Nat)
<1>1. IsWellFoundedOn(R, Nat)
  BY NatLessThanWellFounded
<1>2. \A x, y \in Nat : y < x => <<y, x>> \in R
  BY DEF OpToRel
<1> HIDE DEF R
<1>3. PICK x \in I : \A y \in I : <<y, x>> \notin R
  BY <1>1, WFMin
<1>4. \A y \in I : x <= y
  <2> TAKE y \in I
  <2>1. x \in Nat /\ y \in Nat
    OBVIOUS
  <2>2. ~(y < x)
    BY <1>2, <1>3, <2>1
  <2> QED
    BY <2>1, <2>2
<1> QED
  BY <1>4 DEF Min
--------------------------------------------------------------------------------
(* The operations. *)
LEMMA StartIsKept ==
  ASSUME SavedInv, Quiet PROVE Kept(Start, dmeta) /\ Start.disk = disk
<1>1. pend = <<>> /\ Len(pend) = 0
  BY DEF Quiet
<1>2. IsState(Start) /\ Start.log = <<>> /\ Start.meta = meta /\ Start.disk = disk
  BY <1>1 DEF SavedInv, Start, IsState
<1>3. Saved(<<>>, meta, dmeta)
  BY <1>1 DEF SavedInv
<1> QED
  BY <1>2, <1>3 DEF Kept

(* What an operation leaves to be written. *)
LEMMA PerformKeeps ==
  ASSUME SavedInv, NEW s, Kept(s, dmeta), Perform(s)
  PROVE  SavedInv'
BY DEF Perform, SavedInv, Kept, IsState

(* add_node. *)
LEMMA AddNodeSaves ==
  ASSUME SavedInv, NEW desc, Len(desc) \in Nat, AddNode(desc) PROVE SavedInv'
<1> DEFINE s1 == StoreProperties(Start, desc)[Len(desc)]
           head == IF desc = <<>> THEN 0 ELSE Stored(s1)
<1>1. Kept(s1, dmeta)
  BY StartIsKept, StorePropertiesKeep DEF AddNode, Ready
<1>2. Perform(InsertNode(s1, Node(0, head)))
  BY DEF AddNode
<1> HIDE DEF s1, head
<1>3. Kept(InsertNode(s1, Node(0, head)), dmeta)
  BY <1>1, InsertNodeKeeps
<1> QED
  BY <1>2, <1>3, PerformKeeps

(* add_property. *)
LEMMA AddPropertySaves ==
  ASSUME SavedInv, NEW desc, NEW prop, AddProperty(desc, prop) PROVE SavedInv'
<1> DEFINE n == FindNode(disk, meta.first, desc)
           s1 == StoreProperty(Start, prop, disk[n].prop)
           rec == [disk[n] EXCEPT !.prop = Stored(s1)]
<1>1. Ready /\ n # 0 /\ Perform(Write(s1, n, rec))
  BY DEF AddProperty
<1> HIDE DEF n
<1>2. Kept(s1, dmeta)
  BY <1>1, StartIsKept, StorePropertyKeeps DEF Ready
<1> HIDE DEF s1, rec
<1>3. Kept(Write(s1, n, rec), dmeta)
  BY <1>1, <1>2, WriteKeeps
<1> QED
  BY <1>1, <1>3, PerformKeeps

(* add_relationship. *)
LEMMA AddRelationshipSaves ==
  ASSUME SavedInv, NEW rel, AddRelationship(rel) PROVE SavedInv'
<1> DEFINE n1 == FindNode(disk, meta.first, rel.first)
           n2 == FindNode(disk, meta.first, rel.second)
           t == Available(Start, "dynamic")
           s1 == Place(Start, "dynamic", Chunk(rel.type))
           r == Available(s1, "static")
           s2 == Place(s1, "static", Relationship(t, n1, n2, disk[n1].rel, disk[n2].rel))
           s3 == SetPrevious(s2, disk[n1].rel, r)
           s4 == SetPrevious(s3, disk[n2].rel, r)
           s5 == Write(s4, n1, [disk[n1] EXCEPT !.rel = r])
           s6 == Write(s5, n2, [disk[n2] EXCEPT !.rel = r])
<1>1. Ready /\ n1 # 0 /\ n2 # 0 /\ Perform(s6)
  BY DEF AddRelationship
<1> HIDE DEF n1, n2, t
<1>2. Kept(s1, dmeta)
  BY <1>1, StartIsKept, PlaceKeeps DEF Ready
<1> HIDE DEF s1, r
<1>3. Kept(s2, dmeta)
  BY <1>2, PlaceKeeps
<1> HIDE DEF s2
<1>4. Kept(s3, dmeta)
  BY <1>3, SetPreviousKeeps
<1> HIDE DEF s3
<1>5. Kept(s4, dmeta)
  BY <1>4, SetPreviousKeeps
<1> HIDE DEF s4
<1>6. Kept(s5, dmeta)
  BY <1>1, <1>5, WriteKeeps
<1> HIDE DEF s5
<1>7. Kept(s6, dmeta)
  BY <1>1, <1>6, WriteKeeps
<1> HIDE DEF s6
<1> QED
  BY <1>1, <1>7, PerformKeeps

(* remove_node. *)
LEMMA RemoveNodeSaves ==
  ASSUME SavedInv, NEW desc, RemoveNode(desc) PROVE SavedInv'
<1> DEFINE node == FindNode(disk, meta.first, desc)
           ps == PropertyChain(disk, node)
           rs == RelationshipChain(disk, node)
           s0 == Unlink(Start, node, disk[node])
           s1 == FreeProperties(s0, ps)[Len(ps)]
           s2 == FreeRelationships(s1, rs)[Len(rs)]
           s3 == RemoveData(s2, node, "static")
<1>1. Ready /\ Perform(s3)
  BY DEF RemoveNode
<1> HIDE DEF node
<1>2. Len(ps) \in Nat /\ Len(rs) \in Nat
  BY PropertyChainElements, RelationshipChainElements DEF SavedInv
<1> HIDE DEF ps, rs
<1>3. Kept(s0, dmeta)
  BY <1>1, StartIsKept, UnlinkKeeps DEF Ready
<1> HIDE DEF s0
<1>4. Kept(s1, dmeta)
  BY <1>2, <1>3, FreePropertiesKeep
<1> HIDE DEF s1
<1>5. Kept(s2, dmeta)
  BY <1>2, <1>4, FreeRelationshipsKeep
<1> HIDE DEF s2
<1>6. Kept(s3, dmeta)
  BY <1>5, RemoveDataKeeps
<1> HIDE DEF s3
<1> QED
  BY <1>1, <1>6, PerformKeeps

(* remove_property. *)
LEMMA RemovePropertySaves ==
  ASSUME SavedInv, NEW desc, NEW prop, RemoveProperty(desc, prop) PROVE SavedInv'
<1> DEFINE n == FindNode(disk, meta.first, desc)
           chain == PropertyChain(disk, n)
           i == FindProperty(n, prop)
           p == chain[i]
           s1 == IF i = 1 THEN Start
                 ELSE Write(Start, chain[i - 1], [disk[chain[i - 1]] EXCEPT !.next = disk[p].next])
           s2 == IF disk[p].type = "STRING" THEN RemoveChain(s1, disk[p].val) ELSE s1
           s3 == RemoveChain(s2, disk[p].key)
           s4 == RemoveData(s3, p, "static")
<1>1. Ready /\ i # 0 /\ Perform(s4)
  BY DEF RemoveProperty
<1> HIDE DEF n
<1>2. chain \in Seq((0 .. Len(disk) + 1) \ {0}) /\ Len(chain) \in Nat
  BY PropertyChainElements DEF SavedInv
<1>3. i \in 1 .. Len(chain)
  <2> DEFINE I == {k \in 1 .. Len(chain) : SameKey(PropertyAt(disk, chain[k]), prop)}
  <2>1. i = IF I # {} THEN Min(I) ELSE 0
    BY DEF FindProperty, SelectInSeq
  <2>2. I \subseteq Nat /\ I \subseteq 1 .. Len(chain)
    OBVIOUS
  <2> HIDE DEF I, i
  <2> QED
    BY <1>1, <2>1, <2>2, MinIn
<1> HIDE DEF chain, i
<1>4. i # 1 => chain[i - 1] # 0
  BY <1>2, <1>3
<1> HIDE DEF p
<1>5. Kept(s1, dmeta)
  BY <1>1, <1>4, StartIsKept, WriteKeeps DEF Ready
<1> HIDE DEF s1
<1>6. Kept(s2, dmeta)
  BY <1>5, RemoveChainKeeps
<1> HIDE DEF s2
<1>7. Kept(s3, dmeta)
  BY <1>6, RemoveChainKeeps
<1> HIDE DEF s3
<1>8. Kept(s4, dmeta)
  BY <1>7, RemoveDataKeeps
<1> HIDE DEF s4
<1> QED
  BY <1>1, <1>8, PerformKeeps

(* remove_relationship. *)
LEMMA RemoveRelationshipSaves ==
  ASSUME SavedInv, NEW rel, RemoveRelationship(rel) PROVE SavedInv'
<1> DEFINE a == FindRelationship(disk, meta.first, rel)
           r == disk[a]
           s1 == Repair(Start, r.fprev, r, "first", "fnext", "snext", r.fnext)
           s2 == Repair(s1, r.sprev, r, "second", "snext", "fnext", r.snext)
           s3 == Repair(s2, r.fnext, r, "first", "fprev", "sprev", r.fprev)
           s4 == Repair(s3, r.snext, r, "second", "sprev", "fprev", r.sprev)
           s5 == RemoveChain(s4, r.type)
           s6 == RemoveData(s5, a, "static")
<1>1. Ready /\ Perform(s6)
  BY DEF RemoveRelationship
<1> HIDE DEF a, r
<1>2. Kept(s1, dmeta)
  BY <1>1, StartIsKept, RepairKeeps DEF Ready
<1> HIDE DEF s1
<1>3. Kept(s2, dmeta)
  BY <1>2, RepairKeeps
<1> HIDE DEF s2
<1>4. Kept(s3, dmeta)
  BY <1>3, RepairKeeps
<1> HIDE DEF s3
<1>5. Kept(s4, dmeta)
  BY <1>4, RepairKeeps
<1> HIDE DEF s4
<1>6. Kept(s5, dmeta)
  BY <1>5, RemoveChainKeeps
<1> HIDE DEF s5
<1>7. Kept(s6, dmeta)
  BY <1>6, RemoveDataKeeps
<1> HIDE DEF s6
<1> QED
  BY <1>1, <1>7, PerformKeeps

(* A description is a list, ... *)
LEMMA Described ==
  ASSUME NEW c \in Calls PROVE c.op = "add_node" => IsList(c.node)
BY CallsAssumption DEF IsList

(* ... and then every call saves the header. *)
LEMMA CallSaves ==
  ASSUME SavedInv, NEW c, c.op = "add_node" => IsList(c.node), Call(c) PROVE SavedInv'
<1>1. c.op = "add_node" => Len(c.node) \in Nat
  BY DEF IsList
<1>2. CASE Refuse(c)
  BY <1>2 DEF Refuse, vars, SavedInv
<1>3. CASE GoAstray(c)
  BY <1>3 DEF GoAstray, SavedInv
<1> QED
  BY <1>1, <1>2, <1>3, AddNodeSaves, RemoveNodeSaves, AddPropertySaves, RemovePropertySaves,
     AddRelationshipSaves, RemoveRelationshipSaves DEF Call

(* A write reaches the file. *)
LEMMA FlushSaves ==
  ASSUME SavedInv, Flush PROVE SavedInv'
<1> DEFINE w == Head(pend)
<1>1. /\ pend # <<>> /\ pend' = Tail(pend) /\ meta' = meta
      /\ w.at = 0 => dmeta' = w.data /\ disk' = disk
      /\ w.at # 0 => dmeta' = dmeta /\ disk' = PutAt(disk, w.at, w.data)
  BY DEF Flush
<1>2. /\ IsList(pend') /\ Len(pend) \in Nat \ {0} /\ Len(pend') = Len(pend) - 1
      /\ w = pend[1] /\ \A i \in 1 .. Len(pend) - 1 : pend'[i] = pend[i + 1]
  BY <1>1, ListTail DEF SavedInv
<1>3. IsList(disk')
  BY <1>1, ListPut DEF SavedInv
<1>4. Saved(pend', meta', dmeta')
  <2> DEFINE n == Len(pend)
  <2>1. CASE \E i \in 1 .. n : /\ pend[i].at = 0 /\ pend[i].data = meta
                               /\ \A j \in i + 1 .. n : pend[j].at # 0
    <3>1. PICK i \in 1 .. n : /\ pend[i].at = 0 /\ pend[i].data = meta
                              /\ \A j \in i + 1 .. n : pend[j].at # 0
      BY <2>1
    <3> HIDE DEF n
    <3>2. n \in Nat /\ Len(pend') = n - 1 /\ \A k \in 1 .. n - 1 : pend'[k] = pend[k + 1]
      BY <1>2 DEF n
    <3>3. \A j \in i .. n - 1 : pend'[j].at # 0
      BY <3>1, <3>2
    <3>4. CASE i = 1
      <4>1. dmeta' = meta' /\ \A j \in 1 .. Len(pend') : pend'[j].at # 0
        BY <1>1, <1>2, <3>1, <3>2, <3>3, <3>4
      <4> QED
        BY <4>1 DEF Saved
    <3>5. CASE i # 1
      <4>1. i - 1 \in 1 .. Len(pend') /\ pend'[i - 1] = pend[i]
        BY <3>1, <3>2, <3>5
      <4>2. \A j \in (i - 1) + 1 .. Len(pend') : pend'[j].at # 0
        BY <3>1, <3>2, <3>3
      <4> QED
        BY <1>1, <3>1, <4>1, <4>2 DEF Saved
    <3> QED
      BY <3>4, <3>5
  <2>2. CASE meta = dmeta /\ \A j \in 1 .. n : pend[j].at # 0
    BY <1>1, <1>2, <2>2 DEF Saved
  <2> QED
    BY <2>1, <2>2 DEF SavedInv, Saved
<1> QED
  BY <1>2, <1>3, <1>4 DEF SavedInv

(* A restart reads the header that is in the file. *)
LEMMA CrashSaves ==
  ASSUME SavedInv, Crash PROVE SavedInv'
<1>1. pend' = <<>> /\ meta' = dmeta /\ dmeta' = dmeta /\ disk' = disk
  BY DEF Crash
<1>2. <<>> \in Seq({}) /\ Len(<<>>) = 0
  OBVIOUS
<1>3. IsList(<<>>) /\ Saved(<<>>, dmeta, dmeta)
  BY <1>2 DEF IsList, Saved
<1> QED
  BY <1>1, <1>3 DEF SavedInv

(* Nothing is to be written at first. *)
LEMMA InitSaved ==
  ASSUME Init PROVE SavedInv
<1>1. <<>> \in Seq({}) /\ Len(<<>>) = 0
  OBVIOUS
<1>2. IsList(<<>>) /\ Saved(<<>>, EmptyMeta, EmptyMeta)
  BY <1>1 DEF IsList, Saved
<1> QED
  BY <1>2 DEF Init, SavedInv

(* The invariant holds. *)
THEOREM SavedInductive ==
  Spec => []SavedInv
<1>1. Init => SavedInv
  BY InitSaved
<1>2. SavedInv /\ [Next]_vars => SavedInv'
  <2> SUFFICES ASSUME SavedInv, [Next]_vars PROVE SavedInv'
    OBVIOUS
  <2>1. CASE UNCHANGED vars
    BY <2>1 DEF vars, SavedInv
  <2>2. CASE Next
    BY <2>2, Described, CallSaves, FlushSaves, CrashSaves DEF Next
  <2> QED
    BY <2>1, <2>2
<1> QED
  BY <1>1, <1>2, PTL DEF Spec

(* When nothing is to be written the headers are the same. *)
LEMMA SavedIs ==
  ASSUME SavedInv PROVE MetaSaved
<1>1. pend = <<>> => Len(pend) = 0
  OBVIOUS
<1> QED
  BY <1>1 DEF SavedInv, Saved, MetaSaved, Quiet

(* Between operations the header in the file is the one in memory: every         *)
(* operation saves what it changed of it, whatever it was called with and        *)
(* whatever it found in the file.                                                *)
THEOREM AlwaysMetaSaved ==
  Spec => []MetaSaved
<1>1. SavedInv => MetaSaved
  BY SavedIs
<1> QED
  BY <1>1, SavedInductive, PTL

--------------------------------------------------------------------------------
Kinds(d) ==
  \A b \in 1 .. Len(d) :
    d[b].kind \in {"node", "property", "relationship", "chunk", "free", "junk"}

(* The records that are read, changed and written back. *)
NodeRecord(r) ==
  r = [kind |-> "node", rel |-> r.rel, prop |-> r.prop, next |-> r.next, prev |-> r.prev]

PropertyRecord(r) ==
  r = [kind |-> "property", type |-> r.type, key |-> r.key, val |-> r.val, next |-> r.next]

RelationRecord(r) ==
  r = [kind |-> "relationship", type |-> r.type, first |-> r.first, second |-> r.second,
       fprev |-> r.fprev, fnext |-> r.fnext, sprev |-> r.sprev, snext |-> r.snext]

Header(m) ==
  m = [first |-> m.first, last |-> m.last,
       free |-> [static |-> m.free.static, dynamic |-> m.free.dynamic]]

(* s is a list of records of one kind that starts at a. *)
Way(d, kind, a, s) ==
  /\ IsList(s)
  /\ a = IF Len(s) = 0 THEN 0 ELSE s[1]
  /\ \A i \in 1 .. Len(s) :
       IsA(d, s[i], kind) /\ d[s[i]].next = IF i = Len(s) THEN 0 ELSE s[i + 1]
  /\ \A i, j \in 1 .. Len(s) : s[i] = s[j] => i = j
--------------------------------------------------------------------------------
(* Ways. *)
LEMMA WayElements ==
  ASSUME NEW d, NEW kind, NEW a, NEW s, Way(d, kind, a, s)
  PROVE  /\ Len(s) \in Nat /\ DOMAIN s = 1 .. Len(s)
         /\ ToSet(s) = {s[i] : i \in 1 .. Len(s)}
         /\ \A b \in ToSet(s) : IsA(d, b, kind)
<1>1. Len(s) \in Nat /\ DOMAIN s = 1 .. Len(s)
  BY ListLength DEF Way
<1> QED
  BY <1>1 DEF Way, ToSet

(* The address 0 leads nowhere. *)
LEMMA WayNowhere ==
  ASSUME NEW d, NEW kind PROVE Way(d, kind, 0, <<>>)
<1>1. <<>> \in Seq({}) /\ Len(<<>>) = 0
  OBVIOUS
<1> QED
  BY <1>1 DEF Way, IsList

(* A write that leaves kind and next of the records of a list alone keeps it. *)
LEMMA WayFrame ==
  ASSUME NEW d, NEW kind, NEW a, NEW s, Way(d, kind, a, s), NEW e,
         \A b \in ToSet(s) : IsA(e, b, kind) /\ e[b].next = d[b].next
  PROVE  Way(e, kind, a, s)
<1>1. \A i \in 1 .. Len(s) : s[i] \in ToSet(s)
  BY WayElements
<1> QED
  BY <1>1 DEF Way

(* A record in front of a list, linked to it, makes a list. *)
LEMMA WayPush ==
  ASSUME NEW d, NEW kind, NEW a, NEW s, Way(d, kind, a, s),
         NEW b, IsA(d, b, kind), d[b].next = a, b \notin ToSet(s)
  PROVE  /\ Way(d, kind, b, <<b>> \o s)
         /\ \A x : x \in ToSet(<<b>> \o s) <=> x = b \/ x \in ToSet(s)
<1> DEFINE t == <<b>> \o s
           n == Len(s)
<1>1. n \in Nat /\ DOMAIN s = 1 .. n /\ ToSet(s) = {s[i] : i \in 1 .. n}
  BY WayElements
<1>2. IsList(t) /\ Len(t) = n + 1 /\ t[1] = b /\ \A i \in 1 .. n : t[i + 1] = s[i]
  <2>1. PICK S : s \in Seq(S)
    BY DEF Way, IsList
  <2>2. s \in Seq(S \cup {b}) /\ <<b>> \in Seq(S \cup {b})
    BY <2>1
  <2>3. t \in Seq(S \cup {b})
    BY <2>2
  <2> QED
    BY <2>1, <2>2, <2>3 DEF IsList
<1>3. DOMAIN t = 1 .. n + 1
  BY <1>2, ListLength
<1>4. /\ a = IF n = 0 THEN 0 ELSE s[1]
      /\ \A i \in 1 .. n : IsA(d, s[i], kind) /\ d[s[i]].next = IF i = n THEN 0 ELSE s[i + 1]
      /\ \A i, j \in 1 .. n : s[i] = s[j] => i = j
      /\ \A i \in 1 .. n : s[i] # b
  BY <1>1 DEF Way
<1> HIDE DEF t, n
<1>5. \A i \in 1 .. n + 1 : i = 1 \/ (i - 1 \in 1 .. n /\ t[i] = s[i - 1])
  <2> TAKE i \in 1 .. n + 1
  <2>1. i # 1 => i - 1 \in 1 .. n /\ (i - 1) + 1 = i
    BY <1>1
  <2> QED
    BY <1>2, <2>1
<1>6. \A x : x \in ToSet(t) <=> x = b \/ x \in ToSet(s)
  <2>1. ToSet(t) = {t[i] : i \in 1 .. n + 1}
    BY <1>3 DEF ToSet
  <2>2. 1 \in 1 .. n + 1 /\ \A i \in 1 .. n : i + 1 \in 1 .. n + 1
    BY <1>1
  <2> QED
    BY <1>1, <1>2, <1>5, <2>1, <2>2
<1>7. \A i \in 1 .. n + 1 :
        IsA(d, t[i], kind) /\ d[t[i]].next = IF i = n + 1 THEN 0 ELSE t[i + 1]
  <2> TAKE i \in 1 .. n + 1
  <2>1. CASE i = 1
    <3>1. n # 0 => 1 \in 1 .. n /\ 1 + 1 = 2
      BY <1>1
    <3>2. n # 0 => t[2] = s[1]
      BY <1>2, <3>1
    <3>3. n = 0 <=> i = n + 1
      BY <1>1, <2>1
    <3> QED
      BY <1>2, <1>4, <2>1, <3>2, <3>3
  <2>2. CASE i # 1
    <3>1. i - 1 \in 1 .. n /\ t[i] = s[i - 1]
      BY <1>5, <2>2
    <3>2. i # n + 1 => i \in 1 .. n /\ t[i + 1] = s[(i - 1) + 1] /\ i - 1 # n
      BY <1>1, <1>2
    <3>3. i = n + 1 => i - 1 = n
      BY <1>1
    <3> QED
      BY <1>4, <3>1, <3>2, <3>3
  <2> QED
    BY <2>1, <2>2
<1>8. \A i, j \in 1 .. n + 1 : t[i] = t[j] => i = j
  <2> TAKE i, j \in 1 .. n + 1
  <2>1. CASE i = 1 \/ j = 1
    BY <1>2, <1>4, <1>5, <2>1
  <2>2. CASE i # 1 /\ j # 1
    <3>1. i - 1 \in 1 .. n /\ j - 1 \in 1 .. n /\ t[i] = s[i - 1] /\ t[j] = s[j - 1]
      BY <1>5, <2>2
    <3>2. t[i] = t[j] => i - 1 = j - 1
      BY <1>4, <3>1
    <3> QED
      BY <1>1, <3>2
  <2> QED
    BY <2>1, <2>2
<1>9. Way(d, kind, b, t)
  <2>1. Len(t) # 0
    BY <1>1, <1>2
  <2> QED
    BY <1>2, <1>7, <1>8, <2>1 DEF Way
<1> QED
  BY <1>6, <1>9 DEF t

(* Without its first record a list is a list. *)
LEMMA WayPop ==
  ASSUME NEW d, NEW kind, NEW a, NEW s, Way(d, kind, a, s), a # 0
  PROVE  /\ Way(d, kind, d[a].next, Tail(s))
         /\ Len(s) \in Nat \ {0} /\ a = s[1] /\ a \in ToSet(s) /\ a \notin ToSet(Tail(s))
         /\ \A x : x \in ToSet(s) <=> x = a \/ x \in ToSet(Tail(s))
<1> DEFINE t == Tail(s)
           n == Len(s)
<1>1. n \in Nat /\ DOMAIN s = 1 .. n /\ ToSet(s) = {s[i] : i \in 1 .. n}
  BY WayElements
<1>2. n # 0 /\ a = s[1]
  BY DEF Way
<1>3. s # <<>>
  BY <1>2
<1>4. IsList(t) /\ Len(t) = n - 1 /\ \A i \in 1 .. n - 1 : t[i] = s[i + 1]
  BY <1>3, ListTail DEF Way
<1>5. DOMAIN t = 1 .. n - 1
  BY <1>4, ListLength
<1>6. /\ \A i \in 1 .. n : IsA(d, s[i], kind) /\ d[s[i]].next = IF i = n THEN 0 ELSE s[i + 1]
      /\ \A i, j \in 1 .. n : s[i] = s[j] => i = j
  BY DEF Way
<1> HIDE DEF t, n
<1>7. 1 \in 1 .. n /\ \A i \in 1 .. n - 1 : i + 1 \in 1 .. n /\ i + 1 # 1
  BY <1>1, <1>2
<1>8. \A x : x \in ToSet(t) <=> \E i \in 1 .. n - 1 : x = s[i + 1]
  BY <1>4, <1>5 DEF ToSet
<1>9. a \in ToSet(s) /\ a \notin ToSet(t)
  BY <1>1, <1>2, <1>6, <1>7, <1>8
<1>10. \A x : x \in ToSet(s) <=> x = a \/ x \in ToSet(t)
  <2> TAKE x
  <2>1. \A i \in 1 .. n : i = 1 \/ (i - 1 \in 1 .. n - 1 /\ (i - 1) + 1 = i)
    BY <1>1
  <2>2. x \in ToSet(t) => x \in ToSet(s)
    BY <1>1, <1>7, <1>8
  <2>3. x \in ToSet(s) => x = a \/ x \in ToSet(t)
    <3> SUFFICES ASSUME NEW i \in 1 .. n, x = s[i], i # 1 PROVE x \in ToSet(t)
      BY <1>1, <1>2
    <3> QED
      BY <1>8, <2>1
  <2> QED
    BY <1>9, <2>2, <2>3
<1>11. Way(d, kind, d[a].next, t)
  <2>1. d[a].next = IF n - 1 = 0 THEN 0 ELSE t[1]
    <3>1. d[a].next = IF n = 1 THEN 0 ELSE s[2]
      <4>1. d[s[1]].next = IF 1 = n THEN 0 ELSE s[1 + 1]
        BY <1>6, <1>7
      <4> QED
        BY <1>2, <4>1
    <3>2. n # 1 => 1 \in 1 .. n - 1 /\ t[1] = s[2]
      BY <1>1, <1>2, <1>4
    <3> QED
      BY <1>1, <3>1, <3>2
  <2>2. \A i \in 1 .. n - 1 :
          IsA(d, t[i], kind) /\ d[t[i]].next = IF i = n - 1 THEN 0 ELSE t[i + 1]
    <3> TAKE i \in 1 .. n - 1
    <3>1. t[i] = s[i + 1] /\ i + 1 \in 1 .. n
      BY <1>4, <1>7
    <3>2. i # n - 1 => i + 1 \in 1 .. n - 1 /\ t[i + 1] = s[(i + 1) + 1] /\ i + 1 # n
      BY <1>1, <1>4
    <3>3. i = n - 1 => i + 1 = n
      BY <1>1
    <3> QED
      BY <1>6, <3>1, <3>2, <3>3
  <2>3. \A i, j \in 1 .. n - 1 : t[i] = t[j] => i = j
    <3> TAKE i, j \in 1 .. n - 1
    <3>1. t[i] = s[i + 1] /\ t[j] = s[j + 1] /\ i + 1 \in 1 .. n /\ j + 1 \in 1 .. n
      BY <1>4, <1>7
    <3>2. t[i] = t[j] => i + 1 = j + 1
      BY <1>6, <3>1
    <3> QED
      BY <3>2
  <2> QED
    BY <1>4, <2>1, <2>2, <2>3 DEF Way
<1> QED
  BY <1>1, <1>2, <1>9, <1>10, <1>11 DEF t, n

(* What is in two lists is in one of them. *)
LEMMA JoinedElements ==
  ASSUME NEW s, IsList(s), NEW t, IsList(t)
  PROVE  \A b : b \in ToSet(s \o t) <=> b \in ToSet(s) \/ b \in ToSet(t)
<1> DEFINE x == Len(s)
           y == Len(t)
           u == s \o t
<1>1. PICK S, T : s \in Seq(S) /\ t \in Seq(T)
  BY DEF IsList
<1>2. s \in Seq(S \cup T) /\ t \in Seq(S \cup T)
  BY <1>1
<1>3. /\ u \in Seq(S \cup T) /\ Len(u) = x + y
      /\ \A i \in 1 .. x : u[i] = s[i]
      /\ \A i \in 1 .. y : u[x + i] = t[i]
  BY <1>2
<1>4. /\ x \in Nat /\ y \in Nat /\ DOMAIN s = 1 .. x /\ DOMAIN t = 1 .. y
      /\ DOMAIN u = 1 .. x + y
  BY <1>2, <1>3
<1> HIDE DEF x, y, u
<1>5. /\ ToSet(s) = {s[i] : i \in 1 .. x} /\ ToSet(t) = {t[i] : i \in 1 .. y}
      /\ ToSet(u) = {u[i] : i \in 1 .. x + y}
  BY <1>4 DEF ToSet
<1>6. /\ \A i \in 1 .. x : i \in 1 .. x + y
      /\ \A i \in 1 .. y : x + i \in 1 .. x + y
      /\ \A i \in 1 .. x + y : i \in 1 .. x \/ (i - x \in 1 .. y /\ x + (i - x) = i)
  BY <1>4
<1>7. \A b : b \in ToSet(u) <=> b \in ToSet(s) \/ b \in ToSet(t)
  <2> TAKE b
  <2>1. b \in ToSet(s) \/ b \in ToSet(t) => b \in ToSet(u)
    BY <1>3, <1>5, <1>6
  <2>2. b \in ToSet(u) => b \in ToSet(s) \/ b \in ToSet(t)
    <3> SUFFICES ASSUME NEW i \in 1 .. x + y, b = u[i] PROVE b \in ToSet(s) \/ b \in ToSet(t)
      BY <1>5
    <3>1. CASE i \in 1 .. x
      BY <1>3, <1>5, <3>1
    <3>2. CASE i - x \in 1 .. y /\ x + (i - x) = i
      <4> DEFINE j == i - x
      <4>1. j \in 1 .. y /\ x + j = i
        BY <3>2
      <4> HIDE DEF j
      <4> QED
        BY <1>3, <1>5, <4>1
    <3> QED
      BY <1>6, <3>1, <3>2
  <2> QED
    BY <2>1, <2>2
<1> QED
  BY <1>7 DEF u

(* A function from positions is a sequence. *)
LEMMA SequenceIs ==
  ASSUME NEW s, Len(s) \in Nat, NEW S, s \in [1 .. Len(s) -> S] PROVE s \in Seq(S)
OBVIOUS

(* Links lead from each element of s to the next one. *)
Trail(d, link, a, s) ==
  /\ IsList(s) /\ a = IF Len(s) = 0 THEN 0 ELSE s[1]
  /\ \A i \in 1 .. Len(s) :
       s[i] \in 1 .. Len(d) + 1 /\ link[s[i]] = IF i = Len(s) THEN 0 ELSE s[i + 1]
  /\ \A i, j \in 1 .. Len(s) : s[i] = s[j] => i = j

(* Such a list is what the loops of the code follow. *)
LEMMA TrailLeads ==
  ASSUME NEW d, IsList(d), NEW link, Closed(link), DOMAIN link = 0 .. Len(d) + 1,
         NEW a, NEW s, Trail(d, link, a, s)
  PROVE  Leads(link, a, s) /\ Address(d, a) = a
<1> DEFINE z == Len(d)
           X == 0 .. z + 1
           n == Len(s)
<1>1. n \in Nat /\ z \in Nat
  BY ListLength DEF Trail
<1>2. /\ a = IF n = 0 THEN 0 ELSE s[1]
      /\ \A i \in 1 .. n : s[i] \in 1 .. z + 1 /\ link[s[i]] = IF i = n THEN 0 ELSE s[i + 1]
      /\ \A i, j \in 1 .. n : s[i] = s[j] => i = j
  BY DEF Trail
<1>3. PICK S : s \in Seq(S)
  BY DEF IsList, Trail
<1>4. s \in [1 .. n -> S]
  BY <1>3
<1>5. \A S2 : s \in [1 .. n -> S2] => s \in Seq(S2)
  BY <1>1, SequenceIs
<1>6. DOMAIN link = X
  OBVIOUS
<1>7. Address(d, a) = a
  <2>1. \A x \in 0 .. z + 1 : Address(d, x) = x
    BY DEF Address
  <2> HIDE DEF n, z
  <2>2. n # 0 => 1 \in 1 .. n
    BY <1>1
  <2>3. a \in 0 .. z + 1
    BY <1>1, <1>2, <2>2
  <2> QED
    BY <2>1, <2>3
<1> HIDE DEF n, z
<1>8. s \in Seq(X \ {0})
  <2>1. \A i \in 1 .. n : s[i] \in X \ {0}
    BY <1>1, <1>2
  <2> HIDE DEF X
  <2>2. s \in [1 .. n -> X \ {0}]
    BY <1>4, <2>1
  <2> QED
    BY <1>5, <2>2
<1> HIDE DEF X
<1>9. Leads(link, a, s)
  <2>1. Len(s) = n
    BY DEF n
  <2>2. n = 0 => a = 0
    BY <1>2
  <2>3. n # 0 => n \in 1 .. n /\ s[1] = a /\ link[s[n]] = 0
    BY <1>1, <1>2
  <2>4. \A i \in 1 .. n - 1 : link[s[i]] = s[i + 1]
    <3> TAKE i \in 1 .. n - 1
    <3>1. i \in 1 .. n /\ i # n
      BY <1>1
    <3> QED
      BY <1>2, <3>1
  <2> QED
    BY <1>2, <1>6, <1>8, <2>1, <2>2, <2>3, <2>4 DEF Leads
<1> QED
  BY <1>7, <1>9

LEMMA TrailChain ==
  ASSUME NEW d, IsList(d), NEW kind, NEW a, NEW s, Trail(d, Link(d, kind, "next"), a, s)
  PROVE  Chain(Link(d, kind, "next"), Address(d, a)) = s
<1>1. Closed(Link(d, kind, "next")) /\ DOMAIN Link(d, kind, "next") = 0 .. Len(d) + 1
  BY LinkClosed
<1>2. Leads(Link(d, kind, "next"), a, s) /\ Address(d, a) = a
  BY <1>1, TrailLeads
<1> QED
  BY <1>1, <1>2, ChainIs

(* What they take from the records on the way. *)
LEMMA TrailGather ==
  ASSUME NEW d, IsList(d), NEW kind, NEW a, NEW s, Trail(d, Link(d, kind, "next"), a, s),
         NEW item, NEW T, Items(item, Link(d, kind, "next"), T), NEW v \in Seq(T), Takes(item, s, v)
  PROVE  Gather(Link(d, kind, "next"), item, Address(d, a)) = v
<1> DEFINE link == Link(d, kind, "next")
<1>1. Closed(link) /\ DOMAIN link = 0 .. Len(d) + 1
  BY LinkClosed
<1>2. Leads(link, a, s) /\ Address(d, a) = a
  BY <1>1, TrailLeads
<1> HIDE DEF link
<1>3. Items(item, link, T)
  BY DEF link
<1>4. Gather(link, item, a) = v
  BY <1>1, <1>2, <1>3, GatherIs
<1> QED
  BY <1>2, <1>4 DEF link

(* Where a record leads. *)
LEMMA LinkIs ==
  ASSUME NEW d, IsList(d), NEW kind, NEW b, b \in 1 .. Len(d) + 1
  PROVE  Link(d, kind, "next")[b] = IF IsA(d, b, kind) THEN Address(d, d[b].next) ELSE 0
<1>1. b \in 0 .. Len(d) + 1
  BY ListLength
<1> QED
  BY <1>1 DEF Link

(* The list of the records is one. *)
LEMMA WayTrail ==
  ASSUME NEW d, IsList(d), NEW kind, NEW a, NEW s, Way(d, kind, a, s)
  PROVE  /\ Trail(d, Link(d, kind, "next"), a, s)
         /\ a \in 0 .. Len(d) /\ Address(d, a) = a
<1> DEFINE z == Len(d)
           n == Len(s)
<1>1. n \in Nat /\ DOMAIN s = 1 .. n /\ z \in Nat /\ DOMAIN d = 1 .. z
  BY ListLength, WayElements
<1>2. /\ a = IF n = 0 THEN 0 ELSE s[1]
      /\ \A i \in 1 .. n : IsA(d, s[i], kind) /\ d[s[i]].next = IF i = n THEN 0 ELSE s[i + 1]
      /\ \A i, j \in 1 .. n : s[i] = s[j] => i = j
      /\ IsList(s)
  BY DEF Way
<1>3. \A x \in 0 .. z : Address(d, x) = x
  BY <1>1 DEF Address
<1>4. \A b \in 1 .. z + 1 :
        Link(d, kind, "next")[b] = IF IsA(d, b, kind) THEN Address(d, d[b].next) ELSE 0
  BY LinkIs
<1> HIDE DEF n, z
<1>5. \A i \in 1 .. n : s[i] \in 1 .. z /\ s[i] \in 1 .. z + 1
  BY <1>1, <1>2 DEF IsA
<1>6. \A i \in 1 .. n : Link(d, kind, "next")[s[i]] = IF i = n THEN 0 ELSE s[i + 1]
  <2> TAKE i \in 1 .. n
  <2>1. Link(d, kind, "next")[s[i]] = Address(d, d[s[i]].next)
    BY <1>2, <1>4, <1>5
  <2>2. i # n => i + 1 \in 1 .. n
    BY <1>1
  <2>3. d[s[i]].next \in 0 .. z
    BY <1>1, <1>2, <1>5, <2>2
  <2> QED
    BY <1>2, <1>3, <2>1, <2>3
<1>7. a \in 0 .. z
  <2>1. n # 0 => 1 \in 1 .. n
    BY <1>1
  <2> QED
    BY <1>1, <1>2, <1>5, <2>1
<1>8. Trail(d, Link(d, kind, "next"), a, s)
  BY <1>2, <1>5, <1>6 DEF Trail, n, z
<1> QED
  BY <1>3, <1>7, <1>8 DEF z

(* The loops meet just its records. *)
LEMMA WayChain ==
  ASSUME NEW d, IsList(d), NEW kind, NEW a, NEW s, Way(d, kind, a, s)
  PROVE  /\ Chain(Link(d, kind, "next"), Address(d, a)) = s
         /\ a \in 0 .. Len(d) /\ Address(d, a) = a
BY WayTrail, TrailChain
(* A sequence of a given length. *)
LEMMA ListOf ==
  ASSUME NEW n \in Nat, NEW T, NEW v \in [1 .. n -> T]
  PROVE  v \in Seq(T) /\ Len(v) = n
OBVIOUS

--------------------------------------------------------------------------------
(* The two free lists. *)
Free(d, m, fl) ==
  \A c \in {"static", "dynamic"} :
    /\ Way(d, "free", m.free[c], fl[c])
    /\ \A b \in ToSet(fl[c]) : d[b].class = c

(* The properties: ps[n] are those of the node n, ps[0] the ones the call under  *)
(* way has in hand, from h on.                                                   *)
Props(ps) == UNION {ToSet(ps[o]) : o \in DOMAIN ps}

Chunks(r) == IF r.type = "STRING" THEN {r.key, r.val} ELSE {r.key}

Head0(d, h, o) == IF o = 0 THEN h ELSE d[o].prop

Owners(d, ps, h) ==
  /\ 0 \in DOMAIN ps
  /\ \A n \in DOMAIN ps : n # 0 => IsA(d, n, "node") /\ NodeRecord(d[n])
  /\ \A o \in DOMAIN ps : Way(d, "property", Head0(d, h, o), ps[o])
  /\ \A o, q \in DOMAIN ps : \A p : p \in ToSet(ps[o]) /\ p \in ToSet(ps[q]) => o = q
  /\ \A p \in Props(ps) :
       /\ PropertyRecord(d[p])
       /\ \A c \in Chunks(d[p]) : IsA(d, c, "chunk")
       /\ d[p].type = "STRING" => d[p].key # d[p].val
  /\ \A p, q \in Props(ps) : \A c : c \in Chunks(d[p]) /\ c \in Chunks(d[q]) => p = q

(* The relationships: of nodes of ps, with types no property has. *)
Ends(r) == {r.first, r.second}

Neighbours(r) == {r.fprev, r.fnext, r.sprev, r.snext}

RelationAt(d, ps, r) ==
  /\ RelationRecord(d[r])
  /\ \A n \in Ends(d[r]) : n \in DOMAIN ps /\ n # 0
  /\ \A q \in Neighbours(d[r]) : Points(d, q, "relationship")
  /\ IsA(d, d[r].type, "chunk")
  /\ \A p \in Props(ps) : d[r].type \notin Chunks(d[p])

Related(d, ps) ==
  /\ \A r : IsA(d, r, "relationship") => RelationAt(d, ps, r)
  /\ \A q, r : /\ IsA(d, q, "relationship") /\ IsA(d, r, "relationship")
                /\ d[q].type = d[r].type
                => q = r
  /\ \A n \in DOMAIN ps :
       n # 0 /\ d[n].rel # 0
         => IsA(d, d[n].rel, "relationship") /\ n \in Ends(d[d[n].rel])

(* c is the chain of n, on its side of each relationship: all of them, each once. *)
Side(r, n) == IF r.first = n THEN r.fnext ELSE r.snext

OwnChain(d, n, c) ==
  /\ IsList(c)
  /\ d[n].rel = IF Len(c) = 0 THEN 0 ELSE c[1]
  /\ \A i \in 1 .. Len(c) : Side(d[c[i]], n) = IF i = Len(c) THEN 0 ELSE c[i + 1]
  /\ \A i, j \in 1 .. Len(c) : c[i] = c[j] => i = j
  /\ \A r : (\E i \in 1 .. Len(c) : c[i] = r) <=> IsA(d, r, "relationship") /\ n \in Ends(d[r])

Chained(d, ps) == \A n \in DOMAIN ps : n # 0 => \E c : OwnChain(d, n, c)

(* The list of nodes. *)
Doubly(d, m, ns) ==
  /\ Way(d, "node", m.first, ns)
  /\ \A i \in 1 .. Len(ns) : d[ns[i]].prev = IF i = 1 THEN 0 ELSE ns[i - 1]
  /\ m.last = IF Len(ns) = 0 THEN 0 ELSE ns[Len(ns)]

Full(d, m, ns, ps, h, fl) ==
  /\ IsList(d) /\ Kinds(d) /\ Header(m) /\ Free(d, m, fl) /\ Owners(d, ps, h)
  /\ Related(d, ps) /\ Doubly(d, m, ns)
  /\ \A n : n \in DOMAIN ps <=> n = 0 \/ n \in ToSet(ns)

Whole(d, m) == \E ns, ps, fl : Full(d, m, ns, ps, 0, fl)

(* What ReachableNotFree and FreeListsInFile say. *)
NotFree(d, m) == Reachable(d, m) \cap OnFreeList(d, m) = {}

Bounded(d, m) ==
  /\ Header(m)
  /\ {m.first, m.last, m.free.static, m.free.dynamic} \subseteq 0 .. Len(d)

(* What the file is at every write: the lists of free blocks are lists, and the  *)
(* rest is in order when the list of nodes is linked both ways.                  *)
Sound(d, m) ==
  /\ IsList(d) /\ Kinds(d) /\ Bounded(d, m)
  /\ \E fl : Free(d, m, fl)
  /\ NotFree(d, m)
  /\ Linked(d, m) => Whole(d, m)
--------------------------------------------------------------------------------
(* The chains of such a file. *)
LEMMA FreeChains ==
  ASSUME NEW d, IsList(d), NEW m, NEW fl, Free(d, m, fl)
  PROVE  /\ FreeChain(d, m.free.static) = fl["static"]
         /\ FreeChain(d, m.free.dynamic) = fl["dynamic"]
         /\ m.free.static \in 0 .. Len(d) /\ m.free.dynamic \in 0 .. Len(d)
BY WayChain DEF Free, FreeChain

(* The loop over the properties of a node meets just those. *)
LEMMA OwnerChains ==
  ASSUME NEW d, IsList(d), NEW ps, NEW h, Owners(d, ps, h), NEW n \in DOMAIN ps, n # 0
  PROVE  PropertyChain(d, n) = ps[n]
BY WayChain DEF Owners, Head0, PropertyChain

(* The loop over the nodes meets just those, and the header points into the *)
(* file. *)
LEMMA NodeChains ==
  ASSUME NEW d, IsList(d), NEW m, NEW ns, Doubly(d, m, ns)
  PROVE  /\ NodeChain(d, m.first) = ns
         /\ m.first \in 0 .. Len(d) /\ m.last \in 0 .. Len(d)
         /\ Len(ns) \in Nat /\ DOMAIN ns = 1 .. Len(ns)
         /\ ToSet(ns) = {ns[i] : i \in 1 .. Len(ns)}
         /\ \A n \in ToSet(ns) : IsA(d, n, "node") /\ n \in 1 .. Len(d)
<1>1. Way(d, "node", m.first, ns)
  BY DEF Doubly
<1>2. /\ Len(ns) \in Nat /\ DOMAIN ns = 1 .. Len(ns)
      /\ ToSet(ns) = {ns[i] : i \in 1 .. Len(ns)}
      /\ \A n \in ToSet(ns) : IsA(d, n, "node")
  BY <1>1, WayElements
<1>3. \A n \in ToSet(ns) : n \in 1 .. Len(d)
  BY <1>2, ListLength DEF IsA
<1>4. NodeChain(d, m.first) = ns /\ m.first \in 0 .. Len(d)
  BY <1>1, WayChain DEF NodeChain
<1>5. m.last \in 0 .. Len(d)
  <2>1. Len(ns) # 0 => Len(ns) \in 1 .. Len(ns)
    BY <1>2
  <2>2. m.last = 0 \/ m.last \in ToSet(ns)
    BY <1>2, <2>1 DEF Doubly
  <2>3. Len(d) \in Nat
    BY ListLength
  <2> QED
    BY <1>3, <2>2, <2>3
<1> QED
  BY <1>2, <1>3, <1>4, <1>5

(* The relationships and the chains of them are left alone. *)
LEMMA RelatedFrame ==
  ASSUME NEW d, NEW ps, Related(d, ps), NEW e, NEW qs,
         \A r : IsA(e, r, "relationship") <=> IsA(d, r, "relationship"),
         \A r : IsA(d, r, "relationship") =>
           /\ e[r] = d[r] /\ IsA(e, d[r].type, "chunk")
           /\ \A n \in Ends(d[r]) : n \in DOMAIN qs
           /\ \A p \in Props(qs) : d[r].type \notin Chunks(e[p]),
         \A n \in DOMAIN qs :
           n # 0 => IF n \in DOMAIN ps THEN e[n].rel = d[n].rel ELSE e[n].rel = 0
  PROVE  Related(e, qs) /\ (Chained(d, ps) => Chained(e, qs))
<1>1. \A r : IsA(d, r, "relationship") => RelationAt(d, ps, r)
  BY DEF Related
<1>2. \A r : IsA(e, r, "relationship") => RelationAt(e, qs, r)
  <2> SUFFICES ASSUME NEW r, IsA(d, r, "relationship") PROVE RelationAt(e, qs, r)
    OBVIOUS
  <2>1. e[r] = d[r] /\ RelationAt(d, ps, r)
    BY <1>1
  <2>2. \A q \in Neighbours(d[r]) : Points(e, q, "relationship")
    BY <2>1 DEF RelationAt, Points
  <2>3. \A n \in Ends(d[r]) : n \in DOMAIN qs /\ n # 0
    BY <2>1 DEF RelationAt
  <2> QED
    BY <2>1, <2>2, <2>3 DEF RelationAt
<1>3. \A q, r : /\ IsA(e, q, "relationship") /\ IsA(e, r, "relationship")
                /\ e[q].type = e[r].type
                => q = r
  BY DEF Related
<1>4. \A n \in DOMAIN qs :
        n # 0 /\ e[n].rel # 0
          => IsA(e, e[n].rel, "relationship") /\ n \in Ends(e[e[n].rel])
  BY DEF Related
<1>5. ASSUME Chained(d, ps) PROVE Chained(e, qs)
  <2> SUFFICES ASSUME NEW n \in DOMAIN qs, n # 0 PROVE \E c : OwnChain(e, n, c)
    BY DEF Chained
  <2>1. CASE n \in DOMAIN ps
    <3>1. PICK c : OwnChain(d, n, c)
      BY <1>5, <2>1 DEF Chained
    <3>2. \A i \in 1 .. Len(c) : IsA(d, c[i], "relationship")
      BY <3>1 DEF OwnChain
    <3>3. \A i \in 1 .. Len(c) : Side(e[c[i]], n) = Side(d[c[i]], n)
      BY <3>2
    <3>4. \A r : IsA(e, r, "relationship") /\ n \in Ends(e[r])
                  <=> IsA(d, r, "relationship") /\ n \in Ends(d[r])
      OBVIOUS
    <3>5. OwnChain(e, n, c)
      BY <2>1, <3>1, <3>3, <3>4 DEF OwnChain
    <3> QED
      BY <3>5
  <2>2. CASE n \notin DOMAIN ps
    <3>1. \A r : ~(IsA(e, r, "relationship") /\ n \in Ends(e[r]))
      BY <1>1, <2>2 DEF RelationAt
    <3>2. <<>> \in Seq({}) /\ Len(<<>>) = 0
      OBVIOUS
    <3>3. OwnChain(e, n, <<>>)
      BY <2>2, <3>1, <3>2 DEF OwnChain, IsList
    <3> QED
      BY <3>3
  <2> QED
    BY <2>1, <2>2
<1> QED
  BY <1>2, <1>3, <1>4, <1>5 DEF Related

(* What a reader of the file takes from the records of s, and of all the nodes. *)
Read(d, s) == [j \in 1 .. Len(s) |-> PropertyAt(d, s[j])]

Picture(d, ns, ps) == [i \in 1 .. Len(ns) |-> Read(d, ps[ns[i]])]

LEMMA PropertiesIs ==
  ASSUME NEW d, IsList(d), NEW ps, NEW h, Owners(d, ps, h), NEW n \in DOMAIN ps, n # 0
  PROVE  PropertiesOf(d, n) = Read(d, ps[n])
<1> DEFINE s == ps[n]
           X == 0 .. Len(d) + 1
           T == {PropertyAt(d, b) : b \in X}
           item == [b \in X |-> IF IsA(d, b, "property") THEN <<PropertyAt(d, b)>> ELSE <<>>]
           v == Read(d, s)
<1>1. Way(d, "property", d[n].prop, s)
  BY DEF Owners, Head0
<1>2. \A i \in 1 .. Len(s) : s[i] \in X /\ IsA(d, s[i], "property")
  BY <1>1, ListLength DEF Way, IsA
<1>3. \A i \in 1 .. Len(s) : v[i] = PropertyAt(d, s[i]) /\ PropertyAt(d, s[i]) \in T
  BY <1>2 DEF Read
<1>4. v \in [1 .. Len(s) -> T]
  BY <1>3 DEF Read
<1>5. item \in [X -> Seq(T)]
  <2>1. \A b \in X : PropertyAt(d, b) \in T
    OBVIOUS
  <2> HIDE DEF T, X
  <2>2. \A x \in T : <<x>> \in Seq(T)
    OBVIOUS
  <2>3. <<>> \in Seq(T)
    OBVIOUS
  <2> QED
    BY <2>1, <2>2, <2>3
<1>6. Items(item, Link(d, "property", "next"), T)
  BY <1>5, LinkClosed DEF Items
<1>7. Len(s) \in Nat /\ Trail(d, Link(d, "property", "next"), d[n].prop, s)
  BY <1>1, ListLength, WayTrail DEF Way
<1>8. v \in Seq(T) /\ Len(v) = Len(s)
  BY <1>4, <1>7, ListOf
<1>9. Takes(item, s, v)
  <2>1. \A i \in 1 .. Len(s) : item[s[i]] = <<v[i]>>
    BY <1>2, <1>3
  <2> HIDE DEF item, v, s
  <2> QED
    BY <1>7, <1>8, <2>1 DEF Takes
<1>10. PropertiesOf(d, n) = Gather(Link(d, "property", "next"), item, Address(d, d[n].prop))
  BY DEF PropertiesOf
<1> HIDE DEF item, T, v, s
<1>11. Gather(Link(d, "property", "next"), item, Address(d, d[n].prop)) = v
  BY <1>6, <1>7, <1>8, <1>9, TrailGather
<1> QED
  BY <1>10, <1>11 DEF v, s

(* A list of nodes that may lead on to a block that is none yet. *)
LEMMA TrailGraph ==
  ASSUME NEW d, IsList(d), NEW m, NEW ps, NEW h, Owners(d, ps, h), NEW ns, NEW s,
         Trail(d, Link(d, "node", "next"), m.first, s), Len(ns) \in Nat, Len(ns) <= Len(s),
         \A i \in 1 .. Len(s) :
           IF i <= Len(ns) THEN s[i] = ns[i] /\ IsA(d, s[i], "node") /\ s[i] \in DOMAIN ps /\ s[i] # 0
           ELSE ~IsA(d, s[i], "node")
  PROVE  Graph(d, m) = Picture(d, ns, ps)
<1> DEFINE n == Len(ns)
           X == 0 .. Len(d) + 1
           T == {PropertiesOf(d, b) : b \in X}
           item == [b \in X |-> IF IsA(d, b, "node") THEN <<PropertiesOf(d, b)>> ELSE <<>>]
           v == Picture(d, ns, ps)
<1>1. Len(s) \in Nat /\ n \in Nat /\ n <= Len(s) /\ \A i \in 1 .. Len(s) : s[i] \in X
  BY ListLength DEF Trail
<1>2. \A i \in 1 .. n :
        i \in 1 .. Len(s) /\ s[i] = ns[i] /\ s[i] \in DOMAIN ps /\ s[i] # 0 /\ IsA(d, s[i], "node")
  BY <1>1
<1>3. \A i \in 1 .. n : v[i] = PropertiesOf(d, s[i]) /\ PropertiesOf(d, s[i]) \in T
  BY <1>1, <1>2, PropertiesIs DEF Picture
<1>4. v \in [1 .. n -> T]
  BY <1>3 DEF Picture
<1>5. v \in Seq(T) /\ Len(v) = n
  BY <1>1, <1>4, ListOf
<1>6. item \in [X -> Seq(T)]
  <2>1. \A b \in X : PropertiesOf(d, b) \in T
    OBVIOUS
  <2> HIDE DEF T, X
  <2>2. \A x \in T : <<x>> \in Seq(T)
    OBVIOUS
  <2>3. <<>> \in Seq(T)
    OBVIOUS
  <2> QED
    BY <2>1, <2>2, <2>3
<1>7. Items(item, Link(d, "node", "next"), T)
  BY <1>6, LinkClosed DEF Items
<1>8. Takes(item, s, v)
  <2>1. \A i \in 1 .. Len(s) : item[s[i]] = IF i <= n THEN <<v[i]>> ELSE <<>>
    <3> TAKE i \in 1 .. Len(s)
    <3>1. CASE i <= n
      <4>1. i \in 1 .. n
        BY <1>1, <3>1
      <4> QED
        BY <1>1, <1>2, <1>3, <3>1, <4>1
    <3>2. CASE ~(i <= n)
      BY <1>1, <3>2
    <3> QED
      BY <3>1, <3>2
  <2> HIDE DEF item, v, n
  <2> QED
    BY <1>1, <1>5, <2>1 DEF Takes
<1>9. Graph(d, m) = Gather(Link(d, "node", "next"), item, Address(d, m.first))
  BY DEF Graph
<1> HIDE DEF item, T, v
<1>10. Gather(Link(d, "node", "next"), item, Address(d, m.first)) = v
  BY <1>5, <1>7, <1>8, TrailGather
<1> QED
  BY <1>9, <1>10 DEF v

(* What a reader of a file in order finds. *)
LEMMA GraphIs ==
  ASSUME NEW d, NEW m, NEW ns, NEW ps, NEW h, NEW fl, Full(d, m, ns, ps, h, fl)
  PROVE  Graph(d, m) = Picture(d, ns, ps)
<1>1. /\ IsList(d) /\ Owners(d, ps, h) /\ Way(d, "node", m.first, ns)
      /\ \A n : n \in DOMAIN ps <=> n = 0 \/ n \in ToSet(ns)
  BY DEF Full, Doubly
<1>2. Trail(d, Link(d, "node", "next"), m.first, ns)
  BY <1>1, WayTrail
<1>3. Len(ns) \in Nat /\ Len(ns) <= Len(ns) /\ ToSet(ns) = {ns[i] : i \in 1 .. Len(ns)}
  BY <1>1, WayElements
<1>4. \A i \in 1 .. Len(ns) :
        i <= Len(ns) /\ IsA(d, ns[i], "node") /\ ns[i] \in DOMAIN ps /\ ns[i] # 0
  BY <1>1, <1>3, ListLength DEF Way, IsA
<1> QED
  BY <1>1, <1>2, <1>3, <1>4, TrailGraph

(* It does not change when the properties and their chunks do not. *)
LEMMA PictureFrame ==
  ASSUME NEW d, NEW ns, NEW ps, NEW e, NEW qs,
         \A i \in 1 .. Len(ns) :
           /\ qs[ns[i]] = ps[ns[i]]
           /\ \A j \in 1 .. Len(ps[ns[i]]) :
                LET p == ps[ns[i]][j] IN e[p] = d[p] /\ \A c \in Chunks(d[p]) : Text(e, c) = Text(d, c)
  PROVE  Picture(e, ns, qs) = Picture(d, ns, ps)
<1>1. ASSUME NEW p, e[p] = d[p], \A c \in Chunks(d[p]) : Text(e, c) = Text(d, c)
      PROVE  PropertyAt(e, p) = PropertyAt(d, p)
  BY <1>1 DEF PropertyAt, Chunks
<1>2. \A i \in 1 .. Len(ns) : Read(e, qs[ns[i]]) = Read(d, ps[ns[i]])
  BY <1>1 DEF Read
<1> QED
  BY <1>2 DEF Picture

(* A block is reached as a node, or as a record or a string of one. *)
LEMMA ReachableParts ==
  ASSUME NEW d, NEW m, NEW b \in Reachable(d, m)
  PROVE  \/ b \in ToSet(NodeChain(d, m.first))
         \/ \E n \in Nodes(d, m) : b \in ToSet(PropertyChain(d, n))
         \/ \E p \in Properties(d, m) : b = d[p].key \/ (d[p].type = "STRING" /\ b = d[p].val)
         \/ \E n \in Nodes(d, m) : b \in ToSet(RelationshipChain(d, n))
         \/ \E q \in Relationships(d, m) : b = d[q].type
<1> DEFINE ns == ToSet(NodeChain(d, m.first))
           U == UNION {ToSet(PropertyChain(d, n)) : n \in Nodes(d, m)}
           V == {d[p].key : p \in Properties(d, m)}
           W == {d[p].val : p \in {q \in Properties(d, m) : d[q].type = "STRING"}}
           R == UNION {ToSet(RelationshipChain(d, n)) : n \in Nodes(d, m)}
           T == {d[q].type : q \in Relationships(d, m)}
<1>1. Reachable(d, m) = ((((ns \cup U) \cup V) \cup W) \cup R) \cup T
  BY DEF Reachable
<1>2. b \in U => \E n \in Nodes(d, m) : b \in ToSet(PropertyChain(d, n))
  OBVIOUS
<1>3. b \in V => \E p \in Properties(d, m) : b = d[p].key
  OBVIOUS
<1>4. b \in W => \E p \in Properties(d, m) : d[p].type = "STRING" /\ b = d[p].val
  OBVIOUS
<1>5. b \in R => \E n \in Nodes(d, m) : b \in ToSet(RelationshipChain(d, n))
  OBVIOUS
<1>6. b \in T => \E q \in Relationships(d, m) : b = d[q].type
  OBVIOUS
<1> HIDE DEF ns, U, V, W, R, T
<1>7. b \in ns \/ b \in U \/ b \in V \/ b \in W \/ b \in R \/ b \in T
  BY <1>1
<1> QED
  BY <1>2, <1>3, <1>4, <1>5, <1>6, <1>7 DEF ns

(* The loop over the relationships of a node meets nothing else, on whatever side *)
(* of each it goes on.                                                           *)
LEMMA RelatedChain ==
  ASSUME NEW d, IsList(d), NEW ps, Related(d, ps), NEW n \in DOMAIN ps, n # 0
  PROVE  \A r \in ToSet(RelationshipChain(d, n)) : IsA(d, r, "relationship")
<1> DEFINE X == 0 .. Len(d) + 1
           S == {b \in 1 .. Len(d) : IsA(d, b, "relationship")}
           f == Link(d, "relationship", "fnext")
           g == Link(d, "relationship", "snext")
           l == [b \in X |->
                  IF IsA(d, b, "relationship") /\ d[b].first = n THEN f[b] ELSE g[b]]
<1>1. Len(d) \in Nat /\ DOMAIN d = 1 .. Len(d) /\ \A b \in 1 .. Len(d) : b \in X /\ b # 0
  BY ListLength
<1>2. \A b : Points(d, b, "relationship") => Address(d, b) \in S \cup {0}
  <2>1. 0 \in X /\ \A b \in X : Address(d, b) = b
    BY <1>1 DEF Address
  <2>2. \A b : IsA(d, b, "relationship") => b \in S
    BY <1>1 DEF IsA
  <2> HIDE DEF X
  <2> QED
    BY <1>1, <2>1, <2>2 DEF Points
<1>3. Points(d, d[n].rel, "relationship")
  BY DEF Related, Points
<1>4. Closed(f) /\ Closed(g) /\ DOMAIN f = X /\ DOMAIN g = X
  BY LinkClosed
<1>5. \A b \in S : /\ IsA(d, b, "relationship")
                   /\ f[b] = Address(d, d[b].fnext) /\ g[b] = Address(d, d[b].snext)
  BY <1>1 DEF Link
<1> HIDE DEF f, g, X
<1>6. Closed(l) /\ DOMAIN l = X
  BY <1>4 DEF Closed
<1>7. S \subseteq DOMAIN l /\ 0 \notin S
  BY <1>1, <1>6
<1>8. \A b \in S : l[b] \in S \cup {0}
  <2> TAKE b \in S
  <2>1. l[b] = f[b] \/ l[b] = g[b]
    BY <1>6, <1>7
  <2>2. Points(d, d[b].fnext, "relationship") /\ Points(d, d[b].snext, "relationship")
    BY <1>5 DEF Related, RelationAt, Neighbours
  <2> HIDE DEF S, l
  <2> QED
    BY <1>2, <1>5, <2>1, <2>2
<1>9. RelationshipChain(d, n) = Chain(l, Address(d, d[n].rel))
  BY DEF RelationshipChain, l, X, f, g
<1> HIDE DEF S, l
<1>10. Chain(l, Address(d, d[n].rel)) \in Seq(S)
  BY <1>2, <1>3, <1>6, <1>7, <1>8, ChainWithin
<1>11. \A r \in ToSet(RelationshipChain(d, n)) : r \in S
  BY <1>9, <1>10 DEF ToSet
<1> QED
  BY <1>11 DEF S

(* No node that can be reached, and no part of one, is free, as long as no block *)
(* on the way through the list of nodes is.                                      *)
LEMMA OwnersNotFree ==
  ASSUME NEW d, IsList(d), NEW m, NEW ps, NEW h, Owners(d, ps, h), Related(d, ps),
         NEW fl, Free(d, m, fl),
         \A b \in ToSet(NodeChain(d, m.first)) :
           /\ IsA(d, b, "node") => b \in DOMAIN ps /\ b # 0
           /\ b \notin ToSet(fl["static"]) /\ b \notin ToSet(fl["dynamic"])
  PROVE  NotFree(d, m)
<1> DEFINE ns == NodeChain(d, m.first)
           fs == fl["static"]
           fd == fl["dynamic"]
<1>1. FreeChain(d, m.free.static) = fs /\ FreeChain(d, m.free.dynamic) = fd
  BY FreeChains
<1>2. Way(d, "free", m.free["static"], fs) /\ Way(d, "free", m.free["dynamic"], fd)
  BY DEF Free
<1>3. \A b : b \in ToSet(fs \o fd) <=> b \in ToSet(fs) \/ b \in ToSet(fd)
  <2>1. IsList(fs) /\ IsList(fd)
    BY <1>2 DEF Way
  <2> HIDE DEF fs, fd
  <2> QED
    BY <2>1, JoinedElements
<1>4. \A b \in ToSet(fs) \cup ToSet(fd) : IsA(d, b, "free")
  BY <1>2, WayElements
<1>5. \A b, kind : IsA(d, b, "free") /\ kind \in {"property", "relationship", "chunk"}
                    => ~IsA(d, b, kind)
  BY DEF IsA
<1>6. \A n \in Nodes(d, m) : n \in DOMAIN ps /\ n # 0
  BY DEF Nodes
<1>7. \A n \in Nodes(d, m) : \A p \in ToSet(PropertyChain(d, n)) :
        p \in Props(ps) /\ IsA(d, p, "property")
  <2> TAKE n \in Nodes(d, m)
  <2>1. PropertyChain(d, n) = ps[n] /\ n \in DOMAIN ps
    BY <1>6, OwnerChains
  <2>2. Way(d, "property", Head0(d, h, n), ps[n])
    BY <2>1 DEF Owners
  <2> QED
    BY <2>1, <2>2, WayElements DEF Props
<1>8. \A p \in Properties(d, m) :
        IsA(d, d[p].key, "chunk") /\ (d[p].type = "STRING" => IsA(d, d[p].val, "chunk"))
  <2> TAKE p \in Properties(d, m)
  <2>1. p \in Props(ps)
    BY <1>7 DEF Properties
  <2>2. d[p].key \in Chunks(d[p]) /\ (d[p].type = "STRING" => d[p].val \in Chunks(d[p]))
    BY DEF Chunks
  <2> QED
    BY <2>1, <2>2 DEF Owners
<1>9. \A n \in Nodes(d, m) : \A r \in ToSet(RelationshipChain(d, n)) : IsA(d, r, "relationship")
  BY <1>6, RelatedChain
<1>10. \A r \in Relationships(d, m) : IsA(d, d[r].type, "chunk")
  BY DEF Relationships, Related, RelationAt
<1> HIDE DEF fs, fd
<1>11. \A b \in ToSet(fs \o fd) :
         /\ ~IsA(d, b, "property") /\ ~IsA(d, b, "relationship") /\ ~IsA(d, b, "chunk")
         /\ b \notin ToSet(ns)
  BY <1>3, <1>4, <1>5 DEF fs, fd
<1>12. OnFreeList(d, m) = ToSet(fs \o fd)
  BY <1>1 DEF OnFreeList
<1>13. \A b \in Reachable(d, m) :
         \/ b \in ToSet(ns)
         \/ IsA(d, b, "property") \/ IsA(d, b, "relationship") \/ IsA(d, b, "chunk")
  BY <1>7, <1>8, <1>9, <1>10, ReachableParts
<1>14. \A b \in Reachable(d, m) : b \notin OnFreeList(d, m)
  BY <1>11, <1>12, <1>13
<1> QED
  BY <1>14 DEF NotFree

(* A file in order is sound; nothing it reaches is on a list of free blocks. *)
LEMMA FullSound ==
  ASSUME NEW d, NEW m, NEW ns, NEW ps, NEW h, NEW fl, Full(d, m, ns, ps, h, fl)
  PROVE  Whole(d, m) /\ Sound(d, m)
<1>1. /\ IsList(d) /\ Kinds(d) /\ Header(m) /\ Free(d, m, fl) /\ Owners(d, ps, h)
      /\ Related(d, ps) /\ Doubly(d, m, ns) /\ \A n : n \in DOMAIN ps <=> n = 0 \/ n \in ToSet(ns)
  BY DEF Full
<1>2. /\ NodeChain(d, m.first) = ns /\ m.first \in 0 .. Len(d) /\ m.last \in 0 .. Len(d)
      /\ \A n \in ToSet(ns) : IsA(d, n, "node") /\ n \in 1 .. Len(d)
  BY <1>1, NodeChains
<1>3. Bounded(d, m)
  BY <1>1, <1>2, FreeChains DEF Bounded
<1>4. NotFree(d, m)
  <2>1. \A c \in {"static", "dynamic"} : \A b \in ToSet(fl[c]) : IsA(d, b, "free")
    BY <1>1, WayElements DEF Free
  <2>2. \A b : IsA(d, b, "free") => ~IsA(d, b, "node")
    BY DEF IsA
  <2>3. \A b \in ToSet(ns) : /\ b \in DOMAIN ps /\ b # 0
                             /\ b \notin ToSet(fl["static"]) /\ b \notin ToSet(fl["dynamic"])
    BY <1>1, <1>2, <2>1, <2>2
  <2> QED
    BY <1>1, <1>2, <2>3, OwnersNotFree
<1>5. Whole(d, m)
  <2> DEFINE qs == [o \in DOMAIN ps |-> IF o = 0 THEN <<>> ELSE ps[o]]
  <2>1. DOMAIN qs = DOMAIN ps /\ \A o \in DOMAIN ps : qs[o] = IF o = 0 THEN <<>> ELSE ps[o]
    OBVIOUS
  <2> HIDE DEF qs
  <2>2. ToSet(<<>>) = {}
    BY DEF ToSet
  <2>3. \A o \in DOMAIN ps : \A p \in ToSet(qs[o]) : p \in ToSet(ps[o])
    BY <2>1, <2>2
  <2>4. \A p \in Props(qs) : p \in Props(ps)
    BY <2>1, <2>3 DEF Props
  <2>5. \A o \in DOMAIN qs : Way(d, "property", Head0(d, 0, o), qs[o])
    BY <1>1, <2>1, WayNowhere DEF Owners, Head0
  <2>6. Owners(d, qs, 0)
    BY <1>1, <2>1, <2>3, <2>4, <2>5 DEF Owners
  <2>7. Related(d, qs)
    <3>1. \A r : IsA(d, r, "relationship") => RelationAt(d, ps, r)
      BY <1>1 DEF Related
    <3>2. \A r : IsA(d, r, "relationship") =>
            /\ d[r] = d[r] /\ IsA(d, d[r].type, "chunk")
            /\ \A n \in Ends(d[r]) : n \in DOMAIN qs
            /\ \A p \in Props(qs) : d[r].type \notin Chunks(d[p])
      BY <2>1, <2>4, <3>1 DEF RelationAt
    <3>3. \A n \in DOMAIN qs :
            n # 0 => IF n \in DOMAIN ps THEN d[n].rel = d[n].rel ELSE d[n].rel = 0
      BY <2>1
    <3> QED
      BY <1>1, <3>2, <3>3, RelatedFrame
  <2>8. Full(d, m, ns, qs, 0, fl)
    BY <1>1, <2>1, <2>6, <2>7 DEF Full
  <2> QED
    BY <2>8 DEF Whole
<1> QED
  BY <1>1, <1>3, <1>4, <1>5 DEF Sound

--------------------------------------------------------------------------------
(* A block of the file, or the one after its end, that none of this is in. *)
Loose(d, ps, fl, b) ==
  /\ b \in 1 .. Len(d) + 1
  /\ b \notin DOMAIN ps /\ b \notin Props(ps)
  /\ b \notin ToSet(fl["static"]) /\ b \notin ToSet(fl["dynamic"])
  /\ \A p \in Props(ps) : b \notin Chunks(d[p])
  /\ ~IsA(d, b, "relationship")
  /\ \A r : IsA(d, r, "relationship") => b # d[r].type

(* What is written to such a block, but for relationships. *)
Kind == {"node", "property", "chunk", "free", "junk"}

(* One write to the file. *)
LEMMA PutFacts ==
  ASSUME NEW d, IsList(d), NEW a \in 1 .. Len(d) + 1, NEW rec
  PROVE  /\ IsList(PutAt(d, a, rec)) /\ Len(d) \in Nat /\ Len(PutAt(d, a, rec)) \in Nat
         /\ Len(d) <= Len(PutAt(d, a, rec)) /\ Len(PutAt(d, a, rec)) <= Len(d) + 1
         /\ a <= Len(PutAt(d, a, rec))
         /\ DOMAIN d = 1 .. Len(d)
         /\ DOMAIN PutAt(d, a, rec) = 1 .. Len(PutAt(d, a, rec))
         /\ PutAt(d, a, rec)[a] = rec
         /\ \A b \in 1 .. Len(d) : b # a => PutAt(d, a, rec)[b] = d[b]
         /\ \A b \in 1 .. Len(PutAt(d, a, rec)) : b = a \/ b \in 1 .. Len(d)
<1> DEFINE e == PutAt(d, a, rec)
           n == Len(d)
<1>1. IsList(e) /\ DOMAIN e = 1 .. Len(e) /\ Len(e) \in Nat /\ n \in Nat /\ DOMAIN d = 1 .. n
  BY ListPut, ListLength
<1>2. CASE a = n + 1
  <2>1. e = Append(d, rec)
    BY <1>2 DEF PutAt
  <2>2. Len(e) = n + 1 /\ e[n + 1] = rec /\ \A b \in 1 .. n : e[b] = d[b]
    BY <2>1, ListAppend
  <2> HIDE DEF e, n
  <2> QED
    BY <1>1, <1>2, <2>2 DEF e, n
<1>3. CASE a # n + 1
  <2>1. e = [d EXCEPT ![a] = rec]
    BY <1>3 DEF PutAt
  <2>2. a \in 1 .. n
    BY <1>1, <1>3
  <2>3. DOMAIN e = 1 .. n /\ e[a] = rec /\ \A b \in 1 .. n : b # a => e[b] = d[b]
    BY <1>1, <2>1, <2>2
  <2> DEFINE y == Len(e)
  <2>4. 1 .. y = 1 .. n /\ y \in Nat
    BY <1>1, <2>3
  <2> HIDE DEF y, n
  <2>5. y = n
    <3>1. \A x : x \in 1 .. y <=> x \in 1 .. n
      BY <2>4
    <3>2. y # 0 => y \in 1 .. y
      BY <2>4
    <3>3. n # 0 => n \in 1 .. n
      BY <1>1
    <3> QED
      BY <1>1, <2>4, <3>1, <3>2, <3>3
  <2> HIDE DEF e
  <2> QED
    BY <1>1, <2>2, <2>3, <2>5 DEF n, y, e
<1> QED
  BY <1>2, <1>3

(* A write to a loose block disturbs nothing. *)
LEMMA LooseWrite ==
  ASSUME NEW d, NEW m, NEW ns, NEW ps, NEW h, NEW fl, Full(d, m, ns, ps, h, fl),
         NEW a, Loose(d, ps, fl, a), NEW rec, rec.kind \in Kind
  PROVE  /\ Full(PutAt(d, a, rec), m, ns, ps, h, fl)
         /\ \A b : Loose(d, ps, fl, b) => Loose(PutAt(d, a, rec), ps, fl, b)
         /\ \A b \in 1 .. Len(PutAt(d, a, rec)) :
              Loose(PutAt(d, a, rec), ps, fl, b) => Loose(d, ps, fl, b)
         /\ Graph(PutAt(d, a, rec), m) = Graph(d, m)
         /\ Chained(d, ps) => Chained(PutAt(d, a, rec), ps)
<1> DEFINE e == PutAt(d, a, rec)
<1>1. /\ IsList(d) /\ Kinds(d) /\ Header(m) /\ Free(d, m, fl) /\ Owners(d, ps, h)
      /\ Related(d, ps) /\ Doubly(d, m, ns) /\ \A n : n \in DOMAIN ps <=> n = 0 \/ n \in ToSet(ns)
  BY DEF Full
<1>2. /\ a \in 1 .. Len(d) + 1 /\ a \notin DOMAIN ps /\ a \notin Props(ps)
      /\ a \notin ToSet(fl["static"]) /\ a \notin ToSet(fl["dynamic"])
      /\ \A p \in Props(ps) : a \notin Chunks(d[p])
      /\ ~IsA(d, a, "relationship") /\ \A r : IsA(d, r, "relationship") => a # d[r].type
  BY DEF Loose
<1>3. /\ IsList(e) /\ Len(d) \in Nat /\ Len(e) \in Nat /\ Len(d) <= Len(e)
      /\ DOMAIN d = 1 .. Len(d) /\ DOMAIN e = 1 .. Len(e)
      /\ e[a] = rec
      /\ \A b \in 1 .. Len(d) : b # a => e[b] = d[b]
      /\ \A b \in 1 .. Len(e) : b = a \/ b \in 1 .. Len(d)
  BY <1>1, <1>2, PutFacts
<1> HIDE DEF e
<1>4. Kinds(e)
  BY <1>1, <1>3 DEF Kinds, Kind
<1>5. \A b, kind : IsA(d, b, kind) /\ b # a => IsA(e, b, kind) /\ e[b] = d[b]
  <2> TAKE b, kind
  <2> SUFFICES ASSUME IsA(d, b, kind), b # a PROVE IsA(e, b, kind) /\ e[b] = d[b]
    OBVIOUS
  <2>1. b \in 1 .. Len(d) /\ d[b].kind = kind
    BY <1>3 DEF IsA
  <2>2. b \in 1 .. Len(e) /\ e[b] = d[b]
    BY <1>3, <2>1
  <2> QED
    BY <1>3, <2>1, <2>2 DEF IsA
<1>6. Free(e, m, fl)
  <2> SUFFICES ASSUME NEW c \in {"static", "dynamic"}
               PROVE  /\ Way(e, "free", m.free[c], fl[c])
                      /\ \A b \in ToSet(fl[c]) : e[b].class = c
    BY DEF Free
  <2>1. Way(d, "free", m.free[c], fl[c]) /\ \A b \in ToSet(fl[c]) : d[b].class = c
    BY <1>1 DEF Free
  <2>2. \A b \in ToSet(fl[c]) : IsA(d, b, "free") /\ b # a
    BY <1>2, <2>1, WayElements
  <2> QED
    BY <1>5, <2>1, <2>2, WayFrame
<1>7. \A o \in DOMAIN ps : Way(e, "property", Head0(e, h, o), ps[o])
  <2> TAKE o \in DOMAIN ps
  <2>1. Way(d, "property", Head0(d, h, o), ps[o])
    BY <1>1 DEF Owners
  <2>2. \A p \in ToSet(ps[o]) : IsA(d, p, "property") /\ p # a
    BY <1>2, <2>1, WayElements DEF Props
  <2>3. Head0(e, h, o) = Head0(d, h, o)
    <3>1. o # 0 => IsA(d, o, "node") /\ o # a
      BY <1>1, <1>2 DEF Owners
    <3> QED
      BY <1>5, <3>1 DEF Head0
  <2> QED
    BY <1>5, <2>1, <2>2, <2>3, WayFrame
<1>8. \A p \in Props(ps) : e[p] = d[p]
  <2>1. \A o \in DOMAIN ps : \A p \in ToSet(ps[o]) : IsA(d, p, "property") /\ p # a
    BY <1>1, <1>2, WayElements DEF Owners, Props
  <2> QED
    BY <1>5, <2>1 DEF Props
<1>9. Owners(e, ps, h)
  <2>1. \A n \in DOMAIN ps : n # 0 => IsA(e, n, "node") /\ NodeRecord(e[n])
    BY <1>1, <1>2, <1>5 DEF Owners
  <2>2. \A p \in Props(ps) : /\ PropertyRecord(e[p])
                             /\ \A c \in Chunks(e[p]) : IsA(e, c, "chunk")
                             /\ e[p].type = "STRING" => e[p].key # e[p].val
    BY <1>1, <1>2, <1>5, <1>8 DEF Owners
  <2>3. \A p, q \in Props(ps) : \A c : c \in Chunks(e[p]) /\ c \in Chunks(e[q]) => p = q
    BY <1>1, <1>8 DEF Owners
  <2>4. /\ 0 \in DOMAIN ps
        /\ \A o, q \in DOMAIN ps : \A p : p \in ToSet(ps[o]) /\ p \in ToSet(ps[q]) => o = q
    BY <1>1 DEF Owners
  <2> QED
    BY <1>7, <2>1, <2>2, <2>3, <2>4 DEF Owners
<1>10. Doubly(e, m, ns)
  <2>1. \A n \in ToSet(ns) : IsA(d, n, "node") /\ n # a
    BY <1>1, <1>2, WayElements DEF Doubly
  <2>2. Way(e, "node", m.first, ns)
    BY <1>1, <1>5, <2>1, WayFrame DEF Doubly
  <2>3. \A i \in 1 .. Len(ns) : e[ns[i]] = d[ns[i]]
    <3> TAKE i \in 1 .. Len(ns)
    <3>1. ns[i] \in ToSet(ns)
      BY <1>1, WayElements DEF Doubly
    <3> QED
      BY <1>5, <2>1, <3>1
  <2> QED
    BY <1>1, <2>2, <2>3 DEF Doubly
<1>11. \A r : IsA(e, r, "relationship") <=> IsA(d, r, "relationship")
  <2>1. \A r : IsA(e, r, "relationship") => r \in 1 .. Len(d) /\ r # a /\ IsA(d, r, "relationship")
    BY <1>3 DEF IsA, Kind
  <2> QED
    BY <1>2, <1>5, <2>1
<1>12. Related(e, ps) /\ (Chained(d, ps) => Chained(e, ps))
  <2>1. \A r : IsA(d, r, "relationship") => RelationAt(d, ps, r)
    BY <1>1 DEF Related
  <2>2. \A r : IsA(d, r, "relationship") => e[r] = d[r] /\ IsA(e, d[r].type, "chunk")
    BY <1>2, <1>5, <2>1 DEF RelationAt
  <2>3. \A r : IsA(d, r, "relationship") =>
          /\ \A n \in Ends(d[r]) : n \in DOMAIN ps
          /\ \A p \in Props(ps) : d[r].type \notin Chunks(e[p])
    BY <1>8, <2>1 DEF RelationAt
  <2>4. \A n \in DOMAIN ps : n # 0 => IF n \in DOMAIN ps THEN e[n].rel = d[n].rel ELSE e[n].rel = 0
    BY <1>1, <1>2, <1>5 DEF Owners
  <2> QED
    BY <1>1, <1>11, <2>2, <2>3, <2>4, RelatedFrame
<1>13. ASSUME NEW b, Loose(d, ps, fl, b) PROVE Loose(e, ps, fl, b)
  <2>1. b \in 1 .. Len(e) + 1
    BY <1>3, <1>13 DEF Loose
  <2>2. \A r : IsA(e, r, "relationship") => b # e[r].type
    BY <1>2, <1>5, <1>11, <1>13 DEF Loose
  <2> QED
    BY <1>8, <1>11, <1>13, <2>1, <2>2 DEF Loose
<1>14. ASSUME NEW b \in 1 .. Len(e), Loose(e, ps, fl, b) PROVE Loose(d, ps, fl, b)
  <2>1. b = a \/ b \in 1 .. Len(d)
    BY <1>3
  <2>2. b \in 1 .. Len(d) + 1
    BY <1>2, <1>3, <2>1
  <2>3. \A r : IsA(d, r, "relationship") => b # d[r].type
    BY <1>2, <1>5, <1>11, <1>14 DEF Loose
  <2> QED
    BY <1>8, <1>11, <1>14, <2>2, <2>3 DEF Loose
<1>15. Full(e, m, ns, ps, h, fl)
  BY <1>1, <1>3, <1>4, <1>6, <1>9, <1>10, <1>12 DEF Full
<1>16. Graph(e, m) = Graph(d, m)
  <2>1. Graph(e, m) = Picture(e, ns, ps) /\ Graph(d, m) = Picture(d, ns, ps)
    BY <1>15, GraphIs
  <2>2. \A i \in 1 .. Len(ns) : ns[i] \in DOMAIN ps
    BY <1>1, WayElements DEF Doubly
  <2>3. \A o \in DOMAIN ps : \A j \in 1 .. Len(ps[o]) : ps[o][j] \in Props(ps)
    BY <1>1, WayElements DEF Owners, Props
  <2>4. \A p \in Props(ps) : \A c \in Chunks(d[p]) : Text(e, c) = Text(d, c)
    BY <1>1, <1>2, <1>5 DEF Owners, Text
  <2>5. Picture(e, ns, ps) = Picture(d, ns, ps)
    BY <1>8, <2>2, <2>3, <2>4, PictureFrame
  <2> QED
    BY <2>1, <2>5
<1> QED
  BY <1>12, <1>13, <1>14, <1>15, <1>16 DEF e

Class == {"static", "dynamic"}

(* One free list of the header changes. *)
WithFree(m, class, x) == [m EXCEPT !.free[class] = x]

(* The new head of a list of free blocks leaves the rest of the header alone. *)
LEMMA HeaderFree ==
  ASSUME NEW m, Header(m), NEW class \in Class, NEW x
  PROVE  /\ Header(WithFree(m, class, x))
         /\ WithFree(m, class, x).first = m.first
         /\ WithFree(m, class, x).last = m.last
         /\ WithFree(m, class, x).free[class] = x
         /\ \A c \in Class : c # class => WithFree(m, class, x).free[c] = m.free[c]
<1> DEFINE g == [m.free EXCEPT ![class] = x]
           k == [m EXCEPT !.free = g]
<1>1. m = [first |-> m.first, last |-> m.last,
           free |-> [static |-> m.free.static, dynamic |-> m.free.dynamic]]
  BY DEF Header
<1>2. m.free = [static |-> m.free.static, dynamic |-> m.free.dynamic]
  BY <1>1
<1>3. g = [static |-> g.static, dynamic |-> g.dynamic] /\ g[class] = x
      /\ \A c \in Class : c # class => g[c] = m.free[c]
  BY <1>2 DEF Class
<1> HIDE DEF g
<1>4. k.first = m.first /\ k.last = m.last /\ k.free = g
      /\ k = [first |-> m.first, last |-> m.last, free |-> g]
  BY <1>1
<1> HIDE DEF k
<1>5. Header(k)
  BY <1>3, <1>4 DEF Header
<1>6. WithFree(m, class, x) = k
  BY DEF k, g, WithFree
<1> QED
  BY <1>3, <1>4, <1>5, <1>6

(* Only the free lists of a header matter to what is free, and only its ends to  *)
(* the list of nodes.                                                            *)
LEMMA FullHeader ==
  ASSUME NEW d, NEW m, NEW ns, NEW ps, NEW h, NEW fl, Full(d, m, ns, ps, h, fl),
         NEW k, Header(k), k.first = m.first, k.last = m.last, NEW gl, Free(d, k, gl)
  PROVE  Full(d, k, ns, ps, h, gl) /\ Graph(d, k) = Graph(d, m)
BY DEF Full, Doubly, Graph

(* The first block of a free list leaves it. *)
LEMMA FreeTake ==
  ASSUME NEW d, NEW m, NEW ns, NEW ps, NEW h, NEW fl, Full(d, m, ns, ps, h, fl),
         NEW class \in Class, m.free[class] # 0
  PROVE  \E gl :
           /\ Full(d, WithFree(m, class, d[m.free[class]].next), ns, ps, h, gl)
           /\ Loose(d, ps, gl, m.free[class]) /\ m.free[class] \in 1 .. Len(d)
           /\ \A b : Loose(d, ps, fl, b) => Loose(d, ps, gl, b) /\ b # m.free[class]
           /\ \A b : Loose(d, ps, gl, b) => Loose(d, ps, fl, b) \/ b = m.free[class]
           /\ Graph(d, WithFree(m, class, d[m.free[class]].next)) = Graph(d, m)
<1> DEFINE a == m.free[class]
           k == WithFree(m, class, d[a].next)
           gl == [c \in Class |-> IF c = class THEN Tail(fl[c]) ELSE fl[c]]
<1>1. /\ IsList(d) /\ Header(m) /\ Free(d, m, fl) /\ Owners(d, ps, h) /\ a # 0
      /\ Related(d, ps)
  BY DEF Full
<1>2. /\ Header(k) /\ k.first = m.first /\ k.last = m.last /\ k.free[class] = d[a].next
      /\ \A c \in Class : c # class => k.free[c] = m.free[c]
  BY <1>1, HeaderFree
<1>3. \A c \in Class : Way(d, "free", m.free[c], fl[c]) /\ \A b \in ToSet(fl[c]) : d[b].class = c
  BY <1>1 DEF Free, Class
<1>4. /\ gl[class] = Tail(fl[class])
      /\ \A c \in Class : c # class => gl[c] = fl[c]
  OBVIOUS
<1>5. Way(d, "free", a, fl[class])
  BY <1>3
<1> HIDE DEF a, k, gl
<1>6. /\ Way(d, "free", d[a].next, gl[class])
      /\ a \in ToSet(fl[class]) /\ a \notin ToSet(gl[class])
      /\ \A x : x \in ToSet(fl[class]) <=> x = a \/ x \in ToSet(gl[class])
  BY <1>1, <1>4, <1>5, WayPop
<1>7. Free(d, k, gl)
  <2> SUFFICES ASSUME NEW c \in Class
               PROVE  /\ Way(d, "free", k.free[c], gl[c])
                      /\ \A b \in ToSet(gl[c]) : d[b].class = c
    BY DEF Free, Class
  <2>1. CASE c = class
    BY <1>2, <1>3, <1>6, <2>1
  <2>2. CASE c # class
    BY <1>2, <1>3, <1>4, <2>2
  <2> QED
    BY <2>1, <2>2
<1>8. Full(d, k, ns, ps, h, gl) /\ Graph(d, k) = Graph(d, m)
  BY <1>2, <1>7, FullHeader
<1>9. IsA(d, a, "free") /\ d[a].class = class
  BY <1>3, <1>5, <1>6, WayElements
<1>10. \A c \in Class : a \notin ToSet(gl[c])
  BY <1>3, <1>4, <1>6, <1>9
<1>11. a \in 1 .. Len(d)
  BY <1>1, <1>9, ListLength DEF IsA
<1>12. a \notin DOMAIN ps
  BY <1>1, <1>9 DEF Owners, IsA
<1>13. a \notin Props(ps)
  BY <1>1, <1>9, WayElements DEF Owners, Props, IsA
<1>14. \A p \in Props(ps) : a \notin Chunks(d[p])
  BY <1>1, <1>9 DEF Owners, IsA
<1>15. Loose(d, ps, gl, a)
  <2>1. a \in 1 .. Len(d) + 1
    BY <1>1, <1>11, ListLength
  <2>2. ~IsA(d, a, "relationship") /\ \A r : IsA(d, r, "relationship") => a # d[r].type
    BY <1>1, <1>9 DEF Related, RelationAt, IsA
  <2> QED
    BY <1>10, <1>12, <1>13, <1>14, <2>1, <2>2 DEF Loose, Class
<1>16. ASSUME NEW b, Loose(d, ps, fl, b) PROVE Loose(d, ps, gl, b) /\ b # a
  <2>1. \A c \in Class : b \notin ToSet(fl[c])
    BY <1>16 DEF Loose, Class
  <2>2. b # a /\ \A c \in Class : b \notin ToSet(gl[c])
    BY <1>4, <1>6, <2>1
  <2> QED
    BY <1>16, <2>2 DEF Loose, Class
<1>17. ASSUME NEW b, Loose(d, ps, gl, b) PROVE Loose(d, ps, fl, b) \/ b = a
  <2>1. \A c \in Class : b \notin ToSet(gl[c])
    BY <1>17 DEF Loose, Class
  <2>2. b # a => \A c \in Class : b \notin ToSet(fl[c])
    BY <1>4, <1>6, <2>1
  <2> QED
    BY <1>17, <2>2 DEF Loose, Class
<1> QED
  BY <1>8, <1>11, <1>15, <1>16, <1>17 DEF a, k

(* A loose block becomes the first of a free list. *)
LEMMA FreeGive ==
  ASSUME NEW d, NEW m, NEW ns, NEW ps, NEW h, NEW fl, Full(d, m, ns, ps, h, fl),
         NEW class \in Class, NEW a, Loose(d, ps, fl, a), a \in 1 .. Len(d),
         d[a] = FreeSpace(class, m.free[class])
  PROVE  \E gl :
           /\ Full(d, WithFree(m, class, a), ns, ps, h, gl)
           /\ \A b : Loose(d, ps, gl, b) <=> Loose(d, ps, fl, b) /\ b # a
           /\ Graph(d, WithFree(m, class, a)) = Graph(d, m)
<1> DEFINE k == WithFree(m, class, a)
           gl == [c \in Class |-> IF c = class THEN <<a>> \o fl[c] ELSE fl[c]]
<1>1. /\ IsList(d) /\ Header(m) /\ Free(d, m, fl)
  BY DEF Full
<1>2. /\ Header(k) /\ k.first = m.first /\ k.last = m.last /\ k.free[class] = a
      /\ \A c \in Class : c # class => k.free[c] = m.free[c]
  <2>1. Header(m)
    BY <1>1
  <2> QED
    BY <2>1, HeaderFree
<1>3. \A c \in Class : Way(d, "free", m.free[c], fl[c]) /\ \A b \in ToSet(fl[c]) : d[b].class = c
  BY <1>1 DEF Free, Class
<1>4. /\ gl[class] = <<a>> \o fl[class]
      /\ \A c \in Class : c # class => gl[c] = fl[c]
  OBVIOUS
<1>5. /\ IsA(d, a, "free") /\ d[a].class = class /\ d[a].next = m.free[class]
      /\ \A c \in Class : a \notin ToSet(fl[c])
  BY <1>1, ListLength DEF IsA, FreeSpace, Loose, Class
<1> HIDE DEF k, gl
<1>6. /\ Way(d, "free", a, gl[class])
      /\ \A x : x \in ToSet(gl[class]) <=> x = a \/ x \in ToSet(fl[class])
  BY <1>3, <1>4, <1>5, WayPush
<1>7. Free(d, k, gl)
  <2> SUFFICES ASSUME NEW c \in Class
               PROVE  /\ Way(d, "free", k.free[c], gl[c])
                      /\ \A b \in ToSet(gl[c]) : d[b].class = c
    BY DEF Free, Class
  <2>1. CASE c = class
    BY <1>2, <1>3, <1>5, <1>6, <2>1
  <2>2. CASE c # class
    BY <1>2, <1>3, <1>4, <2>2
  <2> QED
    BY <2>1, <2>2
<1>8. Full(d, k, ns, ps, h, gl) /\ Graph(d, k) = Graph(d, m)
  BY <1>2, <1>7, FullHeader
<1>9. ASSUME NEW b, Loose(d, ps, fl, b), b # a PROVE Loose(d, ps, gl, b)
  <2>1. \A c \in Class : b \notin ToSet(fl[c])
    BY <1>9 DEF Loose, Class
  <2>2. \A c \in Class : b \notin ToSet(gl[c])
    BY <1>4, <1>6, <1>9, <2>1
  <2> QED
    BY <1>9, <2>2 DEF Loose, Class
<1>10. ASSUME NEW b, Loose(d, ps, gl, b) PROVE Loose(d, ps, fl, b) /\ b # a
  <2>1. \A c \in Class : b \notin ToSet(gl[c])
    BY <1>10 DEF Loose, Class
  <2>2. b # a /\ \A c \in Class : b \notin ToSet(fl[c])
    BY <1>4, <1>6, <2>1
  <2> QED
    BY <1>10, <2>2 DEF Loose, Class
<1> QED
  BY <1>8, <1>9, <1>10 DEF k

--------------------------------------------------------------------------------
(* A node is written back with other links. *)
LEMMA NodeWrite ==
  ASSUME NEW d, IsList(d), Kinds(d), NEW m, NEW fl, Free(d, m, fl),
         NEW n, IsA(d, n, "node"), NEW rec, NodeRecord(rec)
  PROVE  /\ IsList(PutAt(d, n, rec)) /\ Kinds(PutAt(d, n, rec)) /\ Free(PutAt(d, n, rec), m, fl)
         /\ Len(PutAt(d, n, rec)) = Len(d)
         /\ \A b, kind : IsA(PutAt(d, n, rec), b, kind) <=> IsA(d, b, kind)
         /\ \A b, kind : IsA(d, b, kind) /\ b # n => PutAt(d, n, rec)[b] = d[b]
         /\ PutAt(d, n, rec)[n] = rec
<1> DEFINE e == PutAt(d, n, rec)
<1>1. Len(d) \in Nat /\ DOMAIN d = 1 .. Len(d) /\ n \in 1 .. Len(d) /\ n # Len(d) + 1
  BY ListLength DEF IsA
<1>2. e = [d EXCEPT ![n] = rec]
  BY <1>1 DEF PutAt
<1>3. DOMAIN e = DOMAIN d /\ e[n] = rec /\ \A b : b \in DOMAIN d /\ b # n => e[b] = d[b]
  BY <1>1, <1>2
<1>4. rec.kind = "node" /\ d[n].kind = "node"
  BY DEF NodeRecord, IsA
<1>5. IsList(e) /\ Len(e) \in Nat /\ DOMAIN e = 1 .. Len(e)
  BY ListPut, ListLength
<1> HIDE DEF e
<1>6. Len(e) = Len(d)
  <2> DEFINE x == Len(e)
             y == Len(d)
  <2>1. x \in Nat /\ y \in Nat /\ \A i : i \in 1 .. x <=> i \in 1 .. y
    BY <1>1, <1>3, <1>5
  <2> HIDE DEF x, y
  <2>2. x # 0 => x \in 1 .. x
    BY <2>1
  <2>3. y # 0 => y \in 1 .. y
    BY <2>1
  <2>4. x = y
    BY <2>1, <2>2, <2>3
  <2> QED
    BY <2>4 DEF x, y
<1>7. \A b, kind : IsA(d, b, kind) /\ b # n => e[b] = d[b]
  BY <1>3 DEF IsA
<1>8. \A b, kind : IsA(e, b, kind) <=> IsA(d, b, kind)
  BY <1>1, <1>3, <1>4 DEF IsA
<1>9. Kinds(e)
  BY <1>1, <1>3, <1>4, <1>6 DEF Kinds
<1>10. Free(e, m, fl)
  <2> SUFFICES ASSUME NEW c \in {"static", "dynamic"}
               PROVE  /\ Way(e, "free", m.free[c], fl[c])
                      /\ \A b \in ToSet(fl[c]) : e[b].class = c
    BY DEF Free
  <2>1. Way(d, "free", m.free[c], fl[c]) /\ \A b \in ToSet(fl[c]) : d[b].class = c
    BY DEF Free
  <2>2. \A b \in ToSet(fl[c]) : IsA(d, b, "free")
    BY <2>1, WayElements
  <2>3. \A b \in ToSet(fl[c]) : b # n
    BY <1>4, <2>2 DEF IsA
  <2>4. \A b \in ToSet(fl[c]) : IsA(e, b, "free") /\ e[b].next = d[b].next /\ e[b].class = c
    BY <1>3, <1>8, <2>1, <2>2, <2>3 DEF IsA
  <2> QED
    BY <2>1, <2>4, WayFrame
<1> QED
  BY <1>3, <1>5, <1>6, <1>7, <1>8, <1>9, <1>10 DEF e

(* A property that is not in the file's chains, with its chunks. *)
InHand(d, ps, fl, p) ==
  /\ IsA(d, p, "property") /\ PropertyRecord(d[p]) /\ Loose(d, ps, fl, p)
  /\ \A c \in Chunks(d[p]) : IsA(d, c, "chunk") /\ Loose(d, ps, fl, c)
  /\ d[p].type = "STRING" => d[p].key # d[p].val

With(ps, o, s) == [q \in DOMAIN ps |-> IF q = o THEN s ELSE ps[q]]

(* It becomes the first property of an owner, who leads to it now. *)
LEMMA OwnersPush ==
  ASSUME NEW d, NEW ps, NEW h, Owners(d, ps, h), NEW fl, NEW p, InHand(d, ps, fl, p),
         NEW o \in DOMAIN ps, d[p].next = Head0(d, h, o),
         NEW e, NEW k, Head0(e, k, o) = p,
         \A q \in DOMAIN ps : q # o => Head0(e, k, q) = Head0(d, h, q),
         \A b : IsA(d, b, "property") => IsA(e, b, "property") /\ e[b] = d[b],
         \A b : IsA(d, b, "chunk") => IsA(e, b, "chunk"),
         \A n \in DOMAIN ps : n # 0 => IsA(e, n, "node") /\ NodeRecord(e[n])
  PROVE  Owners(e, With(ps, o, <<p>> \o ps[o]), k)
<1> DEFINE t == <<p>> \o ps[o]
           rs == With(ps, o, t)
<1>1. /\ 0 \in DOMAIN ps
      /\ \A q \in DOMAIN ps : Way(d, "property", Head0(d, h, q), ps[q])
      /\ \A q, r \in DOMAIN ps : \A x : x \in ToSet(ps[q]) /\ x \in ToSet(ps[r]) => q = r
      /\ \A x \in Props(ps) : /\ PropertyRecord(d[x])
                              /\ \A c \in Chunks(d[x]) : IsA(d, c, "chunk")
                              /\ d[x].type = "STRING" => d[x].key # d[x].val
      /\ \A x, y \in Props(ps) : \A c : c \in Chunks(d[x]) /\ c \in Chunks(d[y]) => x = y
  BY DEF Owners
<1>2. \A q \in DOMAIN ps : Way(e, "property", Head0(d, h, q), ps[q])
  <2> TAKE q \in DOMAIN ps
  <2>1. Way(d, "property", Head0(d, h, q), ps[q])
    BY <1>1
  <2>2. \A x \in ToSet(ps[q]) : IsA(d, x, "property")
    BY <2>1, WayElements
  <2> QED
    BY <2>1, <2>2, WayFrame
<1>3. /\ IsA(d, p, "property") /\ PropertyRecord(d[p]) /\ p \notin Props(ps)
      /\ \A x \in Props(ps) : \A c \in Chunks(d[p]) : c \notin Chunks(d[x])
      /\ \A c \in Chunks(d[p]) : IsA(d, c, "chunk")
      /\ d[p].type = "STRING" => d[p].key # d[p].val
  BY DEF InHand, Loose
<1>4. \A q \in DOMAIN ps : p \notin ToSet(ps[q])
  BY <1>3 DEF Props
<1>5. /\ Way(e, "property", p, t)
      /\ \A x : x \in ToSet(t) <=> x = p \/ x \in ToSet(ps[o])
  BY <1>2, <1>3, <1>4, WayPush
<1>6. DOMAIN rs = DOMAIN ps /\ rs[o] = t /\ \A q \in DOMAIN ps : q # o => rs[q] = ps[q]
  BY DEF With
<1> HIDE DEF t, rs
<1>7. \A x \in Props(rs) : x = p \/ x \in Props(ps)
  BY <1>5, <1>6 DEF Props
<1>8. \A x \in Props(rs) : e[x] = d[x]
  <2>1. \A x \in Props(ps) : IsA(d, x, "property")
    BY <1>1, WayElements DEF Props
  <2> QED
    BY <1>3, <1>7, <2>1
<1>9. \A q \in DOMAIN rs : Way(e, "property", Head0(e, k, q), rs[q])
  BY <1>2, <1>5, <1>6
<1>10. \A q, r \in DOMAIN rs : \A x : x \in ToSet(rs[q]) /\ x \in ToSet(rs[r]) => q = r
  <2> SUFFICES ASSUME NEW q \in DOMAIN ps, NEW r \in DOMAIN ps, NEW x,
                      x \in ToSet(rs[q]), x \in ToSet(rs[r])
               PROVE  q = r
    BY <1>6
  <2>1. CASE x = p
    BY <1>4, <1>6, <2>1
  <2>2. CASE x # p
    <3>1. x \in ToSet(ps[q]) /\ x \in ToSet(ps[r])
      BY <1>5, <1>6, <2>2
    <3> QED
      BY <1>1, <3>1
  <2> QED
    BY <2>1, <2>2
<1>11. \A x \in Props(rs) : /\ PropertyRecord(e[x])
                            /\ \A c \in Chunks(e[x]) : IsA(e, c, "chunk")
                            /\ e[x].type = "STRING" => e[x].key # e[x].val
  BY <1>1, <1>3, <1>7, <1>8
<1>12. \A x, y \in Props(rs) : \A c : c \in Chunks(e[x]) /\ c \in Chunks(e[y]) => x = y
  BY <1>1, <1>3, <1>7, <1>8
<1> QED
  BY <1>1, <1>6, <1>9, <1>10, <1>11, <1>12 DEF Owners, rs, t

(* A list that gets one more property: what is loose then. *)
LEMMA PushLoose ==
  ASSUME NEW d, NEW ps, NEW h, Owners(d, ps, h), NEW fl, NEW p, InHand(d, ps, fl, p),
         NEW o \in DOMAIN ps
  PROVE  /\ \A x : x \in Props(With(ps, o, <<p>> \o ps[o])) <=> x = p \/ x \in Props(ps)
         /\ \A b : Loose(d, With(ps, o, <<p>> \o ps[o]), fl, b)
                     <=> Loose(d, ps, fl, b) /\ b # p /\ b \notin Chunks(d[p])
<1> DEFINE t == <<p>> \o ps[o]
           rs == With(ps, o, t)
<1>1. DOMAIN rs = DOMAIN ps /\ rs[o] = t /\ \A q \in DOMAIN ps : q # o => rs[q] = ps[q]
  BY DEF With
<1>2. \A x : x \in ToSet(t) <=> x = p \/ x \in ToSet(ps[o])
  <2>1. Way(d, "property", Head0(d, h, o), ps[o]) /\ IsA(d, p, "property")
    BY DEF Owners, InHand
  <2>2. IsList(ps[o]) /\ IsList(<<p>>)
    <3>1. <<p>> \in Seq({p})
      OBVIOUS
    <3> QED
      BY <2>1, <3>1 DEF Way, IsList
  <2>3. ToSet(<<p>>) = {p}
    BY DEF ToSet
  <2> QED
    BY <2>2, <2>3, JoinedElements
<1> HIDE DEF t, rs
<1>3. \A x : x \in Props(rs) <=> x = p \/ x \in Props(ps)
  BY <1>1, <1>2 DEF Props
<1>4. \A b : Loose(d, rs, fl, b) <=> Loose(d, ps, fl, b) /\ b # p /\ b \notin Chunks(d[p])
  BY <1>1, <1>3 DEF Loose
<1> QED
  BY <1>3, <1>4 DEF rs, t

(* The call takes it into its own chain, ... *)
LEMMA PushOwn ==
  ASSUME NEW d, NEW m, NEW ns, NEW ps, NEW h, NEW fl, Full(d, m, ns, ps, h, fl),
         NEW p, InHand(d, ps, fl, p), d[p].next = h
  PROVE  /\ Full(d, m, ns, With(ps, 0, <<p>> \o ps[0]), p, fl)
         /\ \A b : Loose(d, With(ps, 0, <<p>> \o ps[0]), fl, b)
                     <=> Loose(d, ps, fl, b) /\ b # p /\ b \notin Chunks(d[p])
         /\ Chained(d, ps) => Chained(d, With(ps, 0, <<p>> \o ps[0]))
<1> DEFINE rs == With(ps, 0, <<p>> \o ps[0])
<1>1. Owners(d, ps, h) /\ Related(d, ps) /\ 0 \in DOMAIN ps
  BY DEF Full, Owners
<1>2. /\ d[p].next = Head0(d, h, 0) /\ Head0(d, p, 0) = p
      /\ \A q \in DOMAIN ps : q # 0 => Head0(d, p, q) = Head0(d, h, q)
      /\ \A n \in DOMAIN ps : n # 0 => IsA(d, n, "node") /\ NodeRecord(d[n])
  BY <1>1 DEF Head0, Owners
<1>3. Owners(d, rs, p)
  BY <1>1, <1>2, OwnersPush
<1>4. DOMAIN rs = DOMAIN ps
  BY DEF With
<1>5. /\ \A x : x \in Props(rs) <=> x = p \/ x \in Props(ps)
      /\ \A b : Loose(d, rs, fl, b) <=> Loose(d, ps, fl, b) /\ b # p /\ b \notin Chunks(d[p])
  BY <1>1, PushLoose
<1> HIDE DEF rs
<1>6. Related(d, rs) /\ (Chained(d, ps) => Chained(d, rs))
  <2>1. \A r : IsA(d, r, "relationship") =>
          /\ d[r] = d[r] /\ IsA(d, d[r].type, "chunk")
          /\ \A n \in Ends(d[r]) : n \in DOMAIN rs
          /\ \A x \in Props(rs) : d[r].type \notin Chunks(d[x])
    <3>1. \A r : IsA(d, r, "relationship") => RelationAt(d, ps, r)
      BY <1>1 DEF Related
    <3>2. \A r : IsA(d, r, "relationship") => d[r].type \notin Chunks(d[p])
      BY DEF InHand, Loose
    <3> QED
      BY <1>4, <1>5, <3>1, <3>2 DEF RelationAt
  <2>2. \A n \in DOMAIN rs : n # 0 => IF n \in DOMAIN ps THEN d[n].rel = d[n].rel ELSE d[n].rel = 0
    BY <1>4
  <2> QED
    BY <1>1, <2>1, <2>2, RelatedFrame
<1> QED
  BY <1>3, <1>4, <1>5, <1>6 DEF Full, rs

(* What is read from one more record. *)
LEMMA ReadPush ==
  ASSUME NEW d, NEW s, IsList(s), NEW p
  PROVE  Read(d, <<p>> \o s) = <<PropertyAt(d, p)>> \o Read(d, s)
<1> DEFINE n == Len(s)
           t == <<p>> \o s
           T == {PropertyAt(d, t[j]) : j \in 1 .. Len(t)}
           r == Read(d, s)
<1>1. n \in Nat /\ Len(t) = n + 1 /\ t[1] = p /\ \A j \in 1 .. n : t[j + 1] = s[j]
  <2>1. PICK S : s \in Seq(S)
    BY DEF IsList
  <2>2. <<p>> \in Seq(S \cup {p}) /\ s \in Seq(S \cup {p})
    BY <2>1
  <2> QED
    BY <2>2
<1>2. r \in [1 .. n -> T]
  <2>1. \A j \in 1 .. n : PropertyAt(d, s[j]) = PropertyAt(d, t[j + 1]) /\ j + 1 \in 1 .. Len(t)
    BY <1>1
  <2>2. \A j \in 1 .. n : PropertyAt(d, s[j]) \in T
    BY <2>1
  <2> HIDE DEF T
  <2> QED
    BY <2>2 DEF Read
<1>3. r \in Seq(T) /\ Len(r) = n /\ \A j \in 1 .. n : r[j] = PropertyAt(d, s[j])
  BY <1>1, <1>2, ListOf DEF Read
<1>4. PropertyAt(d, p) \in T
  <2>1. 1 \in 1 .. Len(t)
    BY <1>1
  <2> QED
    BY <1>1, <2>1
<1> HIDE DEF T, r, t, n
<1> DEFINE u == <<PropertyAt(d, p)>> \o r
<1>5. u \in Seq(T) /\ Len(u) = n + 1 /\ u[1] = PropertyAt(d, p) /\ \A j \in 1 .. n : u[j + 1] = r[j]
  BY <1>1, <1>3, <1>4
<1> HIDE DEF u
<1>6. \A j \in 1 .. n + 1 : u[j] = PropertyAt(d, t[j])
  <2> TAKE j \in 1 .. n + 1
  <2>1. CASE j = 1
    BY <1>1, <1>5, <2>1
  <2>2. CASE j # 1
    <3>1. j - 1 \in 1 .. n /\ (j - 1) + 1 = j
      BY <1>1, <2>2
    <3>2. u[(j - 1) + 1] = r[j - 1] /\ t[(j - 1) + 1] = s[j - 1] /\ r[j - 1] = PropertyAt(d, s[j - 1])
      BY <1>1, <1>3, <1>5, <3>1
    <3> QED
      BY <3>1, <3>2
  <2> QED
    BY <2>1, <2>2
<1>7. Read(d, t) = [j \in 1 .. n + 1 |-> PropertyAt(d, t[j])]
  BY <1>1 DEF Read
<1>8. u = [j \in 1 .. n + 1 |-> u[j]]
  BY <1>1, <1>5
<1> QED
  BY <1>6, <1>7, <1>8 DEF u, r, t

(* ... or links a node to it: e is the file then, qs are the properties. *)
Pushed(d, m, ns, ps, h, fl, p, n, e, qs) ==
  /\ Full(e, m, ns, qs, h, fl)
  /\ \A b : Loose(e, qs, fl, b) <=> Loose(d, ps, fl, b) /\ b # p /\ b \notin Chunks(d[p])
  /\ Chained(d, ps) => Chained(e, qs)
  /\ \A i \in 1 .. Len(ns) :
       ns[i] = n => Graph(e, m) = [Graph(d, m) EXCEPT ![i] = <<PropertyAt(d, p)>> \o @]

LEMMA PushNode ==
  ASSUME NEW d, NEW m, NEW ns, NEW ps, NEW h, NEW fl, Full(d, m, ns, ps, h, fl),
         NEW p, InHand(d, ps, fl, p), NEW n \in ToSet(ns), n # 0, d[p].next = d[n].prop
  PROVE  Pushed(d, m, ns, ps, h, fl, p, n, PutAt(d, n, [d[n] EXCEPT !.prop = p]),
                With(ps, n, <<p>> \o ps[n]))
<1> DEFINE rec == [d[n] EXCEPT !.prop = p]
           e == PutAt(d, n, rec)
           rs == With(ps, n, <<p>> \o ps[n])
<1>1. /\ IsList(d) /\ Kinds(d) /\ Header(m) /\ Free(d, m, fl) /\ Owners(d, ps, h)
      /\ Related(d, ps) /\ Doubly(d, m, ns) /\ \A x : x \in DOMAIN ps <=> x = 0 \/ x \in ToSet(ns)
  BY DEF Full
<1>2. n \in DOMAIN ps /\ IsA(d, n, "node") /\ NodeRecord(d[n])
  BY <1>1 DEF Owners
<1>3. NodeRecord(rec) /\ rec.prop = p /\ rec.next = d[n].next /\ rec.prev = d[n].prev
      /\ rec.rel = d[n].rel
  <2> DEFINE r == d[n]
  <2>1. r = [kind |-> "node", rel |-> r.rel, prop |-> r.prop, next |-> r.next, prev |-> r.prev]
    BY <1>2 DEF NodeRecord
  <2> HIDE DEF r
  <2>2. [r EXCEPT !.prop = p]
          = [kind |-> "node", rel |-> r.rel, prop |-> p, next |-> r.next, prev |-> r.prev]
    BY <2>1
  <2> QED
    BY <2>2 DEF r, NodeRecord
<1> HIDE DEF rec
<1>4. /\ IsList(e) /\ Kinds(e) /\ Free(e, m, fl)
      /\ \A b, kind : IsA(e, b, kind) <=> IsA(d, b, kind)
      /\ \A b, kind : IsA(d, b, kind) /\ b # n => e[b] = d[b]
      /\ e[n] = rec
  BY <1>1, <1>2, <1>3, NodeWrite
<1>5. DOMAIN rs = DOMAIN ps
  BY DEF With
<1> HIDE DEF e, rs
<1>6. Head0(e, h, n) = p /\ d[p].next = Head0(d, h, n)
  BY <1>3, <1>4 DEF Head0
<1>7. \A q \in DOMAIN ps : q # n => Head0(e, h, q) = Head0(d, h, q)
  BY <1>1, <1>4 DEF Head0, Owners
<1>8. \A b : IsA(d, b, "property") => IsA(e, b, "property") /\ e[b] = d[b]
  BY <1>2, <1>4 DEF IsA
<1>9. \A x \in DOMAIN ps : x # 0 => IsA(e, x, "node") /\ NodeRecord(e[x])
  BY <1>1, <1>3, <1>4 DEF Owners
<1>10. Owners(e, rs, h)
  BY <1>1, <1>2, <1>4, <1>6, <1>7, <1>8, <1>9, OwnersPush DEF rs
<1>11. Doubly(e, m, ns)
  <2>1. \A x \in ToSet(ns) : IsA(d, x, "node")
    BY <1>1, WayElements DEF Doubly
  <2>2. \A x \in ToSet(ns) : IsA(e, x, "node") /\ e[x].next = d[x].next /\ e[x].prev = d[x].prev
    BY <1>3, <1>4, <2>1
  <2>3. Way(e, "node", m.first, ns)
    BY <1>1, <2>2, WayFrame DEF Doubly
  <2>4. \A i \in 1 .. Len(ns) : ns[i] \in ToSet(ns)
    BY <1>1, WayElements DEF Doubly
  <2> QED
    BY <1>1, <2>2, <2>3, <2>4 DEF Doubly
<1>12. /\ \A x : x \in Props(rs) <=> x = p \/ x \in Props(ps)
       /\ \A b : Loose(d, rs, fl, b) <=> Loose(d, ps, fl, b) /\ b # p /\ b \notin Chunks(d[p])
  BY <1>1, <1>2, PushLoose DEF rs
<1>13. \A x \in Props(rs) : IsA(d, x, "property") /\ e[x] = d[x]
  <2>1. \A x \in Props(ps) : IsA(d, x, "property")
    BY <1>1, WayElements DEF Owners, Props
  <2> QED
    BY <1>2, <1>4, <1>12, <2>1 DEF IsA, InHand
<1>14. \A r : IsA(d, r, "relationship") => RelationAt(d, ps, r) /\ e[r] = d[r] /\ r # n
  BY <1>1, <1>2, <1>4 DEF Related, IsA
<1>15. Related(e, rs) /\ (Chained(d, ps) => Chained(e, rs))
  <2>1. \A r : IsA(d, r, "relationship") =>
          /\ e[r] = d[r] /\ IsA(e, d[r].type, "chunk")
          /\ \A x \in Ends(d[r]) : x \in DOMAIN rs
          /\ \A x \in Props(rs) : d[r].type \notin Chunks(e[x])
    <3>1. \A r : IsA(d, r, "relationship") => d[r].type \notin Chunks(d[p])
      BY DEF InHand, Loose
    <3> QED
      BY <1>4, <1>5, <1>12, <1>13, <1>14, <3>1 DEF RelationAt
  <2>2. \A x \in DOMAIN rs : x # 0 => IF x \in DOMAIN ps THEN e[x].rel = d[x].rel ELSE e[x].rel = 0
    BY <1>1, <1>3, <1>4, <1>5 DEF Owners
  <2> QED
    BY <1>1, <1>4, <2>1, <2>2, RelatedFrame
<1>16. \A b : Loose(e, rs, fl, b) <=> Loose(d, rs, fl, b)
  <2>1. Len(e) = Len(d)
    BY <1>1, <1>2, <1>3, NodeWrite DEF e
  <2>2. \A r : IsA(e, r, "relationship") <=> IsA(d, r, "relationship") /\ e[r].type = d[r].type
    BY <1>4, <1>14
  <2> QED
    BY <1>4, <1>13, <2>1, <2>2 DEF Loose
<1>17. Full(e, m, ns, rs, h, fl)
  BY <1>1, <1>4, <1>5, <1>10, <1>11, <1>15 DEF Full
<1>18. ASSUME NEW i \in 1 .. Len(ns), ns[i] = n
       PROVE  Graph(e, m) = [Graph(d, m) EXCEPT ![i] = <<PropertyAt(d, p)>> \o @]
  <2>1. Graph(e, m) = Picture(e, ns, rs) /\ Graph(d, m) = Picture(d, ns, ps)
    BY <1>17, GraphIs
  <2>2. \A x : Text(e, x) = Text(d, x)
    BY <1>2, <1>4 DEF Text, IsA
  <2>3. \A x \in Props(rs) : PropertyAt(e, x) = PropertyAt(d, x)
    BY <1>13, <2>2 DEF PropertyAt
  <2>4. \A k \in 1 .. Len(ns) : ns[k] \in DOMAIN ps /\ (ns[k] = n => k = i)
    BY <1>1, <1>18, WayElements DEF Doubly, Way
  <2>5. \A x \in DOMAIN ps : Read(e, rs[x]) = Read(d, rs[x])
    <3>1. \A x \in DOMAIN ps : \A j \in 1 .. Len(rs[x]) : rs[x][j] \in Props(rs)
      BY <1>5, <1>10, WayElements DEF Owners, Props
    <3> QED
      BY <2>3, <3>1 DEF Read
  <2>6. Read(d, rs[n]) = <<PropertyAt(d, p)>> \o Read(d, ps[n])
    <3>1. IsList(ps[n]) /\ rs[n] = <<p>> \o ps[n]
      BY <1>1, <1>2 DEF Owners, Way, rs, With
    <3> QED
      BY <3>1, ReadPush
  <2>7. \A x \in DOMAIN ps : x # n => rs[x] = ps[x]
    BY DEF rs, With
  <2>8. \A k \in 1 .. Len(ns) :
          Read(e, rs[ns[k]]) = IF k = i THEN <<PropertyAt(d, p)>> \o Read(d, ps[ns[k]])
                               ELSE Read(d, ps[ns[k]])
    BY <1>18, <2>4, <2>5, <2>6, <2>7
  <2> QED
    BY <2>1, <2>8, ZenonT(30) DEF Picture
<1>19. Pushed(d, m, ns, ps, h, fl, p, n, e, rs)
  BY <1>12, <1>15, <1>16, <1>17, <1>18 DEF Pushed
<1> QED
  BY <1>19 DEF e, rec, rs

(* The first property of the call's own chain leaves it. *)
LEMMA PopOwn ==
  ASSUME NEW d, NEW m, NEW ns, NEW ps, NEW h, NEW fl, Full(d, m, ns, ps, h, fl), h # 0
  PROVE  /\ Full(d, m, ns, With(ps, 0, Tail(ps[0])), d[h].next, fl)
         /\ InHand(d, With(ps, 0, Tail(ps[0])), fl, h)
         /\ Len(ps[0]) \in Nat \ {0} /\ h = ps[0][1]
         /\ \A b : Loose(d, ps, fl, b)
                     => /\ Loose(d, With(ps, 0, Tail(ps[0])), fl, b)
                        /\ b # h /\ b \notin Chunks(d[h])
         /\ \A b : Loose(d, With(ps, 0, Tail(ps[0])), fl, b)
                     => Loose(d, ps, fl, b) \/ b = h \/ b \in Chunks(d[h])
         /\ Chained(d, ps) => Chained(d, With(ps, 0, Tail(ps[0])))
<1> DEFINE t == Tail(ps[0])
           rs == With(ps, 0, t)
<1>1. /\ IsList(d) /\ Free(d, m, fl) /\ Owners(d, ps, h)
      /\ Related(d, ps) /\ Doubly(d, m, ns) /\ \A x : x \in DOMAIN ps <=> x = 0 \/ x \in ToSet(ns)
  BY DEF Full
<1>2. /\ 0 \in DOMAIN ps
      /\ \A q \in DOMAIN ps : Way(d, "property", Head0(d, h, q), ps[q])
      /\ \A q, r \in DOMAIN ps : \A x : x \in ToSet(ps[q]) /\ x \in ToSet(ps[r]) => q = r
      /\ \A x \in Props(ps) : /\ PropertyRecord(d[x])
                              /\ \A c \in Chunks(d[x]) : IsA(d, c, "chunk")
                              /\ d[x].type = "STRING" => d[x].key # d[x].val
      /\ \A x, y \in Props(ps) : \A c : c \in Chunks(d[x]) /\ c \in Chunks(d[y]) => x = y
  BY <1>1 DEF Owners
<1>3. Way(d, "property", h, ps[0])
  BY <1>2 DEF Head0
<1>4. /\ Way(d, "property", d[h].next, t)
      /\ Len(ps[0]) \in Nat \ {0} /\ h = ps[0][1] /\ h \in ToSet(ps[0]) /\ h \notin ToSet(t)
      /\ \A x : x \in ToSet(ps[0]) <=> x = h \/ x \in ToSet(t)
  BY <1>3, WayPop
<1>5. DOMAIN rs = DOMAIN ps /\ rs[0] = t /\ \A q \in DOMAIN ps : q # 0 => rs[q] = ps[q]
  BY <1>2 DEF With
<1> HIDE DEF t, rs
<1>6. h \in Props(ps) /\ h \notin Props(rs)
  BY <1>2, <1>4, <1>5 DEF Props
<1>7. \A x \in Props(rs) : x \in Props(ps) /\ x # h
  <2>1. \A x \in Props(rs) : x \in Props(ps)
    BY <1>2, <1>4, <1>5 DEF Props
  <2> QED
    BY <1>6, <2>1
<1>8. Owners(d, rs, d[h].next)
  <2>1. \A q \in DOMAIN rs : Way(d, "property", Head0(d, d[h].next, q), rs[q])
    BY <1>2, <1>4, <1>5 DEF Head0
  <2>2. \A q, r \in DOMAIN rs : \A x : x \in ToSet(rs[q]) /\ x \in ToSet(rs[r]) => q = r
    <3>1. \A q \in DOMAIN rs : \A x : x \in ToSet(rs[q]) => x \in ToSet(ps[q])
      BY <1>4, <1>5
    <3> QED
      BY <1>2, <1>5, <3>1
  <2>3. \A n \in DOMAIN rs : n # 0 => IsA(d, n, "node") /\ NodeRecord(d[n])
    BY <1>1, <1>5 DEF Owners
  <2> QED
    BY <1>2, <1>5, <1>7, <2>1, <2>2, <2>3 DEF Owners
<1>20. \A r : IsA(d, r, "relationship") => RelationAt(d, ps, r)
  BY <1>1 DEF Related
<1>21. Related(d, rs) /\ (Chained(d, ps) => Chained(d, rs))
  <2>1. \A r : IsA(d, r, "relationship") =>
          /\ d[r] = d[r] /\ IsA(d, d[r].type, "chunk")
          /\ \A n \in Ends(d[r]) : n \in DOMAIN rs
          /\ \A x \in Props(rs) : d[r].type \notin Chunks(d[x])
    BY <1>5, <1>7, <1>20 DEF RelationAt
  <2>2. \A n \in DOMAIN rs : n # 0 => IF n \in DOMAIN ps THEN d[n].rel = d[n].rel ELSE d[n].rel = 0
    BY <1>5
  <2> QED
    BY <1>1, <2>1, <2>2, RelatedFrame
<1>9. Full(d, m, ns, rs, d[h].next, fl)
  BY <1>5, <1>8, <1>21 DEF Full
<1>10. IsA(d, h, "property") /\ h \in 1 .. Len(d)
  BY <1>1, <1>3, <1>4, WayElements, ListLength DEF IsA
<1>11. \A c \in Chunks(d[h]) : IsA(d, c, "chunk") /\ c \in 1 .. Len(d)
  BY <1>1, <1>2, <1>6, ListLength DEF IsA
<1>12. \A b : b \in 1 .. Len(d) => b \in 1 .. Len(d) + 1
  BY <1>1, ListLength
<1>13. \A b : IsA(d, b, "property") \/ IsA(d, b, "chunk") =>
         b \notin DOMAIN ps \/ b = 0
  BY <1>1 DEF Owners, IsA
<1>14. \A b : IsA(d, b, "property") \/ IsA(d, b, "chunk") =>
         b \notin ToSet(fl["static"]) /\ b \notin ToSet(fl["dynamic"])
  <2>1. \A c \in Class : \A b \in ToSet(fl[c]) : IsA(d, b, "free")
    BY <1>1, WayElements DEF Free, Class
  <2> QED
    BY <2>1 DEF IsA, Class
<1>15. \A x \in Props(ps) : IsA(d, x, "property")
  BY <1>2, WayElements DEF Props
<1>16. Loose(d, rs, fl, h)
  <2>1. \A x \in Props(rs) : h \notin Chunks(d[x])
    BY <1>2, <1>7, <1>10 DEF IsA
  <2>2. h # 0 /\ h \notin DOMAIN rs
    BY <1>5, <1>10, <1>13
  <2>3. ~IsA(d, h, "relationship") /\ \A r : IsA(d, r, "relationship") => h # d[r].type
    BY <1>10, <1>20 DEF IsA, RelationAt
  <2> QED
    BY <1>6, <1>10, <1>12, <1>14, <2>1, <2>2, <2>3 DEF Loose
<1>17. \A c \in Chunks(d[h]) : Loose(d, rs, fl, c)
  <2> TAKE c \in Chunks(d[h])
  <2>1. c \notin Props(rs)
    BY <1>7, <1>11, <1>15 DEF IsA
  <2>2. \A x \in Props(rs) : c \notin Chunks(d[x])
    BY <1>2, <1>6, <1>7
  <2>3. c # 0 /\ c \notin DOMAIN rs
    BY <1>1, <1>5, <1>11, <1>13, ListLength
  <2>4. ~IsA(d, c, "relationship") /\ \A r : IsA(d, r, "relationship") => c # d[r].type
    BY <1>6, <1>11, <1>20 DEF IsA, RelationAt
  <2> QED
    BY <1>11, <1>12, <1>14, <2>1, <2>2, <2>3, <2>4 DEF Loose
<1>18. InHand(d, rs, fl, h)
  BY <1>2, <1>6, <1>10, <1>11, <1>16, <1>17 DEF InHand
<1>19. ASSUME NEW b, Loose(d, ps, fl, b)
       PROVE  Loose(d, rs, fl, b) /\ b # h /\ b \notin Chunks(d[h])
  BY <1>5, <1>6, <1>7, <1>19 DEF Loose
<1>22. ASSUME NEW b, Loose(d, rs, fl, b)
       PROVE  Loose(d, ps, fl, b) \/ b = h \/ b \in Chunks(d[h])
  <2>1. \A x \in Props(ps) : x = h \/ x \in Props(rs)
    BY <1>4, <1>5 DEF Props
  <2> QED
    BY <1>5, <1>22, <2>1 DEF Loose
<1> QED
  BY <1>4, <1>9, <1>18, <1>19, <1>21, <1>22 DEF rs, t

--------------------------------------------------------------------------------
(* The file after one of the writes of a call, ... *)
After(f, w) ==
  IF w.at = 0 THEN [disk |-> f.disk, meta |-> w.data]
  ELSE [disk |-> PutAt(f.disk, w.at, w.data), meta |-> f.meta]

View(f) == Graph(f.disk, f.meta)

(* ... and g is f after all of them: P[k] is the file after k writes, sound each  *)
(* time, no write to come adds more than a block, and a reader finds one graph    *)
(* from some write on and another one up to there.                               *)
Reached(f, log, g) ==
  \E P :
    /\ P[0] = f /\ P[Len(log)] = g
    /\ \A k \in 1 .. Len(log) : P[k] = After(P[k - 1], log[k])
    /\ \A k \in 0 .. Len(log) :
         Sound(P[k].disk, P[k].meta) /\ Len(g.disk) <= Len(P[k].disk) + (Len(log) - k)
    /\ \A k \in 0 .. Len(log) :
         View(P[k]) = View(f) \/ \A j \in k .. Len(log) : View(P[j]) = View(g)

(* A sound file is reached by no writes at all. *)
LEMMA ReachedNothing ==
  ASSUME NEW f, Sound(f.disk, f.meta) PROVE Reached(f, <<>>, f)
<1> DEFINE P == [k \in {0} |-> f]
           z == Len(f.disk)
<1>1. z \in Nat
  BY ListLength DEF Sound
<1>2. P[0] = f /\ Len(<<>>) = 0
  OBVIOUS
<1> HIDE DEF P, z
<1>3. \A k \in 0 .. Len(<<>>) :
        Sound(P[k].disk, P[k].meta) /\ Len(f.disk) <= Len(P[k].disk) + (Len(<<>>) - k)
  <2> TAKE k \in 0 .. Len(<<>>)
  <2>1. k = 0 /\ P[k] = f
    BY <1>2
  <2>2. z <= z + (0 - 0)
    BY <1>1
  <2> QED
    BY <1>2, <2>1, <2>2 DEF z
<1>4. \A k \in 1 .. Len(<<>>) : P[k] = After(P[k - 1], <<>>[k])
  BY <1>2
<1>5. \A k \in 0 .. Len(<<>>) : View(P[k]) = View(f)
  BY <1>2
<1> QED
  BY <1>2, <1>3, <1>4, <1>5 DEF Reached

(* One more write. *)
LEMMA ReachedStep ==
  ASSUME NEW f, NEW log, IsList(log), NEW g, Reached(f, log, g), NEW w,
         Sound(After(g, w).disk, After(g, w).meta), Len(After(g, w).disk) <= Len(g.disk) + 1,
         View(After(g, w)) = View(g) \/ View(g) = View(f)
  PROVE  Reached(f, Append(log, w), After(g, w))
<1> DEFINE n == Len(log)
           l == Append(log, w)
           e == After(g, w)
           x == Len(g.disk)
           y == Len(e.disk)
<1>1. PICK P : /\ P[0] = f /\ P[n] = g
               /\ \A k \in 1 .. n : P[k] = After(P[k - 1], log[k])
               /\ \A k \in 0 .. n : Sound(P[k].disk, P[k].meta) /\ x <= Len(P[k].disk) + (n - k)
               /\ \A k \in 0 .. n : View(P[k]) = View(f) \/ \A j \in k .. n : View(P[j]) = View(g)
  BY DEF Reached
<1> DEFINE Q == [k \in Nat |-> IF k = n + 1 THEN e ELSE P[k]]
           z(k) == Len(P[k].disk)
<1>2. n \in Nat /\ Len(l) = n + 1 /\ l[n + 1] = w /\ \A k \in 1 .. n : l[k] = log[k]
  BY ListLength, ListAppend
<1>3. x \in Nat /\ y \in Nat /\ y <= x + 1 /\ Sound(e.disk, e.meta)
      /\ \A k \in 0 .. n : z(k) \in Nat /\ x <= z(k) + (n - k)
  <2>1. Sound(P[n].disk, P[n].meta)
    BY <1>1, <1>2
  <2>2. x \in Nat
    BY <1>1, <2>1, ListLength DEF Sound
  <2>3. y \in Nat
    BY ListLength DEF Sound
  <2>4. \A k \in 0 .. n : z(k) \in Nat
    BY <1>1, ListLength DEF Sound
  <2> QED
    BY <1>1, <2>2, <2>3, <2>4
<1>4. Q[n + 1] = e /\ \A k \in 0 .. n : Q[k] = P[k]
  <2>1. n + 1 \in Nat /\ \A k \in 0 .. n : k \in Nat /\ k # n + 1
    BY <1>2
  <2> QED
    BY <2>1
<1> HIDE DEF n, l, Q, x
<1>5. Q[0] = f /\ Q[Len(l)] = e
  BY <1>1, <1>2, <1>4
<1>6. \A k \in 1 .. n + 1 : Q[k] = After(Q[k - 1], l[k])
  <2> TAKE k \in 1 .. n + 1
  <2>1. CASE k = n + 1
    <3>1. k - 1 = n /\ n \in 0 .. n
      BY <1>2, <2>1
    <3> QED
      BY <1>1, <1>2, <1>4, <2>1, <3>1
  <2>2. CASE k # n + 1
    <3>1. k \in 1 .. n /\ k \in 0 .. n /\ k - 1 \in 0 .. n
      BY <1>2, <2>2
    <3> QED
      BY <1>1, <1>2, <1>4, <3>1
  <2> QED
    BY <2>1, <2>2
<1>7. \A k \in 0 .. n + 1 :
        Sound(Q[k].disk, Q[k].meta) /\ y <= Len(Q[k].disk) + (n + 1 - k)
  <2> TAKE k \in 0 .. n + 1
  <2>1. CASE k = n + 1
    <3>1. Q[k] = e
      BY <1>4, <2>1
    <3>2. y <= y + (n + 1 - k)
      <4> HIDE DEF y
      <4> QED
        BY <1>2, <1>3, <2>1
    <3> QED
      BY <1>3, <3>1, <3>2
  <2>2. CASE k # n + 1
    <3>1. k \in 0 .. n
      BY <1>2, <2>2
    <3>2. Sound(Q[k].disk, Q[k].meta) /\ Len(Q[k].disk) = z(k)
      BY <1>1, <1>4, <3>1
    <3> HIDE DEF y, z
    <3>3. z(k) \in Nat /\ x <= z(k) + (n - k)
      BY <1>3, <3>1
    <3>4. y <= z(k) + (n + 1 - k)
      BY <1>2, <1>3, <3>1, <3>3
    <3> QED
      BY <3>2, <3>4
  <2> QED
    BY <2>1, <2>2
<1>12. \A k \in 0 .. n + 1 :
         View(Q[k]) = View(f) \/ \A j \in k .. n + 1 : View(Q[j]) = View(e)
  <2> HIDE DEF e
  <2>1. \A k \in 0 .. n + 1 : k \in 0 .. n \/ k = n + 1
    BY <1>2
  <2>2. \A k \in 0 .. n : Q[k] = P[k]
    BY <1>4
  <2> TAKE k \in 0 .. n + 1
  <2>3. CASE k = n + 1
    <3>1. \A j \in k .. n + 1 : j = n + 1
      BY <1>2, <2>3
    <3> QED
      BY <1>4, <3>1
  <2>4. CASE k \in 0 .. n /\ View(g) = View(f)
    <3>1. k \in k .. n
      BY <1>2, <2>4
    <3> QED
      BY <1>1, <2>2, <2>4, <3>1
  <2>5. CASE k \in 0 .. n /\ View(e) = View(g)
    <3> SUFFICES ASSUME View(P[k]) # View(f), NEW j \in k .. n + 1 PROVE View(Q[j]) = View(e)
      BY <2>2, <2>5
    <3>1. j = n + 1 \/ (j \in k .. n /\ j \in 0 .. n)
      BY <1>2, <2>5
    <3> QED
      BY <1>1, <1>4, <2>2, <2>5, <3>1
  <2> QED
    BY <2>1, <2>3, <2>4, <2>5 DEF e
<1> DEFINE z1 == n + 1
<1>8. z1 = n + 1 /\ Len(l) = z1
  BY <1>2
<1> HIDE DEF z1, y, e
<1>9. \A k \in 1 .. z1 : Q[k] = After(Q[k - 1], l[k])
  BY <1>6, <1>8
<1>10. \A k \in 0 .. z1 : Sound(Q[k].disk, Q[k].meta) /\ y <= Len(Q[k].disk) + (z1 - k)
  <2> TAKE k \in 0 .. z1
  <2>1. k \in 0 .. n + 1 /\ n + 1 - k = z1 - k
    BY <1>2, <1>8
  <2>2. Sound(Q[k].disk, Q[k].meta) /\ y <= Len(Q[k].disk) + (n + 1 - k)
    BY <1>7, <2>1
  <2> QED
    BY <2>1, <2>2
<1>13. \A k \in 0 .. z1 : View(Q[k]) = View(f) \/ \A j \in k .. z1 : View(Q[j]) = View(e)
  BY <1>8, <1>12 DEF e
<1>11. Reached(f, l, e)
  BY <1>5, <1>8, <1>9, <1>10, <1>13 DEF Reached, y
<1> QED
  BY <1>11 DEF l, e

(* A write less: the first one has been made. *)
LEMMA ReachedPop ==
  ASSUME NEW f, NEW log, IsList(log), NEW g, Reached(f, log, g), log # <<>>
  PROVE  /\ Reached(After(f, Head(log)), Tail(log), g)
         /\ View(After(f, Head(log))) = View(f) \/ View(After(f, Head(log))) = View(g)
<1> DEFINE n == Len(log)
           l == Tail(log)
           x == Len(g.disk)
<1>1. PICK P : /\ P[0] = f /\ P[n] = g
               /\ \A k \in 1 .. n : P[k] = After(P[k - 1], log[k])
               /\ \A k \in 0 .. n : Sound(P[k].disk, P[k].meta) /\ x <= Len(P[k].disk) + (n - k)
               /\ \A k \in 0 .. n : View(P[k]) = View(f) \/ \A j \in k .. n : View(P[j]) = View(g)
  BY DEF Reached
<1> DEFINE Q == [k \in Nat |-> P[k + 1]]
<1>2. /\ n \in Nat \ {0} /\ Len(l) = n - 1 /\ Head(log) = log[1]
      /\ \A k \in 1 .. n - 1 : l[k] = log[k + 1]
  <2>1. PICK T : log \in Seq(T)
    BY DEF IsList
  <2> QED
    BY <2>1
<1>3. \A k \in Nat : Q[k] = P[k + 1]
  OBVIOUS
<1> HIDE DEF n, l, x, Q
<1>4. Q[0] = After(f, Head(log)) /\ Q[Len(l)] = g
  <2>1. 1 \in 1 .. n /\ 1 - 1 = 0 /\ 0 + 1 = 1 /\ n - 1 \in Nat /\ (n - 1) + 1 = n
    BY <1>2
  <2>2. P[1] = After(P[1 - 1], log[1])
    BY <1>1, <2>1
  <2>3. Q[0] = P[1] /\ Q[n - 1] = P[n]
    BY <1>3, <2>1
  <2> QED
    BY <1>1, <1>2, <2>1, <2>2, <2>3
<1>5. \A k \in 1 .. n - 1 : Q[k] = After(Q[k - 1], l[k])
  <2> TAKE k \in 1 .. n - 1
  <2>1. k + 1 \in 1 .. n /\ (k + 1) - 1 = k /\ k - 1 \in Nat /\ (k - 1) + 1 = k /\ k \in Nat
    BY <1>2
  <2>2. P[k + 1] = After(P[(k + 1) - 1], log[k + 1])
    BY <1>1, <2>1
  <2>3. Q[k] = P[k + 1] /\ Q[k - 1] = P[(k - 1) + 1] /\ l[k] = log[k + 1]
    BY <1>2, <1>3, <2>1
  <2> QED
    BY <2>1, <2>2, <2>3
<1>6. \A k \in 0 .. n - 1 :
        Sound(Q[k].disk, Q[k].meta) /\ x <= Len(Q[k].disk) + (n - 1 - k)
  <2> TAKE k \in 0 .. n - 1
  <2>1. k + 1 \in 0 .. n /\ k \in Nat /\ n - (k + 1) = n - 1 - k
    BY <1>2
  <2> QED
    BY <1>1, <1>3, <2>1
<1>7. \A k \in 0 .. n - 1 :
        View(Q[k]) = View(Q[0]) \/ \A j \in k .. n - 1 : View(Q[j]) = View(g)
  <2>1. 1 \in 0 .. n /\ Q[0] = P[1]
    <3>1. 1 \in 0 .. n /\ 0 + 1 = 1
      BY <1>2
    <3> QED
      BY <1>3, <3>1
  <2> TAKE k \in 0 .. n - 1
  <2>2. k \in Nat /\ k + 1 \in 0 .. n /\ \A j \in k .. n - 1 : j \in Nat /\ j + 1 \in k + 1 .. n /\ j + 1 \in 1 .. n
    BY <1>2
  <2>3. Q[k] = P[k + 1] /\ \A j \in k .. n - 1 : Q[j] = P[j + 1]
    BY <1>3, <2>2
  <2>4. CASE View(P[1]) = View(f)
    BY <1>1, <2>1, <2>2, <2>3, <2>4
  <2>5. CASE \A j \in 1 .. n : View(P[j]) = View(g)
    BY <2>2, <2>3, <2>5
  <2> QED
    BY <1>1, <2>1, <2>4, <2>5
<1>8. View(P[1]) = View(f) \/ View(P[1]) = View(g)
  <2>1. 1 \in 0 .. n /\ n \in 1 .. n
    BY <1>2
  <2> QED
    BY <1>1, <2>1
<1>9. P[1] = After(f, Head(log))
  <2>1. 1 \in 1 .. n /\ 1 - 1 = 0
    BY <1>2
  <2> QED
    BY <1>1, <1>2, <2>1
<1> DEFINE e == After(f, Head(log))
<1>10. Q[0] = e
  BY <1>4
<1> HIDE DEF e
<1>11. /\ \A k \in 1 .. Len(l) : Q[k] = After(Q[k - 1], l[k])
       /\ \A k \in 0 .. Len(l) : Sound(Q[k].disk, Q[k].meta) /\ x <= Len(Q[k].disk) + (Len(l) - k)
       /\ \A k \in 0 .. Len(l) : View(Q[k]) = View(e) \/ \A j \in k .. Len(l) : View(Q[j]) = View(g)
  BY <1>2, <1>5, <1>6, <1>7, <1>10
<1>12. Reached(e, l, g)
  BY <1>4, <1>10, <1>11 DEF Reached, x
<1> QED
  BY <1>8, <1>9, <1>12 DEF e, l

(* A block is written, to a sound file. *)
LEMMA ReachedWrite ==
  ASSUME NEW f, NEW log, IsList(log), NEW d, NEW m, Reached(f, log, [disk |-> d, meta |-> m]),
         IsList(d), NEW a \in 1 .. Len(d) + 1, NEW rec, Sound(PutAt(d, a, rec), m),
         Graph(PutAt(d, a, rec), m) = Graph(d, m) \/ Graph(d, m) = View(f)
  PROVE  Reached(f, Append(log, [at |-> a, data |-> rec]), [disk |-> PutAt(d, a, rec), meta |-> m])
<1> DEFINE w == [at |-> a, data |-> rec]
           g == [disk |-> d, meta |-> m]
           e == PutAt(d, a, rec)
<1>1. w.at # 0 /\ w.at = a /\ w.data = rec /\ g.disk = d /\ g.meta = m
  BY ListLength
<1>2. Len(e) <= Len(d) + 1
  BY PutFacts
<1> HIDE DEF w, g
<1>3. After(g, w) = [disk |-> e, meta |-> m]
  BY <1>1 DEF After
<1> HIDE DEF e
<1>4. After(g, w).disk = e /\ After(g, w).meta = m
  BY <1>3
<1>5. Reached(f, log, g) /\ Sound(e, m)
  BY DEF g, e
<1>7. View(After(g, w)) = View(g) \/ View(g) = View(f)
  BY <1>1, <1>4 DEF View, e
<1>6. Reached(f, Append(log, w), After(g, w))
  BY <1>1, <1>2, <1>4, <1>5, <1>7, ReachedStep
<1> QED
  BY <1>3, <1>6 DEF w, e

(* The header is saved, to a sound file. *)
LEMMA ReachedSave ==
  ASSUME NEW f, NEW log, IsList(log), NEW d, NEW m, Reached(f, log, [disk |-> d, meta |-> m]),
         NEW k, Sound(d, k), Graph(d, k) = Graph(d, m) \/ Graph(d, m) = View(f)
  PROVE  Reached(f, Append(log, [at |-> 0, data |-> k]), [disk |-> d, meta |-> k])
<1> DEFINE w == [at |-> 0, data |-> k]
           g == [disk |-> d, meta |-> m]
<1>1. w.at = 0 /\ w.data = k /\ g.disk = d
  OBVIOUS
<1>2. Len(d) \in Nat /\ Len(d) <= Len(d) + 1
  BY ListLength DEF Sound
<1> HIDE DEF w, g
<1>3. After(g, w) = [disk |-> d, meta |-> k]
  BY <1>1 DEF After
<1>4. After(g, w).disk = d /\ After(g, w).meta = k
  BY <1>3
<1>5. Reached(f, log, g)
  BY DEF g
<1>7. View(After(g, w)) = View(g) \/ View(g) = View(f)
  BY <1>4 DEF View, g
<1>6. Reached(f, Append(log, w), After(g, w))
  BY <1>1, <1>2, <1>4, <1>5, <1>7, ReachedStep
<1> QED
  BY <1>3, <1>6 DEF w

--------------------------------------------------------------------------------
(* A call under way, on a file that was f when it began, between two of its      *)
(* steps: the header in memory is in the file, the file is in order but for the  *)
(* properties the call has in hand, and the blocks X are loose: no others, but   *)
(* what stops have left behind and what is filled with junk.                     *)
NoLeak(d, ps, fl, X) ==
  crashes = 0 => \A b \in 1 .. Len(d) : Loose(d, ps, fl, b) => b \in X \/ d[b] = Junk

Part(d, m, ns, ps, h, X) ==
  \E fl : /\ Full(d, m, ns, ps, h, fl)
          /\ \A b \in X : Loose(d, ps, fl, b)
          /\ NoLeak(d, ps, fl, X)

(* A relationship stays what it is, whatever its neighbours are: between the same *)
(* nodes, of the same type.                                                      *)
Stays(d, e) ==
  \A r : IsA(d, r, "relationship") =>
    /\ IsA(e, r, "relationship")
    /\ e[r].first = d[r].first /\ e[r].second = d[r].second
    /\ Text(e, e[r].type) = Text(d, d[r].type)

(* A write that is not to the type of one, and leaves its three fields alone. *)
LEMMA StaysPut ==
  ASSUME NEW o, NEW d, IsList(d), Stays(o, d), NEW a, a \in 1 .. Len(d) + 1, NEW rec,
         \A r : IsA(d, r, "relationship") => a # d[r].type,
         IsA(d, a, "relationship") =>
           /\ rec.kind = "relationship" /\ rec.type = d[a].type
           /\ rec.first = d[a].first /\ rec.second = d[a].second
  PROVE  Stays(o, PutAt(d, a, rec))
<1> DEFINE e == PutAt(d, a, rec)
<1>1. /\ Len(d) \in Nat /\ DOMAIN d = 1 .. Len(d) /\ DOMAIN e = 1 .. Len(e) /\ Len(e) \in Nat
      /\ e[a] = rec /\ a \in 1 .. Len(e) /\ Len(d) <= Len(e)
      /\ \A b \in 1 .. Len(d) : b # a => e[b] = d[b]
      /\ \A b \in 1 .. Len(e) : b = a \/ b \in 1 .. Len(d)
  BY PutFacts
<1> HIDE DEF e
<1>2. ASSUME NEW b, b # a PROVE (b \in DOMAIN e <=> b \in DOMAIN d) /\ (b \in DOMAIN d => e[b] = d[b])
  BY <1>1, <1>2
<1>3. ASSUME NEW b, b # a PROVE Text(e, b) = Text(d, b)
  BY <1>2, <1>3 DEF Text, IsA
<1>4. ASSUME NEW r, IsA(d, r, "relationship")
      PROVE  /\ IsA(e, r, "relationship") /\ e[r].type = d[r].type
             /\ e[r].first = d[r].first /\ e[r].second = d[r].second
  BY <1>1, <1>2, <1>4 DEF IsA
<1>5. ASSUME NEW r, IsA(o, r, "relationship")
      PROVE  /\ IsA(e, r, "relationship")
             /\ e[r].first = o[r].first /\ e[r].second = o[r].second
             /\ Text(e, e[r].type) = Text(o, o[r].type)
  <2>1. /\ IsA(d, r, "relationship") /\ Text(d, d[r].type) = Text(o, o[r].type)
        /\ d[r].first = o[r].first /\ d[r].second = o[r].second
    BY <1>5 DEF Stays
  <2>2. Text(e, d[r].type) = Text(d, d[r].type)
    BY <1>3, <2>1
  <2> QED
    BY <1>4, <2>1, <2>2
<1> QED
  BY <1>5 DEF Stays, e

(* A write to a block that is loose, ... *)
LEMMA StaysLoose ==
  ASSUME NEW o, NEW d, IsList(d), Stays(o, d), NEW ps, NEW fl, NEW a, Loose(d, ps, fl, a), NEW rec
  PROVE  Stays(o, PutAt(d, a, rec))
BY StaysPut DEF Loose

(* It is so of a file and one that is like one like it. *)
LEMMA StaysTwice ==
  ASSUME NEW o, NEW d, Stays(o, d), NEW e, Stays(d, e) PROVE Stays(o, e)
<1> SUFFICES ASSUME NEW r, IsA(o, r, "relationship")
             PROVE  /\ IsA(e, r, "relationship")
                    /\ e[r].first = o[r].first /\ e[r].second = o[r].second
                    /\ Text(e, e[r].type) = Text(o, o[r].type)
  BY DEF Stays
<1>1. /\ IsA(d, r, "relationship") /\ d[r].first = o[r].first /\ d[r].second = o[r].second
      /\ Text(d, d[r].type) = Text(o, o[r].type)
  BY DEF Stays
<1> QED
  BY <1>1 DEF Stays

(* ... or to a node or a property. *)
LEMMA StaysApart ==
  ASSUME NEW o, NEW d, IsList(d), Stays(o, d), NEW ps, Related(d, ps), NEW a, NEW rec,
         IsA(d, a, "node") \/ IsA(d, a, "property")
  PROVE  Stays(o, PutAt(d, a, rec))
<1>1. a \in 1 .. Len(d) + 1 /\ ~IsA(d, a, "relationship") /\ ~IsA(d, a, "chunk")
  BY ListLength DEF IsA
<1>2. \A r : IsA(d, r, "relationship") => a # d[r].type
  BY <1>1 DEF Related, RelationAt
<1> QED
  BY <1>1, <1>2, StaysPut

(* f.graph is what a reader finds now; f.exact: the chains of relationships are   *)
(* complete.                                                                     *)
FileOf(f) == [disk |-> f.disk, meta |-> f.meta]

Good(f, s, ns, ps, h, X) ==
  /\ IsState(s)
  /\ Stays(f.disk, s.disk)
  /\ Reached(FileOf(f), s.log, [disk |-> s.disk, meta |-> s.meta])
  /\ Part(s.disk, s.meta, ns, ps, h, X)
  /\ Graph(s.disk, s.meta) = f.graph
  /\ f.exact => Chained(s.disk, ps)

(* What such a state is made of. *)
LEMMA GoodState ==
  ASSUME NEW f, NEW s, NEW ns, NEW ps, NEW h, NEW X, Good(f, s, ns, ps, h, X)
  PROVE  /\ IsState(s) /\ IsList(s.disk) /\ IsList(s.log) /\ Header(s.meta)
         /\ Len(s.disk) \in Nat /\ DOMAIN s.disk = 1 .. Len(s.disk)
         /\ Sound(s.disk, s.meta)
<1>1. PICK fl : Full(s.disk, s.meta, ns, ps, h, fl)
  BY DEF Good, Part
<1>2. Sound(s.disk, s.meta) /\ Header(s.meta)
  BY <1>1, FullSound DEF Full
<1> QED
  BY <1>2, ListLength DEF Good, IsState

(* The block after the end of the file is in nothing. *)
LEMMA EndLoose ==
  ASSUME NEW d, NEW m, NEW ns, NEW ps, NEW h, NEW fl, Full(d, m, ns, ps, h, fl)
  PROVE  Loose(d, ps, fl, Len(d) + 1)
<1> DEFINE a == Len(d) + 1
<1>1. /\ IsList(d) /\ Free(d, m, fl) /\ Owners(d, ps, h) /\ Related(d, ps)
  BY DEF Full
<1>2. a # 0 /\ a \in 1 .. Len(d) + 1 /\ a \notin 1 .. Len(d) /\ DOMAIN d = 1 .. Len(d)
  BY <1>1, ListLength
<1>3. \A kind : ~IsA(d, a, kind)
  BY <1>2 DEF IsA
<1> HIDE DEF a
<1>4. a \notin DOMAIN ps
  BY <1>1, <1>2, <1>3 DEF Owners
<1>5. a \notin Props(ps)
  BY <1>1, <1>3, WayElements DEF Owners, Props
<1>6. \A p \in Props(ps) : a \notin Chunks(d[p])
  BY <1>1, <1>3 DEF Owners
<1>7. a \notin ToSet(fl["static"]) /\ a \notin ToSet(fl["dynamic"])
  BY <1>1, <1>3, WayElements DEF Free
<1>9. \A r : IsA(d, r, "relationship") => a # d[r].type
  BY <1>1, <1>3 DEF Related, RelationAt
<1>8. Loose(d, ps, fl, a)
  BY <1>2, <1>3, <1>4, <1>5, <1>6, <1>7, <1>9 DEF Loose
<1> QED
  BY <1>8 DEF a

(* What a write leaves alone. *)
Same(d, e, a) == \A b \in 1 .. Len(e) : b = a \/ (b \in 1 .. Len(d) /\ e[b] = d[b])

LEMMA PutSame ==
  ASSUME NEW d, IsList(d), NEW a, a \in 1 .. Len(d) + 1, NEW rec
  PROVE  Same(d, PutAt(d, a, rec), a)
<1> DEFINE e == PutAt(d, a, rec)
<1>1. /\ \A b \in 1 .. Len(d) : b # a => e[b] = d[b]
      /\ \A b \in 1 .. Len(e) : b = a \/ b \in 1 .. Len(d)
  BY PutFacts
<1> HIDE DEF e
<1>2. Same(d, e, a)
  BY <1>1 DEF Same
<1> QED
  BY <1>2 DEF e

(* A block that is loose is written. *)
LEMMA GoodWrite ==
  ASSUME NEW f, NEW s, NEW ns, NEW ps, NEW h, NEW X, Good(f, s, ns, ps, h, X),
         NEW a \in X, NEW rec, rec.kind \in Kind
  PROVE  /\ Good(f, Write(s, a, rec), ns, ps, h, X)
         /\ Write(s, a, rec).disk = PutAt(s.disk, a, rec)
         /\ Write(s, a, rec).meta = s.meta
         /\ a \in 1 .. Len(s.disk) + 1
<1> DEFINE t == Write(s, a, rec)
           d == s.disk
           m == s.meta
           e == PutAt(d, a, rec)
<1>1. PICK fl : /\ Full(d, m, ns, ps, h, fl) /\ \A b \in X : Loose(d, ps, fl, b)
                /\ NoLeak(d, ps, fl, X)
  BY DEF Good, Part
<1>2. /\ IsState(t) /\ t.disk = e /\ t.meta = m
      /\ t.log = Append(s.log, [at |-> a, data |-> rec])
  BY GoodState, WriteState
<1>3. a \in 1 .. Len(d) + 1 /\ IsList(d) /\ IsList(s.log)
  BY <1>1, GoodState DEF Loose
<1>4. /\ Full(e, m, ns, ps, h, fl) /\ \A b \in X : Loose(e, ps, fl, b)
      /\ \A b \in 1 .. Len(e) : Loose(e, ps, fl, b) => Loose(d, ps, fl, b)
      /\ Graph(e, m) = Graph(d, m) /\ (Chained(d, ps) => Chained(e, ps))
  BY <1>1, LooseWrite
<1>9. NoLeak(e, ps, fl, X)
  <2> HIDE DEF d, m
  <2>1. Same(d, e, a)
    BY <1>3, PutSame
  <2> HIDE DEF e
  <2> QED
    BY <1>1, <1>4, <2>1 DEF NoLeak, Same
<1>5. Sound(e, m)
  BY <1>4, FullSound
<1>6. Reached(FileOf(f), s.log, [disk |-> d, meta |-> m])
  BY DEF Good
<1>10. Graph(d, m) = f.graph /\ (f.exact => Chained(d, ps)) /\ Stays(f.disk, d)
  BY DEF Good
<1>11. Stays(f.disk, e)
  BY <1>1, <1>3, <1>10, StaysLoose
<1> HIDE DEF d, m
<1>7. Reached(FileOf(f), Append(s.log, [at |-> a, data |-> rec]), [disk |-> e, meta |-> m])
  BY <1>3, <1>4, <1>5, <1>6, ReachedWrite
<1> HIDE DEF e
<1> HIDE DEF t
<1>8. Good(f, t, ns, ps, h, X)
  BY <1>2, <1>4, <1>7, <1>9, <1>10, <1>11 DEF Good, Part
<1> QED
  BY <1>2, <1>3, <1>8 DEF t, e, d, m

(* The header that is in memory now is saved. *)
LEMMA GoodSave ==
  ASSUME NEW f, NEW s, IsState(s), NEW m,
         Reached(FileOf(f), s.log, [disk |-> s.disk, meta |-> m]),
         NEW ns, NEW ps, NEW h, NEW X, Part(s.disk, s.meta, ns, ps, h, X),
         Graph(s.disk, s.meta) = f.graph, f.exact => Chained(s.disk, ps), Stays(f.disk, s.disk),
         Graph(s.disk, m) = f.graph \/ Graph(s.disk, m) = View(FileOf(f))
  PROVE  /\ Good(f, SaveMeta(s), ns, ps, h, X)
         /\ SaveMeta(s).disk = s.disk /\ SaveMeta(s).meta = s.meta
<1> DEFINE t == SaveMeta(s)
<1>1. /\ IsState(t) /\ t.disk = s.disk /\ t.meta = s.meta
      /\ t.log = Append(s.log, [at |-> 0, data |-> s.meta])
  BY SaveMetaKeeps DEF Kept
<1>2. Sound(s.disk, s.meta)
  BY FullSound DEF Part
<1>3. Reached(FileOf(f), Append(s.log, [at |-> 0, data |-> s.meta]), [disk |-> s.disk, meta |-> s.meta])
  BY <1>2, ReachedSave DEF IsState
<1> HIDE DEF t
<1>4. Good(f, t, ns, ps, h, X)
  BY <1>1, <1>3 DEF Good
<1> QED
  BY <1>1, <1>4 DEF t

(* get_available_space gives a loose block. *)
LEMMA GoodTake ==
  ASSUME NEW f, NEW s, NEW ns, NEW ps, NEW h, NEW X, Good(f, s, ns, ps, h, X),
         Len(s.disk) + 1 \notin X, NEW class \in Class
  PROVE  /\ Good(f, Take(s, class), ns, ps, h, X \cup {Available(s, class)})
         /\ Take(s, class).disk = s.disk
         /\ Available(s, class) \notin X
         /\ Available(s, class) \in 1 .. Len(s.disk) + 1
<1> DEFINE a == Available(s, class)
           d == s.disk
           m == s.meta
<1>1. PICK fl : /\ Full(d, m, ns, ps, h, fl) /\ \A b \in X : Loose(d, ps, fl, b)
                /\ NoLeak(d, ps, fl, X)
  BY DEF Good, Part
<1>2. IsState(s) /\ Len(d) \in Nat /\ Reached(FileOf(f), s.log, [disk |-> d, meta |-> m])
      /\ Graph(d, m) = f.graph /\ (f.exact => Chained(d, ps)) /\ Stays(f.disk, d)
  BY GoodState DEF Good
<1>3. CASE m.free[class] = 0
  <2>1. Take(s, class) = s /\ a = Len(d) + 1
    BY <1>3 DEF Take, Available
  <2>2. Loose(d, ps, fl, Len(d) + 1)
    BY <1>1, EndLoose
  <2>3. Len(d) + 1 \in 1 .. Len(d) + 1
    BY <1>2
  <2> HIDE DEF d, m, a
  <2>4. Part(d, m, ns, ps, h, X \cup {a})
    BY <1>1, <2>1, <2>2 DEF Part, NoLeak
  <2>5. Good(f, s, ns, ps, h, X \cup {a})
    BY <1>2, <2>4 DEF Good, d, m
  <2> QED
    BY <2>1, <2>3, <2>5 DEF a, d
<1>4. CASE m.free[class] # 0
  <2> DEFINE k == WithFree(m, class, d[m.free[class]].next)
             u == [s EXCEPT !.meta = k]
  <2>1. a = m.free[class]
    BY <1>4 DEF Available
  <2>2. [s EXCEPT !.meta.free[class] = s.disk[@].next] = u
    BY DEF WithFree
  <2>3. Take(s, class) = SaveMeta(u)
    BY <1>4, <2>2 DEF Take
  <2>4. PICK gl : /\ Full(d, k, ns, ps, h, gl) /\ Loose(d, ps, gl, a) /\ a \in 1 .. Len(d)
                  /\ \A b : Loose(d, ps, fl, b) => Loose(d, ps, gl, b) /\ b # a
                  /\ \A b : Loose(d, ps, gl, b) => Loose(d, ps, fl, b) \/ b = a
                  /\ Graph(d, k) = Graph(d, m)
    BY <1>1, <1>4, <2>1, FreeTake
  <2>5. IsState(u) /\ u.disk = d /\ u.meta = k /\ u.log = s.log
    BY <1>2, MetaState
  <2>6. a \notin X /\ a \in 1 .. Len(d) + 1
    BY <1>1, <1>2, <2>4
  <2> HIDE DEF d, m, k, u, a
  <2>7. Part(u.disk, u.meta, ns, ps, h, X \cup {a})
    BY <1>1, <2>4, <2>5 DEF Part, NoLeak
  <2>8. Good(f, SaveMeta(u), ns, ps, h, X \cup {a}) /\ SaveMeta(u).disk = u.disk
    <3>1. Reached(FileOf(f), u.log, [disk |-> u.disk, meta |-> m])
      BY <1>2, <2>5
    <3>2. /\ Graph(u.disk, u.meta) = f.graph /\ Graph(u.disk, m) = f.graph
          /\ f.exact => Chained(u.disk, ps)
          /\ Stays(f.disk, u.disk)
      BY <1>2, <2>4, <2>5
    <3> QED
      BY <2>5, <2>7, <3>1, <3>2, GoodSave
  <2> QED
    BY <2>3, <2>5, <2>6, <2>8 DEF a, d
<1> QED
  BY <1>3, <1>4

(* What is read from the properties stays as it is when a loose block is written. *)
LEMMA ReadFrame ==
  ASSUME NEW d, IsList(d), NEW ps, NEW h, Owners(d, ps, h), NEW fl,
         NEW a, Loose(d, ps, fl, a), NEW rec, NEW o \in DOMAIN ps
  PROVE  Read(PutAt(d, a, rec), ps[o]) = Read(d, ps[o])
<1> DEFINE e == PutAt(d, a, rec)
<1>1. /\ a \in 1 .. Len(d) + 1 /\ a \notin Props(ps)
      /\ \A p \in Props(ps) : a \notin Chunks(d[p])
  BY DEF Loose
<1>2. \A b \in 1 .. Len(d) : b # a => e[b] = d[b]
  BY <1>1, PutFacts
<1>3. DOMAIN d = 1 .. Len(d) /\ Len(d) \in Nat
  BY ListLength
<1>4. \A b, kind : IsA(e, b, kind) /\ b # a <=> IsA(d, b, kind) /\ b # a
  <2>1. /\ Len(e) \in Nat /\ Len(d) <= Len(e) /\ DOMAIN e = 1 .. Len(e)
        /\ \A b \in 1 .. Len(e) : b = a \/ b \in 1 .. Len(d)
    BY <1>1, PutFacts
  <2> HIDE DEF e
  <2>2. \A b \in 1 .. Len(d) : b \in 1 .. Len(e)
    BY <1>3, <2>1
  <2> QED
    BY <1>2, <1>3, <2>1, <2>2 DEF IsA
<1> HIDE DEF e
<1>5. Way(d, "property", Head0(d, h, o), ps[o])
  BY DEF Owners
<1>6. ASSUME NEW j \in 1 .. Len(ps[o]) PROVE PropertyAt(e, ps[o][j]) = PropertyAt(d, ps[o][j])
  <2> DEFINE p == ps[o][j]
  <2>1. p \in ToSet(ps[o]) /\ IsA(d, p, "property")
    BY <1>5, WayElements DEF Way
  <2>2. p \in Props(ps)
    BY <2>1 DEF Props
  <2> HIDE DEF p
  <2>3. p # a /\ e[p] = d[p]
    BY <1>1, <1>2, <1>3, <2>1, <2>2 DEF IsA
  <2>4. \A c \in Chunks(d[p]) : c # a /\ IsA(d, c, "chunk")
    BY <1>1, <2>2 DEF Owners
  <2>5. \A c \in Chunks(d[p]) : Text(e, c) = Text(d, c)
    BY <1>2, <1>3, <1>4, <2>4 DEF Text, IsA
  <2>6. PropertyAt(e, p) = PropertyAt(d, p)
    BY <2>3, <2>5 DEF PropertyAt, Chunks
  <2> QED
    BY <2>6 DEF p
<1>7. Read(e, ps[o]) = Read(d, ps[o])
  BY <1>6 DEF Read
<1> QED
  BY <1>7 DEF e

(* A record is placed in a block of its own, a. *)
Placed(f, s, ns, ps, h, X, rec, a, t) ==
  /\ Good(f, t, ns, ps, h, X \cup {a})
  /\ a \notin X
  /\ t.disk[a] = rec
  /\ \A b \in 1 .. Len(s.disk) : b # a => t.disk[b] = s.disk[b]
  /\ \A b \in X \cup {a} : b \in 1 .. Len(t.disk)
  /\ t.disk = PutAt(s.disk, a, rec) /\ a \in 1 .. Len(s.disk) + 1
  /\ a \notin DOMAIN ps /\ ~IsA(s.disk, a, "relationship")
  /\ \A q : IsA(s.disk, q, "relationship") => a # s.disk[q].type
  /\ Read(t.disk, ps[0]) = Read(s.disk, ps[0])

(* The block that get_available_space returns is loose, and is written. *)
LEMMA PlaceGood ==
  ASSUME NEW f, NEW s, NEW ns, NEW ps, NEW h, NEW X, Good(f, s, ns, ps, h, X),
         \A b \in X : b \in 1 .. Len(s.disk), NEW class, class \in Class,
         NEW rec, rec.kind \in Kind
  PROVE  Placed(f, s, ns, ps, h, X, rec, Available(s, class), Place(s, class, rec))
<1> DEFINE a == Available(s, class)
           t == Take(s, class)
           p == Place(s, class, rec)
           Y == X \cup {a}
<1>1. Len(s.disk) \in Nat /\ IsList(s.disk)
  BY GoodState
<1>2. Len(s.disk) + 1 \notin X
  BY <1>1
<1>3. /\ Good(f, t, ns, ps, h, Y) /\ t.disk = s.disk /\ a \notin X
      /\ a \in 1 .. Len(s.disk) + 1
  BY <1>2, GoodTake
<1>4. p = Write(t, a, rec)
  BY DEF Place
<1> HIDE DEF a, t, p
<1>5. a \in Y
  OBVIOUS
<1> HIDE DEF Y
<1>6. Good(f, p, ns, ps, h, Y) /\ p.disk = PutAt(s.disk, a, rec)
  BY <1>3, <1>4, <1>5, GoodWrite
<1> DEFINE e == PutAt(s.disk, a, rec)
<1>7. /\ Len(e) \in Nat /\ Len(s.disk) <= Len(e) /\ a <= Len(e) /\ e[a] = rec
      /\ \A b \in 1 .. Len(s.disk) : b # a => e[b] = s.disk[b]
  BY <1>1, <1>3, PutFacts
<1> DEFINE x == Len(s.disk)
           y == Len(e)
<1>8. x \in Nat /\ y \in Nat /\ x <= y /\ a \in 1 .. x + 1 /\ a <= y /\ X \subseteq 1 .. x
  BY <1>1, <1>3, <1>7
<1> HIDE DEF x, y, e
<1>9. \A b \in Y : b \in 1 .. y
  BY <1>8 DEF Y
<1>10. /\ a \notin DOMAIN ps /\ ~IsA(s.disk, a, "relationship")
       /\ \A q : IsA(s.disk, q, "relationship") => a # s.disk[q].type
  <2>1. PICK fl : \A b \in Y : Loose(t.disk, ps, fl, b)
    BY <1>3 DEF Good, Part
  <2> QED
    BY <1>3, <1>5, <2>1 DEF Loose
<1>11. \A b \in Y : b \in 1 .. Len(p.disk)
  BY <1>6, <1>9 DEF y, e
<1>13. Read(p.disk, ps[0]) = Read(s.disk, ps[0])
  <2>1. PICK fl : Full(t.disk, t.meta, ns, ps, h, fl) /\ \A b \in Y : Loose(t.disk, ps, fl, b)
    BY <1>3 DEF Good, Part
  <2>2. Owners(s.disk, ps, h) /\ 0 \in DOMAIN ps /\ Loose(s.disk, ps, fl, a)
    BY <1>3, <1>5, <2>1 DEF Full, Owners
  <2> QED
    BY <1>1, <1>6, <2>2, ReadFrame
<1>12. Placed(f, s, ns, ps, h, X, rec, a, p)
  BY <1>3, <1>6, <1>7, <1>10, <1>11, <1>13 DEF Placed, Y, e
<1> QED
  BY <1>12 DEF a, p

(* remove_data takes a loose block. *)
LEMMA GoodRemove ==
  ASSUME NEW f, NEW s, NEW ns, NEW ps, NEW h, NEW X, Good(f, s, ns, ps, h, X),
         NEW a \in X, a \in 1 .. Len(s.disk), NEW class \in Class
  PROVE  /\ Good(f, RemoveData(s, a, class), ns, ps, h, X \ {a})
         /\ Len(s.disk) <= Len(RemoveData(s, a, class).disk)
<1> DEFINE d == s.disk
           m == s.meta
           rec == FreeSpace(class, m.free[class])
           k == WithFree(m, class, a)
           u == [s EXCEPT !.meta = k]
           v == Write(u, a, rec)
           e == PutAt(d, a, rec)
<1>1. PICK fl : /\ Full(d, m, ns, ps, h, fl) /\ \A b \in X : Loose(d, ps, fl, b)
                /\ NoLeak(d, ps, fl, X)
  BY DEF Good, Part
<1>2. IsState(s) /\ IsList(d) /\ IsList(s.log) /\ Reached(FileOf(f), s.log, [disk |-> d, meta |-> m])
      /\ Graph(d, m) = f.graph /\ (f.exact => Chained(d, ps)) /\ Stays(f.disk, d)
  BY GoodState DEF Good
<1>3. RemoveData(s, a, class) = SaveMeta(v)
  BY DEF RemoveData, WithFree
<1>4. rec.kind \in Kind
  BY DEF FreeSpace, Kind
<1>5. IsState(u) /\ u.disk = d /\ u.meta = k /\ u.log = s.log
  BY <1>2, MetaState
<1>6. a \in 1 .. Len(d) + 1
  BY <1>1 DEF Loose
<1>7. /\ Full(e, m, ns, ps, h, fl) /\ \A b \in X : Loose(e, ps, fl, b)
      /\ \A b \in 1 .. Len(e) : Loose(e, ps, fl, b) => Loose(d, ps, fl, b)
      /\ Graph(e, m) = Graph(d, m) /\ (Chained(d, ps) => Chained(e, ps))
  BY <1>1, <1>4, LooseWrite
<1>8. e[a] = rec /\ a \in 1 .. Len(e) /\ Len(d) <= Len(e)
  <2> HIDE DEF d, m, rec
  <2>1. e[a] = rec /\ Len(d) <= Len(e) /\ a <= Len(e) /\ Len(e) \in Nat
    BY <1>2, <1>6, PutFacts
  <2> DEFINE y == Len(e)
             x == Len(d)
  <2>2. y \in Nat /\ a \in 1 .. x + 1 /\ a <= y
    BY <1>6, <2>1
  <2> HIDE DEF y, e, x
  <2>3. a \in 1 .. y
    BY <2>2
  <2> QED
    BY <2>1, <2>3 DEF y
<1> HIDE DEF k, u
<1>9. /\ IsState(v) /\ v.disk = e /\ v.meta = k
      /\ v.log = Append(s.log, [at |-> a, data |-> rec])
  BY <1>5, WriteState
<1> HIDE DEF v
<1>10. Sound(e, m)
  BY <1>7, FullSound
<1>11. Reached(FileOf(f), v.log, [disk |-> v.disk, meta |-> m])
  <2> HIDE DEF d, m, rec
  <2> QED
    BY <1>2, <1>6, <1>7, <1>9, <1>10, ReachedWrite
<1>12. PICK gl : /\ Full(e, k, ns, ps, h, gl)
                 /\ \A b : Loose(e, ps, gl, b) <=> Loose(e, ps, fl, b) /\ b # a
                 /\ Graph(e, k) = Graph(e, m)
  <2> HIDE DEF e
  <2> QED
    BY <1>7, <1>8, FreeGive DEF k
<1>13. Part(v.disk, v.meta, ns, ps, h, X \ {a})
  <2> HIDE DEF d, m, rec
  <2>3. IsList(d)
    BY <1>2
  <2>1. Same(d, e, a)
    BY <1>6, <2>3, PutSame
  <2>2. NoLeak(e, ps, gl, X \ {a})
    <3> HIDE DEF e
    <3> QED
      BY <1>1, <1>7, <1>12, <2>1 DEF NoLeak, Same
  <2> HIDE DEF e
  <2> QED
    BY <1>7, <1>9, <1>12, <2>2 DEF Part
<1>15. /\ Graph(v.disk, v.meta) = f.graph /\ Graph(v.disk, m) = f.graph
       /\ f.exact => Chained(v.disk, ps)
  BY <1>2, <1>7, <1>9, <1>12
<1>17. Stays(f.disk, v.disk)
  BY <1>1, <1>2, <1>9, StaysLoose
<1>16. IsState(v)
  BY <1>9
<1> HIDE DEF e, d, m, rec
<1>14. Good(f, SaveMeta(v), ns, ps, h, X \ {a}) /\ SaveMeta(v).disk = v.disk
  BY <1>11, <1>13, <1>15, <1>16, <1>17, GoodSave
<1> QED
  BY <1>3, <1>8, <1>9, <1>14 DEF e, d, m, rec

(* None of that touches a node. *)
LEMMA NodesApart ==
  ASSUME NEW f, NEW s, NEW ns, NEW ps, NEW h, NEW X, Good(f, s, ns, ps, h, X), NEW n \in ToSet(ns)
  PROVE  n \notin X /\ n \in 1 .. Len(s.disk) /\ n # 0
         /\ IsA(s.disk, n, "node") /\ NodeRecord(s.disk[n]) /\ n \in DOMAIN ps
<1>1. PICK fl : Full(s.disk, s.meta, ns, ps, h, fl) /\ \A b \in X : Loose(s.disk, ps, fl, b)
  BY DEF Good, Part
<1>2. n \in DOMAIN ps /\ IsList(s.disk) /\ Doubly(s.disk, s.meta, ns) /\ Owners(s.disk, ps, h)
  BY <1>1 DEF Full
<1>3. n \in 1 .. Len(s.disk) /\ IsA(s.disk, n, "node")
  BY <1>2, NodeChains
<1>4. Len(s.disk) \in Nat
  BY <1>2, ListLength
<1>5. n # 0
  BY <1>3, <1>4
<1> QED
  BY <1>1, <1>2, <1>3, <1>5 DEF Loose, Owners
--------------------------------------------------------------------------------
(* The properties in hand. *)
LEMMA OwnWay ==
  ASSUME NEW f, NEW s, NEW ns, NEW ps, NEW h, NEW X, Good(f, s, ns, ps, h, X)
  PROVE  /\ IsList(ps[0]) /\ Len(ps[0]) \in Nat /\ 0 \in DOMAIN ps
         /\ h = IF Len(ps[0]) = 0 THEN 0 ELSE ps[0][1]
         /\ Len(ps[0]) # 0 => h # 0
<1>1. Way(s.disk, "property", h, ps[0]) /\ 0 \in DOMAIN ps
  BY DEF Good, Part, Full, Owners, Head0
<1>2. /\ IsList(ps[0]) /\ h = IF Len(ps[0]) = 0 THEN 0 ELSE ps[0][1]
      /\ \A i \in 1 .. Len(ps[0]) : IsA(s.disk, ps[0][i], "property")
  BY <1>1 DEF Way
<1>3. Len(ps[0]) \in Nat /\ DOMAIN s.disk = 1 .. Len(s.disk)
  BY <1>1, GoodState, WayElements
<1>4. ASSUME Len(ps[0]) # 0 PROVE h # 0
  <2>1. 1 \in 1 .. Len(ps[0])
    BY <1>3, <1>4
  <2>2. h \in 1 .. Len(s.disk)
    BY <1>2, <1>3, <1>4, <2>1 DEF IsA
  <2> QED
    BY <2>2, GoodState
<1> QED
  BY <1>1, <1>2, <1>3, <1>4

(* What a property of a description is in the file. *)
Plain(prop) == [type |-> prop.type, key |-> prop.key, val |-> prop.val]

(* The property a call has stored, and not linked yet. *)
Held(f, s, ns, ps, h, p, next, prop) ==
  /\ Good(f, s, ns, ps, h, {p} \cup Chunks(s.disk[p]))
  /\ IsA(s.disk, p, "property") /\ PropertyRecord(s.disk[p]) /\ s.disk[p].next = next
  /\ \A c \in Chunks(s.disk[p]) : IsA(s.disk, c, "chunk")
  /\ s.disk[p].type = "STRING" => s.disk[p].key # s.disk[p].val
  /\ PropertyAt(s.disk, p) = Plain(prop)

(* The blocks of a property are written; it is then in hand, linked to next. *)
LEMMA StorePropertyGood ==
  ASSUME NEW f, NEW s, NEW ns, NEW ps, NEW h, Good(f, s, ns, ps, h, {}), NEW prop, NEW next
  PROVE  /\ Held(f, StoreProperty(s, prop, next), ns, ps, h,
                 Stored(StoreProperty(s, prop, next)), next, prop)
         /\ \A n \in ToSet(ns) : StoreProperty(s, prop, next).disk[n] = s.disk[n]
         /\ Read(StoreProperty(s, prop, next).disk, ps[0]) = Read(s.disk, ps[0])
<1> DEFINE k == Available(s, "dynamic")
           s1 == Place(s, "dynamic", Chunk(prop.key))
           v == IF prop.type = "STRING" THEN Available(s1, "dynamic") ELSE prop.val
           s2 == IF prop.type = "STRING" THEN Place(s1, "dynamic", Chunk(prop.val)) ELSE s1
           rec == Property(prop.type, k, v, next)
           a == Available(s2, "static")
           t == Place(s2, "static", rec)
           Y == Chunks(rec)
<1>1. "dynamic" \in Class /\ "static" \in Class
  BY DEF Class
<1>2. \A x : Chunk(x).kind \in Kind /\ Chunk(x).kind = "chunk" /\ Chunk(x).data = x
  BY DEF Chunk, Kind
<1>3. /\ Good(f, s1, ns, ps, h, {k}) /\ s1.disk[k].kind = "chunk" /\ k \in 1 .. Len(s1.disk)
      /\ s1.disk[k].data = prop.key
      /\ \A b \in 1 .. Len(s.disk) : b # k => s1.disk[b] = s.disk[b]
      /\ Read(s1.disk, ps[0]) = Read(s.disk, ps[0])
  <2> DEFINE c == Chunk(prop.key)
  <2>1. c.kind \in Kind /\ c.kind = "chunk" /\ c.data = prop.key
    BY <1>2
  <2> HIDE DEF c, k
  <2>2. {} \cup {k} = {k} /\ \A b \in {} : b \in 1 .. Len(s.disk)
    OBVIOUS
  <2>3. Placed(f, s, ns, ps, h, {}, c, k, s1)
    BY <1>1, <2>1, <2>2, PlaceGood DEF k, c
  <2> HIDE DEF s1
  <2> QED
    BY <2>1, <2>2, <2>3 DEF Placed
<1>4. \A n \in ToSet(ns) : s1.disk[n] = s.disk[n]
  BY <1>3, NodesApart
<1>5. /\ rec.kind = "property" /\ rec.next = next /\ rec.type = prop.type
      /\ rec.key = k /\ rec.val = v
  BY DEF Property
<1> HIDE DEF s1, k
<1>6. /\ Good(f, s2, ns, ps, h, Y)
      /\ \A c \in Y : s2.disk[c].kind = "chunk" /\ c \in 1 .. Len(s2.disk)
      /\ prop.type = "STRING" => k # v
      /\ \A n \in ToSet(ns) : s2.disk[n] = s1.disk[n]
      /\ s2.disk[k].data = prop.key
      /\ prop.type = "STRING" => s2.disk[v].data = prop.val
      /\ Read(s2.disk, ps[0]) = Read(s1.disk, ps[0])
  <2>1. CASE prop.type = "STRING"
    <3> DEFINE c == Chunk(prop.val)
               s3 == Place(s1, "dynamic", c)
    <3>1. c.kind \in Kind /\ c.kind = "chunk" /\ c.data = prop.val
      BY <1>2
    <3>2. v = Available(s1, "dynamic") /\ s2 = s3 /\ Y = {k} \cup {v}
      BY <1>5, <2>1 DEF Chunks
    <3> HIDE DEF c, v, s2, Y
    <3>3. \A b \in {k} : b \in 1 .. Len(s1.disk)
      BY <1>3
    <3>4. Placed(f, s1, ns, ps, h, {k}, c, v, s3)
      BY <1>1, <1>3, <3>1, <3>2, <3>3, PlaceGood
    <3> HIDE DEF s3
    <3>5. /\ Good(f, s3, ns, ps, h, {k} \cup {v}) /\ v \notin {k} /\ s3.disk[v] = c
          /\ \A b \in 1 .. Len(s1.disk) : b # v => s3.disk[b] = s1.disk[b]
          /\ \A b \in {k} \cup {v} : b \in 1 .. Len(s3.disk)
          /\ Read(s3.disk, ps[0]) = Read(s1.disk, ps[0])
      BY <3>4 DEF Placed
    <3>6. \A n \in ToSet(ns) : s3.disk[n] = s1.disk[n]
      <4>1. \A n \in ToSet(ns) : n \in 1 .. Len(s1.disk)
        BY <1>3, NodesApart
      <4>2. \A n \in ToSet(ns) : n \notin {k} \cup {v}
        BY <3>5, NodesApart
      <4> QED
        BY <3>5, <4>1, <4>2
    <3>7. \A b \in {k} \cup {v} : s3.disk[b].kind = "chunk"
      BY <1>3, <3>1, <3>5
    <3>8. s3.disk[k].data = prop.key /\ s3.disk[v].data = prop.val
      BY <1>3, <3>1, <3>5
    <3> QED
      BY <3>2, <3>5, <3>6, <3>7, <3>8
  <2>2. CASE prop.type # "STRING"
    <3>1. s2 = s1 /\ Y = {k}
      BY <1>5, <2>2 DEF Chunks
    <3> HIDE DEF s2, Y
    <3> QED
      BY <1>3, <2>2, <3>1
  <2> QED
    BY <2>1, <2>2
<1> HIDE DEF s2, v
<1>7. /\ Good(f, t, ns, ps, h, Y \cup {a}) /\ a \notin Y /\ t.disk[a] = rec
      /\ Read(t.disk, ps[0]) = Read(s2.disk, ps[0])
      /\ \A b \in 1 .. Len(s2.disk) : b # a => t.disk[b] = s2.disk[b]
      /\ \A b \in Y \cup {a} : b \in 1 .. Len(t.disk)
  <2>1. rec.kind \in Kind
    BY <1>5 DEF Kind
  <2> HIDE DEF rec, Y, a
  <2>2. \A b \in Y : b \in 1 .. Len(s2.disk)
    BY <1>6
  <2>3. Placed(f, s2, ns, ps, h, Y, rec, a, t)
    BY <1>1, <1>6, <2>1, <2>2, PlaceGood DEF a
  <2> HIDE DEF t
  <2> QED
    BY <2>3 DEF Placed
<1>8. Stored(t) = a
  <2>1. t = Write(Take(s2, "static"), a, rec)
    BY DEF Place
  <2>2. Good(f, Take(s2, "static"), ns, ps, h, Y \cup {a})
    <3>1. Len(s2.disk) + 1 \notin Y
      BY <1>6, GoodState
    <3> HIDE DEF Y, rec
    <3> QED
      BY <1>1, <1>6, <3>1, GoodTake
  <2> DEFINE u == Take(s2, "static")
             w == [at |-> a, data |-> rec]
  <2>3. IsState(u) /\ IsList(u.log)
    BY <2>2, GoodState
  <2> HIDE DEF u, rec, a
  <2>4. t.log = Append(u.log, w)
    BY <2>1, <2>3, WriteState DEF u
  <2>5. Len(Append(u.log, w)) = Len(u.log) + 1 /\ Append(u.log, w)[Len(u.log) + 1] = w
    BY <2>3, ListAppend
  <2> HIDE DEF t
  <2>6. t.log[Len(t.log)] = w
    BY <2>4, <2>5
  <2> QED
    BY <2>6 DEF Stored
<1>9. \A n \in ToSet(ns) : t.disk[n] = s.disk[n]
  <2>1. \A n \in ToSet(ns) : n \in 1 .. Len(s2.disk)
    BY <1>6, NodesApart
  <2>2. \A n \in ToSet(ns) : n \notin Y \cup {a}
    BY <1>7, NodesApart
  <2> QED
    BY <1>4, <1>6, <1>7, <2>1, <2>2
<1>10. DOMAIN t.disk = 1 .. Len(t.disk)
  BY <1>7, GoodState
<1>13. Read(t.disk, ps[0]) = Read(s.disk, ps[0])
  BY <1>3, <1>6, <1>7
<1> HIDE DEF t, a
<1>11. Held(f, t, ns, ps, h, a, next, prop)
  <2>1. {a} \cup Chunks(t.disk[a]) = Y \cup {a}
    BY <1>7
  <2>2. IsA(t.disk, a, "property") /\ PropertyRecord(t.disk[a]) /\ t.disk[a].next = next
    <3>1. PropertyRecord(rec)
      BY DEF PropertyRecord, Property
    <3> QED
      BY <1>5, <1>7, <1>10, <3>1 DEF IsA
  <2> HIDE DEF rec, Y
  <2>3. \A c \in Y : t.disk[c] = s2.disk[c]
    BY <1>6, <1>7
  <2>4. \A c \in Y : IsA(t.disk, c, "chunk")
    BY <1>6, <1>7, <1>10, <2>3 DEF IsA
  <2>5. \A c \in Y : Text(t.disk, c) = s2.disk[c].data
    BY <2>3, <2>4 DEF Text
  <2>6. k \in Y /\ (prop.type = "STRING" => v \in Y)
    BY <1>5 DEF Y, Chunks
  <2>7. PropertyAt(t.disk, a) = Plain(prop)
    <3>1. Text(t.disk, k) = prop.key /\ (prop.type = "STRING" => Text(t.disk, v) = prop.val)
      BY <1>6, <2>5, <2>6
    <3>2. prop.type # "STRING" => v = prop.val
      BY DEF v
    <3> QED
      BY <1>5, <1>7, <3>1, <3>2 DEF PropertyAt, Plain
  <2> QED
    BY <1>5, <1>6, <1>7, <2>1, <2>2, <2>4, <2>7 DEF Held, Y
<1>12. StoreProperty(s, prop, next) = t
  BY DEF StoreProperty, t, rec, a, s2, v, s1, k
<1> QED
  BY <1>8, <1>9, <1>11, <1>12, <1>13

(* A property in hand is what the call's own chain starts with next. *)
LEMMA HoldOwn ==
  ASSUME NEW f, NEW s, NEW ns, NEW ps, NEW h, NEW p, NEW prop, Held(f, s, ns, ps, h, p, h, prop)
  PROVE  \E qs : /\ Good(f, s, ns, qs, p, {})
                 /\ Read(s.disk, qs[0]) = <<Plain(prop)>> \o Read(s.disk, ps[0])
<1> DEFINE d == s.disk
           X == {p} \cup Chunks(d[p])
<1>1. /\ Good(f, s, ns, ps, h, X) /\ IsA(d, p, "property") /\ PropertyRecord(d[p]) /\ d[p].next = h
      /\ \A c \in Chunks(d[p]) : IsA(d, c, "chunk")
      /\ d[p].type = "STRING" => d[p].key # d[p].val
      /\ PropertyAt(d, p) = Plain(prop)
  BY DEF Held
<1>2. PICK fl : /\ Full(d, s.meta, ns, ps, h, fl) /\ \A b \in X : Loose(d, ps, fl, b)
                /\ NoLeak(d, ps, fl, X)
  BY <1>1 DEF Good, Part
<1>3. InHand(d, ps, fl, p)
  BY <1>1, <1>2 DEF InHand
<1> HIDE DEF X
<1> DEFINE qs == With(ps, 0, <<p>> \o ps[0])
<1>4. /\ Full(d, s.meta, ns, qs, p, fl)
      /\ \A b : Loose(d, qs, fl, b) <=> Loose(d, ps, fl, b) /\ b # p /\ b \notin Chunks(d[p])
      /\ Chained(d, ps) => Chained(d, qs)
  BY <1>1, <1>2, <1>3, PushOwn
<1>6. qs[0] = <<p>> \o ps[0] /\ IsList(ps[0])
  BY <1>2 DEF With, Full, Owners, Way
<1> HIDE DEF qs
<1>7. NoLeak(d, qs, fl, {})
  BY <1>2, <1>4 DEF NoLeak, X
<1>5. Part(d, s.meta, ns, qs, p, {})
  BY <1>4, <1>7 DEF Part
<1>8. Good(f, s, ns, qs, p, {})
  BY <1>1, <1>4, <1>5 DEF Good
<1>9. Read(d, qs[0]) = <<Plain(prop)>> \o Read(d, ps[0])
  <2>1. Read(d, <<p>> \o ps[0]) = <<PropertyAt(d, p)>> \o Read(d, ps[0])
    BY <1>6, ReadPush
  <2> QED
    BY ONLY <1>1, <1>6, <2>1
<1> QED
  BY <1>8, <1>9

(* The last n properties of a description, read from the file. *)
Reads(d, s, desc, n) ==
  /\ Len(s) = n
  /\ \A j \in 1 .. n : Read(d, s)[j] = Plain(desc[Len(desc) - n + j])

(* One more. *)
LEMMA ReadsPush ==
  ASSUME NEW d, NEW s, IsList(s), NEW desc, IsList(desc), NEW n \in Nat, n + 1 <= Len(desc),
         Reads(d, s, desc, n), NEW e, NEW t, IsList(t),
         Read(e, t) = <<Plain(desc[Len(desc) + 1 - (n + 1)])>> \o Read(d, s)
  PROVE  Reads(e, t, desc, n + 1)
<1> DEFINE m == Len(desc)
           w == Read(d, s)
           x == Plain(desc[m + 1 - (n + 1)])
           F(z) == [j \in 1 .. Len(z) |-> 0]
<1>1. m \in Nat /\ Len(t) \in Nat /\ Len(s) = n
  BY ListLength DEF Reads
<1> HIDE DEF m
<1>2. w \in [1 .. n -> {PropertyAt(d, s[j]) : j \in 1 .. n}]
  BY <1>1 DEF Read
<1>3. w \in Seq({PropertyAt(d, s[j]) : j \in 1 .. n}) /\ Len(w) = n
  BY <1>2, ListOf
<1>4. /\ Len(<<x>> \o w) = n + 1 /\ (<<x>> \o w)[1] = x
      /\ \A j \in 2 .. n + 1 : (<<x>> \o w)[j] = w[j - 1]
  <2> HIDE DEF w, x
  <2> QED
    BY <1>3
<1>5. Read(e, t) \in [1 .. Len(t) -> {PropertyAt(e, t[j]) : j \in 1 .. Len(t)}]
  BY DEF Read
<1>6. Len(Read(e, t)) = Len(t)
  BY <1>1, <1>5, ListOf
<1>7. Len(t) = n + 1
  BY <1>4, <1>6 DEF m
<1>8. ASSUME NEW j \in 1 .. n + 1 PROVE Read(e, t)[j] = Plain(desc[m - (n + 1) + j])
  <2>1. CASE j = 1
    <3>1. m - (n + 1) + j = m + 1 - (n + 1)
      BY <1>1, <2>1
    <3> QED
      BY <1>4, <2>1, <3>1 DEF m
  <2>2. CASE j # 1
    <3>1. j \in 2 .. n + 1 /\ j - 1 \in 1 .. n /\ m - n + (j - 1) = m - (n + 1) + j
      BY <1>1, <2>2
    <3>2. w[j - 1] = Plain(desc[m - n + (j - 1)])
      BY <3>1 DEF Reads, m
    <3> QED
      BY <1>4, <3>1, <3>2 DEF m
  <2> QED
    BY <2>1, <2>2
<1> QED
  BY <1>7, <1>8 DEF Reads, m

(* The loop over a description takes all its properties in hand. *)
LEMMA StorePropertiesGood ==
  ASSUME NEW f, NEW s, NEW ns, NEW ps, Good(f, s, ns, ps, 0, {}), NEW desc, IsList(desc)
  PROVE  \E qs : /\ Good(f, StoreProperties(s, desc)[Len(desc)], ns, qs,
                         IF desc = <<>> THEN 0 ELSE Stored(StoreProperties(s, desc)[Len(desc)]), {})
                 /\ Reads(StoreProperties(s, desc)[Len(desc)].disk, qs[0], desc, Len(desc))
<1> DEFINE S == StoreProperties(s, desc)
           n == Len(desc)
           From(i) == IF i = 0 THEN 0 ELSE Stored(S[i])
           In(i, qs) == Good(f, S[i], ns, qs, From(i), {}) /\ Reads(S[i].disk, qs[0], desc, i)
           A == {i \in Nat : i <= n => \E qs : In(i, qs)}
<1>1. n \in Nat
  BY ListLength
<1>2. S[0] = s /\ \A i \in 1 .. n : S[i] = StoreNext(S[i - 1], desc, i)
  BY <1>1, StorePropertiesIs
<1> HIDE DEF S, n
<1>3. 0 \in A
  <2>1. Len(ps[0]) \in Nat /\ Len(ps[0]) = 0
    BY OwnWay
  <2>2. Reads(S[0].disk, ps[0], desc, 0)
    BY <2>1 DEF Reads
  <2>3. In(0, ps)
    BY <1>2, <2>2
  <2> HIDE DEF In
  <2> QED
    BY <2>3
<1>4. ASSUME NEW i \in Nat, i \in A PROVE i + 1 \in A
  <2> SUFFICES ASSUME i + 1 <= n PROVE \E qs : In(i + 1, qs)
    OBVIOUS
  <2>1. i + 1 \in 1 .. n /\ (i + 1) - 1 = i /\ i <= n /\ i + 1 # 0 /\ (i = 0 <=> i + 1 = 1)
    BY <1>1
  <2> HIDE DEF In
  <2>2. PICK qs : In(i, qs)
    BY <1>4, <2>1
  <2> DEFINE prop == desc[n + 1 - (i + 1)]
             t == StoreProperty(S[i], prop, From(i))
  <2>3. S[i + 1] = t
    BY <1>2, <2>1 DEF StoreNext, n
  <2>4. From(i + 1) = Stored(S[i + 1])
    BY <2>1
  <2>9. Good(f, S[i], ns, qs, From(i), {}) /\ Reads(S[i].disk, qs[0], desc, i)
    BY <2>2 DEF In
  <2> HIDE DEF From, prop
  <2>5. Held(f, t, ns, qs, From(i), Stored(t), From(i), prop) /\ Read(t.disk, qs[0]) = Read(S[i].disk, qs[0])
    BY <2>9, StorePropertyGood
  <2> HIDE DEF t
  <2>6. PICK rs : /\ Good(f, t, ns, rs, Stored(t), {})
                  /\ Read(t.disk, rs[0]) = <<Plain(prop)>> \o Read(t.disk, qs[0])
    BY <2>5, HoldOwn
  <2>7. Reads(t.disk, rs[0], desc, i + 1)
    <3>1. IsList(qs[0]) /\ IsList(rs[0])
      BY <2>6, <2>9, OwnWay
    <3>2. Read(t.disk, rs[0]) = <<Plain(desc[Len(desc) + 1 - (i + 1)])>> \o Read(S[i].disk, qs[0])
      BY <2>5, <2>6 DEF prop, n
    <3> QED
      BY <2>1, <2>9, <3>1, <3>2, ReadsPush DEF n
  <2>8. In(i + 1, rs)
    BY <2>3, <2>4, <2>6, <2>7 DEF In
  <2> QED
    BY <2>8
<1> HIDE DEF A
<1>5. Nat \subseteq A
  BY <1>3, <1>4, Induct
<1>6. n \in A /\ n <= n
  BY <1>1, <1>5
<1>7. n = 0 <=> desc = <<>>
  BY DEF n, IsList
<1> QED
  BY <1>6, <1>7 DEF A, S, n

(* A call whose file shows another graph now. *)
Shown(f, g) == [disk |-> f.disk, meta |-> f.meta, graph |-> g, exact |-> f.exact]

LEMMA ShownIs ==
  ASSUME NEW f, NEW g
  PROVE  /\ FileOf(Shown(f, g)) = FileOf(f) /\ Shown(f, g).graph = g /\ Shown(f, g).exact = f.exact
         /\ Shown(f, g).disk = f.disk
BY DEF Shown, FileOf

(* A property in hand becomes the first of a node: by that write the file shows *)
(* another graph. *)
LEMMA HoldNode ==
  ASSUME NEW f, NEW s, NEW ns, NEW ps, NEW h, NEW p, NEW prop, NEW n,
         NEW i \in 1 .. Len(ns), n = ns[i], Len(ns) \in Nat, n \in ToSet(ns),
         Held(f, s, ns, ps, h, p, s.disk[n].prop, prop), f.graph = View(FileOf(f))
  PROVE  \E qs : Good(Shown(f, [f.graph EXCEPT ![i] = <<Plain(prop)>> \o @]),
                      Write(s, n, [s.disk[n] EXCEPT !.prop = p]), ns, qs, h, {})
<1> DEFINE d == s.disk
           m == s.meta
           X == {p} \cup Chunks(d[p])
           rec == [d[n] EXCEPT !.prop = p]
           e == PutAt(d, n, rec)
           qs == With(ps, n, <<p>> \o ps[n])
           t == Write(s, n, rec)
           gr == [f.graph EXCEPT ![i] = <<Plain(prop)>> \o @]
           k == Shown(f, gr)
<1>1. /\ Good(f, s, ns, ps, h, X) /\ IsA(d, p, "property") /\ PropertyRecord(d[p])
      /\ d[p].next = d[n].prop /\ \A c \in Chunks(d[p]) : IsA(d, c, "chunk")
      /\ d[p].type = "STRING" => d[p].key # d[p].val
      /\ PropertyAt(d, p) = Plain(prop)
  BY DEF Held
<1>2. PICK fl : /\ Full(d, m, ns, ps, h, fl) /\ \A b \in X : Loose(d, ps, fl, b)
                /\ NoLeak(d, ps, fl, X)
  BY <1>1 DEF Good, Part
<1>3. InHand(d, ps, fl, p)
  BY <1>1, <1>2 DEF InHand
<1>4. n # 0 /\ n \in 1 .. Len(d) /\ Len(d) \in Nat /\ IsState(s) /\ IsList(d) /\ IsList(s.log)
      /\ IsA(d, n, "node") /\ NodeRecord(d[n])
  BY <1>1, NodesApart, GoodState
<1>5. n \in 1 .. Len(d) + 1
  BY <1>4
<1> HIDE DEF X
<1>6. /\ Full(e, m, ns, qs, h, fl)
      /\ \A b : Loose(e, qs, fl, b) <=> Loose(d, ps, fl, b) /\ b # p /\ b \notin Chunks(d[p])
      /\ Chained(d, ps) => Chained(e, qs)
      /\ Graph(e, m) = [Graph(d, m) EXCEPT ![i] = <<PropertyAt(d, p)>> \o @]
  <2>1. Full(d, m, ns, ps, h, fl) /\ d[p].next = d[n].prop /\ n # 0
    BY <1>1, <1>2, <1>4
  <2> HIDE DEF d, m
  <2>2. Pushed(d, m, ns, ps, h, fl, p, n, e, qs)
    BY <1>3, <2>1, PushNode
  <2> HIDE DEF e, qs
  <2> QED
    BY <2>2 DEF Pushed
<1>7. /\ IsState(t) /\ t.disk = e /\ t.meta = m
      /\ t.log = Append(s.log, [at |-> n, data |-> rec])
  <2> HIDE DEF rec
  <2> QED
    BY <1>4, WriteState
<1>8. /\ Reached(FileOf(f), s.log, [disk |-> d, meta |-> m])
      /\ Graph(d, m) = f.graph /\ (f.exact => Chained(d, ps)) /\ Stays(f.disk, d)
  BY <1>1 DEF Good
<1>18. Stays(f.disk, e)
  BY <1>2, <1>4, <1>8, StaysApart DEF Full
<1>13. Same(d, e, n) /\ Len(e) = Len(d)
  <2>1. rec.kind = "node" /\ NodeRecord(rec)
    BY <1>4 DEF NodeRecord
  <2> HIDE DEF rec, d
  <2>2. Same(d, e, n)
    BY <1>4, <1>5, PutSame
  <2>3. Len(e) = Len(d)
    BY <1>2, <1>4, <2>1, NodeWrite DEF Full
  <2> QED
    BY <2>2, <2>3
<1>15. e[n] # Junk
  <2>1. e[n] = rec
    BY <1>4, <1>5, PutFacts, SMTT(30)
  <2> HIDE DEF e
  <2>2. IsA(e, n, "node")
    <3>1. n \in ToSet(ns) => n \in DOMAIN qs /\ n # 0
      BY <1>4, <1>6 DEF Full
    <3> QED
      BY <1>6, <3>1 DEF Full, Owners
  <2> QED
    BY <2>2 DEF Junk, IsA
<1> HIDE DEF qs, t, rec, d, m
<1>9. Sound(e, m)
  BY <1>6, FullSound
<1>10. Reached(FileOf(f), t.log, [disk |-> e, meta |-> m])
  BY <1>4, <1>5, <1>7, <1>8, <1>9, ReachedWrite DEF d
<1>14. NoLeak(e, qs, fl, {})
  <2> HIDE DEF e
  <2>1. ASSUME crashes = 0, NEW b \in 1 .. Len(e), Loose(e, qs, fl, b) PROVE e[b] = Junk
    <3>1. Loose(d, ps, fl, b) /\ b \notin X /\ b \in 1 .. Len(d)
      BY <1>6, <1>13, <2>1 DEF X
    <3>2. d[b] = Junk
      BY <1>2, <2>1, <3>1 DEF NoLeak
    <3>3. b # n
      BY <1>4, <3>2 DEF IsA, Junk
    <3> QED
      BY <1>13, <3>1, <3>2, <3>3 DEF Same
  <2> QED
    BY <2>1 DEF NoLeak
<1> HIDE DEF e
<1>11. Part(e, m, ns, qs, h, {})
  BY <1>6, <1>14 DEF Part
<1>16. FileOf(k) = FileOf(f) /\ k.graph = gr /\ k.exact = f.exact /\ k.disk = f.disk
  BY ShownIs
<1>17. Graph(e, m) = gr
  BY <1>1, <1>6, <1>8
<1> HIDE DEF k, gr
<1>12. Good(k, t, ns, qs, h, {})
  BY <1>6, <1>7, <1>8, <1>10, <1>11, <1>16, <1>17, <1>18 DEF Good
<1> QED
  BY <1>12 DEF t, rec, d, k, gr

--------------------------------------------------------------------------------
(* The place of the first node of a graph that a description matches. *)
Spot(gr, desc) == SelectInSeq(gr, LAMBDA props : Matches(props, desc))

(* find_node gives the node there, in the list of the file. *)
Meets(ns, n, i) ==
  /\ Len(ns) \in Nat /\ i \in 0 .. Len(ns)
  /\ n = 0 <=> i = 0
  /\ n # 0 => n = ns[i] /\ n \in ToSet(ns)

LEMMA FoundNode ==
  ASSUME NEW d, NEW m, NEW ns, NEW ps, NEW h, NEW fl, Full(d, m, ns, ps, h, fl), NEW desc
  PROVE  Meets(ns, FindNode(d, m.first, desc), Spot(Graph(d, m), desc))
<1> DEFINE i == SelectInSeq(ns, LAMBDA n : NodesEqual(d, n, desc))
           I == {k \in 1 .. Len(ns) : NodesEqual(d, ns[k], desc)}
           G == Graph(d, m)
           J == {k \in 1 .. Len(G) : Matches(G[k], desc)}
<1>1. /\ NodeChain(d, m.first) = ns /\ Len(ns) \in Nat /\ ToSet(ns) = {ns[k] : k \in 1 .. Len(ns)}
      /\ \A n \in ToSet(ns) : n \in 1 .. Len(d)
      /\ IsList(d) /\ Len(d) \in Nat
  BY NodeChains, ListLength DEF Full
<1>2. FindNode(d, m.first, desc) = IF i = 0 THEN 0 ELSE ns[i]
  BY <1>1 DEF FindNode
<1>3. i = IF I # {} THEN Min(I) ELSE 0
  BY DEF SelectInSeq
<1>4. Spot(G, desc) = IF J # {} THEN Min(J) ELSE 0
  BY DEF SelectInSeq, Spot
<1>5. I = J
  <2>1. G = Picture(d, ns, ps)
    BY GraphIs
  <2>2. \A k \in 1 .. Len(ns) : PropertiesOf(d, ns[k]) = Read(d, ps[ns[k]])
    <3>1. \A k \in 1 .. Len(ns) : ns[k] \in DOMAIN ps /\ ns[k] # 0
      BY <1>1 DEF Full
    <3>2. Owners(d, ps, h) /\ IsList(d)
      BY DEF Full
    <3> QED
      BY <3>1, <3>2, PropertiesIs
  <2>3. Len(G) = Len(ns)
    <3>1. G \in [1 .. Len(ns) -> {Read(d, ps[ns[k]]) : k \in 1 .. Len(ns)}]
      BY <2>1 DEF Picture
    <3> HIDE DEF G
    <3> QED
      BY <1>1, <3>1, ListOf
  <2>4. \A k \in 1 .. Len(ns) : NodesEqual(d, ns[k], desc) <=> Matches(G[k], desc)
    BY <2>1, <2>2 DEF NodesEqual, Picture
  <2> HIDE DEF G
  <2> QED
    BY <2>3, <2>4
<1>6. I \subseteq Nat /\ I \subseteq 1 .. Len(ns)
  OBVIOUS
<1> HIDE DEF I, i, J, G
<1>7. i # 0 => i \in 1 .. Len(ns)
  BY <1>3, <1>6, MinIn
<1>8. i = Spot(G, desc)
  BY <1>3, <1>4, <1>5
<1>9. i # 0 => ns[i] \in ToSet(ns) /\ ns[i] # 0
  BY <1>1, <1>7
<1>10. i \in 0 .. Len(ns)
  BY <1>1, <1>7
<1>11. Meets(ns, FindNode(d, m.first, desc), i)
  BY <1>1, <1>2, <1>9, <1>10 DEF Meets
<1> QED
  BY <1>8, <1>11 DEF G

(* Between two calls the file is in order, and but for stops nothing is lost. *)
InOrder(ns, ps, fl) ==
  /\ Full(disk, meta, ns, ps, 0, fl)
  /\ NoLeak(disk, ps, fl, {})
  /\ crashes = 0 => Chained(disk, ps)

(* A call that begins there, when the file shows g. *)
Now(g) == [disk |-> disk, meta |-> meta, graph |-> g, exact |-> crashes = 0]

LEMMA NowIs ==
  ASSUME NEW g
  PROVE  /\ FileOf(Now(g)) = [disk |-> disk, meta |-> meta] /\ Now(g).graph = g
         /\ Now(g).disk = disk
         /\ View(FileOf(Now(g))) = Graph(disk, meta)
         /\ Now(g).exact <=> crashes = 0
         /\ \A k : Shown(Now(g), k) = Now(k)
BY DEF Now, FileOf, View, Shown

LEMMA StartGood ==
  ASSUME NEW ns, NEW ps, NEW fl, InOrder(ns, ps, fl), pend = <<>>
  PROVE  /\ Good(Now(Graph(disk, meta)), Start, ns, ps, 0, {})
         /\ Start.disk = disk /\ Start.meta = meta
<1> DEFINE f == [disk |-> disk, meta |-> meta]
           k == Now(Graph(disk, meta))
<1>0. Full(disk, meta, ns, ps, 0, fl)
  BY DEF InOrder
<1>1. f.disk = disk /\ f.meta = meta
  OBVIOUS
<1>2. /\ Start.disk = disk /\ Start.meta = meta /\ Start.log = <<>>
      /\ Start = [disk |-> Start.disk, meta |-> Start.meta, log |-> Start.log]
  BY DEF Start
<1>3. Sound(disk, meta) /\ IsList(disk)
  BY <1>0, FullSound DEF Full
<1>4. IsList(<<>>)
  <2>1. <<>> \in Seq({})
    OBVIOUS
  <2> QED
    BY <2>1 DEF IsList
<1>8. FileOf(k) = f /\ k.graph = Graph(disk, meta) /\ (k.exact <=> crashes = 0) /\ k.disk = disk
  BY NowIs
<1> HIDE DEF f, k
<1>5. Reached(f, <<>>, f)
  BY <1>1, <1>3, ReachedNothing
<1>6. Part(disk, meta, ns, ps, 0, {})
  BY DEF Part, InOrder
<1>7. IsState(Start)
  BY <1>2, <1>3, <1>4 DEF IsState
<1>9. crashes = 0 => Chained(disk, ps)
  BY DEF InOrder
<1>11. Stays(disk, disk)
  BY DEF Stays
<1>10. Good(k, Start, ns, ps, 0, {})
  BY <1>2, <1>5, <1>6, <1>7, <1>8, <1>9, <1>11 DEF Good, f
<1> QED
  BY <1>2, <1>10 DEF k

(* What an operation is: all its writes, and a file that is in order after them, *)
(* and shows g. *)
Done(s, g) == Perform(s) /\ \E ns, ps : Good(Now(g), s, ns, ps, 0, {})

(* One whose list of nodes goes on where us ends. *)
Extends(u, v) == Len(v) \in Nat /\ Len(v) <= Len(u) /\ \A i \in 1 .. Len(v) : u[i] = v[i]

More(s, g, us) ==
  Perform(s) /\ \E ns, ps : Good(Now(g), s, ns, ps, 0, {}) /\ Extends(ns, us)

LEMMA MoreDone ==
  ASSUME NEW s, NEW g, NEW us, More(s, g, us) PROVE Done(s, g)
BY DEF More, Done

(* add_property: the new property, then the node that leads to it. *)
LEMMA AddPropertyGood ==
  ASSUME NEW ns, NEW ps, NEW fl, InOrder(ns, ps, fl),
         NEW desc, NEW prop, AddProperty(desc, prop)
  PROVE  /\ Spot(Graph(disk, meta), desc) # 0
         /\ \E s : Done(s, [Graph(disk, meta) EXCEPT ![Spot(Graph(disk, meta), desc)] = <<Plain(prop)>> \o @])
<1> DEFINE G == Graph(disk, meta)
           f == Now(G)
           n == FindNode(disk, meta.first, desc)
           i == Spot(G, desc)
           s1 == StoreProperty(Start, prop, disk[n].prop)
           p == Stored(s1)
           t == Write(s1, n, [disk[n] EXCEPT !.prop = p])
           k == [G EXCEPT ![i] = <<Plain(prop)>> \o @]
<1>1. pend = <<>> /\ n # 0 /\ Perform(t)
  BY DEF AddProperty, Ready, Quiet
<1>2. Meets(ns, n, i)
  BY FoundNode DEF InOrder
<1>3. Good(f, Start, ns, ps, 0, {}) /\ Start.disk = disk
  BY <1>1, StartGood
<1>7. f.graph = G /\ View(FileOf(f)) = G /\ Shown(f, k) = Now(k)
  BY NowIs
<1> HIDE DEF f, n, G, i
<1>8. i # 0 /\ Len(ns) \in Nat /\ i \in 1 .. Len(ns) /\ n = ns[i] /\ n \in ToSet(ns)
  BY <1>1, <1>2 DEF Meets
<1>4. /\ Held(f, s1, ns, ps, 0, p, disk[n].prop, prop)
      /\ s1.disk[n] = disk[n]
  BY <1>3, <1>8, StorePropertyGood
<1> HIDE DEF s1, p
<1>5. \E qs : Good(Shown(f, [f.graph EXCEPT ![i] = <<Plain(prop)>> \o @]),
                   Write(s1, n, [s1.disk[n] EXCEPT !.prop = p]), ns, qs, 0, {})
  BY <1>4, <1>7, <1>8, HoldNode
<1>6. \E qs : Good(Now(k), t, ns, qs, 0, {})
  BY <1>4, <1>5, <1>7
<1>9. Done(t, k)
  BY <1>1, <1>6 DEF Done
<1> QED
  BY <1>8, <1>9 DEF G, i

--------------------------------------------------------------------------------
(* Writes that change the list of nodes.  What they leave alone of the free      *)
(* lists ...                                                                     *)
LEMMA FreeFrame ==
  ASSUME NEW d, NEW m, NEW fl, Free(d, m, fl), NEW e,
         \A c \in Class : \A b \in ToSet(fl[c]) : IsA(e, b, "free") /\ e[b] = d[b]
  PROVE  Free(e, m, fl)
<1> SUFFICES ASSUME NEW c \in Class
             PROVE  /\ Way(e, "free", m.free[c], fl[c])
                    /\ \A b \in ToSet(fl[c]) : e[b].class = c
  BY DEF Free, Class
<1>1. Way(d, "free", m.free[c], fl[c]) /\ \A b \in ToSet(fl[c]) : d[b].class = c
  BY DEF Free, Class
<1> QED
  BY <1>1, WayFrame

(* ... and of the properties. *)
LEMMA OwnersFrame ==
  ASSUME NEW d, NEW ps, NEW h, Owners(d, ps, h), NEW e,
         \A n \in DOMAIN ps :
           n # 0 => IsA(e, n, "node") /\ NodeRecord(e[n]) /\ e[n].prop = d[n].prop,
         \A p \in Props(ps) :
           IsA(e, p, "property") /\ e[p] = d[p] /\ \A c \in Chunks(d[p]) : IsA(e, c, "chunk")
  PROVE  Owners(e, ps, h)
<1>1. /\ 0 \in DOMAIN ps
      /\ \A o \in DOMAIN ps : Way(d, "property", Head0(d, h, o), ps[o])
      /\ \A o, q \in DOMAIN ps : \A p : p \in ToSet(ps[o]) /\ p \in ToSet(ps[q]) => o = q
      /\ \A p \in Props(ps) : d[p].type = "STRING" => d[p].key # d[p].val
      /\ \A p, q \in Props(ps) : \A c : c \in Chunks(d[p]) /\ c \in Chunks(d[q]) => p = q
  BY DEF Owners
<1>2. ASSUME NEW o \in DOMAIN ps PROVE Way(e, "property", Head0(e, h, o), ps[o])
  <2>1. Way(d, "property", Head0(d, h, o), ps[o])
    BY <1>1
  <2>2. \A p \in ToSet(ps[o]) : p \in Props(ps)
    BY DEF Props
  <2>3. Head0(e, h, o) = Head0(d, h, o)
    BY DEF Head0
  <2> QED
    BY <2>1, <2>2, <2>3, WayFrame
<1> QED
  BY <1>1, <1>2 DEF Owners

(* What a write of a node with other links keeps of a file: all but the links. *)
Spares(d, ps, h, e) ==
  /\ Owners(e, ps, h) /\ Related(e, ps)
  /\ Chained(d, ps) => Chained(e, ps)
  /\ Len(e) = Len(d)
  /\ \A b, kind : IsA(e, b, kind) <=> IsA(d, b, kind)
  /\ \A r : IsA(d, r, "relationship") => e[r] = d[r]
  /\ \A fl, b : Loose(e, ps, fl, b) <=> Loose(d, ps, fl, b)
  /\ \A fl, X : NoLeak(d, ps, fl, X) => NoLeak(e, ps, fl, X)
  /\ \A o \in DOMAIN ps : Read(e, ps[o]) = Read(d, ps[o])

LEMMA LinkWrite ==
  ASSUME NEW d, IsList(d), Kinds(d), NEW m, NEW gl, Free(d, m, gl),
         NEW ps, NEW h, Owners(d, ps, h), Related(d, ps),
         NEW n \in DOMAIN ps, n # 0,
         NEW rec, NodeRecord(rec), rec.prop = d[n].prop, rec.rel = d[n].rel
  PROVE  Spares(d, ps, h, PutAt(d, n, rec))
<1> DEFINE e == PutAt(d, n, rec)
<1>1. IsA(d, n, "node") /\ \A x \in DOMAIN ps : x # 0 => IsA(d, x, "node") /\ NodeRecord(d[x])
  BY DEF Owners
<1>2. /\ IsList(e) /\ Kinds(e) /\ Len(e) = Len(d)
      /\ \A b, kind : IsA(e, b, kind) <=> IsA(d, b, kind)
      /\ \A b, kind : IsA(d, b, kind) /\ b # n => e[b] = d[b]
      /\ e[n] = rec
  BY <1>1, NodeWrite
<1> HIDE DEF e
<1>3. /\ \A p \in Props(ps) : IsA(d, p, "property")
      /\ \A p \in Props(ps) : \A c \in Chunks(d[p]) : IsA(d, c, "chunk")
  BY WayElements DEF Owners, Props
<1>4. /\ \A b : IsA(d, b, "property") => e[b] = d[b]
      /\ \A b : IsA(d, b, "relationship") => e[b] = d[b]
      /\ \A b : IsA(d, b, "chunk") => e[b] = d[b]
      /\ \A b : IsA(d, b, "junk") => e[b] = d[b]
  <2>1. \A b, kind : IsA(d, b, kind) /\ kind # "node" => b # n
    BY <1>1 DEF IsA
  <2> QED
    BY <1>2, <2>1
<1>5. \A x \in DOMAIN ps :
        x # 0 => /\ IsA(e, x, "node") /\ NodeRecord(e[x])
                 /\ e[x].prop = d[x].prop /\ e[x].rel = d[x].rel
  BY <1>1, <1>2
<1>6. Owners(e, ps, h)
  <2>1. \A p \in Props(ps) :
          IsA(e, p, "property") /\ e[p] = d[p] /\ \A c \in Chunks(d[p]) : IsA(e, c, "chunk")
    BY <1>2, <1>3, <1>4
  <2> QED
    BY <1>5, <2>1, OwnersFrame
<1>7. Related(e, ps) /\ (Chained(d, ps) => Chained(e, ps))
  <2>1. \A r : IsA(e, r, "relationship") <=> IsA(d, r, "relationship")
    BY <1>2
  <2>2. \A r : IsA(d, r, "relationship") =>
          /\ e[r] = d[r] /\ IsA(e, d[r].type, "chunk")
          /\ \A x \in Ends(d[r]) : x \in DOMAIN ps
          /\ \A p \in Props(ps) : d[r].type \notin Chunks(e[p])
    <3>1. \A r : IsA(d, r, "relationship") => RelationAt(d, ps, r)
      BY DEF Related
    <3> QED
      BY <1>2, <1>3, <1>4, <3>1 DEF RelationAt
  <2>3. \A x \in DOMAIN ps :
          x # 0 => IF x \in DOMAIN ps THEN e[x].rel = d[x].rel ELSE e[x].rel = 0
    BY <1>5
  <2> QED
    BY <2>1, <2>2, <2>3, RelatedFrame
<1>8. \A fl, b : Loose(e, ps, fl, b) <=> Loose(d, ps, fl, b)
  <2>1. \A p \in Props(ps) : e[p] = d[p]
    BY <1>3, <1>4
  <2> QED
    BY <1>2, <1>4, <2>1 DEF Loose
<1>9. ASSUME NEW fl, NEW X, NoLeak(d, ps, fl, X) PROVE NoLeak(e, ps, fl, X)
  <2> SUFFICES ASSUME crashes = 0, NEW b \in 1 .. Len(e), Loose(e, ps, fl, b)
               PROVE  b \in X \/ e[b] = Junk
    BY DEF NoLeak
  <2>1. b \in X \/ d[b] = Junk
    BY <1>2, <1>8, <1>9 DEF NoLeak
  <2>2. b # n /\ b \in DOMAIN d
    BY <1>2, <1>8, ListLength DEF Loose
  <2>3. IsA(d, b, d[b].kind)
    BY <2>2 DEF IsA
  <2>4. e[b] = d[b]
    BY <1>2, <2>2, <2>3
  <2> QED
    BY <2>1, <2>4
<1>10. ASSUME NEW o \in DOMAIN ps PROVE Read(e, ps[o]) = Read(d, ps[o])
  <2>1. ASSUME NEW c, IsA(d, c, "chunk") PROVE Text(e, c) = Text(d, c)
    BY <1>2, <1>4, <2>1 DEF Text
  <2>2. ASSUME NEW p \in Props(ps) PROVE PropertyAt(e, p) = PropertyAt(d, p)
    <3>1. e[p] = d[p] /\ \A c \in Chunks(d[p]) : Text(e, c) = Text(d, c)
      BY <1>3, <1>4, <2>1
    <3> QED
      BY <3>1 DEF PropertyAt, Chunks
  <2>3. \A j \in 1 .. Len(ps[o]) : ps[o][j] \in Props(ps)
    <3>1. Way(d, "property", Head0(d, h, o), ps[o])
      BY DEF Owners
    <3> QED
      BY <3>1, WayElements DEF Props
  <2> QED
    BY <2>2, <2>3 DEF Read
<1> QED
  BY <1>2, <1>4, <1>6, <1>7, <1>8, <1>9, <1>10 DEF Spares, e

(* No write keeps everything, and what two writes keep they keep together. *)
LEMMA SparesNone ==
  ASSUME NEW d, NEW ps, NEW h, Owners(d, ps, h), Related(d, ps)
  PROVE  Spares(d, ps, h, d)
BY DEF Spares

LEMMA SparesTwice ==
  ASSUME NEW d, NEW ps, NEW h, NEW e, Spares(d, ps, h, e), NEW g, Spares(e, ps, h, g)
  PROVE  Spares(d, ps, h, g)
BY DEF Spares

LEMMA SparesPicture ==
  ASSUME NEW d, NEW ps, NEW h, NEW e, Spares(d, ps, h, e),
         NEW ns, \A i \in 1 .. Len(ns) : ns[i] \in DOMAIN ps
  PROVE  Picture(e, ns, ps) = Picture(d, ns, ps)
<1>1. \A i \in 1 .. Len(ns) : Read(e, ps[ns[i]]) = Read(d, ps[ns[i]])
  BY DEF Spares
<1> QED
  BY <1>1 DEF Picture

(* A node gets the properties the call has in hand. *)
Given(ps, a) ==
  [o \in DOMAIN ps \cup {a} |-> IF o = a THEN ps[0] ELSE IF o = 0 THEN <<>> ELSE ps[o]]

(* The properties in hand become those of the new node a. *)
LEMMA OwnersGive ==
  ASSUME NEW d, NEW ps, NEW h, Owners(d, ps, h),
         NEW a, a \notin DOMAIN ps, IsA(d, a, "node"), NodeRecord(d[a]), d[a].prop = h
  PROVE  /\ Owners(d, Given(ps, a), 0)
         /\ \A x : x \in DOMAIN Given(ps, a) <=> x = a \/ x \in DOMAIN ps
<1> DEFINE qs == Given(ps, a)
<1>1. /\ 0 \in DOMAIN ps
      /\ \A n \in DOMAIN ps : n # 0 => IsA(d, n, "node") /\ NodeRecord(d[n])
      /\ \A o \in DOMAIN ps : Way(d, "property", Head0(d, h, o), ps[o])
      /\ \A o, q \in DOMAIN ps : \A p : p \in ToSet(ps[o]) /\ p \in ToSet(ps[q]) => o = q
      /\ \A p \in Props(ps) :
           /\ \A c \in Chunks(d[p]) : IsA(d, c, "chunk")
           /\ d[p].type = "STRING" => d[p].key # d[p].val
      /\ \A p, q \in Props(ps) : \A c : c \in Chunks(d[p]) /\ c \in Chunks(d[q]) => p = q
  BY DEF Owners
<1>2. /\ \A x : x \in DOMAIN qs <=> x = a \/ x \in DOMAIN ps
      /\ qs[a] = ps[0] /\ qs[0] = <<>> /\ a # 0
      /\ \A o \in DOMAIN ps : o # 0 => qs[o] = ps[o]
  BY <1>1 DEF Given
<1> HIDE DEF qs
<1>3. ToSet(<<>>) = {}
  BY DEF ToSet
<1>4. \A p \in Props(qs) : p \in Props(ps)
  BY <1>1, <1>2, <1>3 DEF Props
<1>5. \A n \in DOMAIN qs : n # 0 => IsA(d, n, "node") /\ NodeRecord(d[n])
  BY <1>1, <1>2
<1>6. ASSUME NEW o \in DOMAIN qs PROVE Way(d, "property", Head0(d, 0, o), qs[o])
  <2>1. CASE o = a
    <3>1. Way(d, "property", Head0(d, h, 0), ps[0]) /\ Head0(d, h, 0) = h /\ Head0(d, 0, a) = h
      BY <1>1, <1>2 DEF Head0
    <3> QED
      BY <1>2, <2>1, <3>1
  <2>2. CASE o = 0
    <3>1. Head0(d, 0, 0) = 0
      BY DEF Head0
    <3> QED
      BY <1>2, <2>2, <3>1, WayNowhere
  <2>3. CASE o # a /\ o # 0
    <3>1. o \in DOMAIN ps /\ Head0(d, 0, o) = Head0(d, h, o) /\ qs[o] = ps[o]
      BY <1>2, <2>3 DEF Head0
    <3> QED
      BY <1>1, <3>1
  <2> QED
    BY <2>1, <2>2, <2>3
<1>7. ASSUME NEW o \in DOMAIN qs, NEW q \in DOMAIN qs, NEW p, p \in ToSet(qs[o]), p \in ToSet(qs[q])
      PROVE  o = q
  <2> DEFINE Of(x) == IF x = a THEN 0 ELSE x
  <2>1. ASSUME NEW x \in DOMAIN qs, p \in ToSet(qs[x])
        PROVE  Of(x) \in DOMAIN ps /\ p \in ToSet(ps[Of(x)]) /\ x # 0
    BY <1>1, <1>2, <1>3, <2>1
  <2>2. Of(o) = Of(q)
    BY <1>1, <1>7, <2>1
  <2> QED
    BY <1>7, <2>1, <2>2
<1>8. Owners(d, qs, 0)
  BY <1>1, <1>2, <1>4, <1>5, <1>6, <1>7 DEF Owners
<1> QED
  BY <1>2, <1>8 DEF qs

(* The records of s lead from one to the next, and the last one to b. *)
Towards(d, kind, s, b) ==
  /\ IsList(s)
  /\ \A i \in 1 .. Len(s) :
       IsA(d, s[i], kind) /\ d[s[i]].next = IF i = Len(s) THEN b ELSE s[i + 1]
  /\ \A i, j \in 1 .. Len(s) : s[i] = s[j] => i = j

(* A new element at the end of a list without repetition. *)
LEMMA AppendFacts ==
  ASSUME NEW s, IsList(s), NEW b, b \notin ToSet(s),
         \A i, j \in 1 .. Len(s) : s[i] = s[j] => i = j
  PROVE  /\ Len(s) \in Nat /\ IsList(Append(s, b)) /\ Len(Append(s, b)) = Len(s) + 1
         /\ Append(s, b)[Len(s) + 1] = b /\ \A i \in 1 .. Len(s) : Append(s, b)[i] = s[i]
         /\ \A x : x \in ToSet(Append(s, b)) <=> x = b \/ x \in ToSet(s)
         /\ \A i, j \in 1 .. Len(s) + 1 : Append(s, b)[i] = Append(s, b)[j] => i = j
         /\ (IF Len(s) = 0 THEN b ELSE s[1]) = Append(s, b)[1]
<1> DEFINE t == Append(s, b)
           n == Len(s)
<1>1. n \in Nat /\ DOMAIN s = 1 .. n
  BY ListLength
<1>2. /\ IsList(t) /\ Len(t) = n + 1 /\ t[n + 1] = b /\ \A i \in 1 .. n : t[i] = s[i]
      /\ DOMAIN t = 1 .. n + 1
  BY ListAppend, ListLength
<1>3. /\ ToSet(t) = {t[i] : i \in 1 .. n + 1} /\ ToSet(s) = {s[i] : i \in 1 .. n}
      /\ \A i, j \in 1 .. n : s[i] = s[j] => i = j
  BY <1>1, <1>2 DEF ToSet
<1> HIDE DEF n, t
<1>4. \A i \in 1 .. n + 1 : i = n + 1 \/ i \in 1 .. n
  BY <1>1
<1>5. n + 1 \in 1 .. n + 1 /\ \A i \in 1 .. n : i \in 1 .. n + 1
  BY <1>1
<1>6. \A x : x \in ToSet(t) <=> x = b \/ x \in ToSet(s)
  BY <1>2, <1>3, <1>4, <1>5
<1>7. \A i, j \in 1 .. n + 1 : t[i] = t[j] => i = j
  <2>1. \A i \in 1 .. n : t[i] = s[i] /\ s[i] # b
    BY <1>2, <1>3
  <2> QED
    BY <1>2, <1>3, <1>4, <2>1
<1>8. (IF n = 0 THEN b ELSE s[1]) = t[1]
  <2>1. n # 0 => 1 \in 1 .. n
    BY <1>1
  <2> QED
    BY <1>2, <2>1
<1> QED
  BY <1>1, <1>2, <1>6, <1>7, <1>8 DEF n, t

(* A record is added at the end of a list. *)
LEMMA WaySnoc ==
  ASSUME NEW d, NEW kind, NEW s, NEW b, Towards(d, kind, s, b), b \notin ToSet(s),
         IsA(d, b, kind), d[b].next = 0
  PROVE  Way(d, kind, IF Len(s) = 0 THEN b ELSE s[1], Append(s, b))
<1> DEFINE t == Append(s, b)
           n == Len(s)
           z == Len(t)
           a == IF n = 0 THEN b ELSE s[1]
<1>1. /\ IsList(s) /\ \A i, j \in 1 .. n : s[i] = s[j] => i = j
      /\ \A i \in 1 .. n : IsA(d, s[i], kind) /\ d[s[i]].next = IF i = n THEN b ELSE s[i + 1]
  BY DEF Towards
<1>2. /\ n \in Nat /\ IsList(t) /\ z = n + 1 /\ t[n + 1] = b /\ \A i \in 1 .. n : t[i] = s[i]
      /\ \A i, j \in 1 .. n + 1 : t[i] = t[j] => i = j
      /\ a = t[1]
  BY <1>1, AppendFacts
<1> HIDE DEF n, t, z, a
<1>3. a = IF z = 0 THEN 0 ELSE t[1]
  <2>1. z # 0
    BY <1>2
  <2> QED
    BY <1>2, <2>1
<1>4. \A i \in 1 .. z : IsA(d, t[i], kind) /\ d[t[i]].next = IF i = z THEN 0 ELSE t[i + 1]
  <2> TAKE i \in 1 .. z
  <2>1. CASE i = n + 1
    BY <1>2, <2>1
  <2>2. CASE i # n + 1
    <3>1. i \in 1 .. n /\ i # z /\ i \in Nat
      BY <1>2, <2>2
    <3>2. i # n => i + 1 \in 1 .. n
      BY <1>2, <3>1
    <3>3. t[i + 1] = IF i = n THEN b ELSE s[i + 1]
      BY <1>2, <3>2
    <3> QED
      BY <1>1, <1>2, <3>1, <3>3
  <2> QED
    BY <2>1, <2>2
<1>5. Way(d, kind, a, t)
  BY <1>2, <1>3, <1>4 DEF Way, z
<1> QED
  BY <1>5 DEF n, t, a

(* A list that leads to a block that holds something else. *)
LEMMA TowardsTrail ==
  ASSUME NEW d, IsList(d), NEW kind, NEW s, NEW b, Towards(d, kind, s, b), b \notin ToSet(s),
         ~IsA(d, b, kind), b \in 1 .. Len(d) + 1, Len(s) # 0
  PROVE  Trail(d, Link(d, kind, "next"), s[1], Append(s, b))
<1> DEFINE t == Append(s, b)
           n == Len(s)
           z == Len(t)
           y == Len(d)
<1>1. /\ IsList(s) /\ \A i, j \in 1 .. n : s[i] = s[j] => i = j
      /\ \A i \in 1 .. n : IsA(d, s[i], kind) /\ d[s[i]].next = IF i = n THEN b ELSE s[i + 1]
  BY DEF Towards
<1>2. /\ n \in Nat /\ IsList(t) /\ z = n + 1 /\ t[n + 1] = b /\ \A i \in 1 .. n : t[i] = s[i]
      /\ \A i, j \in 1 .. n + 1 : t[i] = t[j] => i = j
      /\ s[1] = t[1] /\ n # 0
  BY <1>1, AppendFacts
<1>3. /\ y \in Nat /\ DOMAIN d = 1 .. y /\ b \in 1 .. y + 1
      /\ \A x \in 0 .. y + 1 : Address(d, x) = x
      /\ \A x \in 1 .. y + 1 :
           Link(d, kind, "next")[x] = IF IsA(d, x, kind) THEN Address(d, d[x].next) ELSE 0
  BY ListLength, LinkIs DEF Address
<1> HIDE DEF n, t, z, y
<1>4. \A i \in 1 .. n : s[i] \in 1 .. y /\ s[i] \in 1 .. y + 1
  BY <1>1, <1>3 DEF IsA
<1>5. \A i \in 1 .. z :
        /\ t[i] \in 1 .. y + 1
        /\ Link(d, kind, "next")[t[i]] = IF i = z THEN 0 ELSE t[i + 1]
  <2> TAKE i \in 1 .. z
  <2>1. CASE i = n + 1
    BY <1>2, <1>3, <2>1
  <2>2. CASE i # n + 1
    <3>1. i \in 1 .. n /\ i # z /\ i \in Nat
      BY <1>2, <2>2
    <3>2. i # n => i + 1 \in 1 .. n
      BY <1>2, <3>1
    <3>3. t[i + 1] = IF i = n THEN b ELSE s[i + 1]
      BY <1>2, <3>2
    <3>4. t[i + 1] \in 1 .. y + 1
      BY <1>3, <1>4, <3>2, <3>3
    <3>5. IsA(d, t[i], kind) /\ d[t[i]].next = t[i + 1] /\ t[i] \in 1 .. y + 1
      BY <1>1, <1>2, <1>4, <3>1, <3>3
    <3>6. Link(d, kind, "next")[t[i]] = Address(d, t[i + 1]) /\ t[i] \in 1 .. y + 1
      BY <1>3, <3>5
    <3>7. t[i + 1] \in 0 .. y + 1
      BY <1>3, <3>4
    <3> QED
      BY <1>3, <3>1, <3>6, <3>7
  <2> QED
    BY <2>1, <2>2
<1>6. s[1] = (IF z = 0 THEN 0 ELSE t[1]) /\ \A i, j \in 1 .. z : t[i] = t[j] => i = j
  BY <1>2
<1> QED
  BY <1>2, <1>5, <1>6 DEF Trail, t, z, y

LEMMA TowardsChain ==
  ASSUME NEW d, IsList(d), NEW kind, NEW s, NEW b, Towards(d, kind, s, b), b \notin ToSet(s),
         ~IsA(d, b, kind), b \in 1 .. Len(d) + 1, Len(s) # 0
  PROVE  Chain(Link(d, kind, "next"), Address(d, s[1])) = Append(s, b)
<1> DEFINE a == s[1]
           t == Append(s, b)
<1>1. Trail(d, Link(d, kind, "next"), a, t)
  BY TowardsTrail
<1> HIDE DEF a, t
<1>2. Chain(Link(d, kind, "next"), Address(d, a)) = t
  BY <1>1, TrailChain
<1> QED
  BY <1>2 DEF a, t

(* The links of a node are changed. *)
LEMMA NodeFields ==
  ASSUME NEW r, NodeRecord(r), NEW x
  PROVE  /\ NodeRecord([r EXCEPT !.next = x]) /\ [r EXCEPT !.next = x].next = x
         /\ [r EXCEPT !.next = x].prev = r.prev /\ [r EXCEPT !.next = x].prop = r.prop
         /\ NodeRecord([r EXCEPT !.prev = x]) /\ [r EXCEPT !.prev = x].prev = x
         /\ [r EXCEPT !.prev = x].next = r.next /\ [r EXCEPT !.prev = x].prop = r.prop
         /\ [r EXCEPT !.next = x].rel = r.rel /\ [r EXCEPT !.prev = x].rel = r.rel
<1> DEFINE N(l, p, n, v) == [kind |-> "node", rel |-> l, prop |-> p, next |-> n, prev |-> v]
<1>1. r = N(r.rel, r.prop, r.next, r.prev)
  BY DEF NodeRecord
<1>2. [r EXCEPT !.next = x] = N(r.rel, r.prop, x, r.prev)
  BY <1>1
<1>3. [r EXCEPT !.prev = x] = N(r.rel, r.prop, r.next, x)
  BY <1>1
<1>4. \A l, p, n, v : NodeRecord(N(l, p, n, v)) /\ N(l, p, n, v).prop = p /\ N(l, p, n, v).next = n
                      /\ N(l, p, n, v).prev = v /\ N(l, p, n, v).rel = l
  BY DEF NodeRecord
<1> HIDE DEF N
<1> QED
  BY <1>2, <1>3, <1>4

(* The list of nodes leads on to the loose block a. *)
Ahead(d, m, ns, ps, h, fl, a) ==
  /\ IsList(d) /\ Kinds(d) /\ Header(m) /\ Free(d, m, fl) /\ Owners(d, ps, h) /\ Related(d, ps)
  /\ Loose(d, ps, fl, a) /\ ~IsA(d, a, "node")
  /\ \A n : n \in DOMAIN ps <=> n = 0 \/ n \in ToSet(ns)
  /\ Towards(d, "node", ns, a)
  /\ \A i \in 1 .. Len(ns) : d[ns[i]].prev = IF i = 1 THEN 0 ELSE ns[i - 1]
  /\ m.first = IF Len(ns) = 0 THEN 0 ELSE ns[1]
  /\ m.last = IF Len(ns) = 0 THEN 0 ELSE ns[Len(ns)]
  /\ m.first \in 0 .. Len(d) /\ m.last \in 0 .. Len(d)

(* A file with the nodes of ns, whatever the links between them are, of which no  *)
(* walk through the list leaves ns but to a block that holds no node.             *)
LEMMA NodesSound ==
  ASSUME NEW d, IsList(d), Kinds(d), NEW m, Header(m), NEW fl, Free(d, m, fl),
         NEW ps, NEW h, Owners(d, ps, h), Related(d, ps),
         m.first \in 0 .. Len(d), m.last \in 0 .. Len(d),
         \A b \in ToSet(NodeChain(d, m.first)) :
           \/ b \in DOMAIN ps /\ b # 0
           \/ /\ ~IsA(d, b, "node")
              /\ b \notin ToSet(fl["static"]) /\ b \notin ToSet(fl["dynamic"]),
         Linked(d, m) => Whole(d, m)
  PROVE  Sound(d, m)
<1>1. Bounded(d, m)
  BY FreeChains DEF Bounded
<1>2. NotFree(d, m)
  <2>1. \A c \in {"static", "dynamic"} : \A b \in ToSet(fl[c]) : IsA(d, b, "free")
    BY WayElements DEF Free
  <2>2. \A b : IsA(d, b, "free") => ~IsA(d, b, "node")
    BY DEF IsA
  <2>3. \A b \in DOMAIN ps : b # 0 => IsA(d, b, "node")
    BY DEF Owners
  <2>4. \A b \in ToSet(NodeChain(d, m.first)) :
          /\ IsA(d, b, "node") => b \in DOMAIN ps /\ b # 0
          /\ b \notin ToSet(fl["static"]) /\ b \notin ToSet(fl["dynamic"])
    BY <2>1, <2>2, <2>3
  <2> QED
    BY <2>4, OwnersNotFree
<1> QED
  BY <1>1, <1>2 DEF Sound

(* The first write of node_write: the last node leads to the block of the new    *)
(* one.  The list cannot be walked both ways before that one is there.           *)
LEMMA AheadOf ==
  ASSUME NEW d, NEW m, NEW ns, NEW ps, NEW h, NEW fl, Full(d, m, ns, ps, h, fl),
         NEW a, Loose(d, ps, fl, a), ~IsA(d, a, "node"),
         NEW e, e = IF m.last = 0 THEN d ELSE PutAt(d, m.last, [d[m.last] EXCEPT !.next = a])
  PROVE  /\ Ahead(e, m, ns, ps, h, fl, a) /\ Spares(d, ps, h, e)
         /\ m.last = 0 <=> Len(ns) = 0
         /\ m.last # 0 => m.last \in 1 .. Len(d) /\ IsA(d, m.last, "node")
<1> DEFINE n == Len(ns)
           last == m.last
           rec == [d[last] EXCEPT !.next = a]
<1>1. /\ IsList(d) /\ Kinds(d) /\ Header(m) /\ Free(d, m, fl) /\ Owners(d, ps, h)
      /\ Related(d, ps) /\ Doubly(d, m, ns) /\ \A x : x \in DOMAIN ps <=> x = 0 \/ x \in ToSet(ns)
  BY DEF Full
<1>2. /\ Way(d, "node", m.first, ns)
      /\ \A i \in 1 .. n : d[ns[i]].prev = IF i = 1 THEN 0 ELSE ns[i - 1]
      /\ last = IF n = 0 THEN 0 ELSE ns[n]
  BY <1>1 DEF Doubly
<1>3. /\ IsList(ns) /\ m.first = IF n = 0 THEN 0 ELSE ns[1]
      /\ \A i \in 1 .. n : IsA(d, ns[i], "node") /\ d[ns[i]].next = IF i = n THEN 0 ELSE ns[i + 1]
      /\ \A i, j \in 1 .. n : ns[i] = ns[j] => i = j
  BY <1>2 DEF Way
<1>4. /\ m.first \in 0 .. Len(d) /\ last \in 0 .. Len(d) /\ n \in Nat
      /\ ToSet(ns) = {ns[i] : i \in 1 .. n} /\ Len(d) \in Nat
      /\ \A x \in ToSet(ns) : IsA(d, x, "node") /\ x \in 1 .. Len(d)
  BY <1>1, NodeChains, ListLength
<1>5. \A x \in ToSet(ns) : NodeRecord(d[x]) /\ x # 0
  <2>1. \A x \in ToSet(ns) : x \in DOMAIN ps /\ x # 0
    BY <1>1, <1>4
  <2> QED
    BY <1>1, <2>1 DEF Owners
<1> HIDE DEF n
<1>6. CASE n = 0
  <2>1. e = d /\ last = 0
    BY <1>2, <1>6
  <2>2. Towards(d, "node", ns, a)
    BY <1>3, <1>6 DEF Towards, n
  <2>3. Ahead(d, m, ns, ps, h, fl, a)
    BY <1>1, <1>2, <1>3, <1>4, <2>2 DEF Ahead, n
  <2>4. Spares(d, ps, h, d)
    BY <1>1, SparesNone
  <2> QED
    BY <1>6, <2>1, <2>3, <2>4 DEF n
<1>7. CASE n # 0
  <2>1. n \in 1 .. n /\ last = ns[n] /\ last \in ToSet(ns)
    BY <1>2, <1>4, <1>7
  <2>2. last # 0 /\ last \in 1 .. Len(d) /\ IsA(d, last, "node") /\ NodeRecord(d[last])
    BY <1>4, <1>5, <2>1
  <2>3. e = PutAt(d, last, rec)
    BY <2>2
  <2>4. NodeRecord(rec) /\ rec.next = a /\ rec.prev = d[last].prev /\ rec.prop = d[last].prop
        /\ rec.rel = d[last].rel
    <3> DEFINE r == d[last]
    <3>1. NodeRecord(r)
      BY <2>2
    <3> HIDE DEF r
    <3>2. LET q == [r EXCEPT !.next = a]
          IN  NodeRecord(q) /\ q.next = a /\ q.prev = r.prev /\ q.prop = r.prop /\ q.rel = r.rel
      BY <3>1, NodeFields
    <3> QED
      BY <3>2 DEF r
  <2> HIDE DEF rec, last
  <2>5. /\ IsList(e) /\ Kinds(e) /\ Free(e, m, fl) /\ Len(e) = Len(d)
        /\ \A b, kind : IsA(e, b, kind) <=> IsA(d, b, kind)
        /\ \A b, kind : IsA(d, b, kind) /\ b # last => e[b] = d[b]
        /\ e[last] = rec
    BY <1>1, <2>2, <2>3, <2>4, NodeWrite
  <2>6. \A x \in ToSet(ns) : /\ IsA(e, x, "node") /\ e[x].prev = d[x].prev
                             /\ e[x].next = IF x = last THEN a ELSE d[x].next
    BY <1>4, <1>5, <2>4, <2>5
  <2>7. last \in DOMAIN ps
    BY <1>1, <2>1
  <2>8. Spares(d, ps, h, e)
    BY <1>1, <2>2, <2>3, <2>4, <2>7, LinkWrite
  <2>9. Owners(e, ps, h) /\ Related(e, ps)
    BY <2>8 DEF Spares
  <2>10. Loose(e, ps, fl, a) /\ ~IsA(e, a, "node")
    BY <2>5, <2>8 DEF Spares
  <2>11. \A i \in 1 .. n : ns[i] \in ToSet(ns) /\ (ns[i] = last <=> i = n)
    BY <1>3, <1>4, <2>1
  <2>12. Towards(e, "node", ns, a)
    BY <1>3, <2>6, <2>11 DEF Towards, n
  <2>13. \A i \in 1 .. n : e[ns[i]].prev = IF i = 1 THEN 0 ELSE ns[i - 1]
    BY <1>2, <2>6, <2>11
  <2>14. Ahead(e, m, ns, ps, h, fl, a)
    BY <1>1, <1>2, <1>3, <1>4, <2>5, <2>9, <2>10, <2>12, <2>13 DEF Ahead, n, last
  <2> QED
    BY <1>7, <2>2, <2>8, <2>14 DEF n, last
<1> QED
  BY <1>6, <1>7

(* The last node leads to a block that is no node yet: the list is not *)
(* linked, and the rest of the file is sound. *)
LEMMA AheadSound ==
  ASSUME NEW d, NEW m, NEW ns, NEW ps, NEW h, NEW fl, NEW a, Ahead(d, m, ns, ps, h, fl, a),
         Len(ns) # 0
  PROVE  Sound(d, m) /\ Graph(d, m) = Picture(d, ns, ps)
<1> DEFINE t == Append(ns, a)
           n == Len(ns)
<1>1. /\ IsList(d) /\ Kinds(d) /\ Header(m) /\ Free(d, m, fl) /\ Owners(d, ps, h)
      /\ Related(d, ps) /\ Loose(d, ps, fl, a) /\ ~IsA(d, a, "node") /\ Towards(d, "node", ns, a)
      /\ \A x : x \in DOMAIN ps <=> x = 0 \/ x \in ToSet(ns)
      /\ m.first = ns[1] /\ m.first \in 0 .. Len(d) /\ m.last \in 0 .. Len(d)
  BY DEF Ahead
<1>2. /\ a \in 1 .. Len(d) + 1 /\ a \notin ToSet(ns)
      /\ a \notin ToSet(fl["static"]) /\ a \notin ToSet(fl["dynamic"])
  BY <1>1 DEF Loose
<1>3. NodeChain(d, m.first) = t
  BY <1>1, <1>2, TowardsChain DEF NodeChain
<1>4. /\ n \in Nat /\ Len(t) = n + 1 /\ t[n + 1] = a /\ IsList(t)
      /\ \A x : x \in ToSet(t) <=> x = a \/ x \in ToSet(ns)
  BY <1>1, <1>2, AppendFacts DEF Towards
<1>5. DOMAIN t = 1 .. n + 1
  BY <1>4, ListLength
<1> HIDE DEF t, n
<1>6. \A x \in ToSet(ns) : x \in 1 .. Len(d)
  <2>1. DOMAIN ns = 1 .. Len(ns)
    BY <1>1, ListLength DEF Towards
  <2>2. \A i \in 1 .. Len(ns) : ns[i] \in DOMAIN d
    BY <1>1 DEF Towards, IsA
  <2> QED
    BY <1>1, <2>1, <2>2, ListLength DEF ToSet
<1>7. \A b \in ToSet(t) : \/ b \in DOMAIN ps /\ b # 0
                          \/ /\ ~IsA(d, b, "node")
                             /\ b \notin ToSet(fl["static"]) /\ b \notin ToSet(fl["dynamic"])
  BY <1>1, <1>2, <1>4, <1>6
<1>8. ~Linked(d, m)
  <2>1. n + 1 \in DOMAIN t
    BY <1>4, <1>5
  <2>2. Linked(d, m) => IsA(d, t[n + 1], "node")
    BY <1>3, <2>1 DEF Linked
  <2> QED
    BY <1>1, <1>4, <2>2
<1>9. Sound(d, m)
  BY <1>1, <1>3, <1>7, <1>8, NodesSound
<1>10. Graph(d, m) = Picture(d, ns, ps)
  <2>1. Trail(d, Link(d, "node", "next"), m.first, t)
    BY <1>1, <1>2, TowardsTrail DEF t
  <2>2. \A i \in 1 .. Len(t) :
          IF i <= Len(ns) THEN t[i] = ns[i] /\ IsA(d, t[i], "node") /\ t[i] \in DOMAIN ps /\ t[i] # 0
          ELSE ~IsA(d, t[i], "node")
    <3> TAKE i \in 1 .. Len(t)
    <3>1. CASE i <= n
      <4>1. i \in 1 .. n
        BY <1>4, <3>1
      <4>2. t[i] = ns[i] /\ IsA(d, ns[i], "node")
        BY <1>1, <1>2, <1>4, <4>1, AppendFacts DEF Towards, t, n
      <4>3. ns[i] \in ToSet(ns)
        BY <1>1, <4>1, ListLength DEF Towards, ToSet, n
      <4>4. ns[i] \in DOMAIN ps /\ ns[i] # 0
        BY <1>1, <1>6, <4>3
      <4> QED
        BY <3>1, <4>2, <4>4 DEF n
    <3>2. CASE ~(i <= n)
      <4>1. i = n + 1
        BY <1>4, <3>2
      <4> QED
        BY <1>1, <1>4, <3>2, <4>1 DEF n
    <3> QED
      BY <3>1, <3>2
  <2>3. Len(ns) \in Nat /\ Len(ns) <= Len(t)
    BY <1>4 DEF n
  <2> QED
    BY <1>1, <2>1, <2>2, <2>3, TrailGraph
<1> QED
  BY <1>9, <1>10

(* The new ends of a header. *)
WithEnds(m, x, y) == [m EXCEPT !.first = x, !.last = y]

(* The new ends leave the free lists of the header alone. *)
LEMMA HeaderEnds ==
  ASSUME NEW m, Header(m), NEW x, NEW y
  PROVE  /\ Header(WithEnds(m, x, y))
         /\ WithEnds(m, x, y).first = x /\ WithEnds(m, x, y).last = y
         /\ WithEnds(m, x, y).free = m.free
<1> DEFINE k == WithEnds(m, x, y)
           f == m.free
<1>1. m = [first |-> m.first, last |-> m.last, free |-> f]
      /\ f = [static |-> f.static, dynamic |-> f.dynamic]
  BY DEF Header
<1> HIDE DEF f
<1>2. k = [first |-> x, last |-> y, free |-> f]
  <2> DEFINE u == [m EXCEPT !.first = x]
  <2>1. u = [first |-> x, last |-> m.last, free |-> f]
    BY <1>1
  <2>2. k = [u EXCEPT !.last = y]
    BY DEF WithEnds
  <2> HIDE DEF u, k
  <2> QED
    BY <2>1, <2>2
<1>3. k.first = x /\ k.last = y /\ k.free = f
  BY <1>2
<1> HIDE DEF k
<1>4. Header(k)
  BY <1>1, <1>2, <1>3 DEF Header
<1> QED
  BY <1>3, <1>4 DEF k, f

(* The second write: the new node, which the header does not name yet; with the  *)
(* third the file is in order again.                                             *)
NewNode(prop, last) == [kind |-> "node", rel |-> 0, prop |-> prop, next |-> 0, prev |-> last]

(* The new node is written behind the last one; under the header with the new *)
(* ends the file is in order, under the old one it is sound. *)
Grown(d, m, ns, ps, h, fl, a, e, k) ==
  /\ Full(e, k, Append(ns, a), Given(ps, a), 0, fl)
  /\ Chained(d, ps) => Chained(e, Given(ps, a))
  /\ NoLeak(d, ps, fl, {a}) => NoLeak(e, Given(ps, a), fl, {})
  /\ Graph(e, k) = Append(Picture(d, ns, ps), Read(d, ps[0]))
  /\ Len(ns) # 0 => Sound(e, m) /\ Graph(e, m) = Graph(e, k)

LEMMA AheadWrite ==
  ASSUME NEW d, NEW m, NEW ns, NEW ps, NEW h, NEW fl, NEW a, Ahead(d, m, ns, ps, h, fl, a),
         NEW e, e = PutAt(d, a, NewNode(h, m.last)),
         NEW k, k = WithEnds(m, IF m.first = 0 THEN a ELSE m.first, a)
  PROVE  Grown(d, m, ns, ps, h, fl, a, e, k)
<1> DEFINE t == Append(ns, a)
           n == Len(ns)
           qs == Given(ps, a)
           rec == NewNode(h, m.last)
<1>1. /\ IsList(d) /\ Kinds(d) /\ Header(m) /\ Free(d, m, fl) /\ Owners(d, ps, h)
      /\ Related(d, ps) /\ Loose(d, ps, fl, a) /\ ~IsA(d, a, "node") /\ Towards(d, "node", ns, a)
      /\ \A x : x \in DOMAIN ps <=> x = 0 \/ x \in ToSet(ns)
      /\ \A i \in 1 .. n : d[ns[i]].prev = IF i = 1 THEN 0 ELSE ns[i - 1]
      /\ m.first = IF n = 0 THEN 0 ELSE ns[1]
      /\ m.last = IF n = 0 THEN 0 ELSE ns[n]
      /\ m.first \in 0 .. Len(d) /\ m.last \in 0 .. Len(d)
  BY DEF Ahead
<1>2. /\ a \in 1 .. Len(d) + 1 /\ a \notin DOMAIN ps /\ a \notin Props(ps) /\ a \notin ToSet(ns)
      /\ a \notin ToSet(fl["static"]) /\ a \notin ToSet(fl["dynamic"])
      /\ \A p \in Props(ps) : a \notin Chunks(d[p])
      /\ ~IsA(d, a, "relationship") /\ \A r : IsA(d, r, "relationship") => a # d[r].type
  BY <1>1 DEF Loose
<1>3. /\ rec.kind = "node" /\ rec.next = 0 /\ rec.prev = m.last /\ rec.prop = h
      /\ rec.rel = 0 /\ NodeRecord(rec)
  BY DEF NewNode, NodeRecord
<1>4. /\ IsList(ns) /\ \A i, j \in 1 .. n : ns[i] = ns[j] => i = j
      /\ \A i \in 1 .. n : IsA(d, ns[i], "node") /\ d[ns[i]].next = IF i = n THEN a ELSE ns[i + 1]
  BY <1>1 DEF Towards
<1>5. /\ n \in Nat /\ Len(t) = n + 1 /\ t[n + 1] = a /\ IsList(t)
      /\ \A i \in 1 .. n : t[i] = ns[i]
      /\ \A x : x \in ToSet(t) <=> x = a \/ x \in ToSet(ns)
      /\ (IF n = 0 THEN a ELSE ns[1]) = t[1]
  BY <1>2, <1>4, AppendFacts
<1>6. DOMAIN ns = 1 .. n /\ DOMAIN t = 1 .. n + 1
  BY <1>4, <1>5, ListLength
<1>7. \A x \in ToSet(ns) : x # a /\ IsA(d, x, "node")
  <2>1. ToSet(ns) = {ns[i] : i \in 1 .. n}
    BY <1>6 DEF ToSet
  <2> HIDE DEF n
  <2> QED
    BY <1>2, <1>4, <2>1
<1> HIDE DEF rec, t, n, qs
<1>8. /\ IsList(e) /\ Len(d) \in Nat /\ Len(e) \in Nat /\ Len(d) <= Len(e) /\ a <= Len(e)
      /\ DOMAIN d = 1 .. Len(d) /\ DOMAIN e = 1 .. Len(e)
      /\ e[a] = rec
      /\ \A b \in 1 .. Len(d) : b # a => e[b] = d[b]
      /\ \A b \in 1 .. Len(e) : b = a \/ b \in 1 .. Len(d)
  BY <1>1, <1>2, PutFacts DEF rec
<1>9. \A b, kind : IsA(d, b, kind) /\ b # a => IsA(e, b, kind) /\ e[b] = d[b]
  <2> SUFFICES ASSUME NEW b, NEW kind, IsA(d, b, kind), b # a PROVE IsA(e, b, kind) /\ e[b] = d[b]
    OBVIOUS
  <2>1. b \in 1 .. Len(d) /\ d[b].kind = kind
    BY <1>8 DEF IsA
  <2>2. b \in 1 .. Len(e) /\ e[b] = d[b]
    BY <1>8, <2>1
  <2> QED
    BY <1>8, <2>1, <2>2 DEF IsA
<1>10. IsA(e, a, "node") /\ Kinds(e)
  <2>1. a \in 1 .. Len(e)
    BY <1>2, <1>8
  <2>2. Kinds(e)
    BY <1>1, <1>3, <1>8 DEF Kinds
  <2> QED
    BY <1>3, <1>8, <2>1, <2>2 DEF IsA
<1>11. Free(e, m, fl)
  <2>1. \A c \in Class : \A b \in ToSet(fl[c]) : IsA(d, b, "free") /\ b # a
    BY <1>1, <1>2, WayElements DEF Free, Class
  <2>2. \A c \in Class : \A b \in ToSet(fl[c]) : IsA(e, b, "free") /\ e[b] = d[b]
    BY <1>9, <2>1
  <2>3. Free(d, m, fl)
    BY <1>1
  <2> QED
    BY <2>2, <2>3, FreeFrame
<1>12. Owners(e, ps, h)
  <2>1. /\ \A p \in Props(ps) : IsA(d, p, "property") /\ p # a
        /\ \A p \in Props(ps) : \A c \in Chunks(d[p]) : IsA(d, c, "chunk") /\ c # a
    BY <1>1, <1>2, WayElements DEF Owners, Props
  <2>2. \A p \in Props(ps) :
          IsA(e, p, "property") /\ e[p] = d[p] /\ \A c \in Chunks(d[p]) : IsA(e, c, "chunk")
    BY <1>9, <2>1
  <2>3. \A x \in DOMAIN ps :
          x # 0 => IsA(e, x, "node") /\ NodeRecord(e[x]) /\ e[x].prop = d[x].prop
    BY <1>1, <1>7, <1>9 DEF Owners
  <2> QED
    BY <1>1, <2>2, <2>3, OwnersFrame
<1>13. /\ Owners(e, qs, 0)
       /\ \A x : x \in DOMAIN qs <=> x = a \/ x \in DOMAIN ps
  BY <1>2, <1>3, <1>8, <1>10, <1>12, OwnersGive DEF qs
<1>14. \A i \in 1 .. n : IsA(e, ns[i], "node") /\ e[ns[i]] = d[ns[i]]
  <2>1. \A i \in 1 .. n : ns[i] \in ToSet(ns)
    BY <1>6 DEF ToSet
  <2> QED
    BY <1>7, <1>9, <2>1
<1>15. Towards(e, "node", ns, a)
  BY <1>4, <1>14 DEF Towards, n
<1>16. Way(e, "node", t[1], t)
  <2>1. Way(e, "node", IF Len(ns) = 0 THEN a ELSE ns[1], Append(ns, a))
    BY <1>2, <1>3, <1>8, <1>10, <1>15, WaySnoc
  <2> QED
    BY <1>5, <2>1 DEF n, t
<1>17. \A i \in 1 .. n + 1 : e[t[i]].prev = IF i = 1 THEN 0 ELSE t[i - 1]
  <2> TAKE i \in 1 .. n + 1
  <2>1. CASE i = n + 1
    <3>1. e[t[i]].prev = IF n = 0 THEN 0 ELSE ns[n]
      BY <1>1, <1>3, <1>5, <1>8, <2>1
    <3>2. n # 0 => n \in 1 .. n
      BY <1>5
    <3> QED
      BY <1>5, <2>1, <3>1, <3>2
  <2>2. CASE i # n + 1
    <3>1. i \in 1 .. n
      BY <1>5, <2>2
    <3>2. i # 1 => i - 1 \in 1 .. n
      BY <1>5, <3>1
    <3> QED
      BY <1>1, <1>5, <1>14, <3>1, <3>2
  <2> QED
    BY <2>1, <2>2
<1>18. Header(k) /\ k.last = a /\ k.first = t[1] /\ k.free = m.free
  <2>1. n # 0 => ns[1] # 0
    <3>1. n # 0 => 1 \in 1 .. n
      BY <1>5
    <3>2. n # 0 => IsA(d, ns[1], "node")
      BY <1>4, <3>1
    <3> QED
      BY <1>8, <3>2 DEF IsA
  <2>2. t[1] = IF m.first = 0 THEN a ELSE m.first
    BY <1>1, <1>5, <2>1
  <2> QED
    BY <1>1, <2>2, HeaderEnds
<1>22. /\ \A p \in Props(ps) : IsA(d, p, "property") /\ e[p] = d[p]
       /\ \A p \in Props(ps) : \A c \in Chunks(d[p]) :
            IsA(d, c, "chunk") /\ Text(e, c) = Text(d, c)
       /\ Props(qs) = Props(ps) /\ qs[a] = ps[0] /\ \A o \in DOMAIN ps : o # 0 => qs[o] = ps[o]
  <2>1. /\ \A p \in Props(ps) : IsA(d, p, "property") /\ p # a
        /\ \A p \in Props(ps) : \A c \in Chunks(d[p]) : IsA(d, c, "chunk") /\ c # a
    BY <1>1, <1>2, WayElements DEF Owners, Props
  <2>2. \A c : IsA(d, c, "chunk") /\ c # a => Text(e, c) = Text(d, c)
    BY <1>9 DEF Text
  <2>3. /\ qs[a] = ps[0] /\ qs[0] = <<>> /\ 0 \in DOMAIN ps /\ a # 0
        /\ \A o \in DOMAIN ps : o # 0 => qs[o] = ps[o]
    BY <1>1, <1>2 DEF Owners, Given, qs
  <2>4. ToSet(<<>>) = {}
    BY DEF ToSet
  <2>5. \A p : p \in Props(qs) <=> p \in Props(ps)
    <3>1. \A p : p \in Props(qs) => p \in Props(ps)
      BY <1>13, <2>3, <2>4 DEF Props
    <3>2. \A p : p \in Props(ps) => p \in Props(qs)
      BY <1>13, <2>3 DEF Props
    <3> QED
      BY <3>1, <3>2
  <2> QED
    BY <1>9, <2>1, <2>2, <2>3, <2>5
<1>21. Related(e, qs) /\ (Chained(d, ps) => Chained(e, qs))
  <2>1. \A r : IsA(e, r, "relationship") <=> IsA(d, r, "relationship")
    <3>1. \A r : IsA(e, r, "relationship") /\ r # a => IsA(d, r, "relationship")
      BY <1>8 DEF IsA
    <3>2. ~IsA(e, a, "relationship")
      BY <1>10 DEF IsA
    <3> QED
      BY <1>2, <1>9, <3>1, <3>2
  <2>2. \A r : IsA(d, r, "relationship") =>
          /\ e[r] = d[r] /\ IsA(e, d[r].type, "chunk")
          /\ \A x \in Ends(d[r]) : x \in DOMAIN qs
          /\ \A p \in Props(qs) : d[r].type \notin Chunks(e[p])
    <3>1. \A r : IsA(d, r, "relationship") => RelationAt(d, ps, r)
      BY <1>1 DEF Related
    <3>2. \A p \in Props(qs) : e[p] = d[p] /\ p \in Props(ps)
      BY <1>22
    <3> QED
      BY <1>2, <1>9, <1>13, <3>1, <3>2 DEF RelationAt
  <2>3. \A x \in DOMAIN qs :
          x # 0 => IF x \in DOMAIN ps THEN e[x].rel = d[x].rel ELSE e[x].rel = 0
    <3>1. \A x \in DOMAIN ps : x # 0 => IsA(d, x, "node") /\ x # a
      BY <1>1, <1>2 DEF Owners
    <3> QED
      BY <1>3, <1>8, <1>9, <1>13, <3>1
  <2>4. Related(d, ps)
    BY <1>1
  <2> QED
    BY <2>1, <2>2, <2>3, <2>4, RelatedFrame
<1>19. Full(e, k, t, qs, 0, fl)
  <2>1. Doubly(e, k, t)
    <3>1. Len(t) # 0 /\ Len(t) = n + 1
      BY <1>5
    <3> QED
      BY <1>5, <1>16, <1>17, <1>18, <3>1 DEF Doubly
  <2>2. Free(e, k, fl)
    BY <1>11, <1>18 DEF Free
  <2>3. \A x : x \in DOMAIN qs <=> x = 0 \/ x \in ToSet(t)
    BY <1>1, <1>5, <1>13
  <2> QED
    BY <1>8, <1>10, <1>13, <1>18, <1>21, <2>1, <2>2, <2>3 DEF Full
<1>20. ASSUME n # 0 PROVE Sound(e, m)
  <2>1. m.first = t[1] /\ m.last = t[n] /\ n \in 1 .. n
    BY <1>1, <1>5, <1>20
  <2>2. NodeChain(e, m.first) = t
    BY <1>8, <1>16, <2>1, WayChain DEF NodeChain
  <2>3. \A b \in ToSet(t) : b \in DOMAIN qs /\ b # 0
    <3>1. a # 0 /\ \A x \in ToSet(ns) : x # 0
      BY <1>2, <1>7, <1>8 DEF IsA
    <3> QED
      BY <1>1, <1>5, <1>13, <3>1
  <2>4. ~Linked(e, m)
    <3>1. t # <<>> /\ Last(t) = a
      <4>1. t # <<>>
        BY <1>5, <1>20
      <4> QED
        BY <1>5, <4>1 DEF Last
    <3>2. t[n] # a
      BY <1>2, <1>5, <1>6, <2>1 DEF ToSet
    <3> QED
      BY <2>1, <2>2, <3>1, <3>2 DEF Linked
  <2>5. m.first \in 0 .. Len(e) /\ m.last \in 0 .. Len(e)
    BY <1>1, <1>8
  <2> QED
    BY <1>1, <1>8, <1>10, <1>11, <1>13, <1>21, <2>2, <2>3, <2>4, <2>5, NodesSound
<1>23. ASSUME NoLeak(d, ps, fl, {a}) PROVE NoLeak(e, qs, fl, {})
  <2> SUFFICES ASSUME crashes = 0, NEW b \in 1 .. Len(e), Loose(e, qs, fl, b)
               PROVE  e[b] = Junk
    BY DEF NoLeak
  <2>1. b # a /\ b \in 1 .. Len(d)
    BY <1>8, <1>13 DEF Loose
  <2>2. \A r : IsA(d, r, "relationship") => IsA(e, r, "relationship") /\ e[r] = d[r]
    BY <1>2, <1>9
  <2>3. Loose(d, ps, fl, b)
    <3>1. b \in 1 .. Len(d) + 1
      BY <1>8, <2>1
    <3>2. \A p \in Props(ps) : b \notin Chunks(d[p])
      BY <1>22 DEF Loose
    <3>3. \A r : IsA(d, r, "relationship") => b # d[r].type /\ b # r
      BY <2>2 DEF Loose
    <3> QED
      BY <1>13, <1>22, <3>1, <3>2, <3>3 DEF Loose
  <2>4. d[b] = Junk
    BY <1>23, <2>1, <2>3 DEF NoLeak
  <2> QED
    BY <1>8, <2>1, <2>4
<1>24. Graph(e, k) = Append(Picture(d, ns, ps), Read(d, ps[0]))
  <2>1. ASSUME NEW p \in Props(ps) PROVE PropertyAt(e, p) = PropertyAt(d, p)
    <3>1. e[p] = d[p] /\ \A c \in Chunks(d[p]) : Text(e, c) = Text(d, c)
      BY <1>22
    <3> QED
      BY <3>1 DEF PropertyAt, Chunks
  <2>2. ASSUME NEW o \in DOMAIN ps PROVE Read(e, ps[o]) = Read(d, ps[o])
    <3>1. Way(d, "property", Head0(d, h, o), ps[o])
      BY <1>1 DEF Owners
    <3>2. \A j \in 1 .. Len(ps[o]) : ps[o][j] \in Props(ps)
      BY <3>1, WayElements DEF Props
    <3> QED
      BY <2>1, <3>2 DEF Read
  <2>3. 0 \in DOMAIN ps
    BY <1>1 DEF Owners
  <2>4. \A i \in 1 .. n : Read(e, qs[t[i]]) = Read(d, ps[ns[i]])
    <3> TAKE i \in 1 .. n
    <3>1. ns[i] \in ToSet(ns)
      BY <1>6 DEF ToSet
    <3>2. ns[i] \in DOMAIN ps /\ ns[i] # 0
      <4>1. IsA(d, ns[i], "node")
        BY <1>4
      <4> QED
        BY <1>1, <1>8, <3>1, <4>1 DEF IsA
    <3> QED
      BY <1>5, <1>22, <2>2, <3>2
  <2>5. Read(e, qs[t[n + 1]]) = Read(d, ps[0])
    BY <1>5, <1>22, <2>2, <2>3
  <2> DEFINE u == Picture(d, ns, ps)
             w == Picture(e, t, qs)
             x == Read(d, ps[0])
  <2>6. u = [i \in 1 .. n |-> Read(d, ps[ns[i]])]
    BY DEF Picture, n
  <2>7. w = [i \in 1 .. n + 1 |-> IF i <= n THEN u[i] ELSE x]
    <3>1. w = [i \in 1 .. n + 1 |-> Read(e, qs[t[i]])]
      BY <1>5 DEF Picture
    <3>2. \A i \in 1 .. n + 1 : Read(e, qs[t[i]]) = IF i <= n THEN u[i] ELSE x
      <4> TAKE i \in 1 .. n + 1
      <4>1. CASE i <= n
        <5>1. i \in 1 .. n
          BY <1>5, <4>1
        <5> HIDE DEF x, w
        <5> QED
          BY <2>4, <2>6, <4>1, <5>1
      <4>2. CASE ~(i <= n)
        <5>1. i = n + 1
          BY <1>5, <4>2
        <5> QED
          BY <2>5, <4>2, <5>1
      <4> QED
        BY <4>1, <4>2
    <3> HIDE DEF u, w, x
    <3> QED
      BY <3>1, <3>2
  <2>8. w = Append(u, x)
    <3> DEFINE T == {u[i] : i \in 1 .. n} \cup {x}
    <3>1. n \in Nat
      BY <1>5
    <3> HIDE DEF x
    <3>2. u \in [1 .. n -> T]
      BY <2>6
    <3>3. x \in T
      OBVIOUS
    <3> HIDE DEF u, w, T
    <3>4. u \in Seq(T) /\ Len(u) = n
      BY <3>1, <3>2, ListOf
    <3>5. /\ Append(u, x) \in Seq(T) /\ Len(Append(u, x)) = n + 1
          /\ \A i \in 1 .. n + 1 : Append(u, x)[i] = IF i <= n THEN u[i] ELSE x
      BY <3>1, <3>3, <3>4
    <3>6. Append(u, x) \in [1 .. n + 1 -> T]
      <4> DEFINE v == Append(u, x)
      <4>1. v \in Seq(T) /\ Len(v) = n + 1
        BY <3>5
      <4> HIDE DEF v
      <4>2. v \in [1 .. Len(v) -> T]
        BY <4>1
      <4> QED
        BY <4>1, <4>2 DEF v
    <3>7. Append(u, x) = [i \in 1 .. n + 1 |-> Append(u, x)[i]]
      BY <3>6
    <3> QED
      BY <2>7, <3>5, <3>7
  <2>9. Graph(e, k) = w
    BY <1>19, GraphIs
  <2> QED
    BY <2>8, <2>9
<1>25. n # 0 => Graph(e, m) = Graph(e, k)
  <2>1. n # 0 => m.first = t[1] /\ m.first = k.first
    BY <1>1, <1>5, <1>18
  <2> QED
    BY <2>1 DEF Graph
<1> QED
  BY <1>19, <1>20, <1>21, <1>23, <1>24, <1>25 DEF Grown, t, qs, n

(* get_available_space never gives the block of a node. *)
LEMMA AvailableNoNode ==
  ASSUME NEW d, NEW m, NEW ns, NEW ps, NEW h, NEW fl, Full(d, m, ns, ps, h, fl),
         NEW class \in Class, NEW s, s.disk = d, s.meta = m
  PROVE  ~IsA(d, Available(s, class), "node")
<1> DEFINE a == m.free[class]
<1>1. IsList(d) /\ Free(d, m, fl)
  BY DEF Full
<1>2. Way(d, "free", a, fl[class])
  BY <1>1 DEF Free, Class
<1>3. Len(d) \in Nat /\ DOMAIN d = 1 .. Len(d)
  BY <1>1, ListLength
<1> HIDE DEF a
<1>4. a # 0 => IsA(d, a, "free")
  <2>1. a = IF Len(fl[class]) = 0 THEN 0 ELSE fl[class][1]
    BY <1>2 DEF Way
  <2>2. Len(fl[class]) \in Nat
    BY <1>2, WayElements
  <2>3. Len(fl[class]) # 0 => 1 \in 1 .. Len(fl[class])
    BY <2>2
  <2> QED
    BY <1>2, <2>1, <2>3 DEF Way
<1>5. Available(s, class) = IF a = 0 THEN Len(d) + 1 ELSE a
  BY DEF Available, a
<1> QED
  BY <1>3, <1>4, <1>5 DEF IsA

(* node_write with addr = 0 puts the properties in hand on a node of the list. *)
LEMMA InsertNodeGood ==
  ASSUME NEW f, NEW s, NEW ns, NEW ps, NEW h, Good(f, s, ns, ps, h, {}),
         f.graph = View(FileOf(f))
  PROVE  \E rs, qs : /\ Good(Shown(f, Append(f.graph, Read(s.disk, ps[0]))),
                             InsertNode(s, Node(0, h)), rs, qs, 0, {})
                     /\ Extends(rs, ns)
<1> DEFINE a == Available(s, "static")
           t == Take(s, "static")
           d == t.disk
           m == t.meta
           last == m.last
           rec1 == [d[last] EXCEPT !.next = a]
           u == IF last = 0 THEN t ELSE Write(t, last, rec1)
           rec2 == [Node(0, h) EXCEPT !.prev = last]
           v == Write(u, a, rec2)
           x == [v EXCEPT !.meta.last = a, !.meta.first = IF @ = 0 THEN a ELSE @]
           e1 == IF last = 0 THEN d ELSE PutAt(d, last, rec1)
           e2 == PutAt(e1, a, NewNode(h, last))
           k == WithEnds(m, IF m.first = 0 THEN a ELSE m.first, a)
           o == FileOf(f)
           new == Append(f.graph, Read(s.disk, ps[0]))
<1>1. "static" \in Class
  BY DEF Class
<1>2. InsertNode(s, Node(0, h)) = SaveMeta(x)
  BY DEF InsertNode
<1>3. /\ Good(f, t, ns, ps, h, {} \cup {a}) /\ d = s.disk
      /\ ~IsA(d, a, "node")
  <2>1. Len(s.disk) + 1 \notin {}
    OBVIOUS
  <2>2. Good(f, t, ns, ps, h, {} \cup {a}) /\ d = s.disk
    BY <1>1, <2>1, GoodTake
  <2>3. PICK fl : Full(s.disk, s.meta, ns, ps, h, fl)
    BY DEF Good, Part
  <2> QED
    BY <1>1, <2>2, <2>3, AvailableNoNode
<1> HIDE DEF a, t
<1>4. PICK fl : Full(d, m, ns, ps, h, fl) /\ Loose(d, ps, fl, a) /\ NoLeak(d, ps, fl, {a})
  BY <1>3 DEF Good, Part
<1>5. /\ IsState(t) /\ IsList(t.log) /\ IsList(d) /\ Reached(o, t.log, [disk |-> d, meta |-> m])
      /\ Graph(d, m) = f.graph /\ (f.exact => Chained(d, ps)) /\ s.disk = d
      /\ Stays(f.disk, d)
  BY <1>3, GoodState DEF Good
<1> HIDE DEF d, m, o
<1>20. Graph(d, m) = Picture(d, ns, ps) /\ Graph(d, m) = View(o)
  BY <1>4, <1>5, GraphIs DEF o
<1>6. /\ Ahead(e1, m, ns, ps, h, fl, a) /\ Spares(d, ps, h, e1)
      /\ last = 0 <=> Len(ns) = 0
      /\ last # 0 => last \in 1 .. Len(d) /\ IsA(d, last, "node")
  BY <1>3, <1>4, AheadOf
<1>23. Stays(f.disk, e1)
  <2>1. CASE last = 0
    BY <1>5, <2>1
  <2>2. CASE last # 0
    BY <1>4, <1>5, <1>6, <2>2, StaysApart DEF Full
  <2> QED
    BY <2>1, <2>2
<1>24. Stays(f.disk, e2) /\ IsList(ns)
  <2> HIDE DEF e1
  <2> QED
    BY <1>6, <1>23, StaysLoose DEF Ahead, Towards
<1>7. IsList(e1) /\ a \in 1 .. Len(e1) + 1
  BY <1>6 DEF Ahead, Loose
<1>21. Graph(e1, m) = Graph(d, m) /\ Picture(e1, ns, ps) = Graph(d, m)
       /\ Read(e1, ps[0]) = Read(d, ps[0]) /\ IsList(ns)
  <2>1. \A i \in 1 .. Len(ns) : ns[i] \in DOMAIN ps
    BY <1>4, WayElements DEF Full, Doubly
  <2> HIDE DEF e1
  <2>6. Spares(d, ps, h, e1)
    BY <1>6
  <2>7. Picture(e1, ns, ps) = Picture(d, ns, ps)
    BY <2>1, <2>6, SparesPicture
  <2>2. Picture(e1, ns, ps) = Graph(d, m)
    BY <1>20, <2>7
  <2>3. Read(e1, ps[0]) = Read(d, ps[0]) /\ IsList(ns)
    BY <1>6 DEF Spares, Owners, Ahead, Towards
  <2>4. CASE last = 0
    BY <2>2, <2>3, <2>4 DEF e1
  <2>5. CASE last # 0
    BY <1>6, <2>2, <2>3, <2>5, AheadSound
  <2> QED
    BY <2>4, <2>5
<1>8. IsState(u) /\ u.disk = e1 /\ u.meta = m /\ Reached(o, u.log, [disk |-> e1, meta |-> m])
  <2>1. CASE last = 0
    BY <1>5, <2>1 DEF d, m
  <2>2. CASE last # 0
    <3>1. Sound(e1, m)
      BY <1>6, <2>2, AheadSound
    <3>2. last \in 1 .. Len(d) + 1
      BY <1>5, <1>6, <2>2, ListLength
    <3> HIDE DEF rec1, last
    <3>3. u = Write(t, last, rec1) /\ e1 = PutAt(d, last, rec1)
      BY <2>2
    <3>4. IsState(u) /\ u.disk = e1 /\ u.meta = m /\ u.log = Append(t.log, [at |-> last, data |-> rec1])
      BY <1>5, <3>3, WriteState DEF d, m
    <3> HIDE DEF u, e1
    <3>6. Graph(e1, m) = Graph(d, m)
      BY <1>21
    <3>5. Reached(o, Append(t.log, [at |-> last, data |-> rec1]), [disk |-> e1, meta |-> m])
      BY <1>5, <3>1, <3>2, <3>3, <3>6, ReachedWrite
    <3> QED
      BY <3>4, <3>5
  <2> QED
    BY <2>1, <2>2
<1>9. rec2 = NewNode(h, last)
  <2> HIDE DEF last
  <2> QED
    BY DEF Node, NewNode
<1> HIDE DEF e1, u, rec2
<1>10. /\ IsState(v) /\ v.disk = e2 /\ v.meta = m
       /\ v.log = Append(u.log, [at |-> a, data |-> rec2])
  BY <1>8, <1>9, WriteState
<1>11. Grown(e1, m, ns, ps, h, fl, a, e2, k)
  BY <1>6, AheadWrite
<1>12. Sound(e2, m) /\ (Graph(e2, m) = Graph(e2, k) \/ Graph(e2, m) = Graph(d, m))
  <2>1. CASE Len(ns) = 0
    <3>1. e1 = d
      BY <1>6, <2>1 DEF e1
    <3>2. NewNode(h, last).kind \in Kind
      BY DEF NewNode, Kind
    <3>3. Full(e2, m, ns, ps, h, fl) /\ Graph(e2, m) = Graph(d, m)
      BY <1>4, <3>1, <3>2, LooseWrite
    <3> QED
      BY <3>3, FullSound
  <2> QED
    BY <1>11, <2>1 DEF Grown
<1>13. Reached(o, v.log, [disk |-> v.disk, meta |-> m])
  <2>1. IsList(u.log)
    BY <1>8 DEF IsState
  <2> DEFINE rec == NewNode(h, last)
  <2>2. e2 = PutAt(e1, a, rec) /\ v.log = Append(u.log, [at |-> a, data |-> rec]) /\ v.disk = e2
    BY <1>9, <1>10
  <2> HIDE DEF rec, e2, v
  <2>4. Graph(e1, m) = View(o)
    BY <1>20, <1>21
  <2>3. Reached(o, Append(u.log, [at |-> a, data |-> rec]), [disk |-> e2, meta |-> m])
    BY <1>7, <1>8, <1>12, <2>1, <2>2, <2>4, ReachedWrite
  <2> QED
    BY <2>2, <2>3
<1> HIDE DEF v, e2
<1>14. x = [v EXCEPT !.meta = k]
  <2>1. v = [disk |-> v.disk, meta |-> v.meta, log |-> v.log] /\ v.meta = m
    BY <1>10 DEF IsState
  <2>2. Header(m)
    BY <1>4 DEF Full
  <2>3. m = [first |-> m.first, last |-> m.last, free |-> m.free]
    BY <2>2 DEF Header
  <2> DEFINE b == IF m.first = 0 THEN a ELSE m.first
             m1 == [m EXCEPT !.last = a]
             m2 == [m EXCEPT !.first = b]
             v1 == [v EXCEPT !.meta = m1]
  <2>4. m1 = [first |-> m.first, last |-> a, free |-> m.free] /\ m1.first = m.first
    BY <2>3
  <2>5. v1 = [v EXCEPT !.meta.last = a] /\ v1.meta = m1
    BY <2>1
  <2>6. x = [v1 EXCEPT !.meta.first = IF @ = 0 THEN a ELSE @]
    <3> DEFINE w == [v EXCEPT !.meta.last = a]
    <3>1. x = [w EXCEPT !.meta.first = IF @ = 0 THEN a ELSE @]
      BY Zenon
    <3>2. w = v1
      BY <2>5
    <3> HIDE DEF x, w, v1
    <3> QED
      BY <3>1, <3>2
  <2>7. x = [v1 EXCEPT !.meta = [m1 EXCEPT !.first = b]]
    BY <2>4, <2>5, <2>6
  <2>8. k = [first |-> b, last |-> a, free |-> m.free]
    <3> HIDE DEF b
    <3>1. m2 = [first |-> b, last |-> m.last, free |-> m.free]
      BY <2>3
    <3>2. WithEnds(m, b, a) = [m2 EXCEPT !.last = a]
      BY DEF WithEnds
    <3> HIDE DEF m2
    <3>3. WithEnds(m, b, a) = [first |-> b, last |-> a, free |-> m.free]
      BY <3>1, <3>2
    <3> QED
      BY <3>3 DEF b
  <2>9. [m1 EXCEPT !.first = b] = k
    <3> HIDE DEF m1, b, k
    <3> QED
      BY <2>4, <2>8
  <2> HIDE DEF m1, b, k, x
  <2>10. x = [v1 EXCEPT !.meta = k]
    BY <2>7, <2>9
  <2> QED
    BY <2>1, <2>10
<1> HIDE DEF k, x
<1>15. IsState(x) /\ x.disk = v.disk /\ x.meta = k /\ x.log = v.log
  BY <1>10, <1>14, MetaState
<1> DEFINE rs == Append(ns, a)
           qs == Given(ps, a)
<1>22. Full(e2, k, rs, qs, 0, fl) /\ NoLeak(e2, qs, fl, {}) /\ Graph(e2, k) = new
       /\ (f.exact => Chained(e2, qs))
  <2>1. NoLeak(e1, ps, fl, {a}) /\ (f.exact => Chained(e1, ps))
    BY <1>4, <1>5, <1>6 DEF Spares
  <2> QED
    BY <1>5, <1>11, <1>21, <2>1 DEF Grown
<1>25. Extends(rs, ns)
  BY <1>24, ListAppend, ListLength DEF Extends
<1> HIDE DEF rs, qs, new
<1>16. Part(x.disk, x.meta, rs, qs, 0, {})
  BY <1>10, <1>15, <1>22 DEF Part
<1> DEFINE g == Shown(f, new)
<1>17. FileOf(g) = o /\ g.graph = new /\ (g.exact = f.exact) /\ g.disk = f.disk
  BY ShownIs DEF o
<1> HIDE DEF g
<1>18. Good(g, SaveMeta(x), rs, qs, 0, {})
  <2>1. Reached(FileOf(g), x.log, [disk |-> x.disk, meta |-> m])
    BY <1>10, <1>13, <1>15, <1>17
  <2>2. Graph(x.disk, x.meta) = g.graph /\ (g.exact => Chained(x.disk, qs))
        /\ Stays(g.disk, x.disk)
    BY <1>10, <1>15, <1>17, <1>22, <1>24
  <2>3. Graph(x.disk, m) = g.graph \/ Graph(x.disk, m) = View(FileOf(g))
    BY <1>10, <1>12, <1>15, <1>17, <1>20, <1>22
  <2> QED
    BY <1>15, <1>16, <2>1, <2>2, <2>3, GoodSave
<1> QED
  BY <1>2, <1>18, <1>25 DEF g, new

(* add_node: the properties in turn, then the node. *)
LEMMA AddNodeGood ==
  ASSUME NEW ns, NEW ps, NEW fl, InOrder(ns, ps, fl),
         NEW desc, IsList(desc), AddNode(desc)
  PROVE  /\ Spot(Graph(disk, meta), desc) = 0
         /\ \E s : More(s, Append(Graph(disk, meta), [i \in DOMAIN desc |-> Plain(desc[i])]), ns)
<1> DEFINE G == Graph(disk, meta)
           f == Now(G)
           n == FindNode(disk, meta.first, desc)
           s1 == StoreProperties(Start, desc)[Len(desc)]
           head == IF desc = <<>> THEN 0 ELSE Stored(s1)
           t == InsertNode(s1, Node(0, head))
           props == [i \in DOMAIN desc |-> Plain(desc[i])]
           new == Append(G, props)
<1>1. pend = <<>> /\ n = 0 /\ Perform(t)
  BY DEF AddNode, Ready, Quiet
<1>2. Meets(ns, n, Spot(G, desc))
  BY FoundNode DEF InOrder
<1>3. Good(f, Start, ns, ps, 0, {})
  BY <1>1, StartGood
<1>4. f.graph = G /\ View(FileOf(f)) = G /\ Shown(f, new) = Now(new)
  BY NowIs
<1> HIDE DEF f, n, G, new, props
<1>5. PICK qs : Good(f, s1, ns, qs, head, {}) /\ Reads(s1.disk, qs[0], desc, Len(desc))
  BY <1>3, StorePropertiesGood
<1> HIDE DEF s1, head
<1>6. Read(s1.disk, qs[0]) = props
  <2> DEFINE z == Len(desc)
             r == Read(s1.disk, qs[0])
  <2>1. z \in Nat /\ DOMAIN desc = 1 .. z
    BY ListLength
  <2>2. Len(qs[0]) = z /\ \A j \in 1 .. z : r[j] = Plain(desc[z - z + j])
    BY <1>5 DEF Reads
  <2>3. r = [j \in 1 .. z |-> PropertyAt(s1.disk, qs[0][j])]
    BY <2>2 DEF Read
  <2> HIDE DEF z, r
  <2>4. \A j \in 1 .. z : z - z + j = j
    BY <2>1
  <2>5. \A j \in 1 .. z : r[j] = Plain(desc[j])
    BY <2>2, <2>4
  <2>6. r = [j \in 1 .. z |-> Plain(desc[j])]
    BY <2>3, <2>5
  <2> QED
    BY <2>1, <2>6 DEF r, props
<1>7. f.graph = View(FileOf(f))
  BY <1>4
<1>8. \E rs, os : /\ Good(Shown(f, Append(f.graph, Read(s1.disk, qs[0]))), t, rs, os, 0, {})
                    /\ Extends(rs, ns)
  BY <1>5, <1>7, InsertNodeGood
<1>9. Append(f.graph, Read(s1.disk, qs[0])) = new
  BY <1>4, <1>6 DEF new
<1>10. \E rs, os : Good(Now(new), t, rs, os, 0, {}) /\ Extends(rs, ns)
  BY <1>4, <1>8, <1>9
<1>11. More(t, new, ns)
  BY <1>1, <1>10 DEF More
<1>12. Spot(G, desc) = 0
  BY <1>1, <1>2 DEF Meets
<1> QED
  BY <1>11, <1>12 DEF new, props, G
================================================================================
