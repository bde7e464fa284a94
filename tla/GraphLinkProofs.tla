---------------------------- MODULE GraphLinkProofs -----------------------------
(* Theorems about the file of GraphStore under the calls of a careful program,   *)
(* with any number of stops between two writes.                                  *)
EXTENDS GraphStoreProofs, QueryEval

--------------------------------------------------------------------------------
(* A node leaves the list. *)
Without(s, i) == [k \in 1 .. Len(s) - 1 |-> IF k < i THEN s[k] ELSE s[k + 1]]

(* A list without its element i. *)
LEMMA WithoutFacts ==
  ASSUME NEW s, IsList(s), \A j, k \in 1 .. Len(s) : s[j] = s[k] => j = k,
         NEW i \in 1 .. Len(s)
  PROVE  /\ IsList(Without(s, i)) /\ Len(Without(s, i)) = Len(s) - 1 /\ Len(s) \in Nat
         /\ \A k \in 1 .. Len(s) - 1 :
              Without(s, i)[k] = IF k < i THEN s[k] ELSE s[k + 1]
         /\ \A x : x \in ToSet(Without(s, i)) <=> x \in ToSet(s) /\ x # s[i]
         /\ \A j, k \in 1 .. Len(s) - 1 : Without(s, i)[j] = Without(s, i)[k] => j = k
<1> DEFINE n == Len(s)
           t == Without(s, i)
<1>1. n \in Nat /\ DOMAIN s = 1 .. n
  BY ListLength
<1>2. /\ \A j, k \in 1 .. n : s[j] = s[k] => j = k
      /\ ToSet(s) = {s[j] : j \in 1 .. n} /\ i \in 1 .. n
  BY <1>1 DEF ToSet
<1>3. DOMAIN t = 1 .. n - 1 /\ \A k \in 1 .. n - 1 : t[k] = IF k < i THEN s[k] ELSE s[k + 1]
  BY DEF Without
<1>4. t = [k \in 1 .. n - 1 |-> t[k]]
  BY <1>3 DEF Without
<1> HIDE DEF n, t
<1>5. n - 1 \in Nat
  BY <1>1, <1>2
<1>6. PICK S : s \in Seq(S)
  BY DEF IsList
<1>7. \A j \in 1 .. n : s[j] \in S
  BY <1>1, <1>6 DEF n
<1>8. \A k \in 1 .. n - 1 : t[k] \in S
  <2> TAKE k \in 1 .. n - 1
  <2>1. k \in 1 .. n /\ k + 1 \in 1 .. n
    BY <1>1
  <2> QED
    BY <1>3, <1>7, <2>1
<1>9. t \in Seq(S) /\ Len(t) = n - 1
  <2> DEFINE z == n - 1
  <2>1. z \in Nat /\ t = [k \in 1 .. z |-> t[k]] /\ \A k \in 1 .. z : t[k] \in S
    BY <1>4, <1>5, <1>8
  <2> HIDE DEF z
  <2>2. t \in [1 .. z -> S]
    BY <2>1
  <2>3. t \in Seq(S) /\ Len(t) = z
    BY <2>1, <2>2
  <2> QED
    BY <2>3 DEF z
<1>10. ToSet(t) = {t[k] : k \in 1 .. n - 1}
  BY <1>3 DEF ToSet
<1>11. \A k \in 1 .. n - 1 : /\ t[k] = s[k] \/ t[k] = s[k + 1]
                             /\ k \in 1 .. n /\ k + 1 \in 1 .. n
                             /\ t[k] # s[i]
  <2> TAKE k \in 1 .. n - 1
  <2>1. k \in 1 .. n /\ k + 1 \in 1 .. n
    BY <1>1
  <2>2. CASE k < i
    BY <1>2, <1>3, <2>1, <2>2
  <2>3. CASE ~(k < i)
    <3>1. t[k] = s[k + 1] /\ k + 1 # i
      BY <1>2, <1>3, <2>3
    <3> QED
      BY <1>2, <2>1, <3>1
  <2> QED
    BY <2>2, <2>3
<1>12. \A j \in 1 .. n : j # i => \E k \in 1 .. n - 1 : t[k] = s[j]
  <2> SUFFICES ASSUME NEW j \in 1 .. n, j # i PROVE \E k \in 1 .. n - 1 : t[k] = s[j]
    OBVIOUS
  <2>1. CASE j < i
    <3>1. j \in 1 .. n - 1
      BY <1>1, <1>2, <2>1
    <3> QED
      BY <1>3, <2>1, <3>1
  <2>2. CASE ~(j < i)
    <3>1. j - 1 \in 1 .. n - 1 /\ ~(j - 1 < i) /\ (j - 1) + 1 = j
      BY <1>1, <1>2, <2>2
    <3>2. t[j - 1] = s[j]
      BY <1>3, <3>1
    <3> QED
      BY <3>1, <3>2
  <2> QED
    BY <2>1, <2>2
<1>13. \A x : x \in ToSet(t) <=> x \in ToSet(s) /\ x # s[i]
  <2>1. ASSUME NEW x, x \in ToSet(t) PROVE x \in ToSet(s) /\ x # s[i]
    <3>1. PICK k \in 1 .. n - 1 : x = t[k]
      BY <1>10, <2>1
    <3> QED
      BY <1>2, <1>11, <3>1
  <2>2. ASSUME NEW x, x \in ToSet(s), x # s[i] PROVE x \in ToSet(t)
    <3>1. PICK j \in 1 .. n : x = s[j]
      BY <1>2, <2>2
    <3> QED
      BY <1>10, <1>12, <2>2, <3>1
  <2> QED
    BY <2>1, <2>2
<1>14. \A j, k \in 1 .. n - 1 : t[j] = t[k] => j = k
  <2> SUFFICES ASSUME NEW j \in 1 .. n - 1, NEW k \in 1 .. n - 1, t[j] = t[k] PROVE j = k
    OBVIOUS
  <2> DEFINE J(x) == IF x < i THEN x ELSE x + 1
  <2>1. \A x \in 1 .. n - 1 : J(x) \in 1 .. n /\ t[x] = s[J(x)]
    BY <1>1, <1>2, <1>3
  <2>2. J(j) = J(k)
    BY <1>2, <2>1
  <2> QED
    BY <1>2, <2>2
<1> QED
  BY <1>1, <1>3, <1>9, <1>13, <1>14 DEF n, t, IsList

(* The parts of a file whose nodes are those of ns, however they are linked. *)
Scattered(d, m, ns, ps, fl) ==
  /\ IsList(d) /\ Kinds(d) /\ Header(m) /\ Free(d, m, fl) /\ Owners(d, ps, 0) /\ Related(d, ps)
  /\ \A x : x \in DOMAIN ps <=> x = 0 \/ x \in ToSet(ns)
  /\ m.first \in 0 .. Len(d) /\ m.last \in 0 .. Len(d)

(* A node whose next or prev is written keeps its properties, and the other *)
(* nodes stay as they are. *)
LEMMA Relinked ==
  ASSUME NEW d, NEW m, NEW ns, NEW ps, NEW fl, Scattered(d, m, ns, ps, fl),
         NEW n, n \in ToSet(ns), n # 0, NEW rec, NodeRecord(rec), rec.prop = d[n].prop,
         rec.rel = d[n].rel, NEW e, e = PutAt(d, n, rec)
  PROVE  /\ Scattered(e, m, ns, ps, fl) /\ Spares(d, ps, 0, e)
         /\ n \in 1 .. Len(d) + 1
         /\ e[n] = rec
         /\ \A x \in ToSet(ns) : x # 0 /\ x # n => e[x] = d[x]
<1>1. /\ IsList(d) /\ Kinds(d) /\ Header(m) /\ Free(d, m, fl) /\ Owners(d, ps, 0)
      /\ Related(d, ps) /\ \A x : x \in DOMAIN ps <=> x = 0 \/ x \in ToSet(ns)
      /\ m.first \in 0 .. Len(d) /\ m.last \in 0 .. Len(d)
  BY DEF Scattered
<1>2. \A x \in ToSet(ns) : x # 0 => IsA(d, x, "node")
  BY <1>1 DEF Owners
<1>3. /\ IsList(e) /\ Kinds(e) /\ Free(e, m, fl) /\ Len(e) = Len(d)
      /\ \A b, kind : IsA(d, b, kind) /\ b # n => e[b] = d[b]
      /\ e[n] = rec
  BY <1>1, <1>2, NodeWrite
<1>4. n \in 1 .. Len(d) + 1
  BY <1>1, <1>2, ListLength DEF IsA
<1>5. Spares(d, ps, 0, e)
  <2>1. n \in DOMAIN ps
    BY <1>1
  <2>2. Spares(d, ps, 0, PutAt(d, n, rec))
    BY <1>1, <2>1, LinkWrite
  <2> QED
    BY <2>2
<1>6. Owners(e, ps, 0) /\ Related(e, ps)
  BY <1>5 DEF Spares
<1>7. Scattered(e, m, ns, ps, fl)
  BY <1>1, <1>3, <1>6 DEF Scattered
<1>8. \A x \in ToSet(ns) : x # 0 /\ x # n => e[x] = d[x]
  BY <1>2, <1>3
<1> QED
  BY <1>3, <1>4, <1>5, <1>7, <1>8

(* What is before and after the j-th of a list. *)
NextIn(s, j) == IF j = Len(s) THEN 0 ELSE s[j + 1]
PrevIn(s, j) == IF j = 1 THEN 0 ELSE s[j - 1]

(* The records of a list are linked past the i-th. *)
LEMMA SkipWay ==
  ASSUME NEW e, NEW kind, NEW s, IsList(s), \A j, k \in 1 .. Len(s) : s[j] = s[k] => j = k,
         NEW i \in 1 .. Len(s),
         \A j \in 1 .. Len(s) :
           j # i => /\ IsA(e, s[j], kind)
                    /\ e[s[j]].next = IF j + 1 = i THEN NextIn(s, i) ELSE NextIn(s, j)
  PROVE  Way(e, kind, IF i = 1 THEN NextIn(s, 1) ELSE s[1], Without(s, i))
<1> DEFINE n == Len(s)
           t == Without(s, i)
           z == Len(t)
           a == IF i = 1 THEN NextIn(s, 1) ELSE s[1]
<1>1. /\ IsList(t) /\ z = n - 1 /\ n \in Nat
      /\ \A k \in 1 .. n - 1 : t[k] = IF k < i THEN s[k] ELSE s[k + 1]
      /\ \A j, k \in 1 .. n - 1 : t[j] = t[k] => j = k
  BY WithoutFacts
<1>2. \A j \in 1 .. n : NextIn(s, j) = IF j = n THEN 0 ELSE s[j + 1]
  BY DEF NextIn
<1>3. /\ i \in 1 .. n
      /\ \A j \in 1 .. n :
           j # i => /\ IsA(e, s[j], kind)
                    /\ e[s[j]].next = IF j + 1 = i THEN NextIn(s, i) ELSE NextIn(s, j)
  OBVIOUS
<1>4. a = IF i = 1 THEN NextIn(s, 1) ELSE s[1]
  OBVIOUS
<1> HIDE DEF n, t, z, a
<1>5. a = IF z = 0 THEN 0 ELSE t[1]
  <2>1. CASE n = 1
    BY <1>1, <1>2, <1>3, <1>4, <2>1
  <2>2. CASE n # 1
    <3>1. 1 \in 1 .. n - 1 /\ z # 0 /\ 1 \in 1 .. n /\ 1 # n
      BY <1>1, <1>3, <2>2
    <3>2. t[1] = IF i = 1 THEN s[2] ELSE s[1]
      BY <1>1, <1>3, <3>1
    <3> QED
      BY <1>2, <1>4, <3>1, <3>2
  <2> QED
    BY <2>1, <2>2
<1>6. \A k \in 1 .. z : IsA(e, t[k], kind) /\ e[t[k]].next = IF k = z THEN 0 ELSE t[k + 1]
  <2> TAKE k \in 1 .. z
  <2>1. k \in 1 .. n - 1 /\ k \in 1 .. n /\ k + 1 \in 1 .. n /\ (k # z => k + 1 \in 1 .. n - 1)
    BY <1>1
  <2>2. CASE k < i
    <3>1. t[k] = s[k] /\ k # i /\ k # n
      BY <1>1, <1>3, <2>1, <2>2
    <3>2. CASE k + 1 = i
      <4>1. e[t[k]].next = IF i = n THEN 0 ELSE s[i + 1]
        BY <1>2, <1>3, <2>1, <3>1, <3>2
      <4>2. i = n <=> k = z
        BY <1>1, <1>3, <3>2
      <4>3. k # z => t[k + 1] = s[i + 1]
        BY <1>1, <1>3, <2>1, <3>2
      <4> QED
        BY <1>3, <2>1, <3>1, <4>1, <4>2, <4>3
    <3>3. CASE k + 1 # i
      <4>1. e[t[k]].next = s[k + 1]
        BY <1>2, <1>3, <2>1, <3>1, <3>3
      <4>2. k + 1 < i /\ k # z
        BY <1>1, <1>3, <2>1, <2>2, <3>3
      <4>3. t[k + 1] = s[k + 1]
        BY <1>1, <2>1, <4>2
      <4> QED
        BY <1>3, <2>1, <3>1, <4>1, <4>2, <4>3
    <3> QED
      BY <3>2, <3>3
  <2>3. CASE ~(k < i)
    <3>1. t[k] = s[k + 1] /\ k + 1 # i /\ (k + 1) + 1 # i
      BY <1>1, <1>3, <2>1, <2>3
    <3>2. e[t[k]].next = IF k + 1 = n THEN 0 ELSE s[(k + 1) + 1]
      BY <1>2, <1>3, <2>1, <3>1
    <3>3. k + 1 = n <=> k = z
      BY <1>1, <2>1
    <3>4. k # z => t[k + 1] = s[(k + 1) + 1]
      BY <1>1, <1>3, <2>1, <2>3
    <3> QED
      BY <1>3, <2>1, <3>1, <3>2, <3>3, <3>4
  <2> QED
    BY <2>2, <2>3
<1>7. Way(e, kind, a, t)
  BY <1>1, <1>5, <1>6 DEF Way, z
<1> QED
  BY <1>7 DEF a, t

(* How nodes lead back: through all of s, or past its element i. *)
Back(e, s) == \A k \in 1 .. Len(s) : e[s[k]].prev = PrevIn(s, k)
BackPast(e, s, i) ==
  \A j \in 1 .. Len(s) :
    j # i => e[s[j]].prev = IF j = i + 1 THEN PrevIn(s, i) ELSE PrevIn(s, j)

(* When the node after i leads back past it, the list without i is linked *)
(* backwards, up to its last node. *)
LEMMA SkipBack ==
  ASSUME NEW e, NEW s, IsList(s), \A j, k \in 1 .. Len(s) : s[j] = s[k] => j = k,
         NEW i \in 1 .. Len(s), BackPast(e, s, i)
  PROVE  /\ Back(e, Without(s, i))
         /\ (IF i = Len(s) THEN PrevIn(s, i) ELSE s[Len(s)])
              = IF Len(Without(s, i)) = 0 THEN 0 ELSE Without(s, i)[Len(Without(s, i))]
<1> DEFINE n == Len(s)
           t == Without(s, i)
           z == Len(t)
<1>1. /\ IsList(t) /\ z = n - 1 /\ n \in Nat
      /\ \A k \in 1 .. n - 1 : t[k] = IF k < i THEN s[k] ELSE s[k + 1]
  BY WithoutFacts
<1>2. /\ \A j \in 1 .. n : PrevIn(s, j) = IF j = 1 THEN 0 ELSE s[j - 1]
      /\ \A j \in 1 .. z : PrevIn(t, j) = IF j = 1 THEN 0 ELSE t[j - 1]
  BY DEF PrevIn
<1>3. /\ i \in 1 .. n
      /\ \A j \in 1 .. n :
           j # i => e[s[j]].prev = IF j = i + 1 THEN PrevIn(s, i) ELSE PrevIn(s, j)
  BY DEF BackPast
<1> HIDE DEF n, t, z
<1>4. \A k \in 1 .. z : e[t[k]].prev = PrevIn(t, k)
  <2> TAKE k \in 1 .. z
  <2>1. k \in 1 .. n - 1 /\ k \in 1 .. n /\ k + 1 \in 1 .. n /\ (k # 1 => k - 1 \in 1 .. n - 1)
    BY <1>1
  <2>2. CASE k < i
    <3>1. t[k] = s[k] /\ k # i /\ k # i + 1
      BY <1>1, <1>3, <2>1, <2>2
    <3>2. e[t[k]].prev = IF k = 1 THEN 0 ELSE s[k - 1]
      BY <1>2, <1>3, <2>1, <3>1
    <3>3. k # 1 => t[k - 1] = s[k - 1]
      BY <1>1, <1>3, <2>1, <2>2
    <3> QED
      BY <1>2, <3>2, <3>3
  <2>3. CASE k = i
    <3>1. t[k] = s[k + 1] /\ k + 1 = i + 1 /\ k + 1 # i
      BY <1>1, <1>3, <2>1, <2>3
    <3>2. e[t[k]].prev = PrevIn(s, i)
      BY <1>3, <2>1, <3>1
    <3>3. k # 1 => t[k - 1] = s[i - 1]
      BY <1>1, <1>3, <2>1, <2>3
    <3> QED
      BY <1>2, <1>3, <2>3, <3>2, <3>3
  <2>4. CASE k > i
    <3>1. t[k] = s[k + 1] /\ k + 1 # i + 1 /\ k + 1 # i /\ k + 1 # 1 /\ k # 1 /\ (k + 1) - 1 = k
      BY <1>1, <1>3, <2>1, <2>4
    <3>2. e[t[k]].prev = s[k]
      BY <1>2, <1>3, <2>1, <3>1
    <3>3. t[k - 1] = s[k]
      <4>1. ~(k - 1 < i) /\ (k - 1) + 1 = k
        BY <1>3, <2>1, <2>4
      <4> QED
        BY <1>1, <2>1, <3>1, <4>1
    <3> QED
      BY <1>2, <3>1, <3>2, <3>3
  <2> QED
    BY <1>1, <1>3, <2>1, <2>2, <2>3, <2>4
<1>5. (IF i = n THEN PrevIn(s, i) ELSE s[n]) = IF z = 0 THEN 0 ELSE t[z]
  <2>1. CASE i = n
    <3>1. z = 0 <=> i = 1
      BY <1>1, <1>3, <2>1
    <3>2. z # 0 => z \in 1 .. n - 1 /\ z < i /\ z = i - 1
      BY <1>1, <1>3, <2>1
    <3> QED
      BY <1>1, <1>2, <1>3, <2>1, <3>1, <3>2
  <2>2. CASE i # n
    <3>1. z \in 1 .. n - 1 /\ z # 0 /\ ~(z < i) /\ z + 1 = n
      BY <1>1, <1>3, <2>2
    <3> QED
      BY <1>1, <2>2, <3>1
  <2> QED
    BY <2>1, <2>2
<1> QED
  BY <1>4, <1>5 DEF n, t, z, Back

(* Properties are properties, and their strings chunks. *)
LEMMA PropsAre ==
  ASSUME NEW d, NEW ps, NEW h, Owners(d, ps, h), NEW p, p \in Props(ps)
  PROVE  IsA(d, p, "property") /\ \A c \in Chunks(d[p]) : IsA(d, c, "chunk")
<1>1. PICK o \in DOMAIN ps : p \in ToSet(ps[o])
  BY DEF Props
<1>2. Way(d, "property", Head0(d, h, o), ps[o])
  BY DEF Owners
<1> QED
  BY <1>1, <1>2, WayElements DEF Owners

(* Nothing is in a list from the address 0 on. *)
LEMMA NoRecord ==
  ASSUME NEW d, IsList(d), NEW kind, NEW s, Way(d, kind, 0, s)
  PROVE  ToSet(s) = {} /\ Len(s) = 0
<1>1. Len(s) \in Nat /\ ToSet(s) = {s[i] : i \in 1 .. Len(s)}
  BY WayElements
<1>2. Len(s) = 0
  <2>1. ASSUME Len(s) # 0 PROVE FALSE
    <3>1. 1 \in 1 .. Len(s) /\ s[1] = 0
      BY <1>1, <2>1 DEF Way
    <3> QED
      BY <3>1, ListLength DEF Way, IsA
  <2> QED
    BY <2>1
<1> QED
  BY <1>1, <1>2

(* The call takes the properties of a node that leaves. *)
Taken(ps, a) == [o \in DOMAIN ps \ {a} |-> IF o = 0 THEN ps[a] ELSE ps[o]]

(* The properties of a node that goes are in hand. *)
LEMMA OwnersTake ==
  ASSUME NEW d, NEW ps, Owners(d, ps, 0), NEW a \in DOMAIN ps, a # 0
  PROVE  /\ Owners(d, Taken(ps, a), d[a].prop)
         /\ \A x : x \in DOMAIN Taken(ps, a) <=> x \in DOMAIN ps /\ x # a
         /\ \A p \in Props(Taken(ps, a)) : p \in Props(ps)
<1> DEFINE qs == Taken(ps, a)
           h == d[a].prop
<1>1. /\ 0 \in DOMAIN ps
      /\ \A n \in DOMAIN ps : n # 0 => IsA(d, n, "node") /\ NodeRecord(d[n])
      /\ \A o \in DOMAIN ps : Way(d, "property", Head0(d, 0, o), ps[o])
      /\ \A o, q \in DOMAIN ps : \A p : p \in ToSet(ps[o]) /\ p \in ToSet(ps[q]) => o = q
      /\ \A p \in Props(ps) :
           /\ \A c \in Chunks(d[p]) : IsA(d, c, "chunk")
           /\ d[p].type = "STRING" => d[p].key # d[p].val
      /\ \A p, q \in Props(ps) : \A c : c \in Chunks(d[p]) /\ c \in Chunks(d[q]) => p = q
  BY DEF Owners
<1>2. /\ \A x : x \in DOMAIN qs <=> x \in DOMAIN ps /\ x # a
      /\ qs[0] = ps[a] /\ \A o \in DOMAIN qs : o # 0 => qs[o] = ps[o]
  BY <1>1 DEF Taken
<1>3. Head0(d, h, 0) = Head0(d, 0, a) /\ \A o : o # 0 => Head0(d, h, o) = Head0(d, 0, o)
  BY DEF Head0
<1> HIDE DEF qs, h
<1> DEFINE Of(o) == IF o = 0 THEN a ELSE o
<1>4. \A o \in DOMAIN qs : Of(o) \in DOMAIN ps /\ qs[o] = ps[Of(o)] /\ Head0(d, h, o) = Head0(d, 0, Of(o))
  BY <1>2, <1>3
<1>5. \A o, q \in DOMAIN qs : Of(o) = Of(q) => o = q
  BY <1>2
<1> HIDE DEF Of
<1>6. \A p \in Props(qs) : p \in Props(ps)
  BY <1>4 DEF Props
<1>7. \A o \in DOMAIN qs : Way(d, "property", Head0(d, h, o), qs[o])
  BY <1>1, <1>4
<1>8. \A o, q \in DOMAIN qs : \A p : p \in ToSet(qs[o]) /\ p \in ToSet(qs[q]) => o = q
  BY <1>1, <1>4, <1>5
<1>9. 0 \in DOMAIN qs /\ \A n \in DOMAIN qs : n # 0 => IsA(d, n, "node") /\ NodeRecord(d[n])
  BY <1>1, <1>2
<1>10. Owners(d, qs, h)
  BY <1>1, <1>6, <1>7, <1>8, <1>9 DEF Owners
<1> QED
  BY <1>2, <1>6, <1>10 DEF qs, h

(* The relationships are none of its, so that they stay what they are. *)
LEMMA RelatedTake ==
  ASSUME NEW d, NEW ps, Owners(d, ps, 0), Related(d, ps), NEW a \in DOMAIN ps, a # 0,
         Unconnected(d, a)
  PROVE  /\ Related(d, Taken(ps, a))
         /\ Chained(d, ps) => Chained(d, Taken(ps, a))
<1> DEFINE qs == Taken(ps, a)
<1>1. /\ \A x : x \in DOMAIN qs <=> x \in DOMAIN ps /\ x # a
      /\ \A p \in Props(qs) : p \in Props(ps)
  BY OwnersTake
<1>2. \A r : IsA(d, r, "relationship") => RelationAt(d, ps, r) /\ a \notin Ends(d[r])
  BY DEF Related, Unconnected, IsA, Ends
<1> HIDE DEF qs
<1>3. \A r : IsA(d, r, "relationship") =>
        /\ d[r] = d[r] /\ IsA(d, d[r].type, "chunk")
        /\ \A n \in Ends(d[r]) : n \in DOMAIN qs
        /\ \A p \in Props(qs) : d[r].type \notin Chunks(d[p])
  BY <1>1, <1>2 DEF RelationAt
<1>4. \A n \in DOMAIN qs :
        n # 0 => IF n \in DOMAIN ps THEN d[n].rel = d[n].rel ELSE d[n].rel = 0
  BY <1>1
<1>5. Related(d, qs) /\ (Chained(d, ps) => Chained(d, qs))
  BY <1>3, <1>4, RelatedFrame
<1> QED
  BY <1>5 DEF qs

(* Its block is loose then, and no other that was not. *)
LEMMA LooseTake ==
  ASSUME NEW d, IsList(d), NEW m, NEW ps, Owners(d, ps, 0), Related(d, ps),
         NEW fl, Free(d, m, fl), NEW a \in DOMAIN ps, a # 0
  PROVE  /\ Loose(d, Taken(ps, a), fl, a)
         /\ \A b : Loose(d, Taken(ps, a), fl, b) => b = a \/ Loose(d, ps, fl, b)
<1> DEFINE qs == Taken(ps, a)
<1>1. /\ \A x : x \in DOMAIN qs <=> x \in DOMAIN ps /\ x # a
      /\ \A p \in Props(qs) : p \in Props(ps)
  BY OwnersTake
<1>2. IsA(d, a, "node")
  BY DEF Owners
<1>3. \A p \in Props(ps) : p \in Props(qs)
  <2>1. 0 \in DOMAIN ps /\ Way(d, "property", 0, ps[0])
    BY DEF Owners, Head0
  <2>2. ToSet(ps[0]) = {}
    BY <2>1, NoRecord
  <2>3. /\ qs[0] = ps[a] /\ 0 \in DOMAIN qs
        /\ \A o \in DOMAIN qs : o # 0 => qs[o] = ps[o]
    BY <1>1, <2>1 DEF Taken
  <2> HIDE DEF qs
  <2>4. ASSUME NEW p, NEW o \in DOMAIN ps, p \in ToSet(ps[o]) PROVE \E q \in DOMAIN qs : p \in ToSet(qs[q])
    <3>1. CASE o = a
      BY <2>3, <2>4, <3>1
    <3>2. CASE o # a
      BY <1>1, <2>2, <2>3, <2>4, <3>2
    <3> QED
      BY <3>1, <3>2
  <2> QED
    BY <2>4 DEF Props
<1> HIDE DEF qs
<1>4. \A c \in Class : \A b \in ToSet(fl[c]) : IsA(d, b, "free")
  BY WayElements DEF Free, Class
<1>5. \A p \in Props(ps) : IsA(d, p, "property") /\ \A c \in Chunks(d[p]) : IsA(d, c, "chunk")
  BY PropsAre
<1>6. \A r : IsA(d, r, "relationship") => IsA(d, d[r].type, "chunk")
  BY DEF Related, RelationAt
<1>7. \A b, kind : IsA(d, b, kind) /\ kind # "node" => b # a
  BY <1>2 DEF IsA
<1>8. \A p \in Props(qs) : a \notin Chunks(d[p]) /\ a # p
  BY <1>1, <1>5, <1>7
<1>9. a \notin ToSet(fl["static"]) /\ a \notin ToSet(fl["dynamic"])
  BY <1>4, <1>7 DEF Class
<1>10. ~IsA(d, a, "relationship") /\ \A r : IsA(d, r, "relationship") => a # d[r].type
  BY <1>6, <1>7
<1>11. a \in 1 .. Len(d) + 1 /\ a \notin DOMAIN qs
  BY <1>1, <1>2, ListLength DEF IsA
<1>12. Loose(d, qs, fl, a)
  BY <1>8, <1>9, <1>10, <1>11 DEF Loose
<1>13. \A b : Loose(d, qs, fl, b) => b = a \/ Loose(d, ps, fl, b)
  BY <1>1, <1>3 DEF Loose
<1> QED
  BY <1>12, <1>13 DEF qs

SetNext(r, x) == [r EXCEPT !.next = x]
SetPrev(r, x) == [r EXCEPT !.prev = x]

(* What changes in a node with another next, ... *)
LEMMA NextField ==
  ASSUME NEW r, NodeRecord(r), NEW x
  PROVE  /\ NodeRecord(SetNext(r, x)) /\ SetNext(r, x).next = x
         /\ SetNext(r, x).prev = r.prev /\ SetNext(r, x).prop = r.prop
         /\ SetNext(r, x).rel = r.rel
<1>1. NodeRecord([r EXCEPT !.next = x]) /\ [r EXCEPT !.next = x].next = x
  BY NodeFields
<1>2. /\ [r EXCEPT !.next = x].prev = r.prev /\ [r EXCEPT !.next = x].prop = r.prop
      /\ [r EXCEPT !.next = x].rel = r.rel
  BY NodeFields
<1> QED
  BY <1>1, <1>2 DEF SetNext

(* ... and with another prev. *)
LEMMA PrevField ==
  ASSUME NEW r, NodeRecord(r), NEW x
  PROVE  /\ NodeRecord(SetPrev(r, x)) /\ SetPrev(r, x).prev = x
         /\ SetPrev(r, x).next = r.next /\ SetPrev(r, x).prop = r.prop
         /\ SetPrev(r, x).rel = r.rel
<1>1. NodeRecord([r EXCEPT !.prev = x]) /\ [r EXCEPT !.prev = x].prev = x
  BY NodeFields, ZenonT(30)
<1>2. /\ [r EXCEPT !.prev = x].next = r.next /\ [r EXCEPT !.prev = x].prop = r.prop
      /\ [r EXCEPT !.prev = x].rel = r.rel
  BY NodeFields
<1> QED
  BY <1>1, <1>2 DEF SetPrev

(* Where the nodes of a linked list lead back to. *)
LEMMA LinkedIs ==
  ASSUME NEW d, NEW m, Linked(d, m)
  PROVE  /\ m.last = IF NodeChain(d, m.first) = <<>> THEN 0 ELSE Last(NodeChain(d, m.first))
         /\ \A i \in DOMAIN NodeChain(d, m.first) :
              d[NodeChain(d, m.first)[i]].prev = IF i = 1 THEN 0 ELSE NodeChain(d, m.first)[i - 1]
BY DEF Linked

(* The ends of the list of nodes say nothing of the free lists. *)
LEMMA FreeSame ==
  ASSUME NEW d, NEW m, NEW fl, Free(d, m, fl), NEW k, k.free = m.free
  PROVE  Free(d, k, fl)
BY DEF Free

(* What a reader finds in a list of nodes whose properties are those of ps. *)
LEMMA WayPicture ==
  ASSUME NEW d, IsList(d), NEW m, NEW ps, NEW h, Owners(d, ps, h),
         NEW ns, Way(d, "node", m.first, ns), \A b \in ToSet(ns) : b \in DOMAIN ps /\ b # 0
  PROVE  Graph(d, m) = Picture(d, ns, ps)
<1>1. Len(ns) \in Nat /\ ToSet(ns) = {ns[i] : i \in 1 .. Len(ns)}
  BY WayElements
<1>2. Trail(d, Link(d, "node", "next"), m.first, ns)
  BY WayTrail
<1>3. \A i \in 1 .. Len(ns) :
        IF i <= Len(ns) THEN ns[i] = ns[i] /\ IsA(d, ns[i], "node") /\ ns[i] \in DOMAIN ps /\ ns[i] # 0
        ELSE ~IsA(d, ns[i], "node")
  BY <1>1 DEF Way
<1>4. Len(ns) <= Len(ns)
  BY <1>1
<1> QED
  BY <1>1, <1>2, <1>3, <1>4, TrailGraph

(* The two writes of remove_node, and the header it keeps: what follows a        *)
(* property or a node that is absent is nothing.                                 *)
NextPut(d, v, x) == IF v = 0 THEN d ELSE PutAt(d, v, SetNext(d[v], x))
PrevPut(d, x, v) == IF x = 0 THEN d ELSE PutAt(d, x, SetPrev(d[x], v))
EndsOf(m, a, v, x) ==
  WithEnds(m, IF m.first = a THEN x ELSE m.first, IF m.last = a THEN v ELSE m.last)

(* What remove_node does to the list: the file is sound after each of the two    *)
(* writes, and a reader misses the node from the first one on that moves the     *)
(* walk ...                                                                      *)
Skipped(d, m, ns, ps, i, v, x, e1, e2) ==
  /\ d[ns[i]].prev = v /\ d[ns[i]].next = x
  /\ v # 0 => /\ v \in 1 .. Len(d) + 1 /\ Sound(e1, m)
              /\ Graph(e1, m) = Picture(d, Without(ns, i), ps)
  /\ v = 0 => e1 = d
  /\ x # 0 => x \in 1 .. Len(e1) + 1 /\ Sound(e2, m)
  /\ IsList(e1) /\ IsList(e2)
  /\ Graph(e2, m) = IF v = 0 THEN Picture(d, ns, ps) ELSE Picture(d, Without(ns, i), ps)

(* ... and the file is in order once the header is the new one, k. *)
Cut(d, ns, ps, fl, i, e, k) ==
  /\ Full(e, k, Without(ns, i), Taken(ps, ns[i]), d[ns[i]].prop, fl)
  /\ ns[i] \in 1 .. Len(e) /\ ns[i] # 0 /\ Loose(e, Taken(ps, ns[i]), fl, ns[i])
  /\ Chained(d, ps) => Chained(e, Taken(ps, ns[i]))
  /\ NoLeak(d, ps, fl, {}) => NoLeak(e, Taken(ps, ns[i]), fl, {ns[i]})
  /\ Graph(e, k) = Picture(d, Without(ns, i), ps)

LEMMA UnlinkFile ==
  ASSUME NEW d, NEW m, NEW ns, NEW ps, NEW fl, Full(d, m, ns, ps, 0, fl),
         NEW i \in 1 .. Len(ns), NEW a, a = ns[i], Unconnected(d, a),
         NEW v, v = PrevIn(ns, i), NEW x, x = NextIn(ns, i),
         NEW e1, e1 = NextPut(d, v, x),
         NEW e2, e2 = PrevPut(e1, x, v),
         NEW k, k = EndsOf(m, a, v, x)
  PROVE  Skipped(d, m, ns, ps, i, v, x, e1, e2) /\ Cut(d, ns, ps, fl, i, e2, k)
<1> DEFINE z == Len(ns)
           rs == Without(ns, i)
<1>1. /\ IsList(d) /\ Kinds(d) /\ Header(m) /\ Free(d, m, fl) /\ Owners(d, ps, 0) /\ Related(d, ps)
      /\ Doubly(d, m, ns) /\ \A y : y \in DOMAIN ps <=> y = 0 \/ y \in ToSet(ns)
  BY DEF Full
<1>2. /\ Way(d, "node", m.first, ns)
      /\ \A j \in 1 .. z : d[ns[j]].prev = PrevIn(ns, j)
      /\ m.last = IF z = 0 THEN 0 ELSE ns[z]
  BY <1>1 DEF Doubly, PrevIn
<1>3. /\ IsList(ns) /\ m.first = IF z = 0 THEN 0 ELSE ns[1]
      /\ \A j \in 1 .. z : d[ns[j]].next = NextIn(ns, j)
      /\ \A j, l \in 1 .. z : ns[j] = ns[l] => j = l
  BY <1>2 DEF Way, NextIn
<1>4. /\ m.first \in 0 .. Len(d) /\ m.last \in 0 .. Len(d) /\ z \in Nat
      /\ ToSet(ns) = {ns[j] : j \in 1 .. z} /\ Len(d) \in Nat
      /\ \A y \in ToSet(ns) : IsA(d, y, "node") /\ y \in 1 .. Len(d)
  BY <1>1, NodeChains, ListLength
<1>5. /\ \A j \in 1 .. z : PrevIn(ns, j) = IF j = 1 THEN 0 ELSE ns[j - 1]
      /\ \A j \in 1 .. z : NextIn(ns, j) = IF j = z THEN 0 ELSE ns[j + 1]
      /\ i \in 1 .. z /\ a = ns[i] /\ v = PrevIn(ns, i) /\ x = NextIn(ns, i)
  BY DEF PrevIn, NextIn
<1> HIDE DEF z
<1>6. \A j \in 1 .. z : ns[j] \in ToSet(ns) /\ ns[j] # 0
  BY <1>4
<1>7. z # 0 /\ m.first = ns[1] /\ m.last = ns[z] /\ 1 \in 1 .. z /\ z \in 1 .. z
  BY <1>2, <1>3, <1>4, <1>5
<1>8. /\ v # 0 <=> i # 1
      /\ x # 0 <=> i # z
      /\ i # 1 => i - 1 \in 1 .. z /\ v = ns[i - 1]
      /\ i # z => i + 1 \in 1 .. z /\ x = ns[i + 1]
  <2>1. i # 1 => i - 1 \in 1 .. z
    BY <1>4, <1>5
  <2>2. i # z => i + 1 \in 1 .. z
    BY <1>4, <1>5
  <2> QED
    BY <1>5, <1>6, <2>1, <2>2
<1>9. Scattered(d, m, ns, ps, fl)
  BY <1>1, <1>4 DEF Scattered
<1>10. /\ Scattered(e1, m, ns, ps, fl) /\ Spares(d, ps, 0, e1)
       /\ \A j \in 1 .. z : /\ e1[ns[j]].next = IF j + 1 = i THEN x ELSE NextIn(ns, j)
                            /\ e1[ns[j]].prev = PrevIn(ns, j)
                            /\ e1[ns[j]].prop = d[ns[j]].prop
       /\ v # 0 => v \in 1 .. Len(d) + 1
  <2>1. CASE i = 1
    <3>1. e1 = d /\ v = 0 /\ \A j \in 1 .. z : j + 1 # i
      BY <1>8, <2>1 DEF NextPut
    <3>2. Spares(d, ps, 0, d)
      BY <1>1, SparesNone
    <3> QED
      BY <1>2, <1>3, <1>9, <3>1, <3>2
  <2>2. CASE i # 1
    <3> DEFINE r == d[v]
               rec == SetNext(r, x)
    <3>1. v # 0 /\ v \in ToSet(ns) /\ v = ns[i - 1] /\ e1 = PutAt(d, v, rec)
      BY <1>6, <1>8, <2>2 DEF NextPut
    <3>2. NodeRecord(r)
      BY <1>1, <3>1 DEF Owners
    <3> HIDE DEF r
    <3>3. NodeRecord(rec) /\ rec.next = x /\ rec.prev = r.prev /\ rec.prop = r.prop /\ rec.rel = r.rel
      BY <3>2, NextField
    <3> HIDE DEF rec
    <3>4. /\ Scattered(e1, m, ns, ps, fl) /\ Spares(d, ps, 0, e1) /\ v \in 1 .. Len(d) + 1
          /\ e1[v] = rec /\ \A y \in ToSet(ns) : y # 0 /\ y # v => e1[y] = d[y]
      <4>1. rec.prop = d[v].prop /\ rec.rel = d[v].rel
        BY <3>3 DEF r
      <4> QED
        BY <1>9, <3>1, <3>3, <4>1, Relinked
    <3>5. \A j \in 1 .. z : ns[j] = v <=> j + 1 = i
      BY <1>3, <1>8, <2>2, <3>1
    <3>6. ASSUME NEW j \in 1 .. z
          PROVE  /\ e1[ns[j]].next = IF j + 1 = i THEN x ELSE NextIn(ns, j)
                 /\ e1[ns[j]].prev = PrevIn(ns, j)
                 /\ e1[ns[j]].prop = d[ns[j]].prop
      <4>1. CASE j + 1 = i
        <5>1. ns[j] = v /\ e1[ns[j]] = rec /\ r = d[ns[j]]
          BY <3>4, <3>5, <4>1 DEF r
        <5> QED
          BY <1>2, <3>3, <4>1, <5>1
      <4>2. CASE j + 1 # i
        <5>1. e1[ns[j]] = d[ns[j]]
          BY <1>6, <3>4, <3>5, <4>2
        <5> QED
          BY <1>2, <1>3, <4>2, <5>1
      <4> QED
        BY <4>1, <4>2
    <3> QED
      BY <3>4, <3>6
  <2> QED
    BY <2>1, <2>2
<1>11. /\ Scattered(e2, m, ns, ps, fl) /\ Spares(d, ps, 0, e2)
       /\ \A j \in 1 .. z :
            /\ e2[ns[j]].next = IF j + 1 = i THEN x ELSE NextIn(ns, j)
            /\ e2[ns[j]].prev = IF j = i + 1 THEN v ELSE PrevIn(ns, j)
            /\ e2[ns[j]].prop = d[ns[j]].prop
       /\ x # 0 => x \in 1 .. Len(e1) + 1
  <2>1. CASE i = z
    <3>1. e2 = e1 /\ x = 0 /\ \A j \in 1 .. z : j # i + 1
      BY <1>4, <1>8, <2>1 DEF PrevPut
    <3> QED
      BY <1>10, <3>1
  <2>2. CASE i # z
    <3> DEFINE r == e1[x]
               rec == SetPrev(r, v)
    <3>1. x # 0 /\ x \in ToSet(ns) /\ x = ns[i + 1] /\ e2 = PutAt(e1, x, rec)
      BY <1>6, <1>8, <2>2 DEF PrevPut
    <3>2. NodeRecord(r)
      BY <1>10, <3>1 DEF Scattered, Owners
    <3> HIDE DEF r
    <3>3. NodeRecord(rec) /\ rec.prev = v /\ rec.next = r.next /\ rec.prop = r.prop /\ rec.rel = r.rel
      BY <3>2, PrevField
    <3> HIDE DEF rec
    <3>4. /\ Scattered(e2, m, ns, ps, fl) /\ Spares(e1, ps, 0, e2) /\ x \in 1 .. Len(e1) + 1
          /\ e2[x] = rec /\ \A y \in ToSet(ns) : y # 0 /\ y # x => e2[y] = e1[y]
      <4>1. rec.prop = e1[x].prop /\ rec.rel = e1[x].rel
        BY <3>3 DEF r
      <4> QED
        BY <1>10, <3>1, <3>3, <4>1, Relinked
    <3>5. \A j \in 1 .. z : ns[j] = x <=> j = i + 1
      BY <1>3, <1>8, <2>2, <3>1
    <3>6. ASSUME NEW j \in 1 .. z
          PROVE  /\ e2[ns[j]].next = IF j + 1 = i THEN x ELSE NextIn(ns, j)
                 /\ e2[ns[j]].prev = IF j = i + 1 THEN v ELSE PrevIn(ns, j)
                 /\ e2[ns[j]].prop = d[ns[j]].prop
      <4>1. CASE j = i + 1
        <5>1. ns[j] = x /\ e2[ns[j]] = rec /\ r = e1[ns[j]]
          BY <3>4, <3>5, <4>1 DEF r
        <5> QED
          BY <1>10, <3>3, <4>1, <5>1
      <4>2. CASE j # i + 1
        <5>1. e2[ns[j]] = e1[ns[j]]
          BY <1>6, <3>4, <3>5, <4>2
        <5> QED
          BY <1>10, <4>2, <5>1
      <4> QED
        BY <4>1, <4>2
    <3>7. Spares(d, ps, 0, e2)
      BY <1>10, <3>4, SparesTwice
    <3> QED
      BY <3>4, <3>6, <3>7
  <2> QED
    BY <2>1, <2>2
<1>12. /\ IsList(e1) /\ IsList(e2) /\ Owners(e1, ps, 0) /\ Owners(e2, ps, 0)
       /\ Related(e1, ps) /\ Related(e2, ps)
       /\ Kinds(e1) /\ Kinds(e2) /\ Free(e1, m, fl) /\ Free(e2, m, fl)
       /\ m.first \in 0 .. Len(e1) /\ m.last \in 0 .. Len(e1)
       /\ m.first \in 0 .. Len(e2) /\ m.last \in 0 .. Len(e2)
  BY <1>10, <1>11 DEF Scattered
<1>13. \A j \in 1 .. z : IsA(e1, ns[j], "node") /\ IsA(e2, ns[j], "node")
  BY <1>1, <1>6, <1>12 DEF Owners
<1>14. /\ IsList(rs) /\ Len(rs) = z - 1
       /\ \A l \in 1 .. z - 1 : rs[l] = IF l < i THEN ns[l] ELSE ns[l + 1]
       /\ \A y : y \in ToSet(rs) <=> y \in ToSet(ns) /\ y # a
  <2>1. IsList(ns) /\ i \in 1 .. Len(ns) /\ \A j, l \in 1 .. Len(ns) : ns[j] = ns[l] => j = l
    BY <1>3, <1>5 DEF z
  <2>2. IsList(rs) /\ Len(rs) = Len(ns) - 1
    BY <2>1, WithoutFacts
  <2>3. \A l \in 1 .. Len(ns) - 1 : rs[l] = IF l < i THEN ns[l] ELSE ns[l + 1]
    BY <2>1, WithoutFacts
  <2>4. \A y : y \in ToSet(rs) <=> y \in ToSet(ns) /\ y # ns[i]
    BY <2>1, WithoutFacts
  <2> QED
    BY <1>5, <2>2, <2>3, <2>4 DEF z
<1>15. /\ Way(e1, "node", IF i = 1 THEN NextIn(ns, 1) ELSE ns[1], rs)
       /\ Way(e2, "node", IF i = 1 THEN NextIn(ns, 1) ELSE ns[1], rs)
  BY <1>3, <1>5, <1>10, <1>11, <1>13, SkipWay DEF z
<1>16. /\ \A l \in 1 .. Len(rs) : e2[rs[l]].prev = PrevIn(rs, l)
       /\ (IF i = z THEN v ELSE ns[z]) = IF Len(rs) = 0 THEN 0 ELSE rs[Len(rs)]
  <2>1. BackPast(e2, ns, i)
    BY <1>5, <1>11 DEF z, BackPast
  <2>2. IsList(ns) /\ i \in 1 .. Len(ns) /\ \A j, l \in 1 .. Len(ns) : ns[j] = ns[l] => j = l
    BY <1>3, <1>5 DEF z
  <2>3. /\ Back(e2, Without(ns, i))
        /\ (IF i = Len(ns) THEN PrevIn(ns, i) ELSE ns[Len(ns)])
             = IF Len(Without(ns, i)) = 0 THEN 0 ELSE Without(ns, i)[Len(Without(ns, i))]
    BY <2>1, <2>2, SkipBack
  <2>4. \A l \in 1 .. Len(Without(ns, i)) :
          e2[Without(ns, i)[l]].prev = PrevIn(Without(ns, i), l)
    BY <2>3 DEF Back
  <2> QED
    BY <1>5, <2>3, <2>4 DEF z
<1> HIDE DEF rs
<1>28. /\ \A b \in ToSet(ns) : b \in DOMAIN ps /\ b # 0
       /\ \A b \in ToSet(rs) : b \in DOMAIN ps /\ b # 0
  BY <1>1, <1>4, <1>14, SMTT(30)
<1>29. /\ \A j \in 1 .. Len(ns) : ns[j] \in DOMAIN ps
       /\ \A j \in 1 .. Len(rs) : rs[j] \in DOMAIN ps
  <2>1. Len(rs) \in Nat /\ ToSet(rs) = {rs[j] : j \in 1 .. Len(rs)}
    BY <1>15, WayElements
  <2> QED
    BY <1>6, <1>28, <2>1 DEF z
<1>30. /\ Picture(e1, rs, ps) = Picture(d, rs, ps) /\ Picture(e2, rs, ps) = Picture(d, rs, ps)
       /\ Picture(e2, ns, ps) = Picture(d, ns, ps)
  BY <1>10, <1>11, <1>29, SparesPicture
<1>31. ASSUME i = 1 PROVE Way(e2, "node", m.first, ns)
  <2>1. \A j \in 1 .. z : j + 1 # i
    BY <1>31
  <2>2. \A j \in 1 .. z : e2[ns[j]].next = NextIn(ns, j)
    BY <1>11, <2>1
  <2>3. \A j \in 1 .. z :
          IsA(e2, ns[j], "node") /\ e2[ns[j]].next = IF j = z THEN 0 ELSE ns[j + 1]
    BY <1>5, <1>13, <2>2
  <2> QED
    BY <1>3, <2>3 DEF Way, z
<1>32. Graph(e2, m) = IF v = 0 THEN Picture(d, ns, ps) ELSE Picture(d, rs, ps)
  <2>1. CASE i = 1
    BY <1>8, <1>12, <1>28, <1>30, <1>31, <2>1, WayPicture
  <2>2. CASE i # 1
    <3>1. Way(e2, "node", m.first, rs)
      BY <1>7, <1>15, <2>2
    <3> QED
      BY <1>8, <1>12, <1>28, <1>30, <2>2, <3>1, WayPicture
  <2> QED
    BY <2>1, <2>2
<1>17. ASSUME v # 0 PROVE Sound(e1, m) /\ Graph(e1, m) = Picture(d, rs, ps)
  <2>1. i # 1 /\ i - 1 \in 1 .. z - 1 /\ z - 1 # 0 /\ i - 1 < i /\ z - 1 \in Nat
    BY <1>4, <1>5, <1>8, <1>17
  <2>5. Way(e1, "node", m.first, rs)
    BY <1>7, <1>15, <2>1
  <2>2. NodeChain(e1, m.first) = rs
    BY <1>12, <2>5, WayChain DEF NodeChain
  <2>4. ~Linked(e1, m)
    <3> SUFFICES ASSUME Linked(e1, m) PROVE FALSE
      OBVIOUS
    <3>1. DOMAIN rs = 1 .. z - 1 /\ rs # <<>> /\ Last(rs) = rs[z - 1]
      BY <1>14, <2>1, ListLength DEF Last
    <3>2. /\ m.last = rs[z - 1]
          /\ \A l \in 1 .. z - 1 : e1[rs[l]].prev = IF l = 1 THEN 0 ELSE rs[l - 1]
      <4>1. /\ m.last = IF rs = <<>> THEN 0 ELSE Last(rs)
            /\ \A l \in DOMAIN rs : e1[rs[l]].prev = IF l = 1 THEN 0 ELSE rs[l - 1]
        BY <2>2 DEF Linked
      <4> QED
        BY <3>1, <4>1
    <3>3. CASE i = z
      <4>1. rs[z - 1] = ns[z - 1] /\ z - 1 \in 1 .. z /\ z - 1 # z
        BY <1>4, <1>14, <2>1, <3>3
      <4> QED
        BY <1>3, <1>7, <3>2, <4>1
    <3>4. CASE i # z
      <4>1. i \in 1 .. z - 1 /\ ~(i < i) /\ i - 1 \in 1 .. z /\ i - 1 # i /\ i + 1 \in 1 .. z
            /\ i + 1 # 1 /\ (i + 1) - 1 = i
        BY <1>4, <1>5, <2>1, <3>4
      <4>2. rs[i] = ns[i + 1] /\ rs[i - 1] = ns[i - 1]
        BY <1>14, <2>1, <4>1
      <4>3. e1[ns[i + 1]].prev = ns[i]
        BY <1>5, <1>10, <4>1
      <4>4. e1[ns[i + 1]].prev = ns[i - 1]
        BY <2>1, <3>2, <4>1, <4>2
      <4> QED
        BY <1>3, <1>5, <4>1, <4>3, <4>4
    <3> QED
      BY <3>3, <3>4
  <2>6. Graph(e1, m) = Picture(d, rs, ps)
    BY <1>12, <1>28, <1>30, <2>5, WayPicture
  <2> QED
    BY <1>1, <1>12, <1>28, <2>2, <2>4, <2>6, NodesSound
<1>18. /\ Header(k) /\ k.free = m.free
       /\ k.first = (IF i = 1 THEN NextIn(ns, 1) ELSE ns[1])
       /\ k.last = (IF i = z THEN v ELSE ns[z])
  <2>1. /\ Header(k) /\ k.free = m.free
        /\ k.first = (IF m.first = a THEN x ELSE m.first)
        /\ k.last = (IF m.last = a THEN v ELSE m.last)
    BY <1>1, HeaderEnds DEF EndsOf
  <2>2. (m.first = a <=> i = 1) /\ (m.last = a <=> i = z)
    BY <1>3, <1>5, <1>7
  <2> QED
    BY <1>5, <1>7, <2>1, <2>2
<1>19. /\ Owners(e2, Taken(ps, a), e2[a].prop)
       /\ \A y : y \in DOMAIN Taken(ps, a) <=> y \in DOMAIN ps /\ y # a
       /\ \A p \in Props(Taken(ps, a)) : p \in Props(ps)
  <2>1. a \in DOMAIN ps /\ a # 0
    BY <1>1, <1>5, <1>6
  <2> QED
    BY <1>12, <2>1, OwnersTake
<1>20. e2[a].prop = d[a].prop
  BY <1>5, <1>11
<1>24. /\ a \in DOMAIN ps /\ Related(e2, Taken(ps, a))
       /\ Chained(e2, ps) => Chained(e2, Taken(ps, a))
  <2>1. a \in DOMAIN ps /\ a # 0
    BY <1>1, <1>5, <1>6
  <2>2. Unconnected(e2, a)
    <3>1. \A r : IsA(d, r, "relationship") => a \notin Ends(d[r])
      BY DEF Unconnected, IsA, Ends
    <3>2. \A r : IsA(e2, r, "relationship") => a \notin Ends(e2[r])
      BY <1>11, <3>1 DEF Spares
    <3> QED
      BY <3>2 DEF Unconnected, IsA, Ends
  <2> QED
    BY <1>12, <2>1, <2>2, RelatedTake
<1>21. Full(e2, k, rs, Taken(ps, a), d[a].prop, fl)
  <2>1. Doubly(e2, k, rs)
    BY <1>15, <1>16, <1>18 DEF Doubly, PrevIn
  <2>2. Free(e2, k, fl)
    BY <1>12, <1>18, FreeSame
  <2>3. \A y : y \in DOMAIN Taken(ps, a) <=> y = 0 \/ y \in ToSet(rs)
    BY <1>1, <1>5, <1>6, <1>14, <1>19
  <2> QED
    BY <1>12, <1>18, <1>19, <1>20, <1>24, <2>1, <2>2, <2>3 DEF Full
<1>22. ASSUME x # 0 PROVE Sound(e2, m)
  <2>1. CASE i = 1
    <3>1. v = 0 /\ i # z /\ 2 \in 1 .. z /\ 2 = i + 1 /\ 2 # 1
      BY <1>4, <1>8, <1>22, <2>1
    <3>2. Way(e2, "node", m.first, ns)
      BY <1>31, <2>1
    <3>3. NodeChain(e2, m.first) = ns
      BY <1>12, <3>2, WayChain DEF NodeChain
    <3>5. ~Linked(e2, m)
      <4>1. e2[ns[2]].prev = 0 /\ ns[1] # 0
        BY <1>6, <1>7, <1>11, <3>1
      <4>2. DOMAIN ns = 1 .. z
        BY <1>3, ListLength DEF z
      <4>3. ASSUME Linked(e2, m) PROVE e2[ns[2]].prev = ns[1]
        <5>1. \A l \in DOMAIN ns : e2[ns[l]].prev = IF l = 1 THEN 0 ELSE ns[l - 1]
          BY <3>3, <4>3 DEF Linked
        <5>2. 2 \in DOMAIN ns /\ 2 - 1 = 1
          BY <3>1, <4>2
        <5> QED
          BY <5>1, <5>2
      <4> QED
        BY <4>1, <4>3
    <3> QED
      BY <1>1, <1>12, <1>28, <3>3, <3>5, NodesSound
  <2>2. CASE i # 1
    <3>1. i # z /\ k.first = m.first /\ k.last = m.last
      BY <1>7, <1>8, <1>18, <1>22, <2>2
    <3>2. k = m
      BY <1>1, <1>18, <3>1 DEF Header
    <3> QED
      BY <1>21, <3>2, FullSound
  <2> QED
    BY <2>1, <2>2
<1>23. IsA(e2, a, "node") /\ a # 0 /\ a \in 1 .. Len(e2) /\ a \in 1 .. Len(e2) + 1
  <2>1. IsA(e2, a, "node") /\ a # 0
    BY <1>5, <1>6, <1>13
  <2>2. DOMAIN e2 = 1 .. Len(e2) /\ Len(e2) \in Nat
    BY <1>12, ListLength
  <2>3. a \in 1 .. Len(e2)
    BY <2>1, <2>2 DEF IsA
  <2> QED
    BY <2>1, <2>2, <2>3
<1>25. /\ Loose(e2, Taken(ps, a), fl, a)
       /\ \A b : Loose(e2, Taken(ps, a), fl, b) => b = a \/ Loose(e2, ps, fl, b)
  BY <1>12, <1>23, <1>24, LooseTake
<1>26. ASSUME NoLeak(d, ps, fl, {}) PROVE NoLeak(e2, Taken(ps, a), fl, {a})
  <2>1. NoLeak(e2, ps, fl, {})
    BY <1>11, <1>26 DEF Spares
  <2> QED
    BY <1>25, <2>1 DEF NoLeak
<1>27. Chained(d, ps) => Chained(e2, Taken(ps, a))
  BY <1>11, <1>24 DEF Spares
<1>33. Graph(e2, k) = Picture(d, rs, ps)
  <2>1. Graph(e2, k) = Picture(e2, rs, Taken(ps, a))
    BY <1>21, GraphIs
  <2>2. \A j \in 1 .. Len(rs) : Taken(ps, a)[rs[j]] = ps[rs[j]]
    <3>1. \A j \in 1 .. Len(rs) : rs[j] \in ToSet(rs)
      BY <1>15, WayElements
    <3> QED
      BY <1>14, <1>28, <3>1 DEF Taken
  <2>3. Picture(e2, rs, Taken(ps, a)) = Picture(e2, rs, ps)
    BY <2>2 DEF Picture
  <2> QED
    BY <1>30, <2>1, <2>3
<1>34. d[a].prev = v /\ d[a].next = x
  BY <1>2, <1>3, <1>5
<1>35. v = 0 => e1 = d
  BY DEF NextPut
<1>36. Skipped(d, m, ns, ps, i, v, x, e1, e2)
  BY <1>5, <1>10, <1>11, <1>12, <1>17, <1>22, <1>32, <1>34, <1>35 DEF Skipped, rs
<1>37. Cut(d, ns, ps, fl, i, e2, k)
  BY <1>5, <1>21, <1>23, <1>25, <1>26, <1>27, <1>33 DEF Cut, rs
<1> QED
  BY <1>36, <1>37

(* A call under way, after some of its writes. *)
On(f, s) == IsState(s) /\ Reached(f, s.log, [disk |-> s.disk, meta |-> s.meta])

(* A write that leaves the file sound, and the only one to change what it shows, ... *)
Fits(f, s, v, e) ==
  v # 0 => /\ v \in 1 .. Len(s.disk) + 1 /\ Sound(e, s.meta)
           /\ Graph(e, s.meta) = Graph(s.disk, s.meta) \/ Graph(s.disk, s.meta) = View(f)

(* Any block, ... *)
LEMMA StepWrite ==
  ASSUME NEW f, NEW s, On(f, s), NEW a, NEW rec, a # 0, Fits(f, s, a, PutAt(s.disk, a, rec))
  PROVE  /\ On(f, Write(s, a, rec)) /\ Write(s, a, rec).disk = PutAt(s.disk, a, rec)
         /\ Write(s, a, rec).meta = s.meta
<1> DEFINE d == s.disk
           m == s.meta
           t == Write(s, a, rec)
<1>1. /\ IsState(t) /\ t.disk = PutAt(d, a, rec) /\ t.meta = m
      /\ t.log = Append(s.log, [at |-> a, data |-> rec])
  BY WriteState DEF On
<1>2. IsList(s.log) /\ IsList(d) /\ Reached(f, s.log, [disk |-> d, meta |-> m])
  BY DEF On, IsState
<1>3. /\ a \in 1 .. Len(d) + 1 /\ Sound(PutAt(d, a, rec), m)
      /\ Graph(PutAt(d, a, rec), m) = Graph(d, m) \/ Graph(d, m) = View(f)
  BY DEF Fits
<1> HIDE DEF d, m, t
<1>4. Reached(f, t.log, [disk |-> t.disk, meta |-> t.meta])
  BY <1>1, <1>2, <1>3, ReachedWrite
<1>5. On(f, t)
  BY <1>1, <1>4 DEF On
<1> QED
  BY <1>1, <1>5 DEF m, d, t

(* ... and the two of remove_node: the node before, the node after. *)
NextWrite(s, v, x) == IF v = 0 THEN s ELSE Write(s, v, SetNext(s.disk[v], x))
PrevWrite(s, x, v) == IF x = 0 THEN s ELSE Write(s, x, SetPrev(s.disk[x], v))

(* ... the next of the node before, ... *)
LEMMA StepNext ==
  ASSUME NEW f, NEW s, On(f, s), NEW v, NEW x, Fits(f, s, v, NextPut(s.disk, v, x))
  PROVE  /\ On(f, NextWrite(s, v, x)) /\ NextWrite(s, v, x).disk = NextPut(s.disk, v, x)
         /\ NextWrite(s, v, x).meta = s.meta
<1>1. CASE v = 0
  BY <1>1 DEF NextPut, NextWrite
<1>2. CASE v # 0
  <2> DEFINE rec == SetNext(s.disk[v], x)
             t == NextWrite(s, v, x)
             e == NextPut(s.disk, v, x)
  <2>1. t = Write(s, v, rec) /\ e = PutAt(s.disk, v, rec)
    BY <1>2 DEF NextPut, NextWrite
  <2>2. v # 0 /\ Fits(f, s, v, PutAt(s.disk, v, rec))
    BY <1>2, <2>1
  <2> HIDE DEF rec, e, t
  <2>3. On(f, s)
    OBVIOUS
  <2>4. /\ On(f, t) /\ t.disk = e /\ t.meta = s.meta
    BY ONLY <2>1, <2>2, <2>3, StepWrite
  <2> QED
    BY <2>4 DEF t, e
<1> QED
  BY <1>1, <1>2

(* ... and the prev of the node after the one that goes. *)
LEMMA StepPrev ==
  ASSUME NEW f, NEW s, On(f, s), NEW v, NEW x, Fits(f, s, x, PrevPut(s.disk, x, v))
  PROVE  /\ On(f, PrevWrite(s, x, v)) /\ PrevWrite(s, x, v).disk = PrevPut(s.disk, x, v)
         /\ PrevWrite(s, x, v).meta = s.meta
<1>1. CASE x = 0
  BY <1>1 DEF PrevPut, PrevWrite
<1>2. CASE x # 0
  <2> DEFINE rec == SetPrev(s.disk[x], v)
             t == PrevWrite(s, x, v)
             e == PrevPut(s.disk, x, v)
  <2>1. t = Write(s, x, rec) /\ e = PutAt(s.disk, x, rec)
    BY <1>2 DEF PrevPut, PrevWrite
  <2>2. x # 0 /\ Fits(f, s, x, PutAt(s.disk, x, rec))
    BY <1>2, <2>1
  <2> HIDE DEF rec, e, t
  <2>3. On(f, s)
    OBVIOUS
  <2>4. /\ On(f, t) /\ t.disk = e /\ t.meta = s.meta
    BY ONLY <2>1, <2>2, <2>3, StepWrite
  <2> QED
    BY <2>4 DEF t, e
<1> QED
  BY <1>1, <1>2

(* The header remove_node has in memory. *)
Unlinked(s, a, v, x) ==
  [s EXCEPT !.meta.first = IF @ = a THEN x ELSE @, !.meta.last = IF @ = a THEN v ELSE @]

(* The header is changed at the ends the node was at. *)
LEMMA UnlinkHeader ==
  ASSUME NEW s, IsState(s), Header(s.meta), NEW a, NEW v, NEW x
  PROVE  Unlinked(s, a, v, x) = [s EXCEPT !.meta = EndsOf(s.meta, a, v, x)]
<1> DEFINE m == s.meta
           b == IF m.first = a THEN x ELSE m.first
           c == IF m.last = a THEN v ELSE m.last
           m1 == [m EXCEPT !.first = b]
           m2 == [m1 EXCEPT !.last = c]
           s1 == [s EXCEPT !.meta = m1]
           t == [s EXCEPT !.meta.first = IF @ = a THEN x ELSE @,
                          !.meta.last = IF @ = a THEN v ELSE @]
<1>1. /\ s = [disk |-> s.disk, meta |-> s.meta, log |-> s.log]
      /\ m = [first |-> m.first, last |-> m.last, free |-> m.free]
  BY DEF IsState, Header
<1>2. m1 = [first |-> b, last |-> m.last, free |-> m.free] /\ m1.last = m.last
  BY <1>1
<1>3. s1 = [s EXCEPT !.meta.first = IF @ = a THEN x ELSE @] /\ s1.meta = m1
  BY <1>1
<1>4. t = [s1 EXCEPT !.meta.last = IF @ = a THEN v ELSE @]
  <2> DEFINE w == [s EXCEPT !.meta.first = IF @ = a THEN x ELSE @]
  <2>1. t = [w EXCEPT !.meta.last = IF @ = a THEN v ELSE @]
    BY Zenon
  <2>2. w = s1
    BY <1>3
  <2> HIDE DEF t, w, s1
  <2> QED
    BY <2>1, <2>2
<1>5. t = [s1 EXCEPT !.meta = m2]
  BY <1>2, <1>3, <1>4
<1>6. EndsOf(m, a, v, x) = WithEnds(m, b, c)
  BY DEF EndsOf
<1>7. WithEnds(m, b, c) = m2
  BY DEF WithEnds
<1> HIDE DEF m2, m1
<1>8. t = [s EXCEPT !.meta = m2]
  BY <1>1, <1>5
<1> QED
  BY <1>6, <1>7, <1>8 DEF Unlinked

(* A list without its element i, as the community modules write it. *)
LEMMA RemovedAt ==
  ASSUME NEW u, IsList(u), NEW i \in 1 .. Len(u)
  PROVE  RemoveAt(u, i) = [k \in 1 .. Len(u) - 1 |-> IF k < i THEN u[k] ELSE u[k + 1]]
<1> DEFINE n == Len(u)
           b == SubSeq(u, 1, i - 1)
           c == SubSeq(u, i + 1, n)
           z == n - 1
           w == b \o c
<1>1. PICK S : u \in Seq(S)
  BY DEF IsList
<1>2. n \in Nat /\ i \in 1 .. n /\ \A k \in 1 .. n : u[k] \in S
  BY <1>1
<1> HIDE DEF n
<1>3. b \in Seq(S) /\ Len(b) = i - 1 /\ \A k \in 1 .. i - 1 : b[k] = u[k]
  <2>1. 1 \in Int /\ i - 1 \in Int /\ \A k \in 1 .. i - 1 : u[k] \in S
    BY <1>2
  <2>2. /\ b \in Seq(S) /\ Len(b) = IF 1 <= i - 1 THEN (i - 1) - 1 + 1 ELSE 0
        /\ \A k \in 1 .. (i - 1) - 1 + 1 : b[k] = u[1 + k - 1]
    BY <2>1, SubSeqProperties
  <2>3. (i - 1) - 1 + 1 = i - 1 /\ (1 <= i - 1 \/ i - 1 = 0)
    BY <1>2
  <2>4. \A k \in 1 .. i - 1 : 1 + k - 1 = k
    BY <1>2
  <2> HIDE DEF b
  <2> QED
    BY <2>2, <2>3, <2>4
<1>4. c \in Seq(S) /\ Len(c) = n - i /\ \A k \in 1 .. n - i : c[k] = u[i + k]
  <2>1. i + 1 \in Int /\ n \in Int /\ \A k \in i + 1 .. n : u[k] \in S
    BY <1>2
  <2>2. /\ c \in Seq(S) /\ Len(c) = IF i + 1 <= n THEN n - (i + 1) + 1 ELSE 0
        /\ \A k \in 1 .. n - (i + 1) + 1 : c[k] = u[(i + 1) + k - 1]
    BY <2>1, SubSeqProperties
  <2>3. n - (i + 1) + 1 = n - i /\ (i + 1 <= n \/ n - i = 0)
    BY <1>2
  <2>4. \A k \in 1 .. n - i : (i + 1) + k - 1 = i + k
    BY <1>2
  <2> HIDE DEF c
  <2> QED
    BY <2>2, <2>3, <2>4
<1> HIDE DEF b, c
<1>5. /\ w \in Seq(S) /\ Len(w) = Len(b) + Len(c)
      /\ \A k \in 1 .. Len(b) + Len(c) : w[k] = IF k <= Len(b) THEN b[k] ELSE c[k - Len(b)]
  BY <1>3, <1>4, ConcatProperties
<1> HIDE DEF w
<1>6. Len(w) = z /\ z \in Nat /\ DOMAIN w = 1 .. Len(w)
  BY <1>2, <1>3, <1>4, <1>5
<1>7. \A k \in 1 .. z : w[k] = IF k < i THEN u[k] ELSE u[k + 1]
  <2> TAKE k \in 1 .. z
  <2>1. k \in 1 .. Len(b) + Len(c) /\ k \in Nat /\ k # 0 /\ k <= n - 1
    BY <1>2, <1>3, <1>4
  <2>2. CASE k < i
    <3>1. k \in 1 .. i - 1 /\ k <= Len(b)
      BY <1>2, <1>3, <2>1, <2>2
    <3> QED
      BY <1>3, <1>5, <2>1, <2>2, <3>1
  <2>3. CASE ~(k < i)
    <3>1. ~(k <= Len(b)) /\ k - Len(b) \in 1 .. n - i /\ i + (k - Len(b)) = k + 1
      BY <1>2, <1>3, <2>1, <2>3
    <3>2. w[k] = c[k - Len(b)]
      BY <1>5, <2>1, <3>1
    <3> QED
      BY <1>4, <2>3, <3>1, <3>2
  <2> QED
    BY <2>2, <2>3
<1>8. w = [k \in 1 .. z |-> w[k]]
  BY <1>5, <1>6
<1>9. w = [k \in 1 .. z |-> IF k < i THEN u[k] ELSE u[k + 1]]
  BY <1>7, <1>8
<1> QED
  BY <1>9 DEF w, b, c, n, RemoveAt

(* The graph without the node. *)
LEMMA PictureWithout ==
  ASSUME NEW d, NEW ns, Len(ns) \in Nat, NEW ps, NEW i \in 1 .. Len(ns)
  PROVE  Picture(d, Without(ns, i), ps) = RemoveAt(Picture(d, ns, ps), i)
<1> DEFINE z == Len(ns)
           u == Picture(d, ns, ps)
           t == Without(ns, i)
           v == [k \in 1 .. z - 1 |-> IF k < i THEN u[k] ELSE u[k + 1]]
<1>1. z \in Nat /\ i \in 1 .. z /\ z - 1 \in Nat
  OBVIOUS
<1>2. IsList(u) /\ Len(u) = z /\ \A k \in 1 .. z : u[k] = Read(d, ps[ns[k]])
  <2>1. u = [k \in 1 .. z |-> Read(d, ps[ns[k]])]
    BY DEF Picture
  <2> HIDE DEF u, z
  <2>2. u \in [1 .. z -> {u[k] : k \in 1 .. z}]
    BY <2>1
  <2>3. u \in Seq({u[k] : k \in 1 .. z}) /\ Len(u) = z
    BY <1>1, <2>2, ListOf
  <2> QED
    BY <2>1, <2>3 DEF IsList
<1>3. t = [k \in 1 .. z - 1 |-> IF k < i THEN ns[k] ELSE ns[k + 1]]
  BY DEF Without
<1> HIDE DEF u, t, z
<1>4. Len(t) = z - 1 /\ \A k \in 1 .. z - 1 : t[k] = IF k < i THEN ns[k] ELSE ns[k + 1]
  <2> DEFINE y == z - 1
  <2>1. y \in Nat /\ t \in [1 .. y -> {t[k] : k \in 1 .. y}]
    BY <1>1, <1>3
  <2> HIDE DEF y
  <2>2. Len(t) = y
    BY <2>1, ListOf
  <2> QED
    BY <1>3, <2>2 DEF y
<1>5. Picture(d, t, ps) = [k \in 1 .. z - 1 |-> Read(d, ps[t[k]])]
  BY <1>4 DEF Picture
<1>6. \A k \in 1 .. z - 1 : Read(d, ps[t[k]]) = IF k < i THEN u[k] ELSE u[k + 1]
  <2> TAKE k \in 1 .. z - 1
  <2>1. k \in 1 .. z /\ k + 1 \in 1 .. z
    BY <1>1
  <2> QED
    BY <1>2, <1>4, <2>1
<1>7. Picture(d, t, ps) = v
  BY <1>5, <1>6
<1>8. RemoveAt(u, i) = v
  <2>1. IsList(u) /\ i \in 1 .. Len(u)
    BY <1>1, <1>2
  <2>2. RemoveAt(u, i) = [k \in 1 .. Len(u) - 1 |-> IF k < i THEN u[k] ELSE u[k + 1]]
    BY <2>1, RemovedAt
  <2> QED
    BY <1>2, <2>2
<1> QED
  BY <1>7, <1>8 DEF t, u

(* remove_node takes a node out of the list: t is the call then, under way in f. *)
Gone(f, s, a, t) ==
  \E rs, qs : /\ Good(f, t, rs, qs, s.disk[a].prop, {a})
              /\ a \in 1 .. Len(t.disk)
              /\ qs[0] = PropertyChain(s.disk, a)

(* A relationship stays what it is when a node is written back as a node. *)
LEMMA StaysNode ==
  ASSUME NEW o, NEW d, IsList(d), Stays(o, d), NEW a, IsA(d, a, "node"), NEW rec, rec.kind = "node"
  PROVE  /\ Stays(o, PutAt(d, a, rec)) /\ IsList(PutAt(d, a, rec))
         /\ \A b : IsA(d, b, "node") => IsA(PutAt(d, a, rec), b, "node")
<1> DEFINE e == PutAt(d, a, rec)
<1>1. /\ Len(d) \in Nat /\ DOMAIN d = 1 .. Len(d) /\ a \in 1 .. Len(d) + 1 /\ a \in DOMAIN d
  BY ListLength DEF IsA
<1>2. /\ IsList(e) /\ e[a] = rec /\ DOMAIN e = 1 .. Len(e) /\ a \in DOMAIN e
      /\ \A b : b # a => (b \in DOMAIN e <=> b \in DOMAIN d)
      /\ \A b : b # a /\ b \in DOMAIN d => e[b] = d[b]
  BY <1>1, PutFacts
<1> HIDE DEF e
<1>3. \A b, kind : IsA(e, b, kind) <=> IsA(d, b, kind)
  BY <1>1, <1>2 DEF IsA
<1>4. \A b : Text(e, b) = Text(d, b)
  BY <1>1, <1>2, <1>3 DEF Text, IsA
<1>5. \A r : IsA(d, r, "relationship") => e[r] = d[r]
  BY <1>1, <1>2 DEF IsA
<1>6. Stays(o, e)
  BY <1>3, <1>4, <1>5 DEF Stays
<1> QED
  BY <1>2, <1>3, <1>6 DEF e

(* The two writes that link the neighbours of a node to each other. *)
LEMMA StaysUnlink ==
  ASSUME NEW d, NEW m, NEW ns, NEW ps, NEW h, NEW fl, Full(d, m, ns, ps, h, fl),
         NEW i \in 1 .. Len(ns), NEW o, Stays(o, d)
  PROVE  /\ Stays(o, NextPut(d, PrevIn(ns, i), NextIn(ns, i)))
         /\ Stays(o, PrevPut(NextPut(d, PrevIn(ns, i), NextIn(ns, i)), NextIn(ns, i), PrevIn(ns, i)))
<1> DEFINE v == PrevIn(ns, i)
           x == NextIn(ns, i)
           e == NextPut(d, v, x)
<1>1. IsList(d) /\ Len(ns) \in Nat /\ \A j \in 1 .. Len(ns) : IsA(d, ns[j], "node")
  BY NodeChains DEF Full, ToSet
<1>2. (v # 0 => IsA(d, v, "node")) /\ (x # 0 => IsA(d, x, "node"))
  BY <1>1 DEF PrevIn, NextIn
<1> HIDE DEF v, x
<1>3. Stays(o, e) /\ IsList(e) /\ \A b : IsA(d, b, "node") => IsA(e, b, "node")
  <2>1. CASE v = 0
    BY <1>1, <2>1 DEF NextPut
  <2>2. CASE v # 0
    <3>1. SetNext(d[v], x).kind = "node"
      BY <1>2, <2>2 DEF SetNext, IsA
    <3> QED
      BY <1>1, <1>2, <2>2, <3>1, StaysNode DEF NextPut
  <2> QED
    BY <2>1, <2>2
<1> HIDE DEF e
<1>4. Stays(o, PrevPut(e, x, v))
  <2>1. CASE x = 0
    BY <1>3, <2>1 DEF PrevPut
  <2>2. CASE x # 0
    <3>1. IsA(e, x, "node") /\ SetPrev(e[x], v).kind = "node"
      BY <1>2, <1>3, <2>2 DEF SetPrev, IsA
    <3> QED
      BY <1>3, <2>2, <3>1, StaysNode DEF PrevPut
  <2> QED
    BY <2>1, <2>2
<1> QED
  BY <1>3, <1>4 DEF e, v, x

LEMMA UnlinkGood ==
  ASSUME NEW f, NEW s, NEW ns, NEW ps, Good(f, s, ns, ps, 0, {}),
         f.graph = View(FileOf(f)), NEW i \in 1 .. Len(ns), NEW a, a = ns[i], Unconnected(s.disk, a)
  PROVE  Gone(Shown(f, RemoveAt(f.graph, i)), s, a, Unlink(s, a, s.disk[a]))
<1> DEFINE d == s.disk
           m == s.meta
           g == FileOf(f)
<1>1. PICK fl : Full(d, m, ns, ps, 0, fl) /\ NoLeak(d, ps, fl, {})
  BY DEF Good, Part
<1>2. IsState(s) /\ Header(m) /\ IsList(d) /\ On(g, s)
  BY GoodState DEF Good, On
<1>3. /\ a \in ToSet(ns) /\ Len(ns) \in Nat
      /\ Graph(d, m) = f.graph /\ Graph(d, m) = View(g) /\ Graph(d, m) = Picture(d, ns, ps)
      /\ f.exact => Chained(d, ps)
  BY <1>1, <1>2, NodeChains, GraphIs DEF Full, Good
<1> DEFINE v == PrevIn(ns, i)
           x == NextIn(ns, i)
           e1 == NextPut(d, v, x)
           e2 == PrevPut(e1, x, v)
           k == EndsOf(m, a, v, x)
           rs == Without(ns, i)
           qs == Taken(ps, a)
           n == d[a]
           s1 == IF n.prev = 0 THEN s ELSE Write(s, n.prev, [s.disk[n.prev] EXCEPT !.next = n.next])
           s2 == IF n.next = 0 THEN s1
                 ELSE Write(s1, n.next, [s1.disk[n.next] EXCEPT !.prev = n.prev])
           s3 == [s2 EXCEPT !.meta.first = IF @ = a THEN n.next ELSE @,
                            !.meta.last = IF @ = a THEN n.prev ELSE @]
           t == IF s3.meta = s2.meta THEN s3 ELSE SaveMeta(s3)
<1>4. Unlink(s, a, n) = t
  BY DEF Unlink
<1>5. qs[0] = PropertyChain(d, a)
  <2>1. Owners(d, ps, 0) /\ a \in DOMAIN ps /\ 0 \in DOMAIN ps
    BY <1>1, <1>3 DEF Full, Owners
  <2>2. a # 0
    BY <1>3, NodesApart
  <2>3. 0 \in DOMAIN ps \ {a}
    BY <2>1, <2>2
  <2> QED
    BY <1>2, <2>1, <2>2, <2>3, OwnerChains DEF Taken
<1>19. Stays(f.disk, e1) /\ Stays(f.disk, e2)
  <2>1. Stays(f.disk, d)
    BY DEF Good
  <2> HIDE DEF d, m
  <2> QED
    BY <1>1, <2>1, StaysUnlink
<1> HIDE DEF d, m, v, x, e1, e2, k, g
<1>14. Skipped(d, m, ns, ps, i, v, x, e1, e2) /\ Cut(d, ns, ps, fl, i, e2, k)
  BY <1>1, UnlinkFile DEF v, x, e1, e2, k, d, m
<1> HIDE DEF rs, qs
<1>6. /\ d[a].prev = v /\ d[a].next = x
      /\ v # 0 => /\ v \in 1 .. Len(d) + 1 /\ Sound(e1, m)
                  /\ Graph(e1, m) = Picture(d, rs, ps)
      /\ v = 0 => e1 = d
      /\ x # 0 => x \in 1 .. Len(e1) + 1 /\ Sound(e2, m)
      /\ IsList(e1) /\ IsList(e2)
      /\ Graph(e2, m) = IF v = 0 THEN Graph(d, m) ELSE Picture(d, rs, ps)
  BY <1>3, <1>14 DEF Skipped, rs
<1>15. /\ Full(e2, k, rs, qs, d[a].prop, fl) /\ Loose(e2, qs, fl, a)
       /\ a \in 1 .. Len(e2) /\ a # 0
       /\ Chained(d, ps) => Chained(e2, qs)
       /\ NoLeak(e2, qs, fl, {a})
       /\ Graph(e2, k) = Picture(d, rs, ps)
  BY <1>1, <1>14 DEF Cut, rs, qs
<1>16. Picture(d, rs, ps) = RemoveAt(f.graph, i)
  BY <1>3, PictureWithout DEF rs
<1>7. On(g, s1) /\ s1.disk = e1 /\ s1.meta = m
  <2>1. s1 = NextWrite(s, v, x)
    BY <1>6 DEF SetNext, NextWrite
  <2> HIDE DEF s1
  <2>2. e1 = NextPut(s.disk, v, x)
    BY DEF e1, d
  <2>3. Fits(g, s, v, NextPut(s.disk, v, x))
    BY <1>3, <1>6, <2>2 DEF Fits, d, m
  <2> QED
    BY <1>2, <2>1, <2>2, <2>3, StepNext DEF m
<1> HIDE DEF s1
<1>8. On(g, s2) /\ IsState(s2) /\ s2.disk = e2 /\ s2.meta = m
  <2>1. s2 = PrevWrite(s1, x, v)
    BY <1>6 DEF SetPrev, PrevWrite
  <2> HIDE DEF s2
  <2>2. e2 = PrevPut(s1.disk, x, v)
    BY <1>7 DEF e2
  <2>3. Fits(g, s1, x, PrevPut(s1.disk, x, v))
    BY <1>3, <1>6, <1>7, <2>2 DEF Fits
  <2> QED
    <3>1. On(g, s1)
      BY <1>7
    <3>2. On(g, s2) /\ s2.disk = e2 /\ s2.meta = s1.meta
      BY <2>1, <2>2, <2>3, <3>1, StepPrev
    <3> QED
      BY <1>7, <3>2 DEF On
<1> HIDE DEF s2
<1>9. s3 = [s2 EXCEPT !.meta = k]
  <2>1. s3 = Unlinked(s2, a, v, x)
    BY <1>6 DEF Unlinked
  <2> HIDE DEF s3
  <2>2. Header(s2.meta) /\ k = EndsOf(s2.meta, a, v, x)
    BY <1>2, <1>8 DEF k
  <2> QED
    BY <1>8, <2>1, <2>2, UnlinkHeader
<1> HIDE DEF s3
<1>10. IsState(s3) /\ s3.disk = e2 /\ s3.meta = k /\ s3.log = s2.log
  BY <1>8, <1>9, MetaState
<1>11. Part(s3.disk, s3.meta, rs, qs, n.prop, {a})
  BY <1>10, <1>15 DEF Part
<1> DEFINE fs == Shown(f, RemoveAt(f.graph, i))
<1>17. FileOf(fs) = g /\ fs.graph = Picture(d, rs, ps) /\ fs.exact = f.exact /\ fs.disk = f.disk
  BY <1>16, ShownIs DEF g
<1> HIDE DEF fs
<1>18. /\ Graph(s3.disk, s3.meta) = fs.graph /\ (fs.exact => Chained(s3.disk, qs))
       /\ Stays(fs.disk, s3.disk)
  BY <1>3, <1>10, <1>15, <1>17, <1>19
<1>12. Good(fs, t, rs, qs, n.prop, {a}) /\ t.disk = e2
  <2>1. CASE s3.meta = s2.meta
    <3>1. t = s3
      BY <2>1
    <3> HIDE DEF t
    <3>2. Reached(FileOf(fs), s3.log, [disk |-> s3.disk, meta |-> s3.meta])
      BY <1>8, <1>10, <1>17, <2>1 DEF On
    <3> HIDE DEF n
    <3> QED
      BY <1>10, <1>11, <1>18, <3>1, <3>2 DEF Good
  <2>2. CASE s3.meta # s2.meta
    <3>1. t = SaveMeta(s3)
      BY <2>2
    <3> HIDE DEF t, n
    <3>2. Reached(FileOf(fs), s3.log, [disk |-> s3.disk, meta |-> m])
      BY <1>8, <1>10, <1>17 DEF On
    <3>3. Graph(s3.disk, m) = fs.graph \/ Graph(s3.disk, m) = View(FileOf(fs))
      BY <1>3, <1>6, <1>10, <1>17
    <3>5. IsState(s3) /\ Part(s3.disk, s3.meta, rs, qs, n.prop, {a})
      BY <1>10, <1>11
    <3>6. Graph(s3.disk, s3.meta) = fs.graph
      BY <1>18
    <3>7. (fs.exact => Chained(s3.disk, qs)) /\ Stays(fs.disk, s3.disk)
      BY <1>18
    <3>4. Good(fs, SaveMeta(s3), rs, qs, n.prop, {a}) /\ SaveMeta(s3).disk = s3.disk
      BY ONLY <3>2, <3>3, <3>5, <3>6, <3>7, GoodSave
    <3> QED
      BY <1>10, <3>1, <3>4
  <2> QED
    BY <2>1, <2>2
<1> HIDE DEF t
<1>13. Good(fs, Unlink(s, a, n), rs, qs, n.prop, {a}) /\ a \in 1 .. Len(Unlink(s, a, n).disk)
  BY <1>4, <1>12, <1>15
<1> QED
  BY <1>5, <1>13 DEF d, fs, Gone

(* remove_node releases the first property in hand. *)
LEMMA FreePropertyGood ==
  ASSUME NEW f, NEW s, NEW ns, NEW ps, NEW h, NEW a, Good(f, s, ns, ps, h, {a}),
         a \in 1 .. Len(s.disk), h # 0
  PROVE  \E g : /\ Good(f, FreeProperty(s, h), ns, With(ps, 0, Tail(ps[0])), g, {a})
                /\ a \in 1 .. Len(FreeProperty(s, h).disk)
<1> DEFINE d == s.disk
           key == d[h].key
           val == d[h].val
           str == d[h].type = "STRING"
           rs == With(ps, 0, Tail(ps[0]))
           g == d[h].next
           C == Chunks(d[h])
           X == {a, h} \cup C
           s1 == RemoveChain(s, key)
           s2 == IF str THEN RemoveChain(s1, val) ELSE s1
           t == RemoveData(s2, h, "static")
<1>1. PICK fl : /\ Full(d, s.meta, ns, ps, h, fl) /\ Loose(d, ps, fl, a)
                /\ NoLeak(d, ps, fl, {a})
  BY DEF Good, Part
<1>2. /\ Full(d, s.meta, ns, rs, g, fl) /\ InHand(d, rs, fl, h)
      /\ Loose(d, rs, fl, a) /\ a # h /\ a \notin C
      /\ \A b : Loose(d, rs, fl, b) => Loose(d, ps, fl, b) \/ b = h \/ b \in C
      /\ Chained(d, ps) => Chained(d, rs)
  BY <1>1, PopOwn
<1>3. /\ IsA(d, h, "property") /\ Loose(d, rs, fl, h)
      /\ \A c \in C : IsA(d, c, "chunk") /\ Loose(d, rs, fl, c)
      /\ str => key # val
  BY <1>2 DEF InHand
<1>4. C = IF str THEN {key, val} ELSE {key}
  BY DEF Chunks
<1>5. DOMAIN d = 1 .. Len(d) /\ Len(d) \in Nat
  BY GoodState
<1>6. h \in 1 .. Len(d) /\ \A c \in C : c \in 1 .. Len(d) /\ c # h /\ c # 0
  BY <1>3, <1>5 DEF IsA
<1> HIDE DEF rs, g
<1>7. Good(f, s, ns, rs, g, X)
  <2>1. \A b \in X : Loose(d, rs, fl, b)
    BY <1>2, <1>3
  <2>2. NoLeak(d, rs, fl, X)
    BY <1>1, <1>2 DEF NoLeak
  <2> HIDE DEF X
  <2> QED
    BY <1>2, <2>1, <2>2 DEF Good, Part
<1>8. "static" \in Class /\ "dynamic" \in Class
  BY DEF Class
<1>9. FreeProperty(s, h) = t
  BY DEF FreeProperty
<1>10. key \in X /\ key # 0 /\ key \in 1 .. Len(d)
  BY <1>4, <1>6
<1>11. s1 = RemoveData(s, key, "dynamic")
  BY <1>10 DEF RemoveChain
<1> HIDE DEF s1, X, key, val, str, C, t
<1>12. Good(f, s1, ns, rs, g, X \ {key}) /\ Len(d) <= Len(s1.disk)
  BY <1>7, <1>8, <1>10, <1>11, GoodRemove DEF d
<1>13. Len(s1.disk) \in Nat
  BY <1>12, GoodState
<1>14. \A b \in 1 .. Len(d) : b \in 1 .. Len(s1.disk)
  BY <1>5, <1>12, <1>13
<1>15. \E Y : /\ Good(f, s2, ns, rs, g, Y) /\ h \in Y /\ Y \ {h} = {a}
              /\ Len(s1.disk) <= Len(s2.disk)
  <2>1. CASE str
    <3>1. s2 = RemoveChain(s1, val) /\ val \in C /\ val # key
      BY <1>3, <1>4, <2>1 DEF str
    <3>2. s2 = RemoveData(s1, val, "dynamic")
      BY <1>6, <3>1 DEF RemoveChain
    <3>3. val \in X \ {key} /\ val \in 1 .. Len(s1.disk)
      BY <1>6, <1>14, <3>1 DEF X
    <3> HIDE DEF s2
    <3>4. Good(f, s2, ns, rs, g, (X \ {key}) \ {val}) /\ Len(s1.disk) <= Len(s2.disk)
      BY <1>8, <1>12, <3>2, <3>3, GoodRemove
    <3>5. h \in (X \ {key}) \ {val} /\ ((X \ {key}) \ {val}) \ {h} = {a}
      BY <1>2, <1>4, <1>6, <3>1, <2>1 DEF X
    <3> QED
      BY <3>4, <3>5
  <2>2. CASE ~str
    <3>1. s2 = s1
      BY <2>2 DEF str
    <3>2. h \in X \ {key} /\ (X \ {key}) \ {h} = {a}
      BY <1>2, <1>4, <1>6, <2>2 DEF X
    <3> HIDE DEF s2
    <3>3. Len(s1.disk) <= Len(s2.disk)
      BY <1>13, <3>1
    <3> QED
      BY <1>12, <3>1, <3>2, <3>3
  <2> QED
    BY <2>1, <2>2
<1> HIDE DEF s2
<1>16. PICK Y : /\ Good(f, s2, ns, rs, g, Y) /\ h \in Y /\ Y \ {h} = {a}
                /\ Len(s1.disk) <= Len(s2.disk)
  BY <1>15
<1>17. Len(s2.disk) \in Nat
  BY <1>16, GoodState
<1>18. h \in 1 .. Len(s2.disk)
  BY <1>6, <1>13, <1>14, <1>16, <1>17
<1>19. Good(f, t, ns, rs, g, Y \ {h}) /\ Len(s2.disk) <= Len(t.disk)
  BY <1>8, <1>16, <1>18, GoodRemove DEF t
<1>21. Good(f, t, ns, rs, g, {a})
  BY <1>16, <1>19
<1>22. a \in 1 .. Len(t.disk)
  <2>1. Len(t.disk) \in Nat
    BY <1>21, GoodState
  <2>2. a \in 1 .. Len(s1.disk)
    BY <1>14 DEF d
  <2> QED
    BY <1>13, <1>16, <1>17, <1>19, <2>1, <2>2
<1> QED
  BY <1>9, <1>21, <1>22 DEF rs

(* The loop of remove_node releases them all. *)
LEMMA FreePropertiesGood ==
  ASSUME NEW f, NEW s, NEW ns, NEW ps, NEW h, NEW a, Good(f, s, ns, ps, h, {a}),
         a \in 1 .. Len(s.disk), NEW c, c = ps[0]
  PROVE  \E rs : /\ Good(f, FreeProperties(s, c)[Len(c)], ns, rs, 0, {a})
                 /\ a \in 1 .. Len(FreeProperties(s, c)[Len(c)].disk)
<1> DEFINE S == FreeProperties(s, c)
           n == Len(c)
           Left(i, rs) == Len(rs[0]) = n - i /\ \A j \in 1 .. n - i : rs[0][j] = c[i + j]
           In(i, rs, g) == /\ Good(f, S[i], ns, rs, g, {a}) /\ a \in 1 .. Len(S[i].disk)
                           /\ Left(i, rs)
           A == {i \in Nat : i <= n => \E rs, g : In(i, rs, g)}
<1>1. n \in Nat
  BY OwnWay
<1>2. S[0] = s /\ \A i \in 1 .. n : S[i] = FreeProperty(S[i - 1], c[i])
  BY <1>1, FreePropertiesIs
<1> HIDE DEF S, n
<1>3. 0 \in A
  <2>1. n - 0 = n /\ \A j \in 1 .. n : 0 + j = j
    BY <1>1
  <2>2. Left(0, ps)
    BY <2>1 DEF n
  <2>3. In(0, ps, h)
    BY <1>2, <2>2
  <2> QED
    BY <2>3
<1> HIDE DEF In, Left
<1>4. ASSUME NEW i \in Nat, i \in A PROVE i + 1 \in A
  <2> SUFFICES ASSUME i + 1 <= n PROVE \E rs, g : In(i + 1, rs, g)
    OBVIOUS
  <2>1. i + 1 \in 1 .. n /\ (i + 1) - 1 = i /\ i <= n /\ n - i # 0 /\ 1 \in 1 .. n - i
    BY <1>1
  <2>2. PICK rs, g : In(i, rs, g)
    BY <1>4, <2>1
  <2>3. /\ Good(f, S[i], ns, rs, g, {a}) /\ a \in 1 .. Len(S[i].disk)
        /\ Len(rs[0]) = n - i /\ \A j \in 1 .. n - i : rs[0][j] = c[i + j]
    BY <2>2 DEF In, Left
  <2>4. g = rs[0][1] /\ g # 0 /\ IsList(rs[0]) /\ 0 \in DOMAIN rs
    BY <2>1, <2>3, OwnWay
  <2>5. g = c[i + 1]
    BY <2>1, <2>3, <2>4
  <2> DEFINE qs == With(rs, 0, Tail(rs[0]))
             t == FreeProperty(S[i], g)
  <2>6. S[i + 1] = t
    BY <1>2, <2>1, <2>5
  <2>7. PICK k : Good(f, t, ns, qs, k, {a}) /\ a \in 1 .. Len(t.disk)
    BY <2>3, <2>4, FreePropertyGood
  <2>8. Left(i + 1, qs)
    <3>1. qs[0] = Tail(rs[0])
      BY <2>4 DEF With
    <3> HIDE DEF qs
    <3>2. Len(Tail(rs[0])) = Len(rs[0]) - 1
          /\ \A j \in 1 .. Len(rs[0]) - 1 : Tail(rs[0])[j] = rs[0][j + 1]
      <4>1. PICK T : rs[0] \in Seq(T)
        BY <2>4 DEF IsList
      <4>2. rs[0] # <<>>
        BY <2>1, <2>3
      <4> QED
        BY <4>1, <4>2
    <3>3. n - i - 1 = n - (i + 1)
      BY <1>1
    <3>4. \A j \in 1 .. n - (i + 1) : j + 1 \in 1 .. n - i /\ i + (j + 1) = i + 1 + j
      BY <1>1
    <3>5. Len(qs[0]) = n - (i + 1)
      BY <2>3, <3>1, <3>2, <3>3
    <3>6. \A j \in 1 .. n - (i + 1) : qs[0][j] = c[i + 1 + j]
      BY <2>3, <3>1, <3>2, <3>3, <3>4
    <3> QED
      BY <3>5, <3>6 DEF Left
  <2> HIDE DEF qs, t
  <2>9. In(i + 1, qs, k)
    BY <2>6, <2>7, <2>8 DEF In
  <2> QED
    BY <2>9
<1> HIDE DEF A
<1>5. Nat \subseteq A
  BY <1>3, <1>4, Induct
<1>6. n \in A /\ n <= n /\ n - n = 0
  BY <1>1, <1>5
<1>7. PICK rs, g : In(n, rs, g)
  BY <1>6 DEF A
<1>8. Good(f, S[n], ns, rs, g, {a}) /\ a \in 1 .. Len(S[n].disk) /\ Len(rs[0]) = 0
  BY <1>6, <1>7 DEF In, Left
<1>9. g = 0
  BY <1>8, OwnWay
<1> QED
  BY <1>8, <1>9 DEF S, n

(* A node of such a file has no relationships. *)
LEMMA NoRelationships ==
  ASSUME NEW d, IsList(d), NEW n, d[n].rel = 0
  PROVE  RelationshipChain(d, n) = <<>>
<1> DEFINE X == 0 .. Len(d) + 1
           fnext == Link(d, "relationship", "fnext")
           snext == Link(d, "relationship", "snext")
           L == [b \in X |-> IF IsA(d, b, "relationship") /\ d[b].first = n
                             THEN fnext[b] ELSE snext[b]]
<1>1. Len(d) \in Nat /\ 0 \in X
  BY ListLength
<1>2. \A a : Address(d, a) \in X
  BY <1>1 DEF Address
<1>3. fnext \in [X -> X] /\ snext \in [X -> X]
  BY <1>1, <1>2 DEF Link
<1>4. IsFiniteSet(X)
  BY <1>1, FS_Interval
<1> HIDE DEF fnext, snext, X
<1>5. L \in [X -> X] /\ DOMAIN L = X
  BY <1>3
<1>6. Address(d, d[n].rel) = 0
  BY <1>1 DEF Address, X
<1>7. RelationshipChain(d, n) = Chain(L, 0)
  BY <1>6 DEF RelationshipChain, fnext, snext, X
<1> HIDE DEF L
<1>8. Closed(L)
  BY <1>1, <1>4, <1>5 DEF Closed
<1>9. Chain(L, 0) = <<>>
  BY <1>8, LeadsNowhere, ChainIs
<1> QED
  BY <1>7, <1>9

(* A node of no relationship leads to none. *)
LEMMA UnconnectedNode ==
  ASSUME NEW d, NEW ps, Related(d, ps), NEW n \in DOMAIN ps, n # 0, Unconnected(d, n)
  PROVE  d[n].rel = 0
BY DEF Related, Unconnected, IsA, Ends

(* remove_node: the node is unlinked, its properties are released in turn, *)
(* then the node itself. *)
LEMMA RemoveNodeGood ==
  ASSUME NEW ns, NEW ps, NEW fl, InOrder(ns, ps, fl),
         NEW desc, RemoveNode(desc), Unconnected(disk, FindNode(disk, meta.first, desc))
  PROVE  /\ Spot(Graph(disk, meta), desc) # 0
         /\ \E s : Done(s, RemoveAt(Graph(disk, meta), Spot(Graph(disk, meta), desc)))
<1> DEFINE G == Graph(disk, meta)
           f == Now(G)
           a == FindNode(disk, meta.first, desc)
           i == Spot(G, desc)
           k == RemoveAt(G, i)
           g == Now(k)
           c == PropertyChain(disk, a)
           rs == RelationshipChain(disk, a)
           s0 == Unlink(Start, a, disk[a])
           s1 == FreeProperties(s0, c)[Len(c)]
           s2 == FreeRelationships(s1, rs)[Len(rs)]
           t == RemoveData(s2, a, "static")
<1>1. pend = <<>> /\ a # 0 /\ Perform(t)
  BY DEF RemoveNode, Ready, Quiet
<1>2. Meets(ns, a, i)
  BY FoundNode DEF InOrder
<1>3. Good(f, Start, ns, ps, 0, {}) /\ Start.disk = disk
  BY <1>1, StartGood
<1>13. f.graph = G /\ View(FileOf(f)) = G /\ Shown(f, k) = g
  BY NowIs
<1>14. Unconnected(disk, a) /\ IsList(disk) /\ Related(disk, ps) /\ \A n \in ToSet(ns) : n \in DOMAIN ps
  BY DEF InOrder, Full
<1> HIDE DEF f, g, a, c, i, G
<1>15. i # 0 /\ i \in 1 .. Len(ns) /\ a = ns[i] /\ a \in ToSet(ns)
  BY <1>1, <1>2 DEF Meets
<1>4. PICK ms, qs : /\ Good(g, s0, ms, qs, disk[a].prop, {a}) /\ a \in 1 .. Len(s0.disk)
                    /\ qs[0] = c
  <2>2. f.graph = View(FileOf(f)) /\ Unconnected(Start.disk, a)
    BY <1>3, <1>13, <1>14
  <2>4. Good(f, Start, ns, ps, 0, {})
    BY <1>3
  <2>5. i \in 1 .. Len(ns) /\ a = ns[i]
    BY <1>15
  <2>1. Gone(Shown(f, RemoveAt(f.graph, i)), Start, a, Unlink(Start, a, Start.disk[a]))
    BY ONLY <2>2, <2>4, <2>5, UnlinkGood
  <2>3. Shown(f, RemoveAt(f.graph, i)) = g
    BY <1>13
  <2> QED
    BY <1>3, <2>1, <2>3 DEF c, Gone
<1> HIDE DEF s0
<1>5. PICK os : Good(g, s1, ms, os, 0, {a}) /\ a \in 1 .. Len(s1.disk)
  BY <1>4, FreePropertiesGood
<1> HIDE DEF s1
<1>7. disk[a].rel = 0
  BY <1>1, <1>14, <1>15, UnconnectedNode
<1>8. rs = <<>>
  BY <1>7, <1>14, NoRelationships
<1> HIDE DEF rs
<1>9. s2 = s1
  <2>1. Len(rs) = 0 /\ Len(rs) \in Nat
    BY <1>8
  <2>2. FreeRelationships(s1, rs)[0] = s1
    BY <2>1, FreeRelationshipsIs
  <2> QED
    BY <2>1, <2>2
<1> HIDE DEF s2
<1>10. "static" \in Class /\ a \in {a} /\ {a} \ {a} = {}
  BY DEF Class
<1>11. Good(g, t, ms, os, 0, {a} \ {a})
  BY <1>5, <1>9, <1>10, GoodRemove
<1>12. Good(g, t, ms, os, 0, {})
  BY <1>10, <1>11
<1>16. Done(t, k)
  BY <1>1, <1>12 DEF Done, g
<1> QED
  BY <1>15, <1>16 DEF G, i

--------------------------------------------------------------------------------
(* A write to a block the nodes, properties and lists of free blocks are not in, *)
(* or to a node whose properties and links stay as they are.                     *)
Apart(d, ps, fl, a, rec) ==
  /\ a \in 1 .. Len(d) + 1 /\ a \notin Props(ps)
  /\ a \notin ToSet(fl["static"]) /\ a \notin ToSet(fl["dynamic"])
  /\ \A p \in Props(ps) : a \notin Chunks(d[p])
  /\ a \in DOMAIN ps => /\ rec.kind = "node" /\ NodeRecord(rec)
                        /\ rec.prop = d[a].prop /\ rec.next = d[a].next /\ rec.prev = d[a].prev

LEMMA ApartWrite ==
  ASSUME NEW d, NEW m, NEW ns, NEW ps, NEW h, NEW fl, Full(d, m, ns, ps, h, fl),
         NEW a, NEW rec, Apart(d, ps, fl, a, rec), rec.kind \in Kind \cup {"relationship"},
         Related(PutAt(d, a, rec), ps)
  PROVE  /\ Full(PutAt(d, a, rec), m, ns, ps, h, fl)
         /\ Graph(PutAt(d, a, rec), m) = Graph(d, m)
         /\ \A p \in Props(ps) : PutAt(d, a, rec)[p] = d[p]
<1> DEFINE e == PutAt(d, a, rec)
<1>1. /\ IsList(d) /\ Kinds(d) /\ Header(m) /\ Free(d, m, fl) /\ Owners(d, ps, h)
      /\ Doubly(d, m, ns) /\ \A n : n \in DOMAIN ps <=> n = 0 \/ n \in ToSet(ns)
  BY DEF Full
<1>2. /\ a \in 1 .. Len(d) + 1 /\ a \notin Props(ps)
      /\ a \notin ToSet(fl["static"]) /\ a \notin ToSet(fl["dynamic"])
      /\ \A p \in Props(ps) : a \notin Chunks(d[p])
      /\ a \in DOMAIN ps => /\ rec.kind = "node" /\ NodeRecord(rec)
                            /\ rec.prop = d[a].prop /\ rec.next = d[a].next /\ rec.prev = d[a].prev
  BY DEF Apart
<1>3. /\ IsList(e) /\ Len(d) \in Nat /\ Len(e) \in Nat /\ Len(d) <= Len(e)
      /\ DOMAIN d = 1 .. Len(d) /\ DOMAIN e = 1 .. Len(e) /\ a <= Len(e)
      /\ e[a] = rec
      /\ \A b \in 1 .. Len(d) : b # a => e[b] = d[b]
      /\ \A b \in 1 .. Len(e) : b = a \/ b \in 1 .. Len(d)
  BY <1>1, <1>2, PutFacts
<1>0. Related(e, ps)
  OBVIOUS
<1> HIDE DEF e
<1>4. Kinds(e)
  BY <1>1, <1>3 DEF Kinds, Kind
<1>5. \A b, kind : IsA(d, b, kind) /\ b # a => IsA(e, b, kind) /\ e[b] = d[b]
  <2> TAKE b, kind
  <2> SUFFICES ASSUME IsA(d, b, kind), b # a PROVE IsA(e, b, kind) /\ e[b] = d[b]
    OBVIOUS
  <2>1. b \in 1 .. Len(d) /\ d[b].kind = kind
    BY <1>3 DEF IsA
  <2>2. b \in 1 .. Len(e) /\ e[b] = d[b]
    BY <1>3, <2>1
  <2> QED
    BY <1>3, <2>1, <2>2 DEF IsA
<1>16. a \in DOMAIN e
  BY <1>2, <1>3
<1>17. \A n \in DOMAIN ps :
         n # 0 => /\ IsA(e, n, "node") /\ NodeRecord(e[n])
                  /\ e[n].prop = d[n].prop /\ e[n].next = d[n].next /\ e[n].prev = d[n].prev
  <2> TAKE n \in DOMAIN ps
  <2>1. n # 0 => IsA(d, n, "node") /\ NodeRecord(d[n])
    BY <1>1 DEF Owners
  <2>2. CASE n = a
    BY <1>2, <1>3, <1>16, <2>2 DEF IsA
  <2>3. CASE n # a
    BY <1>5, <2>1, <2>3
  <2> QED
    BY <2>2, <2>3
<1>6. Free(e, m, fl)
  <2> SUFFICES ASSUME NEW c \in {"static", "dynamic"}
               PROVE  /\ Way(e, "free", m.free[c], fl[c])
                      /\ \A b \in ToSet(fl[c]) : e[b].class = c
    BY DEF Free
  <2>1. Way(d, "free", m.free[c], fl[c]) /\ \A b \in ToSet(fl[c]) : d[b].class = c
    BY <1>1 DEF Free
  <2>2. \A b \in ToSet(fl[c]) : IsA(d, b, "free") /\ b # a
    BY <1>2, <2>1, WayElements
  <2> QED
    BY <1>5, <2>1, <2>2, WayFrame
<1>8. \A p \in Props(ps) : IsA(e, p, "property") /\ e[p] = d[p]
  <2>1. \A o \in DOMAIN ps : \A p \in ToSet(ps[o]) : IsA(d, p, "property") /\ p # a
    BY <1>1, <1>2, WayElements DEF Owners, Props
  <2> QED
    BY <1>5, <2>1 DEF Props
<1>9. Owners(e, ps, h)
  <2>1. \A p \in Props(ps) : \A c \in Chunks(d[p]) : IsA(e, c, "chunk")
    BY <1>1, <1>2, <1>5 DEF Owners
  <2> QED
    BY <1>1, <1>8, <1>17, <2>1, OwnersFrame
<1>18. \A i \in 1 .. Len(ns) : ns[i] \in DOMAIN ps /\ ns[i] # 0
  <2>1. Way(d, "node", m.first, ns)
    BY <1>1 DEF Doubly
  <2>2. \A i \in 1 .. Len(ns) : ns[i] \in ToSet(ns) /\ IsA(d, ns[i], "node")
    BY <1>1, <2>1, WayElements DEF Way
  <2> QED
    BY <1>1, <1>3, <2>2 DEF IsA
<1>10. Doubly(e, m, ns)
  <2>1. Way(d, "node", m.first, ns)
    BY <1>1 DEF Doubly
  <2>2. Way(e, "node", m.first, ns)
    BY <1>17, <1>18, <2>1 DEF Way
  <2> QED
    BY <1>1, <1>17, <1>18, <2>2 DEF Doubly
<1>15. Full(e, m, ns, ps, h, fl)
  BY <1>0, <1>1, <1>3, <1>4, <1>6, <1>9, <1>10 DEF Full
<1>14. Graph(e, m) = Graph(d, m)
  <2>1. Graph(e, m) = Picture(e, ns, ps) /\ Graph(d, m) = Picture(d, ns, ps)
    BY <1>15, GraphIs
  <2>2. \A i \in 1 .. Len(ns) : ns[i] \in DOMAIN ps
    BY <1>18
  <2>3. \A o \in DOMAIN ps : \A j \in 1 .. Len(ps[o]) : ps[o][j] \in Props(ps)
    BY <1>1, WayElements DEF Owners, Props
  <2>4. \A p \in Props(ps) : \A c \in Chunks(d[p]) : Text(e, c) = Text(d, c)
    BY <1>1, <1>2, <1>5 DEF Owners, Text
  <2>5. Picture(e, ns, ps) = Picture(d, ns, ps)
    BY <1>8, <2>2, <2>3, <2>4, PictureFrame
  <2> QED
    BY <2>1, <2>5
<1> QED
  BY <1>8, <1>14, <1>15 DEF e

(* A loose block becomes a relationship, whose type is in another one. *)
Joins(d, ps, fl, r, rec) ==
  /\ Loose(d, ps, fl, r) /\ Loose(d, ps, fl, rec.type) /\ rec.type # r
  /\ rec.kind = "relationship" /\ RelationRecord(rec) /\ IsA(d, rec.type, "chunk")
  /\ \A n \in Ends(rec) : n \in DOMAIN ps /\ n # 0
  /\ \A q \in Neighbours(rec) : Points(d, q, "relationship")

LEMMA RelationWrite ==
  ASSUME NEW d, NEW m, NEW ns, NEW ps, NEW h, NEW fl, Full(d, m, ns, ps, h, fl),
         NEW r, NEW rec, Joins(d, ps, fl, r, rec)
  PROVE  /\ Full(PutAt(d, r, rec), m, ns, ps, h, fl)
         /\ Graph(PutAt(d, r, rec), m) = Graph(d, m)
         /\ \A b \in 1 .. Len(PutAt(d, r, rec)) :
              Loose(PutAt(d, r, rec), ps, fl, b) => Loose(d, ps, fl, b) /\ b \notin {r, rec.type}
         /\ \A q : IsA(PutAt(d, r, rec), q, "relationship") <=> q = r \/ IsA(d, q, "relationship")
<1> DEFINE e == PutAt(d, r, rec)
           t == rec.type
<1>1. /\ IsList(d) /\ Owners(d, ps, h) /\ Related(d, ps)
  BY DEF Full
<1>2. /\ Loose(d, ps, fl, r) /\ Loose(d, ps, fl, t) /\ t # r
      /\ rec.kind = "relationship" /\ RelationRecord(rec) /\ IsA(d, t, "chunk")
      /\ \A n \in Ends(rec) : n \in DOMAIN ps /\ n # 0
      /\ \A q \in Neighbours(rec) : Points(d, q, "relationship")
  BY DEF Joins
<1>3. Apart(d, ps, fl, r, rec)
  BY <1>2 DEF Apart, Loose
<1>4. /\ IsList(e) /\ Len(d) \in Nat /\ Len(e) \in Nat /\ Len(d) <= Len(e)
      /\ DOMAIN d = 1 .. Len(d) /\ DOMAIN e = 1 .. Len(e) /\ r <= Len(e) /\ r \in 1 .. Len(d) + 1
      /\ e[r] = rec
      /\ \A b \in 1 .. Len(d) : b # r => e[b] = d[b]
      /\ \A b \in 1 .. Len(e) : b = r \/ b \in 1 .. Len(d)
  <2>1. r \in 1 .. Len(d) + 1
    BY <1>2 DEF Loose
  <2> QED
    BY <1>1, <2>1, PutFacts
<1> HIDE DEF e, t
<1>5. \A b, kind : IsA(d, b, kind) /\ b # r => IsA(e, b, kind) /\ e[b] = d[b]
  <2> TAKE b, kind
  <2> SUFFICES ASSUME IsA(d, b, kind), b # r PROVE IsA(e, b, kind) /\ e[b] = d[b]
    OBVIOUS
  <2>1. b \in 1 .. Len(d) /\ d[b].kind = kind
    BY <1>4 DEF IsA
  <2>2. b \in 1 .. Len(e) /\ e[b] = d[b]
    BY <1>4, <2>1
  <2> QED
    BY <1>4, <2>1, <2>2 DEF IsA
<1>6. \A q : IsA(e, q, "relationship") <=> q = r \/ IsA(d, q, "relationship")
  <2>1. r \in DOMAIN e
    BY <1>4
  <2>2. IsA(e, r, "relationship")
    BY <1>2, <1>4, <2>1 DEF IsA
  <2>3. \A q : IsA(e, q, "relationship") /\ q # r => IsA(d, q, "relationship")
    BY <1>4 DEF IsA
  <2>4. ~IsA(d, r, "relationship")
    BY <1>2 DEF Loose
  <2> QED
    BY <1>5, <2>2, <2>3, <2>4
<1>7. \A p \in Props(ps) : e[p] = d[p]
  <2>1. \A o \in DOMAIN ps : \A p \in ToSet(ps[o]) : IsA(d, p, "property")
    BY <1>1, WayElements DEF Owners
  <2>2. r \notin Props(ps)
    BY <1>2 DEF Loose
  <2> QED
    BY <1>5, <2>1, <2>2 DEF Props
<1>8. \A q : IsA(d, q, "relationship") =>
        /\ e[q] = d[q] /\ RelationAt(d, ps, q) /\ q # r
        /\ d[q].type # r /\ d[q].type # t
  BY <1>1, <1>2, <1>5 DEF Loose, Related
<1>9. \A q : Points(d, q, "relationship") => Points(e, q, "relationship")
  BY <1>6 DEF Points
<1>10. RelationAt(e, ps, r)
  <2>1. IsA(e, t, "chunk")
    BY <1>2, <1>5
  <2>2. \A p \in Props(ps) : t \notin Chunks(e[p])
    BY <1>2, <1>7 DEF Loose
  <2> QED
    BY <1>2, <1>4, <1>9, <2>1, <2>2 DEF RelationAt, t
<1>11. \A q : IsA(d, q, "relationship") => RelationAt(e, ps, q)
  <2> TAKE q
  <2> SUFFICES ASSUME IsA(d, q, "relationship") PROVE RelationAt(e, ps, q)
    OBVIOUS
  <2>1. RelationAt(d, ps, q) /\ e[q] = d[q] /\ d[q].type # r
    BY <1>8
  <2>2. IsA(e, d[q].type, "chunk")
    BY <1>5, <2>1 DEF RelationAt
  <2>3. \A p \in Props(ps) : d[q].type \notin Chunks(e[p])
    BY <1>7, <2>1 DEF RelationAt
  <2> QED
    BY <1>9, <2>1, <2>2, <2>3 DEF RelationAt
<1>12. \A q, x : /\ IsA(e, q, "relationship") /\ IsA(e, x, "relationship")
                 /\ e[q].type = e[x].type
                 => q = x
  <2>1. \A q, x : /\ IsA(d, q, "relationship") /\ IsA(d, x, "relationship")
                   /\ d[q].type = d[x].type
                   => q = x
    BY <1>1 DEF Related
  <2>2. e[r].type = t
    BY <1>4 DEF t
  <2> QED
    BY <1>6, <1>8, <2>1, <2>2
<1>13. \A n \in DOMAIN ps :
         n # 0 /\ e[n].rel # 0
           => IsA(e, e[n].rel, "relationship") /\ n \in Ends(e[e[n].rel])
  <2> TAKE n \in DOMAIN ps
  <2>1. n # 0 => e[n] = d[n]
    BY <1>1, <1>2, <1>5 DEF Owners, Loose
  <2>2. n # 0 /\ d[n].rel # 0 => IsA(d, d[n].rel, "relationship") /\ n \in Ends(d[d[n].rel])
    BY <1>1 DEF Related
  <2> QED
    BY <1>6, <1>8, <2>1, <2>2
<1>14. Related(e, ps)
  BY <1>6, <1>10, <1>11, <1>12, <1>13 DEF Related
<1>15. Full(e, m, ns, ps, h, fl) /\ Graph(e, m) = Graph(d, m)
  BY <1>2, <1>3, <1>14, ApartWrite DEF e
<1>16. ASSUME NEW b \in 1 .. Len(e), Loose(e, ps, fl, b)
       PROVE  Loose(d, ps, fl, b) /\ b \notin {r, t}
  <2>1. b \in 1 .. Len(d) + 1
    BY <1>4
  <2>2. \A q : IsA(d, q, "relationship") => b # d[q].type
    BY <1>6, <1>8, <1>16 DEF Loose
  <2>3. b # r /\ ~IsA(d, b, "relationship")
    BY <1>6, <1>16 DEF Loose
  <2>4. b # t
    BY <1>4, <1>6, <1>16 DEF Loose, t
  <2> QED
    BY <1>7, <1>16, <2>1, <2>2, <2>3, <2>4 DEF Loose
<1> QED
  BY <1>6, <1>15, <1>16 DEF e, t

(* A write of a call under way, given what it leaves of the file. *)
Leaves(f, g, s, a, rec, ns, qs, j, Y) ==
  /\ a \in 1 .. Len(s.disk) + 1
  /\ Part(PutAt(s.disk, a, rec), s.meta, ns, qs, j, Y)
  /\ Graph(PutAt(s.disk, a, rec), s.meta) = Graph(s.disk, s.meta)
  /\ FileOf(g) = FileOf(f) /\ g.graph = f.graph
  /\ g.exact => Chained(PutAt(s.disk, a, rec), qs)
  /\ Stays(s.disk, PutAt(s.disk, a, rec))

LEMMA GoodStep ==
  ASSUME NEW f, NEW s, NEW ns, NEW ps, NEW h, NEW X, Good(f, s, ns, ps, h, X),
         NEW g, NEW a, NEW rec, NEW qs, NEW j, NEW Y, Leaves(f, g, s, a, rec, ns, qs, j, Y)
  PROVE  /\ Good(g, Write(s, a, rec), ns, qs, j, Y)
         /\ Write(s, a, rec).disk = PutAt(s.disk, a, rec) /\ Write(s, a, rec).meta = s.meta
<1> DEFINE t == Write(s, a, rec)
           d == s.disk
           m == s.meta
           e == PutAt(d, a, rec)
<1>2. /\ IsState(t) /\ t.disk = e /\ t.meta = m
      /\ t.log = Append(s.log, [at |-> a, data |-> rec])
  BY GoodState, WriteState
<1>3. IsList(d) /\ IsList(s.log)
  BY GoodState
<1>6. Reached(FileOf(f), s.log, [disk |-> d, meta |-> m])
  BY DEF Good
<1>10. /\ Graph(d, m) = f.graph /\ Graph(e, m) = Graph(d, m) /\ Part(e, m, ns, qs, j, Y)
       /\ (g.exact => Chained(e, qs)) /\ a \in 1 .. Len(d) + 1
       /\ FileOf(g) = FileOf(f) /\ g.graph = f.graph /\ Stays(f.disk, d) /\ Stays(d, e)
  BY DEF Good, Leaves
<1>11. Stays(g.disk, e)
  <2>1. f.disk = g.disk
    BY <1>10 DEF FileOf
  <2> HIDE DEF d, e
  <2> QED
    BY <1>10, <2>1, StaysTwice
<1>5. Sound(e, m)
  BY <1>10, FullSound DEF Part
<1> HIDE DEF d, m
<1>7. Reached(FileOf(f), Append(s.log, [at |-> a, data |-> rec]), [disk |-> e, meta |-> m])
  BY <1>3, <1>5, <1>6, <1>10, ReachedWrite
<1> HIDE DEF e
<1> HIDE DEF t
<1>8. Good(g, t, ns, qs, j, Y)
  BY <1>2, <1>7, <1>10, <1>11 DEF Good
<1> QED
  BY <1>2, <1>8 DEF t, e, d, m

(* A relationship gets another first_previous, or a node another first           *)
(* relationship.                                                                 *)
Alters(d, ps, a, rec) ==
  \/ /\ IsA(d, a, "relationship") /\ rec.kind = "relationship" /\ RelationRecord(rec)
     /\ rec.type = d[a].type /\ rec.first = d[a].first /\ rec.second = d[a].second
     /\ rec.fnext = d[a].fnext /\ rec.snext = d[a].snext /\ rec.sprev = d[a].sprev
     /\ Points(d, rec.fprev, "relationship")
  \/ /\ a \in DOMAIN ps /\ a # 0 /\ rec.kind = "node" /\ NodeRecord(rec)
     /\ rec.prop = d[a].prop /\ rec.next = d[a].next /\ rec.prev = d[a].prev
     /\ IsA(d, rec.rel, "relationship") /\ a \in Ends(d[rec.rel])

(* The ends, the types and the next records of all relationships stay. *)
SameSides(d, e) ==
  \A q : /\ IsA(e, q, "relationship") <=> IsA(d, q, "relationship")
         /\ IsA(d, q, "relationship") =>
              /\ e[q].first = d[q].first /\ e[q].second = d[q].second
              /\ e[q].fnext = d[q].fnext /\ e[q].snext = d[q].snext
              /\ Text(e, e[q].type) = Text(d, d[q].type)

LEMMA SidesStay ==
  ASSUME NEW d, NEW e, SameSides(d, e) PROVE Stays(d, e)
BY DEF SameSides, Stays

LEMMA AlterWrite ==
  ASSUME NEW d, NEW m, NEW ns, NEW ps, NEW h, NEW fl, Full(d, m, ns, ps, h, fl),
         NEW a, NEW rec, Alters(d, ps, a, rec)
  PROVE  /\ a \in 1 .. Len(d)
         /\ Full(PutAt(d, a, rec), m, ns, ps, h, fl)
         /\ Graph(PutAt(d, a, rec), m) = Graph(d, m)
         /\ SameSides(d, PutAt(d, a, rec))
         /\ \A X : NoLeak(d, ps, fl, X) => NoLeak(PutAt(d, a, rec), ps, fl, X)
<1> DEFINE e == PutAt(d, a, rec)
<1>1. /\ IsList(d) /\ Owners(d, ps, h) /\ Related(d, ps) /\ Free(d, m, fl)
      /\ Len(d) \in Nat /\ DOMAIN d = 1 .. Len(d)
  BY ListLength DEF Full
<1>2. Alters(d, ps, a, rec)
  OBVIOUS
<1>3. /\ \A n \in DOMAIN ps : n # 0 => IsA(d, n, "node") /\ NodeRecord(d[n])
      /\ \A p \in Props(ps) : IsA(d, p, "property")
      /\ \A p \in Props(ps) : \A c \in Chunks(d[p]) : IsA(d, c, "chunk")
      /\ \A b : b \in ToSet(fl["static"]) \/ b \in ToSet(fl["dynamic"]) => IsA(d, b, "free")
  BY <1>1, WayElements DEF Owners, Props, Free
<1>4. /\ a \in 1 .. Len(d) /\ rec.kind = d[a].kind /\ IsA(d, a, d[a].kind)
      /\ rec.kind \in {"node", "relationship"}
      /\ rec.kind = "relationship" =>
           /\ IsA(d, a, "relationship") /\ RelationRecord(rec)
           /\ rec.type = d[a].type /\ rec.first = d[a].first /\ rec.second = d[a].second
           /\ rec.fnext = d[a].fnext /\ rec.snext = d[a].snext /\ rec.sprev = d[a].sprev
           /\ Points(d, rec.fprev, "relationship")
      /\ rec.kind = "node" =>
           /\ a \in DOMAIN ps /\ a # 0 /\ NodeRecord(rec)
           /\ rec.prop = d[a].prop /\ rec.next = d[a].next /\ rec.prev = d[a].prev
           /\ IsA(d, rec.rel, "relationship") /\ a \in Ends(d[rec.rel])
  <2>1. rec.kind = "node" \/ rec.kind = "relationship"
    BY <1>2 DEF Alters
  <2>2. CASE rec.kind = "node"
    BY <1>1, <1>2, <1>3, <2>2 DEF Alters, IsA
  <2>3. CASE rec.kind = "relationship"
    BY <1>1, <1>2, <2>3 DEF Alters, IsA
  <2> QED
    BY <2>1, <2>2, <2>3
<1>5. /\ IsList(e) /\ Len(e) \in Nat
      /\ DOMAIN e = 1 .. Len(e) /\ Len(d) <= Len(e)
      /\ e[a] = rec
      /\ \A b \in 1 .. Len(d) : b # a => e[b] = d[b]
      /\ \A b \in 1 .. Len(e) : b = a \/ b \in 1 .. Len(d)
  <2>1. a \in 1 .. Len(d) + 1
    BY <1>1, <1>4
  <2> QED
    BY <1>1, <2>1, PutFacts
<1> HIDE DEF e
<1>6. DOMAIN e = DOMAIN d
  <2> DEFINE y == Len(e)
             x == Len(d)
  <2>1. x \in Nat /\ y \in Nat /\ x <= y /\ \A b \in 1 .. y : b \in 1 .. x
    BY <1>1, <1>4, <1>5
  <2>2. DOMAIN e = 1 .. y /\ DOMAIN d = 1 .. x
    BY <1>1, <1>5
  <2> HIDE DEF x, y
  <2>3. \A b \in 1 .. x : b \in 1 .. y
    BY <2>1
  <2> QED
    BY <2>1, <2>2, <2>3
<1>7. \A b, kind : IsA(e, b, kind) <=> IsA(d, b, kind)
  BY <1>1, <1>4, <1>5, <1>6 DEF IsA
<1>8. \A b \in DOMAIN d : b # a => e[b] = d[b]
  BY <1>1, <1>5
<1>9. \A kind \in {"property", "chunk", "free", "junk"} : ~IsA(d, a, kind)
  BY <1>4 DEF IsA
<1>10. Apart(d, ps, fl, a, rec)
  <2>1. a \in DOMAIN ps => rec.kind = "node"
    BY <1>1, <1>3, <1>4 DEF IsA
  <2>2. a \in 1 .. Len(d) + 1
    BY <1>1, <1>4
  <2> QED
    BY <1>3, <1>4, <1>9, <2>1, <2>2 DEF Apart
<1>12. \A q : IsA(d, q, "relationship") => e[q].type = d[q].type /\ RelationAt(d, ps, q)
  <2> TAKE q
  <2> SUFFICES ASSUME IsA(d, q, "relationship") PROVE e[q].type = d[q].type /\ RelationAt(d, ps, q)
    OBVIOUS
  <2>1. q = a => rec.kind = "relationship"
    BY <1>4 DEF IsA
  <2> QED
    BY <1>1, <1>4, <1>5, <1>8, <2>1 DEF IsA, Related
<1>20. \A b : Text(e, b) = Text(d, b)
  <2> TAKE b
  <2>1. IsA(e, b, "chunk") <=> IsA(d, b, "chunk")
    BY <1>7
  <2>2. IsA(d, b, "chunk") => e[b] = d[b]
    BY <1>8, <1>9 DEF IsA
  <2> QED
    BY <2>1, <2>2 DEF Text
<1>11. SameSides(d, e)
  <2> SUFFICES ASSUME NEW q, IsA(d, q, "relationship")
               PROVE  /\ e[q].first = d[q].first /\ e[q].second = d[q].second
                      /\ e[q].fnext = d[q].fnext /\ e[q].snext = d[q].snext
                      /\ Text(e, e[q].type) = Text(d, d[q].type)
    BY <1>7 DEF SameSides
  <2>1. q = a => rec.kind = "relationship"
    BY <1>4 DEF IsA
  <2>2. Text(e, e[q].type) = Text(d, d[q].type)
    BY <1>12, <1>20
  <2> QED
    BY <1>4, <1>5, <1>8, <2>1, <2>2 DEF IsA
<1>13. \A p \in Props(ps) : e[p] = d[p]
  BY <1>3, <1>8, <1>9 DEF IsA
<1>14. \A q : IsA(d, q, "relationship") => RelationAt(e, ps, q)
  <2> TAKE q
  <2> SUFFICES ASSUME IsA(d, q, "relationship") PROVE RelationAt(e, ps, q)
    OBVIOUS
  <2>0. /\ e[q].type = d[q].type /\ RelationAt(d, ps, q) /\ Ends(e[q]) = Ends(d[q])
    BY <1>11, <1>12 DEF SameSides, Ends
  <2>1. RelationRecord(e[q])
    BY <1>4, <1>5, <1>8, <2>0 DEF RelationAt, IsA
  <2>2. \A x \in Neighbours(e[q]) : Points(e, x, "relationship")
    <3>1. CASE q = a
      <4>1. RelationAt(d, ps, a) /\ e[a] = rec /\ rec.kind = "relationship"
        BY <1>4, <1>5, <2>0, <3>1 DEF IsA
      <4> QED
        BY <1>4, <1>7, <3>1, <4>1 DEF RelationAt, Neighbours, Points
    <3>2. CASE q # a
      <4>1. e[q] = d[q]
        BY <1>8, <3>2 DEF IsA
      <4> QED
        BY <1>7, <2>0, <4>1 DEF RelationAt, Points
    <3> QED
      BY <3>1, <3>2
  <2>3. IsA(e, e[q].type, "chunk") /\ \A p \in Props(ps) : e[q].type \notin Chunks(e[p])
    BY <1>7, <1>13, <2>0 DEF RelationAt
  <2> QED
    BY <2>0, <2>1, <2>2, <2>3 DEF RelationAt
<1>15. \A n \in DOMAIN ps :
         n # 0 /\ e[n].rel # 0
           => IsA(e, e[n].rel, "relationship") /\ n \in Ends(e[e[n].rel])
  <2> TAKE n \in DOMAIN ps
  <2>1. n # 0 /\ e[n].rel # 0 => IsA(d, e[n].rel, "relationship") /\ n \in Ends(d[e[n].rel])
    <3>1. CASE n = a
      BY <1>3, <1>4, <1>5, <3>1 DEF IsA
    <3>2. CASE n # a
      <4>1. n # 0 => e[n] = d[n]
        BY <1>3, <1>8, <3>2 DEF IsA
      <4> QED
        BY <1>1, <4>1 DEF Related
    <3> QED
      BY <3>1, <3>2
  <2>2. \A q : IsA(d, q, "relationship") => Ends(e[q]) = Ends(d[q])
    BY <1>11 DEF SameSides, Ends
  <2> QED
    BY <1>7, <2>1, <2>2
<1>16. Related(e, ps)
  BY <1>1, <1>7, <1>12, <1>14, <1>15 DEF Related
<1>17. Full(e, m, ns, ps, h, fl) /\ Graph(e, m) = Graph(d, m)
  <2>1. rec.kind \in Kind \cup {"relationship"}
    BY <1>4 DEF Kind
  <2> QED
    BY <1>10, <1>16, <2>1, ApartWrite DEF e
<1>18. \A b \in 1 .. Len(e) : Loose(e, ps, fl, b) => Loose(d, ps, fl, b) /\ (d[b] = Junk => e[b] = Junk)
  <2> TAKE b \in 1 .. Len(e)
  <2> SUFFICES ASSUME Loose(e, ps, fl, b)
               PROVE  Loose(d, ps, fl, b) /\ (d[b] = Junk => e[b] = Junk)
    OBVIOUS
  <2>1. b \in 1 .. Len(d) + 1 /\ b \in DOMAIN d
    BY <1>1, <1>5, <1>6
  <2>2. Loose(d, ps, fl, b)
    BY <1>7, <1>12, <1>13, <2>1 DEF Loose
  <2>3. b # a
    <3>1. CASE rec.kind = "node"
      BY <1>4, <2>2, <3>1 DEF Loose
    <3>2. CASE rec.kind = "relationship"
      BY <1>4, <2>2, <3>2 DEF Loose
    <3> QED
      BY <1>4, <3>1, <3>2
  <2> QED
    BY <1>8, <2>1, <2>2, <2>3
<1>19. ASSUME NEW X, NoLeak(d, ps, fl, X) PROVE NoLeak(e, ps, fl, X)
  <2>1. 1 .. Len(e) = 1 .. Len(d)
    BY <1>1, <1>5, <1>6
  <2> QED
    BY <1>18, <1>19, <2>1 DEF NoLeak
<1> QED
  BY <1>4, <1>11, <1>17, <1>19 DEF e

(* The chain of n from a on: all its relationships, each once. *)
ChainOf(d, a, n, c) ==
  /\ IsList(c)
  /\ a = IF Len(c) = 0 THEN 0 ELSE c[1]
  /\ \A i \in 1 .. Len(c) : Side(d[c[i]], n) = IF i = Len(c) THEN 0 ELSE c[i + 1]
  /\ \A i, j \in 1 .. Len(c) : c[i] = c[j] => i = j
  /\ \A r : (\E i \in 1 .. Len(c) : c[i] = r) <=> IsA(d, r, "relationship") /\ n \in Ends(d[r])

ChainedFrom(d, ps, hd) == \A n \in DOMAIN ps : n # 0 => \E c : ChainOf(d, hd[n], n, c)

LEMMA ChainsFrame ==
  ASSUME NEW d, NEW ps, NEW hd, ChainedFrom(d, ps, hd), NEW e, SameSides(d, e)
  PROVE  ChainedFrom(e, ps, hd)
<1> SUFFICES ASSUME NEW n \in DOMAIN ps, n # 0 PROVE \E c : ChainOf(e, hd[n], n, c)
  BY DEF ChainedFrom
<1>1. PICK c : ChainOf(d, hd[n], n, c)
  BY DEF ChainedFrom
<1>2. \A i \in 1 .. Len(c) : IsA(d, c[i], "relationship")
  BY <1>1 DEF ChainOf
<1>3. \A i \in 1 .. Len(c) : Side(e[c[i]], n) = Side(d[c[i]], n)
  BY <1>2 DEF Side, SameSides
<1>4. \A r : IsA(e, r, "relationship") /\ n \in Ends(e[r])
              <=> IsA(d, r, "relationship") /\ n \in Ends(d[r])
  BY DEF SameSides, Ends
<1>5. ChainOf(e, hd[n], n, c)
  BY <1>1, <1>3, <1>4 DEF ChainOf
<1> QED
  BY <1>5

(* When the nodes lead there, these are their chains. *)
LEMMA ChainsMeet ==
  ASSUME NEW d, NEW ps, NEW hd, ChainedFrom(d, ps, hd),
         \A n \in DOMAIN ps : n # 0 => d[n].rel = hd[n]
  PROVE  Chained(d, ps)
BY DEF Chained, OwnChain, ChainedFrom, ChainOf

(* u is the list s, with the element b in front of it. *)
InFront(u, b, s) ==
  /\ IsList(u) /\ Len(s) \in Nat /\ Len(u) = Len(s) + 1
  /\ u[1] = b /\ \A i \in 1 .. Len(s) : u[i + 1] = s[i]
  /\ \A i \in 1 .. Len(s) + 1 : i = 1 \/ (i - 1 \in 1 .. Len(s) /\ u[i] = s[i - 1])

LEMMA PushFacts ==
  ASSUME NEW s, IsList(s), NEW b
  PROVE  InFront(<<b>> \o s, b, s)
<1> DEFINE t == <<b>> \o s
           n == Len(s)
<1>1. n \in Nat
  BY ListLength
<1>2. IsList(t) /\ Len(t) = n + 1 /\ t[1] = b /\ \A i \in 1 .. n : t[i + 1] = s[i]
  <2>1. PICK S : s \in Seq(S)
    BY DEF IsList
  <2>2. s \in Seq(S \cup {b}) /\ <<b>> \in Seq(S \cup {b})
    BY <2>1
  <2>3. t \in Seq(S \cup {b})
    BY <2>2
  <2> QED
    BY <2>1, <2>2, <2>3 DEF IsList
<1> HIDE DEF t, n
<1>5. \A i \in 1 .. n + 1 : i = 1 \/ (i - 1 \in 1 .. n /\ t[i] = s[i - 1])
  <2> TAKE i \in 1 .. n + 1
  <2>1. i # 1 => i - 1 \in 1 .. n /\ (i - 1) + 1 = i
    BY <1>1
  <2> QED
    BY <1>2, <2>1
<1>6. InFront(t, b, s)
  BY <1>1, <1>2, <1>5 DEF n, InFront
<1> QED
  BY <1>6 DEF t

(* The record of a new relationship, of n and y, in front of both chains. *)
NewHeads(d, ps, r, n, y) == [x \in DOMAIN ps |-> IF x \in {n, y} THEN r ELSE d[x].rel]

LEMMA ChainsAdd ==
  ASSUME NEW d, NEW ps, Chained(d, ps), NEW e, NEW r, ~IsA(d, r, "relationship"),
         \A q : IsA(e, q, "relationship") <=> q = r \/ IsA(d, q, "relationship"),
         \A q : IsA(d, q, "relationship") => e[q] = d[q],
         NEW t, NEW n1, NEW n2, e[r] = Relationship(t, n1, n2, d[n1].rel, d[n2].rel)
  PROVE  ChainedFrom(e, ps, NewHeads(d, ps, r, n1, n2))
<1> SUFFICES ASSUME NEW x \in DOMAIN ps, x # 0
             PROVE  \E c : ChainOf(e, NewHeads(d, ps, r, n1, n2)[x], x, c)
  BY DEF ChainedFrom
<1>1. PICK c : OwnChain(d, x, c)
  BY DEF Chained
<1>2. /\ IsList(c) /\ d[x].rel = IF Len(c) = 0 THEN 0 ELSE c[1]
      /\ \A i \in 1 .. Len(c) : Side(d[c[i]], x) = IF i = Len(c) THEN 0 ELSE c[i + 1]
      /\ \A i, j \in 1 .. Len(c) : c[i] = c[j] => i = j
      /\ \A q : (\E i \in 1 .. Len(c) : c[i] = q) <=> IsA(d, q, "relationship") /\ x \in Ends(d[q])
  BY <1>1 DEF OwnChain
<1>3. \A i \in 1 .. Len(c) : IsA(d, c[i], "relationship") /\ c[i] # r /\ e[c[i]] = d[c[i]]
  BY <1>2
<1>4. e[r].first = n1 /\ e[r].second = n2 /\ e[r].fnext = d[n1].rel /\ e[r].snext = d[n2].rel
  BY DEF Relationship
<1>5. NewHeads(d, ps, r, n1, n2)[x] = IF x \in {n1, n2} THEN r ELSE d[x].rel
  BY DEF NewHeads
<1>6. CASE x \notin {n1, n2}
  <2>1. \A q : IsA(e, q, "relationship") /\ x \in Ends(e[q])
                <=> IsA(d, q, "relationship") /\ x \in Ends(d[q])
    BY <1>4, <1>6 DEF Ends
  <2>2. ChainOf(e, d[x].rel, x, c)
    BY <1>2, <1>3, <2>1 DEF ChainOf
  <2> QED
    BY <1>5, <1>6, <2>2
<1>7. CASE x \in {n1, n2}
  <2> DEFINE u == <<r>> \o c
             n == Len(c)
  <2>1. /\ IsList(u) /\ n \in Nat /\ Len(u) = n + 1
        /\ u[1] = r /\ \A i \in 1 .. n : u[i + 1] = c[i]
        /\ \A i \in 1 .. n + 1 : i = 1 \/ (i - 1 \in 1 .. n /\ u[i] = c[i - 1])
    <3>1. InFront(u, r, c)
      BY <1>2, PushFacts
    <3> QED
      BY <3>1 DEF InFront
  <2>2. Side(e[r], x) = IF n = 0 THEN 0 ELSE c[1]
    BY <1>2, <1>4, <1>7 DEF Side
  <2>3. /\ \A i \in 1 .. n : Side(e[c[i]], x) = IF i = n THEN 0 ELSE c[i + 1]
        /\ \A i, j \in 1 .. n : c[i] = c[j] => i = j
        /\ \A i \in 1 .. n : c[i] # r
        /\ \A q : (\E i \in 1 .. n : c[i] = q) <=> IsA(d, q, "relationship") /\ x \in Ends(d[q])
    BY <1>2, <1>3
  <2> HIDE DEF u, n
  <2>4. \A i \in 1 .. n + 1 : Side(e[u[i]], x) = IF i = n + 1 THEN 0 ELSE u[i + 1]
    <3> TAKE i \in 1 .. n + 1
    <3>1. CASE i = 1
      <4>1. n # 0 => 1 \in 1 .. n /\ 1 + 1 = 2
        BY <2>1
      <4>2. n # 0 => u[2] = c[1]
        BY <2>1, <4>1
      <4>3. n = 0 <=> i = n + 1
        BY <2>1, <3>1
      <4> QED
        BY <2>1, <2>2, <3>1, <4>2, <4>3
    <3>2. CASE i # 1
      <4>1. i - 1 \in 1 .. n /\ u[i] = c[i - 1]
        BY <2>1, <3>2
      <4>2. i # n + 1 => i \in 1 .. n /\ u[i + 1] = c[(i - 1) + 1] /\ i - 1 # n
        BY <2>1
      <4>3. i = n + 1 => i - 1 = n
        BY <2>1
      <4> QED
        BY <2>3, <4>1, <4>2, <4>3
    <3> QED
      BY <3>1, <3>2
  <2>5. \A i, j \in 1 .. n + 1 : u[i] = u[j] => i = j
    <3> TAKE i, j \in 1 .. n + 1
    <3>1. CASE i = 1 \/ j = 1
      BY <2>1, <2>3, <3>1
    <3>2. CASE i # 1 /\ j # 1
      <4>1. i - 1 \in 1 .. n /\ j - 1 \in 1 .. n /\ u[i] = c[i - 1] /\ u[j] = c[j - 1]
        BY <2>1, <3>2
      <4>2. u[i] = u[j] => i - 1 = j - 1
        BY <2>3, <4>1
      <4> QED
        BY <2>1, <4>2
    <3> QED
      BY <3>1, <3>2
  <2>6. \A q : (\E i \in 1 .. n + 1 : u[i] = q) <=> IsA(e, q, "relationship") /\ x \in Ends(e[q])
    <3> TAKE q
    <3>1. (\E i \in 1 .. n + 1 : u[i] = q) <=> q = r \/ (\E i \in 1 .. n : c[i] = q)
      <4>1. 1 \in 1 .. n + 1 /\ \A i \in 1 .. n : i + 1 \in 1 .. n + 1
        BY <2>1
      <4> QED
        BY <2>1, <4>1
    <3>2. x \in Ends(e[r])
      BY <1>4, <1>7 DEF Ends
    <3> QED
      BY <2>3, <3>1, <3>2
  <2>7. ChainOf(e, r, x, u)
    <3>1. Len(u) # 0 /\ Len(u) = n + 1
      BY <2>1
    <3> QED
      BY <2>1, <2>4, <2>5, <2>6, <3>1 DEF ChainOf
  <2> QED
    BY <1>5, <1>7, <2>7
<1> QED
  BY <1>6, <1>7

(* A record is altered by a call under way. *)
Altered(g, s, ns, ps, h, a, rec, t) ==
  /\ Good(g, t, ns, ps, h, {}) /\ SameSides(s.disk, t.disk)
  /\ t.disk[a] = rec /\ \A b \in 1 .. Len(s.disk) : b # a => t.disk[b] = s.disk[b]

LEMMA GoodAlter ==
  ASSUME NEW g, ~g.exact, NEW s, NEW ns, NEW ps, NEW h, Good(g, s, ns, ps, h, {}),
         NEW a, NEW rec, Alters(s.disk, ps, a, rec)
  PROVE  Altered(g, s, ns, ps, h, a, rec, Write(s, a, rec))
<1> DEFINE t == Write(s, a, rec)
           d == s.disk
           m == s.meta
           e == PutAt(d, a, rec)
<1>1. PICK fl : Full(d, m, ns, ps, h, fl) /\ NoLeak(d, ps, fl, {})
  BY DEF Good, Part
<1>2. /\ a \in 1 .. Len(d) /\ Full(e, m, ns, ps, h, fl) /\ Graph(e, m) = Graph(d, m)
      /\ SameSides(d, e) /\ NoLeak(e, ps, fl, {})
  BY <1>1, AlterWrite
<1>3. IsList(d) /\ Len(d) \in Nat /\ a \in 1 .. Len(d) + 1
  BY <1>2, GoodState
<1>4. e[a] = rec /\ \A b \in 1 .. Len(d) : b # a => e[b] = d[b]
  BY <1>3, PutFacts
<1>5. Part(e, m, ns, ps, h, {})
  BY <1>2 DEF Part
<1>6. Good(g, t, ns, ps, h, {}) /\ t.disk = e
  <2>1. g.exact => Chained(PutAt(s.disk, a, rec), ps)
    OBVIOUS
  <2>2. Leaves(g, g, s, a, rec, ns, ps, h, {}) /\ Good(g, s, ns, ps, h, {})
    BY <1>2, <1>3, <1>5, <2>1, SidesStay DEF Leaves
  <2> QED
    BY <2>2, GoodStep
<1> QED
  BY <1>2, <1>4, <1>6 DEF Altered

(* A block that was filled with junk is in nothing, and is no leak. *)
LEMMA GoodJunk ==
  ASSUME NEW f, NEW s, NEW ns, NEW ps, NEW h, NEW a, Good(f, s, ns, ps, h, {a}), s.disk[a] = Junk
  PROVE  Good(f, s, ns, ps, h, {})
BY DEF Good, Part, NoLeak

(* The relationship r is written, and its neighbours and nodes are not yet:      *)
(* the nodes are as they were in d.                                              *)
Made(d, r) == [first |-> d[r].first, second |-> d[r].second, type |-> Text(d, d[r].type)]

Stage(g, s, d, ns, ps, r, made, hd) ==
  /\ Good(g, s, ns, ps, 0, {})
  /\ \A n \in ToSet(ns) : s.disk[n] = d[n]
  /\ IsA(s.disk, r, "relationship") /\ Made(s.disk, r) = made
  /\ crashes = 0 => ChainedFrom(s.disk, ps, hd)

LEMMA StageMeets ==
  ASSUME NEW g, NEW s, NEW d, NEW ns, NEW ps, NEW r, NEW made, NEW hd,
         Stage(g, s, d, ns, ps, r, made, hd), NEW n \in ToSet(ns)
  PROVE  d[n].rel = 0 \/ IsA(s.disk, d[n].rel, "relationship")
<1>1. PICK fl : Full(s.disk, s.meta, ns, ps, 0, fl)
  BY DEF Stage, Good, Part
<1>2. Good(g, s, ns, ps, 0, {}) /\ s.disk[n] = d[n]
  BY DEF Stage
<1>3. n \in DOMAIN ps /\ n # 0
  BY <1>2, NodesApart
<1>4. Related(s.disk, ps)
  BY <1>1 DEF Full
<1> QED
  BY <1>2, <1>3, <1>4 DEF Related

LEMMA SetPreviousGood ==
  ASSUME NEW g, ~g.exact, NEW s, NEW d, NEW ns, NEW ps, NEW r, NEW made, NEW hd,
         Stage(g, s, d, ns, ps, r, made, hd), NEW n \in ToSet(ns)
  PROVE  Stage(g, SetPrevious(s, d[n].rel, r), d, ns, ps, r, made, hd)
<1> DEFINE a == d[n].rel
           t == SetPrevious(s, a, r)
<1>1. /\ Good(g, s, ns, ps, 0, {})
      /\ \A x \in ToSet(ns) : s.disk[x] = d[x]
      /\ IsA(s.disk, r, "relationship") /\ Made(s.disk, r) = made
      /\ crashes = 0 => ChainedFrom(s.disk, ps, hd)
  BY DEF Stage
<1>2. a = 0 \/ IsA(s.disk, a, "relationship")
  BY StageMeets
<1>3. \A x \in ToSet(ns) : x \in 1 .. Len(s.disk) /\ IsA(s.disk, x, "node") /\ x \in DOMAIN ps
  BY <1>1, NodesApart
<1>9. ~g.exact
  OBVIOUS
<1> HIDE DEF a
<1>4. /\ Good(g, t, ns, ps, 0, {}) /\ SameSides(s.disk, t.disk)
      /\ \A x \in ToSet(ns) : t.disk[x] = s.disk[x]
  <2>1. CASE a = 0
    <3> DEFINE b == Available(s, "static")
    <3>1. "static" \in Class /\ Junk.kind \in Kind /\ \A q \in {} : q \in 1 .. Len(s.disk)
      BY DEF Class, Kind, Junk
    <3>2. t = Place(s, "static", Junk)
      BY <2>1 DEF SetPrevious
    <3> HIDE DEF t
    <3>3. Placed(g, s, ns, ps, 0, {}, Junk, b, Place(s, "static", Junk))
      BY <1>1, <3>1, PlaceGood
    <3> HIDE DEF b
    <3>4. /\ Good(g, t, ns, ps, 0, {} \cup {b}) /\ t.disk[b] = Junk
          /\ \A x \in 1 .. Len(s.disk) : x # b => t.disk[x] = s.disk[x]
          /\ t.disk = PutAt(s.disk, b, Junk) /\ b \in 1 .. Len(s.disk) + 1
          /\ b \notin DOMAIN ps /\ ~IsA(s.disk, b, "relationship")
          /\ \A q : IsA(s.disk, q, "relationship") => b # s.disk[q].type
      BY <3>2, <3>3 DEF Placed
    <3>5. {} \cup {b} = {b}
      OBVIOUS
    <3>6. Good(g, t, ns, ps, 0, {})
      BY <3>4, <3>5, GoodJunk
    <3>7. \A x \in ToSet(ns) : t.disk[x] = s.disk[x]
      BY <1>3, <3>4
    <3>8. SameSides(s.disk, t.disk)
      <4>0. IsList(s.disk)
        BY <1>1, GoodState
      <4>1. /\ DOMAIN s.disk = 1 .. Len(s.disk) /\ DOMAIN t.disk = 1 .. Len(t.disk)
            /\ Len(s.disk) <= Len(t.disk) /\ Len(s.disk) \in Nat /\ Len(t.disk) \in Nat
            /\ \A x \in 1 .. Len(t.disk) : x = b \/ x \in 1 .. Len(s.disk)
        BY <3>4, <4>0, PutFacts
      <4>2. \A x \in DOMAIN s.disk : x \in DOMAIN t.disk
        BY <4>1
      <4>3. \A q : IsA(s.disk, q, "relationship") => IsA(t.disk, q, "relationship") /\ t.disk[q] = s.disk[q]
        BY <3>4, <4>1, <4>2 DEF IsA
      <4>4. Junk.kind # "relationship"
        BY DEF Junk
      <4>5. \A q : IsA(t.disk, q, "relationship") => IsA(s.disk, q, "relationship")
        BY <3>4, <4>1, <4>4 DEF IsA
      <4>6. \A q : IsA(s.disk, q, "relationship") => Text(t.disk, s.disk[q].type) = Text(s.disk, s.disk[q].type)
        <5> TAKE q
        <5> SUFFICES ASSUME IsA(s.disk, q, "relationship")
                     PROVE  Text(t.disk, s.disk[q].type) = Text(s.disk, s.disk[q].type)
          OBVIOUS
        <5>1. s.disk[q].type # b
          BY <3>4
        <5> QED
          BY <3>4, <4>1, <4>2, <5>1 DEF Text, IsA
      <4> QED
        BY <4>3, <4>5, <4>6 DEF SameSides
    <3> QED
      BY <3>6, <3>7, <3>8
  <2>2. CASE a # 0
    <3> DEFINE rec == [s.disk[a] EXCEPT !.fprev = r]
    <3>1. IsA(s.disk, a, "relationship")
      BY <1>2, <2>2
    <3>2. t = Write(s, a, rec)
      BY <2>2 DEF SetPrevious
    <3>3. RelationRecord(s.disk[a])
      <4>1. PICK fl : Full(s.disk, s.meta, ns, ps, 0, fl)
        BY <1>1 DEF Good, Part
      <4> QED
        BY <3>1, <4>1 DEF Full, Related, RelationAt
    <3>4. /\ rec.kind = "relationship" /\ rec.type = s.disk[a].type
          /\ rec.first = s.disk[a].first /\ rec.second = s.disk[a].second
          /\ rec.fnext = s.disk[a].fnext /\ rec.snext = s.disk[a].snext
          /\ rec.sprev = s.disk[a].sprev /\ rec.fprev = r /\ RelationRecord(rec)
      <4> DEFINE u == s.disk[a]
      <4>1. u = [kind |-> "relationship", type |-> u.type, first |-> u.first, second |-> u.second,
                 fprev |-> u.fprev, fnext |-> u.fnext, sprev |-> u.sprev, snext |-> u.snext]
        BY <3>3 DEF RelationRecord
      <4> HIDE DEF u
      <4>2. [u EXCEPT !.fprev = r]
             = [kind |-> "relationship", type |-> u.type, first |-> u.first, second |-> u.second,
                fprev |-> r, fnext |-> u.fnext, sprev |-> u.sprev, snext |-> u.snext]
        BY <4>1
      <4>3. rec = [u EXCEPT !.fprev = r]
        BY DEF u
      <4> HIDE DEF rec
      <4> QED
        BY <4>2, <4>3 DEF RelationRecord, u
    <3>5. Alters(s.disk, ps, a, rec)
      <4> HIDE DEF rec
      <4> QED
        BY <1>1, <3>1, <3>4 DEF Alters, Points
    <3> HIDE DEF rec, t
    <3>6. Altered(g, s, ns, ps, 0, a, rec, Write(s, a, rec))
      BY <1>1, <1>9, <3>5, GoodAlter
    <3>7. /\ Good(g, t, ns, ps, 0, {}) /\ SameSides(s.disk, t.disk)
          /\ \A b \in 1 .. Len(s.disk) : b # a => t.disk[b] = s.disk[b]
      BY <3>2, <3>6 DEF Altered
    <3>8. a \notin ToSet(ns)
      BY <1>3, <3>1 DEF IsA
    <3> QED
      BY <1>3, <3>7, <3>8
  <2> QED
    BY <2>1, <2>2
<1> HIDE DEF t
<1>5. IsA(t.disk, r, "relationship") /\ Made(t.disk, r) = made
  BY <1>1, <1>4 DEF SameSides, Made
<1>6. crashes = 0 => ChainedFrom(t.disk, ps, hd)
  BY <1>1, <1>4, ChainsFrame
<1>7. Stage(g, t, d, ns, ps, r, made, hd)
  BY <1>1, <1>4, <1>5, <1>6 DEF Stage
<1> QED
  BY <1>7 DEF t, a

(* The new relationship is written: nothing is loose any more. *)
LEMMA JoinGood ==
  ASSUME NEW f, f.exact <=> crashes = 0, NEW s, NEW ns, NEW ps, NEW t, NEW r, NEW X, X = {t, r},
         Good(f, s, ns, ps, 0, X), t # r, IsA(s.disk, t, "chunk"),
         NEW n1 \in ToSet(ns), NEW n2 \in ToSet(ns),
         NEW g, ~g.exact, FileOf(g) = FileOf(f), g.graph = f.graph
  PROVE  Stage(g, Write(s, r, Relationship(t, n1, n2, s.disk[n1].rel, s.disk[n2].rel)),
               s.disk, ns, ps, r, [first |-> n1, second |-> n2, type |-> s.disk[t].data],
               NewHeads(s.disk, ps, r, n1, n2))
<1> DEFINE d == s.disk
           m == s.meta
           rec == Relationship(t, n1, n2, d[n1].rel, d[n2].rel)
           e == PutAt(d, r, rec)
           u == Write(s, r, rec)
<1>1. PICK fl : /\ Full(d, m, ns, ps, 0, fl) /\ Loose(d, ps, fl, t) /\ Loose(d, ps, fl, r)
                /\ NoLeak(d, ps, fl, X)
  BY DEF Good, Part
<1>2. /\ rec.kind = "relationship" /\ rec.type = t /\ RelationRecord(rec)
      /\ Ends(rec) = {n1, n2} /\ Neighbours(rec) = {0, d[n1].rel, d[n2].rel}
  BY DEF Relationship, RelationRecord, Ends, Neighbours
<1>3. \A n \in ToSet(ns) : n # 0 /\ n \in DOMAIN ps /\ n \notin X /\ n \in 1 .. Len(d)
  BY NodesApart
<1>4. \A n \in {n1, n2} : Points(d, d[n].rel, "relationship")
  BY <1>1, <1>3 DEF Full, Related, Points
<1>5. IsList(d) /\ Len(d) \in Nat /\ r \in 1 .. Len(d) + 1 /\ ~IsA(d, r, "relationship")
  BY <1>1, ListLength DEF Full, Loose
<1>6. Joins(d, ps, fl, r, rec)
  <2> HIDE DEF rec, d
  <2>1. IsA(d, t, "chunk") /\ t # r
    BY DEF d
  <2>2. \A q \in Neighbours(rec) : Points(d, q, "relationship")
    BY <1>2, <1>4 DEF Points
  <2>3. \A n \in Ends(rec) : n \in DOMAIN ps /\ n # 0
    BY <1>2, <1>3
  <2> QED
    BY <1>1, <1>2, <2>1, <2>2, <2>3 DEF Joins
<1>7. /\ Full(e, m, ns, ps, 0, fl) /\ Graph(e, m) = Graph(d, m)
      /\ \A b \in 1 .. Len(e) : Loose(e, ps, fl, b) => Loose(d, ps, fl, b) /\ b \notin {r, rec.type}
      /\ \A q : IsA(e, q, "relationship") <=> q = r \/ IsA(d, q, "relationship")
  BY <1>1, <1>6, RelationWrite
<1>8. /\ e[r] = rec /\ \A b \in 1 .. Len(d) : b # r => e[b] = d[b]
      /\ \A b \in 1 .. Len(e) : b = r \/ b \in 1 .. Len(d)
      /\ DOMAIN d = 1 .. Len(d)
  BY <1>5, PutFacts
<1>9. NoLeak(e, ps, fl, {})
  <2> HIDE DEF e, d, rec
  <2> QED
    BY <1>1, <1>2, <1>7, <1>8 DEF NoLeak
<1>10. Part(e, m, ns, ps, 0, {})
  BY <1>7, <1>9 DEF Part
<1>17. Stays(d, e)
  <2>1. Stays(d, d)
    BY DEF Stays
  <2> HIDE DEF d, rec
  <2> QED
    BY <1>1, <1>5, <2>1, StaysLoose
<1>11. Leaves(f, g, s, r, rec, ns, ps, 0, {})
  BY <1>5, <1>7, <1>10, <1>17 DEF Leaves
<1>12. Good(g, u, ns, ps, 0, {}) /\ u.disk = e
  <2> HIDE DEF rec
  <2> QED
    BY <1>11, GoodStep
<1>13. crashes = 0 => ChainedFrom(e, ps, NewHeads(d, ps, r, n1, n2))
  <2>1. crashes = 0 => Chained(d, ps)
    BY DEF Good
  <2>2. \A q : IsA(d, q, "relationship") => e[q] = d[q]
    <3> HIDE DEF e, d, rec
    <3> QED
      BY <1>5, <1>8 DEF IsA
  <2>3. e[r] = Relationship(t, n1, n2, d[n1].rel, d[n2].rel)
    BY <1>8
  <2> HIDE DEF e, d, rec
  <2> QED
    BY <1>5, <1>7, <2>1, <2>2, <2>3, ChainsAdd
<1>14. \A n \in ToSet(ns) : u.disk[n] = d[n]
  <2> HIDE DEF e, d, rec, u
  <2> QED
    BY <1>3, <1>8, <1>12
<1> DEFINE made == [first |-> n1, second |-> n2, type |-> d[t].data]
<1>15. IsA(u.disk, r, "relationship") /\ Made(u.disk, r) = made
  <2>1. IsA(d, t, "chunk") /\ t # r
    OBVIOUS
  <2>2. rec.first = n1 /\ rec.second = n2 /\ rec.type = t
    BY DEF Relationship
  <2>3. DOMAIN e = 1 .. Len(e) /\ Len(e) \in Nat /\ Len(d) <= Len(e)
    BY <1>5, PutFacts
  <2> HIDE DEF e, d, rec, u
  <2>4. Text(e, t) = d[t].data
    BY <1>5, <1>8, <2>1, <2>3 DEF Text, IsA
  <2> QED
    BY <1>7, <1>8, <1>12, <2>2, <2>4 DEF Made
<1> HIDE DEF made
<1>16. Stage(g, u, d, ns, ps, r, made, NewHeads(d, ps, r, n1, n2))
  <2> HIDE DEF e, d, rec, u
  <2> QED
    BY <1>12, <1>13, <1>14, <1>15 DEF Stage
<1> QED
  BY <1>16 DEF u, rec, d, made

(* A node is led to the new relationship. *)
LEMMA NodeLead ==
  ASSUME NEW g, ~g.exact, NEW s, NEW ns, NEW ps, Good(g, s, ns, ps, 0, {}),
         NEW n \in ToSet(ns), NEW r, IsA(s.disk, r, "relationship"), n \in Ends(s.disk[r])
  PROVE  Altered(g, s, ns, ps, 0, n, [s.disk[n] EXCEPT !.rel = r],
                 Write(s, n, [s.disk[n] EXCEPT !.rel = r]))
<1> DEFINE u == s.disk[n]
           rec == [u EXCEPT !.rel = r]
<1>1. n \in DOMAIN ps /\ n # 0 /\ NodeRecord(u) /\ IsA(s.disk, n, "node")
  BY NodesApart
<1>2. /\ rec.kind = "node" /\ NodeRecord(rec) /\ rec.rel = r
      /\ rec.prop = u.prop /\ rec.next = u.next /\ rec.prev = u.prev
  <2>1. u = [kind |-> "node", rel |-> u.rel, prop |-> u.prop, next |-> u.next, prev |-> u.prev]
    BY <1>1 DEF NodeRecord
  <2> HIDE DEF u
  <2>2. rec = [kind |-> "node", rel |-> r, prop |-> u.prop, next |-> u.next, prev |-> u.prev]
    BY <2>1
  <2> HIDE DEF rec
  <2> QED
    BY <2>2 DEF NodeRecord
<1> HIDE DEF rec
<1>3. Alters(s.disk, ps, n, rec)
  BY <1>1, <1>2 DEF Alters
<1>4. Altered(g, s, ns, ps, 0, n, rec, Write(s, n, rec))
  BY <1>3, GoodAlter
<1> QED
  BY <1>4 DEF rec

(* add_relationship: the type, the relationship, the heads of the two chains,    *)
(* then the nodes.                                                               *)
LEMMA AddRelationshipGood ==
  ASSUME NEW ns, NEW ps, NEW fl, InOrder(ns, ps, fl), NEW rel, AddRelationship(rel)
  PROVE  \E s, r :
           /\ More(s, Graph(disk, meta), ns) /\ IsA(s.disk, r, "relationship")
           /\ Made(s.disk, r) = [first |-> FindNode(disk, meta.first, rel.first),
                                 second |-> FindNode(disk, meta.first, rel.second),
                                 type |-> rel.type]
<1> DEFINE G == Graph(disk, meta)
           f == Now(G)
           g == [disk |-> disk, meta |-> meta, graph |-> G, exact |-> FALSE]
           n1 == FindNode(disk, meta.first, rel.first)
           n2 == FindNode(disk, meta.first, rel.second)
           t == Available(Start, "dynamic")
           s1 == Place(Start, "dynamic", Chunk(rel.type))
           k == Take(s1, "static")
           r == Available(s1, "static")
           s2 == Place(s1, "static", Relationship(t, n1, n2, disk[n1].rel, disk[n2].rel))
           s2b == SetPrevious(s2, disk[n1].rel, r)
           s3 == SetPrevious(s2b, disk[n2].rel, r)
           s4 == Write(s3, n1, [disk[n1] EXCEPT !.rel = r])
           s5 == Write(s4, n2, [disk[n2] EXCEPT !.rel = r])
           d == s1.disk
           hd == NewHeads(d, ps, r, n1, n2)
           made == [first |-> n1, second |-> n2, type |-> rel.type]
<1>1. pend = <<>> /\ n1 # 0 /\ n2 # 0 /\ Perform(s5)
  BY DEF AddRelationship, Ready, Quiet
<1>2. Good(f, Start, ns, ps, 0, {}) /\ Start.disk = disk
  BY <1>1, StartGood
<1>3. Full(disk, meta, ns, ps, 0, fl)
  BY DEF InOrder
<1>4. Meets(ns, n1, Spot(G, rel.first)) /\ Meets(ns, n2, Spot(G, rel.second))
  BY <1>3, FoundNode
<1>5. /\ f.graph = G /\ (f.exact <=> crashes = 0)
      /\ FileOf(g) = FileOf(f) /\ g.graph = G /\ ~g.exact /\ g.disk = f.disk
  BY NowIs DEF FileOf
<1> HIDE DEF f, g, n1, n2, G
<1>6. n1 \in ToSet(ns) /\ n2 \in ToSet(ns)
  BY <1>1, <1>4 DEF Meets
<1>7. Placed(f, Start, ns, ps, 0, {}, Chunk(rel.type), t, s1)
  <2>1. "dynamic" \in Class /\ Chunk(rel.type).kind \in Kind /\ \A q \in {} : q \in 1 .. Len(Start.disk)
    BY DEF Class, Kind, Chunk
  <2> QED
    BY <1>2, <2>1, PlaceGood
<1> HIDE DEF s1, t
<1>8. /\ Good(f, s1, ns, ps, 0, {t}) /\ d[t] = Chunk(rel.type) /\ t \in 1 .. Len(d)
      /\ \A b \in 1 .. Len(disk) : b # t => d[b] = disk[b]
      /\ t \notin DOMAIN ps
  <2>1. {} \cup {t} = {t}
    OBVIOUS
  <2> QED
    BY <1>2, <1>7, <2>1 DEF Placed
<1>9. \A n \in ToSet(ns) : d[n] = disk[n] /\ n \in DOMAIN ps
  <2>1. \A n \in ToSet(ns) : n \in 1 .. Len(Start.disk) /\ n \in DOMAIN ps
    BY <1>2, NodesApart
  <2> QED
    BY <1>2, <1>8, <2>1
<1>10. Len(d) \in Nat /\ IsA(d, t, "chunk")
  <2>1. Len(d) \in Nat /\ DOMAIN d = 1 .. Len(d)
    BY <1>8, GoodState
  <2> QED
    BY <1>8, <2>1 DEF IsA, Chunk
<1>11. Good(f, k, ns, ps, 0, {t, r}) /\ k.disk = d /\ t # r
  <2>1. Len(s1.disk) + 1 \notin {t} /\ "static" \in Class
    <3> DEFINE z == Len(s1.disk)
    <3>1. z \in Nat /\ t \in 1 .. z
      BY <1>8, <1>10
    <3> HIDE DEF z
    <3>2. z + 1 # t
      BY <3>1
    <3> QED
      BY <3>2 DEF z, Class
  <2>2. /\ Good(f, Take(s1, "static"), ns, ps, 0, {t} \cup {Available(s1, "static")})
        /\ Take(s1, "static").disk = s1.disk /\ Available(s1, "static") \notin {t}
    <3>1. Good(f, s1, ns, ps, 0, {t})
      BY <1>8
    <3> QED
      BY ONLY <2>1, <3>1, GoodTake
  <2>3. {t} \cup {r} = {t, r}
    OBVIOUS
  <2> HIDE DEF k, r
  <2> QED
    BY <2>2, <2>3 DEF k, r
<1>12. s2 = Write(k, r, Relationship(t, n1, n2, d[n1].rel, d[n2].rel))
  BY <1>6, <1>9 DEF Place
<1> HIDE DEF k, r, s2
<1>13. Stage(g, s2, d, ns, ps, r, made, hd)
  <2>1. Stage(g, Write(k, r, Relationship(t, n1, n2, k.disk[n1].rel, k.disk[n2].rel)),
               k.disk, ns, ps, r, [first |-> n1, second |-> n2, type |-> k.disk[t].data],
               NewHeads(k.disk, ps, r, n1, n2))
    <3>1. /\ f.exact <=> crashes = 0
          /\ Good(f, k, ns, ps, 0, {t, r}) /\ t # r /\ IsA(k.disk, t, "chunk")
          /\ n1 \in ToSet(ns) /\ n2 \in ToSet(ns)
          /\ ~g.exact /\ FileOf(g) = FileOf(f) /\ g.graph = f.graph
      BY <1>5, <1>6, <1>10, <1>11
    <3> QED
      BY ONLY <3>1, JoinGood
  <2>2. d[t].data = rel.type
    BY <1>8 DEF Chunk
  <2> QED
    BY <1>11, <1>12, <2>1, <2>2
<1>26. n1 = made.first /\ n2 = made.second
  OBVIOUS
<1> HIDE DEF d, hd, made
<1>14. Stage(g, s2b, d, ns, ps, r, made, hd)
  <2>1. s2b = SetPrevious(s2, d[n1].rel, r)
    BY <1>6, <1>9
  <2> QED
    BY <1>5, <1>6, <1>13, <2>1, SetPreviousGood
<1> HIDE DEF s2b
<1>15. Stage(g, s3, d, ns, ps, r, made, hd)
  <2>1. s3 = SetPrevious(s2b, d[n2].rel, r)
    BY <1>6, <1>9
  <2> QED
    BY <1>5, <1>6, <1>14, <2>1, SetPreviousGood
<1> HIDE DEF s3
<1>16. /\ Good(g, s3, ns, ps, 0, {}) /\ IsA(s3.disk, r, "relationship") /\ Made(s3.disk, r) = made
       /\ \A n \in ToSet(ns) : s3.disk[n] = disk[n] /\ n \in 1 .. Len(s3.disk)
       /\ crashes = 0 => ChainedFrom(s3.disk, ps, hd)
  <2>1. Good(g, s3, ns, ps, 0, {})
    BY <1>15 DEF Stage
  <2>2. \A n \in ToSet(ns) : n \in 1 .. Len(s3.disk)
    BY <2>1, NodesApart
  <2> QED
    BY <1>9, <1>15, <2>2 DEF Stage
<1>27. Ends(s3.disk[r]) = {n1, n2}
  BY <1>16, <1>26 DEF Made, Ends
<1>17. Altered(g, s3, ns, ps, 0, n1, [disk[n1] EXCEPT !.rel = r], s4)
  <2>1. n1 \in Ends(s3.disk[r]) /\ s3.disk[n1] = disk[n1]
    BY <1>6, <1>16, <1>27
  <2>2. Altered(g, s3, ns, ps, 0, n1, [s3.disk[n1] EXCEPT !.rel = r],
                Write(s3, n1, [s3.disk[n1] EXCEPT !.rel = r]))
    BY <1>5, <1>6, <1>16, <2>1, NodeLead
  <2> QED
    BY <2>1, <2>2
<1> HIDE DEF s4
<1>18. /\ Good(g, s4, ns, ps, 0, {}) /\ SameSides(s3.disk, s4.disk)
       /\ s4.disk[n1] = [disk[n1] EXCEPT !.rel = r]
       /\ \A n \in ToSet(ns) : n # n1 => s4.disk[n] = disk[n]
  BY <1>16, <1>17 DEF Altered
<1>19. \A n \in ToSet(ns) : n \in 1 .. Len(s4.disk)
  BY <1>18, NodesApart
<1>20. Altered(g, s4, ns, ps, 0, n2, [disk[n2] EXCEPT !.rel = r], s5)
  <2>1. n2 \in Ends(s4.disk[r]) /\ IsA(s4.disk, r, "relationship")
    BY <1>16, <1>18, <1>27 DEF SameSides, Ends
  <2>2. [s4.disk[n2] EXCEPT !.rel = r] = [disk[n2] EXCEPT !.rel = r]
    BY <1>6, <1>18
  <2>3. Altered(g, s4, ns, ps, 0, n2, [s4.disk[n2] EXCEPT !.rel = r],
                Write(s4, n2, [s4.disk[n2] EXCEPT !.rel = r]))
    BY <1>5, <1>6, <1>18, <2>1, NodeLead
  <2> QED
    BY <2>2, <2>3
<1> HIDE DEF s5
<1>21. /\ Good(g, s5, ns, ps, 0, {}) /\ SameSides(s4.disk, s5.disk)
       /\ s5.disk[n2] = [disk[n2] EXCEPT !.rel = r]
       /\ \A n \in ToSet(ns) : n # n2 => s5.disk[n] = s4.disk[n]
  BY <1>19, <1>20 DEF Altered
<1>22. \A n \in ToSet(ns) : s5.disk[n].rel = hd[n]
  <2>1. \A n \in ToSet(ns) : NodeRecord(disk[n])
    BY <1>2, NodesApart
  <2>2. \A n \in ToSet(ns) : [disk[n] EXCEPT !.rel = r].rel = r
    <3> TAKE n \in ToSet(ns)
    <3> DEFINE u == disk[n]
    <3>1. u = [kind |-> "node", rel |-> u.rel, prop |-> u.prop, next |-> u.next, prev |-> u.prev]
      BY <2>1 DEF NodeRecord
    <3> HIDE DEF u
    <3>2. [u EXCEPT !.rel = r].rel = r
      BY <3>1
    <3> QED
      BY <3>2 DEF u
  <2>3. \A n \in ToSet(ns) : hd[n] = IF n \in {n1, n2} THEN r ELSE disk[n].rel
    BY <1>9 DEF hd, NewHeads
  <2> TAKE n \in ToSet(ns)
  <2>4. CASE n = n2
    BY <1>6, <1>21, <2>2, <2>3, <2>4
  <2>5. CASE n # n2 /\ n = n1
    <3>1. s5.disk[n] = [disk[n] EXCEPT !.rel = r]
      BY <1>18, <1>21, <2>5
    <3> QED
      BY <2>2, <2>3, <2>5, <3>1
  <2>6. CASE n # n2 /\ n # n1
    <3>1. s5.disk[n] = disk[n]
      BY <1>18, <1>21, <2>6
    <3> QED
      BY <2>3, <2>6, <3>1
  <2> QED
    BY <2>4, <2>5, <2>6
<1>23. crashes = 0 => Chained(s5.disk, ps)
  <2>1. crashes = 0 => ChainedFrom(s5.disk, ps, hd)
    BY <1>16, <1>18, <1>21, ChainsFrame
  <2>2. \A n \in DOMAIN ps : n # 0 => n \in ToSet(ns)
    BY <1>3 DEF Full
  <2> QED
    BY <1>22, <2>1, <2>2, ChainsMeet
<1>24. Good(f, s5, ns, ps, 0, {})
  BY <1>5, <1>21, <1>23 DEF Good
<1>28. IsA(s5.disk, r, "relationship") /\ Made(s5.disk, r) = made
  <2>1. IsA(s4.disk, r, "relationship") /\ Made(s4.disk, r) = made
    BY <1>16, <1>18 DEF SameSides, Made
  <2> QED
    BY <1>21, <2>1 DEF SameSides, Made
<1>25. More(s5, G, ns)
  <2>1. Len(ns) \in Nat
    BY <1>3, ListLength DEF Full, Doubly, Way
  <2> QED
    BY <1>1, <1>24, <2>1 DEF More, Extends, f
<1> QED
  BY <1>25, <1>28 DEF G, n1, n2, made

--------------------------------------------------------------------------------
(* What is read from a list without its element i. *)
LEMMA ReadWithout ==
  ASSUME NEW d, NEW s, Len(s) \in Nat, NEW i \in 1 .. Len(s)
  PROVE  /\ Read(d, Without(s, i)) = RemoveAt(Read(d, s), i)
         /\ IsList(Read(d, s)) /\ Len(Read(d, s)) = Len(s)
<1> DEFINE z == Len(s)
           u == Read(d, s)
           t == Without(s, i)
           v == [k \in 1 .. z - 1 |-> IF k < i THEN u[k] ELSE u[k + 1]]
<1>1. z \in Nat /\ i \in 1 .. z /\ z - 1 \in Nat
  OBVIOUS
<1>2. IsList(u) /\ Len(u) = z /\ \A k \in 1 .. z : u[k] = PropertyAt(d, s[k])
  <2>1. u = [k \in 1 .. z |-> PropertyAt(d, s[k])]
    BY DEF Read
  <2> HIDE DEF u, z
  <2>2. u \in [1 .. z -> {u[k] : k \in 1 .. z}]
    BY <2>1
  <2>3. u \in Seq({u[k] : k \in 1 .. z}) /\ Len(u) = z
    BY <1>1, <2>2, ListOf
  <2> QED
    BY <2>1, <2>3 DEF IsList
<1>3. t = [k \in 1 .. z - 1 |-> IF k < i THEN s[k] ELSE s[k + 1]]
  BY DEF Without
<1> HIDE DEF u, t, z
<1>4. Len(t) = z - 1 /\ \A k \in 1 .. z - 1 : t[k] = IF k < i THEN s[k] ELSE s[k + 1]
  <2> DEFINE y == z - 1
  <2>1. y \in Nat /\ t \in [1 .. y -> {t[k] : k \in 1 .. y}]
    BY <1>1, <1>3
  <2> HIDE DEF y
  <2>2. Len(t) = y
    BY <2>1, ListOf
  <2> QED
    BY <1>3, <2>2 DEF y
<1>5. Read(d, t) = [k \in 1 .. z - 1 |-> PropertyAt(d, t[k])]
  BY <1>4 DEF Read
<1>6. \A k \in 1 .. z - 1 : PropertyAt(d, t[k]) = IF k < i THEN u[k] ELSE u[k + 1]
  <2> TAKE k \in 1 .. z - 1
  <2>1. k \in 1 .. z /\ k + 1 \in 1 .. z
    BY <1>1
  <2> QED
    BY <1>2, <1>4, <2>1
<1>7. Read(d, t) = v
  BY <1>5, <1>6
<1>8. RemoveAt(u, i) = v
  <2>1. IsList(u) /\ i \in 1 .. Len(u)
    BY <1>1, <1>2
  <2>2. RemoveAt(u, i) = [k \in 1 .. Len(u) - 1 |-> IF k < i THEN u[k] ELSE u[k + 1]]
    BY <2>1, RemovedAt
  <2> QED
    BY <1>2, <2>2
<1> QED
  BY <1>2, <1>7, <1>8 DEF t, u, z

(* The i-th property of the node n leaves its list: e is the file when the one   *)
(* before it is linked past it, qs are the properties, and its blocks are loose. *)
Blocks(d, p) == {p} \cup Chunks(d[p])

Parted(d, m, ns, ps, fl, n, i, e, qs) ==
  /\ Full(e, m, ns, qs, 0, fl)
  /\ Chained(d, ps) => Chained(e, qs)
  /\ \A b \in Blocks(d, ps[n][i]) : Loose(e, qs, fl, b) /\ b \in 1 .. Len(e)
  /\ NoLeak(d, ps, fl, {}) => NoLeak(e, qs, fl, Blocks(d, ps[n][i]))
  /\ \A j \in 1 .. Len(ns) :
       ns[j] = n => Graph(e, m) = [Graph(d, m) EXCEPT ![j] = RemoveAt(@, i)]

LEMMA PropertyCut ==
  ASSUME NEW d, NEW m, NEW ns, NEW ps, NEW fl, Full(d, m, ns, ps, 0, fl),
         NEW n \in ToSet(ns), n # 0, NEW i \in 1 .. Len(ps[n]), i # 1
  PROVE  /\ ps[n][i - 1] \in 1 .. Len(d)
         /\ Parted(d, m, ns, ps, fl, n, i,
                   PutAt(d, ps[n][i - 1], SetNext(d[ps[n][i - 1]], d[ps[n][i]].next)),
                   With(ps, n, Without(ps[n], i)))
<1> DEFINE c == ps[n]
           p == c[i]
           q == c[i - 1]
           x == d[p].next
           rec == SetNext(d[q], x)
           e == PutAt(d, q, rec)
           t == Without(c, i)
           qs == With(ps, n, t)
           z == Len(c)
<1>1. /\ IsList(d) /\ Kinds(d) /\ Header(m) /\ Free(d, m, fl) /\ Owners(d, ps, 0)
      /\ Related(d, ps) /\ Doubly(d, m, ns) /\ \A y : y \in DOMAIN ps <=> y = 0 \/ y \in ToSet(ns)
      /\ Len(d) \in Nat /\ DOMAIN d = 1 .. Len(d)
  BY ListLength DEF Full
<1>2. n \in DOMAIN ps /\ 0 \in DOMAIN ps /\ n # 0
  BY <1>1
<1>3. /\ \A o \in DOMAIN ps : Way(d, "property", Head0(d, 0, o), ps[o])
      /\ \A o, r \in DOMAIN ps : \A y : y \in ToSet(ps[o]) /\ y \in ToSet(ps[r]) => o = r
      /\ \A y \in Props(ps) : PropertyRecord(d[y]) /\ (d[y].type = "STRING" => d[y].key # d[y].val)
      /\ \A y, r \in Props(ps) : \A k : k \in Chunks(d[y]) /\ k \in Chunks(d[r]) => y = r
      /\ \A y \in DOMAIN ps : y # 0 => IsA(d, y, "node") /\ NodeRecord(d[y])
  BY <1>1 DEF Owners
<1>4. \A y \in Props(ps) : IsA(d, y, "property") /\ \A k \in Chunks(d[y]) : IsA(d, k, "chunk")
  BY <1>1, PropsAre
<1>5. Way(d, "property", d[n].prop, c)
  BY <1>2, <1>3 DEF Head0
<1>6. /\ IsList(c) /\ z \in Nat /\ i \in 1 .. z /\ i - 1 \in 1 .. z
      /\ \A j, k \in 1 .. z : c[j] = c[k] => j = k
      /\ \A j \in 1 .. z : c[j] \in ToSet(c) /\ IsA(d, c[j], "property") /\ d[c[j]].next = NextIn(c, j)
      /\ d[n].prop = c[1]
  <2>1. z \in Nat /\ i \in 1 .. z /\ IsList(c)
    BY <1>5, ListLength DEF Way
  <2>2. \A j \in 1 .. z : c[j] \in ToSet(c)
    BY <1>5, WayElements
  <2>3. z # 0 /\ i - 1 \in 1 .. z
    BY <2>1
  <2> QED
    BY <1>5, <2>1, <2>2, <2>3 DEF Way, NextIn
<1> HIDE DEF z
<1>7. /\ p \in Props(ps) /\ q \in Props(ps) /\ p \in ToSet(c) /\ q \in ToSet(c) /\ p # q
      /\ IsA(d, p, "property") /\ IsA(d, q, "property") /\ q \in 1 .. Len(d) /\ p \in 1 .. Len(d)
      /\ x = NextIn(c, i)
  <2>1. p \in ToSet(c) /\ q \in ToSet(c) /\ i # i - 1
    BY <1>6
  <2>2. p \in Props(ps) /\ q \in Props(ps)
    BY <1>2, <2>1 DEF Props
  <2>3. p # q
    BY <1>6, <2>1
  <2> QED
    BY <1>1, <1>4, <1>6, <2>1, <2>2, <2>3 DEF IsA
<1> HIDE DEF p, q, x
<1>8. /\ rec.kind = "property" /\ PropertyRecord(rec) /\ rec.next = x
      /\ rec.type = d[q].type /\ rec.key = d[q].key /\ rec.val = d[q].val
  <2> DEFINE r == d[q]
  <2>1. r = [kind |-> "property", type |-> r.type, key |-> r.key, val |-> r.val, next |-> r.next]
    BY <1>3, <1>7 DEF PropertyRecord
  <2>2. rec = [r EXCEPT !.next = x]
    BY DEF SetNext
  <2> HIDE DEF r, rec
  <2>3. rec = [kind |-> "property", type |-> r.type, key |-> r.key, val |-> r.val, next |-> x]
    BY <2>1, <2>2
  <2> QED
    BY <2>3 DEF PropertyRecord, r
<1> HIDE DEF rec
<1>9. /\ IsList(e) /\ Len(e) \in Nat /\ DOMAIN e = 1 .. Len(e) /\ Len(d) <= Len(e)
      /\ e[q] = rec
      /\ \A b \in 1 .. Len(d) : b # q => e[b] = d[b]
      /\ \A b \in 1 .. Len(e) : b = q \/ b \in 1 .. Len(d)
  <2>1. q \in 1 .. Len(d) + 1
    BY <1>1, <1>7
  <2> QED
    BY <1>1, <2>1, PutFacts
<1> HIDE DEF e
<1>10. DOMAIN e = DOMAIN d
  <2> DEFINE y == Len(e)
             w == Len(d)
  <2>1. w \in Nat /\ y \in Nat /\ w <= y /\ \A b \in 1 .. y : b \in 1 .. w
    BY <1>1, <1>7, <1>9
  <2>2. DOMAIN e = 1 .. y /\ DOMAIN d = 1 .. w
    BY <1>1, <1>9
  <2> HIDE DEF w, y
  <2>3. \A b \in 1 .. w : b \in 1 .. y
    BY <2>1
  <2> QED
    BY <2>1, <2>2, <2>3
<1>11. /\ \A b, kind : IsA(e, b, kind) <=> IsA(d, b, kind)
       /\ \A b, kind : IsA(d, b, kind) /\ b # q => e[b] = d[b]
       /\ \A b, kind : IsA(d, b, kind) /\ kind # "property" => e[b] = d[b]
  <2>1. \A b, kind : IsA(e, b, kind) <=> IsA(d, b, kind)
    BY <1>1, <1>7, <1>8, <1>9, <1>10 DEF IsA
  <2> QED
    BY <1>1, <1>7, <1>9, <2>1 DEF IsA
<1>12. \A y : IsA(d, y, "property") =>
         /\ e[y].type = d[y].type /\ e[y].key = d[y].key /\ e[y].val = d[y].val
         /\ Chunks(e[y]) = Chunks(d[y])
  BY <1>8, <1>9, <1>11 DEF Chunks
<1>13. /\ IsList(t) /\ \A y : y \in ToSet(t) <=> y \in ToSet(c) /\ y # p
  BY <1>6, WithoutFacts, SMTT(30) DEF z, p
<1>14. /\ DOMAIN qs = DOMAIN ps /\ qs[n] = t /\ \A o \in DOMAIN ps : o # n => qs[o] = ps[o]
  BY <1>2 DEF With
<1>15. Way(e, "property", c[1], t)
  <2>1. \A j \in 1 .. Len(c) :
          j # i => /\ IsA(e, c[j], "property")
                   /\ e[c[j]].next = IF j + 1 = i THEN NextIn(c, i) ELSE NextIn(c, j)
    <3> TAKE j \in 1 .. Len(c)
    <3>1. IsA(e, c[j], "property") /\ d[c[j]].next = NextIn(c, j) /\ j \in 1 .. z
      BY <1>6, <1>11 DEF z
    <3>2. CASE j + 1 = i
      <4>1. j = i - 1
        BY <1>6, <3>1, <3>2
      <4>2. c[j] = q
        BY <4>1 DEF q
      <4> QED
        BY <1>7, <1>8, <1>9, <3>1, <3>2, <4>2
    <3>3. CASE j + 1 # i
      <4>1. j # i - 1
        BY <1>6, <3>1, <3>3
      <4>2. c[j] # q
        BY <1>6, <3>1, <4>1 DEF q
      <4>3. e[c[j]] = d[c[j]]
        BY <1>6, <1>11, <3>1, <4>2
      <4> QED
        BY <3>1, <3>3, <4>3
    <3> QED
      BY <3>2, <3>3
  <2>2. IsList(c) /\ i \in 1 .. Len(c) /\ \A j, k \in 1 .. Len(c) : c[j] = c[k] => j = k
    BY <1>6 DEF z
  <2>3. Way(e, "property", IF i = 1 THEN NextIn(c, 1) ELSE c[1], t)
    BY ONLY <2>1, <2>2, SkipWay
  <2> QED
    BY <2>3
<1> HIDE DEF t, qs
<1>16. \A y : y \in Props(qs) <=> y \in Props(ps) /\ y # p
  <2>1. \A y \in Props(qs) : y \in Props(ps) /\ y # p
    <3> TAKE y \in Props(qs)
    <3>1. PICK o \in DOMAIN ps : y \in ToSet(qs[o])
      BY <1>14 DEF Props
    <3>2. CASE o = n
      BY <1>2, <1>13, <1>14, <3>1, <3>2 DEF Props
    <3>3. CASE o # n
      BY <1>2, <1>3, <1>7, <1>14, <3>1, <3>3 DEF Props
    <3> QED
      BY <3>2, <3>3
  <2>2. \A y \in Props(ps) : y # p => y \in Props(qs)
    <3> SUFFICES ASSUME NEW y \in Props(ps), y # p PROVE y \in Props(qs)
      OBVIOUS
    <3>1. PICK o \in DOMAIN ps : y \in ToSet(ps[o])
      BY DEF Props
    <3>2. y \in ToSet(qs[o])
      BY <1>13, <1>14, <3>1
    <3> QED
      BY <1>14, <3>1, <3>2 DEF Props
  <2> QED
    BY <2>1, <2>2
<1>17. \A y \in Props(qs) : /\ IsA(d, y, "property") /\ IsA(e, y, "property")
                            /\ y \in Props(ps) /\ Chunks(e[y]) = Chunks(d[y])
  BY <1>4, <1>11, <1>12, <1>16
<1>18. Owners(e, qs, 0)
  <2>1. \A y \in DOMAIN qs : y # 0 => IsA(e, y, "node") /\ NodeRecord(e[y]) /\ e[y] = d[y]
    BY <1>3, <1>11, <1>14
  <2>2. \A o \in DOMAIN qs : Way(e, "property", Head0(e, 0, o), qs[o])
    <3> TAKE o \in DOMAIN qs
    <3>1. Head0(e, 0, o) = Head0(d, 0, o)
      BY <2>1 DEF Head0
    <3>2. CASE o = n
      BY <1>2, <1>6, <1>14, <1>15, <3>1, <3>2 DEF Head0
    <3>3. CASE o # n
      <4>1. Way(d, "property", Head0(d, 0, o), ps[o]) /\ qs[o] = ps[o]
        BY <1>3, <1>14, <3>3
      <4>2. \A y \in ToSet(ps[o]) : IsA(d, y, "property") /\ y # q
        BY <1>2, <1>3, <1>7, <1>14, <3>3, <4>1, WayElements
      <4>3. \A y \in ToSet(ps[o]) : IsA(e, y, "property") /\ e[y] = d[y]
        BY <1>11, <4>2
      <4> QED
        BY <3>1, <4>1, <4>3, WayFrame
    <3> QED
      BY <3>2, <3>3
  <2>3. \A o, r \in DOMAIN qs : \A y : y \in ToSet(qs[o]) /\ y \in ToSet(qs[r]) => o = r
    <3>1. \A o \in DOMAIN qs : \A y : y \in ToSet(qs[o]) => y \in ToSet(ps[o])
      BY <1>13, <1>14
    <3> QED
      BY <1>3, <1>14, <3>1
  <2>4. \A y \in Props(qs) : /\ PropertyRecord(e[y])
                             /\ \A k \in Chunks(e[y]) : IsA(e, k, "chunk")
                             /\ e[y].type = "STRING" => e[y].key # e[y].val
    <3> TAKE y \in Props(qs)
    <3>1. PropertyRecord(e[y])
      BY <1>3, <1>8, <1>9, <1>11, <1>17
    <3> QED
      BY <1>3, <1>4, <1>11, <1>12, <1>17, <3>1
  <2>5. \A y, r \in Props(qs) : \A k : k \in Chunks(e[y]) /\ k \in Chunks(e[r]) => y = r
    BY <1>3, <1>17
  <2> QED
    BY <1>2, <1>14, <2>1, <2>2, <2>3, <2>4, <2>5 DEF Owners
<1>19. \A r : IsA(d, r, "relationship") => RelationAt(d, ps, r) /\ e[r] = d[r]
  BY <1>1, <1>11 DEF Related
<1>20. Related(e, qs) /\ (Chained(d, ps) => Chained(e, qs))
  <2>1. \A r : IsA(e, r, "relationship") <=> IsA(d, r, "relationship")
    BY <1>11
  <2>2. \A r : IsA(d, r, "relationship") =>
          /\ e[r] = d[r] /\ IsA(e, d[r].type, "chunk")
          /\ \A y \in Ends(d[r]) : y \in DOMAIN qs
          /\ \A y \in Props(qs) : d[r].type \notin Chunks(e[y])
    BY <1>11, <1>14, <1>17, <1>19 DEF RelationAt
  <2>3. \A y \in DOMAIN qs : y # 0 => IF y \in DOMAIN ps THEN e[y].rel = d[y].rel ELSE e[y].rel = 0
    BY <1>3, <1>11, <1>14
  <2> QED
    BY <1>1, <2>1, <2>2, <2>3, RelatedFrame
<1>21. Free(e, m, fl)
  <2>1. \A k \in Class : \A b \in ToSet(fl[k]) : IsA(d, b, "free")
    BY <1>1, WayElements DEF Free, Class
  <2>2. \A k \in Class : \A b \in ToSet(fl[k]) : IsA(e, b, "free") /\ e[b] = d[b]
    BY <1>11, <2>1
  <2> QED
    BY <1>1, <2>2, FreeFrame
<1>22. Doubly(e, m, ns)
  <2>1. \A y \in ToSet(ns) : IsA(d, y, "node")
    BY <1>1, WayElements DEF Doubly
  <2>2. \A y \in ToSet(ns) : IsA(e, y, "node") /\ e[y] = d[y]
    BY <1>11, <2>1
  <2>3. Way(e, "node", m.first, ns)
    BY <1>1, <2>2, WayFrame DEF Doubly
  <2>4. \A j \in 1 .. Len(ns) : ns[j] \in ToSet(ns)
    BY <1>1, WayElements DEF Doubly
  <2> QED
    BY <1>1, <2>2, <2>3, <2>4 DEF Doubly
<1>23. Kinds(e)
  BY <1>1, <1>8, <1>9 DEF Kinds
<1>24. Full(e, m, ns, qs, 0, fl)
  BY <1>1, <1>9, <1>14, <1>18, <1>20, <1>21, <1>22, <1>23 DEF Full
<1>25. \A k \in Class : \A b \in ToSet(fl[k]) : IsA(d, b, "free")
  BY <1>1, WayElements DEF Free, Class
<1>26. \A b \in Blocks(d, p) : IsA(d, b, "property") \/ IsA(d, b, "chunk")
  BY <1>4, <1>7 DEF Blocks
<1>27. \A b \in Blocks(d, p) : /\ b \in 1 .. Len(e) /\ b \in 1 .. Len(e) + 1 /\ b # 0
                               /\ b \notin DOMAIN qs /\ ~IsA(e, b, "relationship")
                               /\ b \notin ToSet(fl["static"]) /\ b \notin ToSet(fl["dynamic"])
  <2> TAKE b \in Blocks(d, p)
  <2>1. b \in 1 .. Len(e) /\ b # 0
    BY <1>1, <1>9, <1>10, <1>26 DEF IsA
  <2>2. b \in 1 .. Len(e) + 1
    BY <1>9, <2>1
  <2>3. b \notin DOMAIN qs
    BY <1>3, <1>14, <1>26, <2>1 DEF IsA
  <2>4. ~IsA(e, b, "relationship") /\ ~IsA(d, b, "free")
    BY <1>11, <1>26 DEF IsA
  <2> QED
    BY <1>25, <2>1, <2>2, <2>3, <2>4 DEF Class
<1>28. \A b \in Blocks(d, p) : b \notin Props(qs) /\ \A y \in Props(qs) : b \notin Chunks(e[y])
  <2> TAKE b \in Blocks(d, p)
  <2>1. CASE b = p
    BY <1>4, <1>7, <1>16, <1>17, <2>1 DEF IsA
  <2>2. CASE b \in Chunks(d[p])
    <3>1. IsA(d, b, "chunk")
      BY <1>4, <1>7, <2>2
    <3>2. b \notin Props(qs)
      BY <1>17, <3>1 DEF IsA
    <3> QED
      BY <1>3, <1>7, <1>16, <1>17, <2>2, <3>2
  <2> QED
    BY <2>1, <2>2 DEF Blocks
<1>29. \A b \in Blocks(d, p) : \A r : IsA(e, r, "relationship") => b # e[r].type
  <2> TAKE b \in Blocks(d, p)
  <2>1. ASSUME NEW r, IsA(d, r, "relationship") PROVE b # d[r].type
    <3>1. RelationAt(d, ps, r)
      BY <1>19, <2>1
    <3>2. IsA(d, d[r].type, "chunk") /\ d[r].type \notin Chunks(d[p])
      BY <1>7, <3>1 DEF RelationAt
    <3> QED
      BY <1>7, <3>2 DEF Blocks, IsA
  <2> QED
    BY <1>11, <1>19, <2>1
<1>30. \A b \in Blocks(d, p) : Loose(e, qs, fl, b) /\ b \in 1 .. Len(e)
  BY <1>27, <1>28, <1>29 DEF Loose
<1>31. \A b : Loose(e, qs, fl, b) => b \in Blocks(d, p) \/ Loose(d, ps, fl, b)
  <2> TAKE b
  <2> SUFFICES ASSUME Loose(e, qs, fl, b), b \notin Blocks(d, p) PROVE Loose(d, ps, fl, b)
    OBVIOUS
  <2>1. b \in 1 .. Len(d) + 1
    <3> DEFINE y == Len(e)
               w == Len(d)
    <3>1. w \in Nat /\ y \in Nat /\ (\A k \in 1 .. y : k \in 1 .. w) /\ b \in 1 .. y + 1
      BY <1>1, <1>7, <1>9 DEF Loose
    <3> HIDE DEF w, y
    <3>2. y = 0 \/ y \in 1 .. y
      BY <3>1
    <3>3. y <= w
      BY <3>1, <3>2
    <3>4. b \in 1 .. w + 1
      BY <3>1, <3>3
    <3> QED
      BY <3>4 DEF w
  <2>2. b \notin Props(ps) /\ \A y \in Props(ps) : b \notin Chunks(d[y])
    BY <1>16, <1>17 DEF Loose, Blocks
  <2>3. ~IsA(d, b, "relationship") /\ \A r : IsA(d, r, "relationship") => b # d[r].type
    BY <1>11, <1>19 DEF Loose
  <2> QED
    BY <1>14, <2>1, <2>2, <2>3 DEF Loose
<1>32. NoLeak(d, ps, fl, {}) => NoLeak(e, qs, fl, Blocks(d, p))
  <2> SUFFICES ASSUME NoLeak(d, ps, fl, {}), crashes = 0,
                      NEW b \in 1 .. Len(e), Loose(e, qs, fl, b), b \notin Blocks(d, p)
               PROVE  e[b] = Junk
    BY DEF NoLeak
  <2>1. Loose(d, ps, fl, b)
    BY <1>31
  <2>2. b \in 1 .. Len(d) /\ b # q
    BY <1>7, <1>9, <2>1 DEF Loose
  <2> QED
    BY <1>9, <2>1, <2>2 DEF NoLeak
<1>33. ASSUME NEW j \in 1 .. Len(ns), ns[j] = n
       PROVE  Graph(e, m) = [Graph(d, m) EXCEPT ![j] = RemoveAt(@, i)]
  <2>1. Graph(e, m) = Picture(e, ns, qs) /\ Graph(d, m) = Picture(d, ns, ps)
    BY <1>24, GraphIs
  <2>2. \A y : Text(e, y) = Text(d, y)
    BY <1>11 DEF Text, IsA
  <2>3. \A y : IsA(d, y, "property") => PropertyAt(e, y) = PropertyAt(d, y)
    BY <1>12, <2>2 DEF PropertyAt
  <2>4. \A k \in 1 .. Len(ns) : ns[k] \in DOMAIN ps /\ (ns[k] = n => k = j)
    <3>1. Way(d, "node", m.first, ns)
      BY <1>1 DEF Doubly
    <3>2. \A k \in 1 .. Len(ns) : ns[k] \in ToSet(ns)
      BY <3>1, WayElements
    <3>3. \A k \in 1 .. Len(ns) : ns[k] = ns[j] => k = j
      BY <3>1 DEF Way
    <3> QED
      BY <1>1, <1>33, <3>2, <3>3
  <2>5. \A y \in DOMAIN ps : Read(e, qs[y]) = Read(d, qs[y])
    <3>1. \A y \in DOMAIN ps : \A k \in 1 .. Len(qs[y]) : IsA(d, qs[y][k], "property")
      BY <1>14, <1>17, <1>18, WayElements DEF Owners, Props
    <3> QED
      BY <2>3, <3>1 DEF Read
  <2>6. Read(d, qs[n]) = RemoveAt(Read(d, ps[n]), i)
    <3>1. Len(ps[n]) \in Nat /\ i \in 1 .. Len(ps[n]) /\ qs[n] = Without(ps[n], i)
      BY <1>6, <1>14 DEF z, t
    <3> QED
      BY ONLY <3>1, ReadWithout
  <2>7. \A k \in 1 .. Len(ns) :
          Read(e, qs[ns[k]]) = IF k = j THEN RemoveAt(Read(d, ps[ns[k]]), i)
                               ELSE Read(d, ps[ns[k]])
    BY <1>14, <1>33, <2>4, <2>5, <2>6
  <2> QED
    BY <2>1, <2>7 DEF Picture
<1>34. Parted(d, m, ns, ps, fl, n, i, e, qs)
  BY <1>20, <1>24, <1>30, <1>32, <1>33 DEF Parted, p
<1> QED
  BY <1>7, <1>34 DEF e, rec, x, p, q, qs, t

(* The properties of a node without the first of a type and key. *)
Dropped(u, prop) == RemoveFirstMatch(u, LAMBDA q : SameKey(q, prop))

(* The search of remove_property finds the one that is dropped. *)
LEMMA DroppedIs ==
  ASSUME NEW n, NEW prop, NEW c, IsList(c), PropertyChain(disk, n) = c, FindProperty(n, prop) # 0
  PROVE  /\ FindProperty(n, prop) \in 1 .. Len(c)
         /\ Dropped(Read(disk, c), prop) = RemoveAt(Read(disk, c), FindProperty(n, prop))
<1> DEFINE i == FindProperty(n, prop)
           u == Read(disk, c)
           z == Len(c)
           I == {k \in 1 .. z : SameKey(PropertyAt(disk, c[k]), prop)}
           J == {k \in 1 .. Len(u) : SameKey(u[k], prop)}
<1>1. z \in Nat
  BY ListLength
<1>2. i = IF I # {} THEN Min(I) ELSE 0
  BY DEF FindProperty, SelectInSeq
<1>3. /\ Dropped(u, prop) = IF \E k \in 1 .. Len(u) : SameKey(u[k], prop)
                            THEN RemoveAt(u, IF J # {} THEN Min(J) ELSE 0) ELSE u
  BY DEF Dropped, RemoveFirstMatch, SelectInSeq
<1>4. I \subseteq Nat /\ I \subseteq 1 .. z
  OBVIOUS
<1>8. i # 0
  OBVIOUS
<1>5. I # {}
  BY <1>2, <1>8
<1>6. I = J
  <2>1. u = [k \in 1 .. z |-> PropertyAt(disk, c[k])]
    BY DEF Read
  <2> HIDE DEF u, z
  <2>2. u \in [1 .. z -> {u[k] : k \in 1 .. z}]
    BY <2>1
  <2>3. Len(u) = z
    BY <1>1, <2>2, ListOf
  <2> QED
    BY <2>1, <2>3 DEF z
<1>7. \E k \in 1 .. Len(u) : SameKey(u[k], prop)
  BY <1>5, <1>6
<1> HIDE DEF u, I, J, i, z
<1>9. i \in 1 .. z
  BY <1>2, <1>4, <1>5, MinIn
<1>10. Dropped(u, prop) = RemoveAt(u, i)
  BY <1>2, <1>3, <1>5, <1>6, <1>7
<1> QED
  BY <1>9, <1>10 DEF u, z, i

(* The blocks of a property that has left its list are released: the value, the   *)
(* key, the property itself.                                                     *)
LEMMA BlocksReleased ==
  ASSUME NEW g, NEW s, NEW ns, NEW ps, NEW p, NEW key, NEW val, NEW str \in BOOLEAN,
         Good(g, s, ns, ps, 0, IF str THEN {p, key, val} ELSE {p, key}),
         p \in 1 .. Len(s.disk), key \in 1 .. Len(s.disk), p # key,
         str => val \in 1 .. Len(s.disk) /\ val # key /\ val # p
  PROVE  Good(g, RemoveData(RemoveChain(IF str THEN RemoveChain(s, val) ELSE s, key), p, "static"),
              ns, ps, 0, {})
<1> DEFINE s2 == IF str THEN RemoveChain(s, val) ELSE s
           s3 == RemoveChain(s2, key)
           X == IF str THEN {p, key, val} ELSE {p, key}
<1>1. "static" \in Class /\ "dynamic" \in Class
  BY DEF Class
<1>2. Good(g, s, ns, ps, 0, X) /\ Len(s.disk) \in Nat
  BY GoodState
<1>3. Good(g, s2, ns, ps, 0, {p, key}) /\ Len(s.disk) <= Len(s2.disk)
  <2>1. CASE str
    <3>1. val \in X /\ val \in 1 .. Len(s.disk) /\ val # 0 /\ X \ {val} = {p, key}
      BY <1>2, <2>1
    <3>2. s2 = RemoveData(s, val, "dynamic")
      BY <2>1, <3>1 DEF RemoveChain
    <3> HIDE DEF s2, X
    <3>3. Good(g, RemoveData(s, val, "dynamic"), ns, ps, 0, X \ {val})
          /\ Len(s.disk) <= Len(RemoveData(s, val, "dynamic").disk)
      BY <1>1, <1>2, <3>1, GoodRemove
    <3> QED
      BY <3>1, <3>2, <3>3
  <2>2. CASE ~str
    <3>1. s2 = s /\ X = {p, key}
      BY <2>2
    <3> HIDE DEF s2, X
    <3> QED
      BY <1>2, <3>1
  <2> QED
    BY <2>1, <2>2
<1> HIDE DEF s2, X
<1>4. Len(s2.disk) \in Nat
  BY <1>3, GoodState
<1>5. key \in {p, key} /\ key \in 1 .. Len(s2.disk) /\ key # 0 /\ {p, key} \ {key} = {p}
  BY <1>2, <1>3, <1>4
<1>6. s3 = RemoveData(s2, key, "dynamic")
  BY <1>5 DEF RemoveChain
<1> HIDE DEF s3
<1>7. Good(g, s3, ns, ps, 0, {p, key} \ {key}) /\ Len(s2.disk) <= Len(s3.disk)
  BY <1>1, <1>3, <1>5, <1>6, GoodRemove
<1>8. Good(g, s3, ns, ps, 0, {p})
  BY <1>5, <1>7
<1>9. Len(s3.disk) \in Nat
  BY <1>8, GoodState
<1>10. p \in {p} /\ p \in 1 .. Len(s3.disk) /\ {p} \ {p} = {}
  BY <1>2, <1>3, <1>4, <1>7, <1>9
<1>11. Good(g, RemoveData(s3, p, "static"), ns, ps, 0, {p} \ {p})
  BY <1>1, <1>8, <1>10, GoodRemove
<1>12. Good(g, RemoveData(s3, p, "static"), ns, ps, 0, {})
  BY <1>10, <1>11
<1> QED
  BY <1>12 DEF s3, s2

(* remove_property: the property before it is linked past it, then its blocks    *)
(* are released.                                                                 *)
LEMMA RemovePropertyGood ==
  ASSUME NEW ns, NEW ps, NEW fl, InOrder(ns, ps, fl),
         NEW desc, NEW prop, RemoveProperty(desc, prop),
         FindProperty(FindNode(disk, meta.first, desc), prop) # 1
  PROVE  /\ Spot(Graph(disk, meta), desc) # 0
         /\ \E s : Done(s, [Graph(disk, meta) EXCEPT
              ![Spot(Graph(disk, meta), desc)] = Dropped(@, prop)])
<1> DEFINE G == Graph(disk, meta)
           f == Now(G)
           n == FindNode(disk, meta.first, desc)
           j == Spot(G, desc)
           c == PropertyChain(disk, n)
           i == FindProperty(n, prop)
           p == c[i]
           q == c[i - 1]
           rec == [disk[q] EXCEPT !.next = disk[p].next]
           s1 == Write(Start, q, rec)
           s2 == IF disk[p].type = "STRING" THEN RemoveChain(s1, disk[p].val) ELSE s1
           s3 == RemoveChain(s2, disk[p].key)
           t == RemoveData(s3, p, "static")
           k == [G EXCEPT ![j] = Dropped(@, prop)]
           g == Now(k)
           qs == With(ps, n, Without(ps[n], i))
           B == Blocks(disk, p)
<1>1. pend = <<>> /\ n # 0 /\ i # 0 /\ i # 1 /\ Perform(t)
  BY DEF RemoveProperty, Ready, Quiet
<1>2. Meets(ns, n, j)
  BY FoundNode DEF InOrder
<1>3. Good(f, Start, ns, ps, 0, {}) /\ Start.disk = disk /\ Start.meta = meta
  BY <1>1, StartGood
<1>4. /\ f.graph = G /\ View(FileOf(f)) = G /\ FileOf(g) = FileOf(f) /\ g.graph = k
      /\ (g.exact <=> crashes = 0) /\ g.disk = disk
  BY NowIs
<1>5. /\ Full(disk, meta, ns, ps, 0, fl) /\ NoLeak(disk, ps, fl, {})
      /\ (crashes = 0 => Chained(disk, ps)) /\ IsList(disk) /\ Owners(disk, ps, 0)
      /\ \A x \in ToSet(ns) : x \in DOMAIN ps
  BY DEF InOrder, Full
<1> HIDE DEF f, g, n, j, G
<1>6. j \in 1 .. Len(ns) /\ Len(ns) \in Nat /\ n = ns[j] /\ n \in ToSet(ns) /\ n \in DOMAIN ps /\ j # 0
  BY <1>1, <1>2, <1>5 DEF Meets
<1>7. c = ps[n]
  BY <1>1, <1>5, <1>6, OwnerChains
<1>8. IsList(c) /\ Len(c) \in Nat
  <2>1. Way(disk, "property", Head0(disk, 0, n), ps[n])
    BY <1>5, <1>6 DEF Owners
  <2> QED
    BY <1>7, <2>1, ListLength DEF Way
<1> HIDE DEF c
<1>9. /\ i \in 1 .. Len(c) /\ Dropped(Read(disk, c), prop) = RemoveAt(Read(disk, c), i)
  <2>1. PropertyChain(disk, n) = c /\ FindProperty(n, prop) # 0
    BY <1>1 DEF c
  <2> QED
    BY <1>8, <2>1, DroppedIs
<1> HIDE DEF i
<1>10. /\ q \in 1 .. Len(disk)
       /\ Parted(disk, meta, ns, ps, fl, n, i, PutAt(disk, q, rec), qs)
  <2>1. /\ Full(disk, meta, ns, ps, 0, fl) /\ n \in ToSet(ns) /\ n # 0
        /\ i \in 1 .. Len(ps[n]) /\ i # 1
    BY <1>1, <1>5, <1>6, <1>7, <1>9
  <2>2. /\ ps[n][i - 1] \in 1 .. Len(disk)
        /\ Parted(disk, meta, ns, ps, fl, n, i,
                  PutAt(disk, ps[n][i - 1], SetNext(disk[ps[n][i - 1]], disk[ps[n][i]].next)),
                  With(ps, n, Without(ps[n], i)))
    BY ONLY <2>1, PropertyCut
  <2> QED
    BY <1>7, <2>2 DEF SetNext
<1> DEFINE e == PutAt(disk, q, rec)
<1>11. /\ Full(e, meta, ns, qs, 0, fl)
       /\ crashes = 0 => Chained(e, qs)
       /\ \A b \in B : Loose(e, qs, fl, b) /\ b \in 1 .. Len(e)
       /\ NoLeak(e, qs, fl, B)
       /\ Graph(e, meta) = [G EXCEPT ![j] = RemoveAt(@, i)]
  BY <1>5, <1>6, <1>7, <1>10 DEF Parted, G
<1>25. Stays(disk, e)
  <2>1. ps[n][i - 1] \in Props(ps) /\ q = ps[n][i - 1] /\ Related(disk, ps)
    <3>1. i - 1 \in 1 .. Len(ps[n]) /\ DOMAIN ps[n] = 1 .. Len(ps[n])
      BY <1>1, <1>7, <1>8, <1>9, ListLength
    <3> QED
      BY <1>5, <1>6, <1>7, <3>1 DEF Props, ToSet, Full
  <2>2. Way(disk, "property", Head0(disk, 0, n), ps[n])
    BY <1>5, <1>6 DEF Owners
  <2>3. i - 1 \in 1 .. Len(ps[n])
    BY <1>1, <1>7, <1>8, <1>9
  <2>4. IsA(disk, q, "property")
    BY <2>1, <2>2, <2>3, WayElements
  <2>5. Stays(disk, disk)
    BY DEF Stays
  <2> HIDE DEF q, rec
  <2> QED
    BY <1>5, <2>1, <2>4, <2>5, StaysApart
<1>12. Graph(e, meta) = k
  <2>1. G = Picture(disk, ns, ps)
    BY <1>5, GraphIs DEF G
  <2>2. G[j] = Read(disk, c)
    BY <1>6, <1>7, <2>1 DEF Picture
  <2> QED
    BY <1>9, <1>11, <2>2
<1> HIDE DEF rec, q, qs, e, k
<1>13. Part(e, meta, ns, qs, 0, B)
  BY <1>11 DEF Part
<1>14. Good(g, s1, ns, qs, 0, B) /\ s1.disk = e
  <2>1. Good(f, Start, ns, ps, 0, {})
    BY <1>3
  <2>0. IsState(Start) /\ IsList(Start.log) /\ Reached(FileOf(f), Start.log, [disk |-> disk, meta |-> meta])
    BY <1>3, GoodState DEF Good
  <2>2. /\ IsState(s1) /\ s1.disk = e /\ s1.meta = meta
        /\ s1.log = Append(Start.log, [at |-> q, data |-> rec])
    BY <1>3, <2>0, WriteState DEF e
  <2>3. Sound(e, meta)
    BY <1>11, FullSound
  <2>4. q \in 1 .. Len(disk) + 1
    BY <1>5, <1>10, ListLength
  <2>5. Graph(disk, meta) = View(FileOf(f))
    BY <1>4 DEF G
  <2>6. Reached(FileOf(f), s1.log, [disk |-> e, meta |-> meta])
    <3>1. Reached(FileOf(f), Append(Start.log, [at |-> q, data |-> rec]), [disk |-> PutAt(disk, q, rec), meta |-> meta])
      BY <1>5, <2>0, <2>3, <2>4, <2>5, ReachedWrite DEF e
    <3> QED
      BY <2>2, <3>1 DEF e
  <2> HIDE DEF s1
  <2> QED
    BY <1>4, <1>11, <1>12, <1>13, <1>25, <2>2, <2>6 DEF Good
<1> HIDE DEF s1
<1>15. \A b \in B : b \in 1 .. Len(s1.disk)
  BY <1>11, <1>14
<1> DEFINE str == disk[p].type = "STRING"
           key == disk[p].key
           val == disk[p].val
<1>16. /\ p # key /\ str \in BOOLEAN
       /\ str => val # key /\ val # p
  <2>1. p \in Props(ps)
    <3>1. Way(disk, "property", Head0(disk, 0, n), ps[n])
      BY <1>5, <1>6 DEF Owners
    <3>2. c[i] \in ToSet(c)
      BY <1>7, <1>9, <3>1, WayElements
    <3> QED
      BY <1>6, <1>7, <3>2 DEF Props
  <2>2. IsA(disk, p, "property")
    <3>1. Way(disk, "property", Head0(disk, 0, n), ps[n])
      BY <1>5, <1>6 DEF Owners
    <3> QED
      BY <1>7, <1>9, <3>1, WayElements
  <2>3. \A x \in Chunks(disk[p]) : IsA(disk, x, "chunk")
    BY <1>5, <2>1 DEF Owners
  <2>4. str => val # key
    BY <1>5, <2>1 DEF Owners
  <2> HIDE DEF p
  <2>5. key \in Chunks(disk[p]) /\ (str => val \in Chunks(disk[p]))
    BY DEF Chunks
  <2> QED
    BY <2>2, <2>3, <2>4, <2>5 DEF IsA
<1>17. B = IF str THEN {p, key, val} ELSE {p, key}
  <2> HIDE DEF p
  <2> QED
    BY DEF Blocks, Chunks
<1>18. /\ p \in 1 .. Len(s1.disk) /\ key \in 1 .. Len(s1.disk)
       /\ str => val \in 1 .. Len(s1.disk)
  <2> HIDE DEF p, str, key, val, B
  <2> QED
    BY <1>15, <1>17
<1>19. t = RemoveData(RemoveChain(IF str THEN RemoveChain(s1, val) ELSE s1, key), p, "static")
  OBVIOUS
<1> HIDE DEF p, str, key, val, B, t, s2, s3
<1>20. Good(g, s1, ns, qs, 0, IF str THEN {p, key, val} ELSE {p, key})
  BY <1>14, <1>17
<1>21. Good(g, t, ns, qs, 0, {})
  BY <1>16, <1>18, <1>19, <1>20, BlocksReleased
<1>22. Done(t, k)
  BY <1>1, <1>21 DEF Done, g
<1> QED
  BY <1>6, <1>22 DEF G, j, k

--------------------------------------------------------------------------------
(* Nothing was lost: the chains of relationships are complete, and every block is *)
(* in some part of the file, or filled with junk.                                *)
Clean(d, ps, fl) ==
  Chained(d, ps) /\ \A b \in 1 .. Len(d) : Loose(d, ps, fl, b) => d[b] = Junk

Well(d, m, exact) == \E ns, ps, fl : Full(d, m, ns, ps, 0, fl) /\ (exact => Clean(d, ps, fl))

(* The inductive invariant: unless a restart found the list of nodes torn, the   *)
(* writes to come lead from the file as it is to one that is in order, under the *)
(* header that is in memory, and that shows the graph; the file is sound after   *)
(* each of them, and a reader finds the old graph or the new one.                *)
Path == \E d : /\ Reached([disk |-> disk, meta |-> dmeta], pend, [disk |-> d, meta |-> meta])
               /\ Well(d, meta, crashes = 0)
               /\ graph = Graph(d, meta)

PathInv ==
  /\ crashes \in Nat
  /\ IF torn THEN crashes # 0 ELSE IsList(pend) /\ Path

(* What is in order between operations, ... *)
LEMMA QuietWell ==
  ASSUME Path, pend = <<>>
  PROVE  Well(disk, meta, crashes = 0) /\ meta = dmeta /\ graph = Graph(disk, meta)
<1> DEFINE f == [disk |-> disk, meta |-> dmeta]
<1>1. PICK d : /\ Reached(f, pend, [disk |-> d, meta |-> meta])
               /\ Well(d, meta, crashes = 0) /\ graph = Graph(d, meta)
  BY DEF Path
<1> DEFINE g == [disk |-> d, meta |-> meta]
<1>2. Len(<<>>) = 0
  OBVIOUS
<1>3. f.disk = disk /\ f.meta = dmeta /\ g.disk = d /\ g.meta = meta
  OBVIOUS
<1>4. Reached(f, <<>>, g)
  BY <1>1
<1> HIDE DEF f, g
<1>5. f = g
  BY <1>2, <1>4 DEF Reached
<1> QED
  BY <1>1, <1>3, <1>5

(* ... as the calls take it, ... *)
LEMMA WellInOrder ==
  ASSUME Well(disk, meta, crashes = 0)
  PROVE  \E ns, ps, fl : InOrder(ns, ps, fl)
<1>1. PICK ns, ps, fl : Full(disk, meta, ns, ps, 0, fl) /\ (crashes = 0 => Clean(disk, ps, fl))
  BY DEF Well
<1>2. InOrder(ns, ps, fl)
  BY <1>1 DEF InOrder, NoLeak, Clean
<1> QED
  BY <1>2

(* ... and at every write. *)
LEMMA PathSound ==
  ASSUME Path, IsList(pend)
  PROVE  Sound(disk, dmeta)
<1> DEFINE f == [disk |-> disk, meta |-> dmeta]
<1>1. PICK g : Reached(f, pend, g)
  BY DEF Path
<1>2. f.disk = disk /\ f.meta = dmeta
  OBVIOUS
<1>3. 0 \in 0 .. Len(pend)
  BY ListLength
<1> HIDE DEF f
<1>4. Sound(f.disk, f.meta)
  BY <1>1, <1>3 DEF Reached
<1> QED
  BY <1>2, <1>4

(* The empty file is in order, and shows an empty graph. *)
LEMMA InitPath ==
  ASSUME Init PROVE PathInv /\ Graph(disk, dmeta) = <<>>
<1> DEFINE e == <<>>
           ps == [o \in {0} |-> e]
           fl == [c \in Class |-> e]
<1>1. IsList(e) /\ Len(e) = 0 /\ ToSet(e) = {}
  <2>1. e \in Seq({})
    OBVIOUS
  <2> QED
    BY <2>1 DEF IsList, ToSet
<1>2. EmptyMeta.first = 0 /\ EmptyMeta.last = 0 /\ \A c \in Class : EmptyMeta.free[c] = 0
  BY DEF EmptyMeta, Class
<1>3. \A kind : Way(e, kind, 0, e)
  BY <1>1 DEF Way
<1>4. Free(e, EmptyMeta, fl)
  BY <1>1, <1>2, <1>3 DEF Free, Class
<1>5. DOMAIN ps = {0} /\ ps[0] = e
  OBVIOUS
<1> HIDE DEF ps, fl
<1>6. Props(ps) = {}
  BY <1>1, <1>5 DEF Props
<1>7. Owners(e, ps, 0)
  BY <1>1, <1>3, <1>5, <1>6 DEF Owners, Head0
<1>8. Doubly(e, EmptyMeta, e)
  BY <1>1, <1>2, <1>3 DEF Doubly
<1>9. Header(EmptyMeta) /\ Kinds(e)
  BY <1>1 DEF Header, EmptyMeta, Kinds
<1>10. \A b, kind : ~IsA(e, b, kind)
  BY DEF IsA
<1>11. Related(e, ps)
  BY <1>5, <1>10 DEF Related
<1>12. Full(e, EmptyMeta, e, ps, 0, fl)
  BY <1>1, <1>4, <1>5, <1>7, <1>8, <1>9, <1>11 DEF Full
<1>13. Clean(e, ps, fl)
  BY <1>1, <1>5 DEF Clean, Chained
<1>14. Graph(e, EmptyMeta) = e
  <2>1. Graph(e, EmptyMeta) = Picture(e, e, ps)
    BY <1>12, GraphIs
  <2> QED
    BY <1>1, <2>1 DEF Picture
<1>15. disk = e /\ meta = EmptyMeta /\ dmeta = EmptyMeta /\ pend = e /\ graph = e /\ crashes = 0 /\ ~torn
  BY DEF Init
<1>16. Well(e, EmptyMeta, crashes = 0)
  BY <1>12, <1>13 DEF Well
<1> DEFINE f == [disk |-> e, meta |-> EmptyMeta]
<1>17. f.disk = e /\ f.meta = EmptyMeta
  OBVIOUS
<1> HIDE DEF f
<1>18. Reached(f, e, f)
  BY <1>12, <1>17, FullSound, ReachedNothing
<1>19. Path
  BY <1>14, <1>15, <1>16, <1>18 DEF Path, f
<1> QED
  BY <1>1, <1>14, <1>15, <1>19 DEF PathInv

(* A call leaves such a way. *)
LEMMA DonePath ==
  ASSUME PathInv, meta = dmeta, NEW g, NEW s, Done(s, g)
  PROVE  PathInv' /\ graph' = g
<1>1. PICK ns, ps : Good(Now(g), s, ns, ps, 0, {})
  BY DEF Done
<1>2. /\ disk' = disk /\ dmeta' = dmeta /\ meta' = s.meta /\ pend' = s.log /\ torn' = torn
      /\ graph' = Graph(s.disk, s.meta) /\ crashes' = crashes
  BY DEF Done, Perform
<1>3. FileOf(Now(g)) = [disk |-> disk, meta |-> dmeta] /\ Now(g).graph = g /\ (Now(g).exact <=> crashes = 0)
  BY NowIs
<1>4. /\ Reached([disk |-> disk, meta |-> dmeta], s.log, [disk |-> s.disk, meta |-> s.meta])
      /\ IsList(s.log) /\ Graph(s.disk, s.meta) = g /\ (crashes = 0 => Chained(s.disk, ps))
  BY <1>1, <1>3, GoodState DEF Good
<1>5. PICK fl : Full(s.disk, s.meta, ns, ps, 0, fl) /\ NoLeak(s.disk, ps, fl, {})
  BY <1>1 DEF Good, Part
<1>6. Well(s.disk, s.meta, crashes = 0)
  BY <1>4, <1>5 DEF Well, Clean, NoLeak
<1> DEFINE P(f, l, m, x, gr) ==
      \E d : Reached(f, l, [disk |-> d, meta |-> m]) /\ Well(d, m, x) /\ gr = Graph(d, m)
<1>7. P([disk |-> disk, meta |-> dmeta], s.log, s.meta, crashes = 0, Graph(s.disk, s.meta))
  BY <1>4, <1>6
<1>8. P([disk |-> disk', meta |-> dmeta'], pend', meta', crashes' = 0, graph')
  BY <1>2, <1>7
<1> QED
  BY <1>2, <1>4, <1>8 DEF PathInv, Path

(* What a call does to the graph: what GraphModel says, or nothing. *)
Meant(c, G, g) ==
  LET i == Spot(G, c.node)
  IN  \/ g = G
      \/ c.op = "add_node" /\ i = 0 /\ g = Append(G, [j \in DOMAIN c.node |-> Plain(c.node[j])])
      \/ c.op = "add_property" /\ i # 0 /\ g = [G EXCEPT ![i] = <<Plain(c.prop)>> \o @]
      \/ c.op = "remove_node" /\ i # 0 /\ g = RemoveAt(G, i)
      \/ c.op = "remove_property" /\ i # 0
         /\ g = [G EXCEPT ![i] = Dropped(@, c.prop)]

(* Every careful call leaves a way, to a file that shows what is meant. *)
LEMMA CallPath ==
  ASSUME PathInv, ~torn, Quiet, NEW c, c.op = "add_node" => IsList(c.node), Careful(c), Call(c)
  PROVE  /\ PathInv' /\ Meant(c, graph, graph')
         /\ graph = Graph(disk, dmeta) /\ disk' = disk /\ dmeta' = dmeta
<1>1. /\ Well(disk, meta, crashes = 0) /\ meta = dmeta /\ graph = Graph(disk, meta)
      /\ IsList(pend) /\ pend = <<>> /\ Path
  BY QuietWell DEF PathInv, Quiet
<1>2. PICK ns, ps, fl : InOrder(ns, ps, fl)
  BY <1>1, WellInOrder
<1> DEFINE n == FindNode(disk, meta.first, c.node)
<1>3. ASSUME NEW g, \E s : Done(s, g)
      PROVE  PathInv' /\ graph' = g /\ disk' = disk /\ dmeta' = dmeta
  BY <1>1, <1>3, DonePath DEF Done, Perform
<1>4. CASE c.op = "add_node" /\ AddNode(c.node)
  <2>1. IsList(c.node)
    BY <1>4
  <2> DEFINE h == Append(Graph(disk, meta), [i \in DOMAIN c.node |-> Plain(c.node[i])])
  <2>2. Spot(Graph(disk, meta), c.node) = 0 /\ \E s : More(s, h, ns)
    BY <1>2, <1>4, <2>1, AddNodeGood
  <2> HIDE DEF h
  <2>3. \E s : Done(s, h)
    BY <2>2, MoreDone
  <2>4. PathInv' /\ graph' = h /\ disk' = disk /\ dmeta' = dmeta
    BY <1>3, <2>3
  <2> QED
    BY <1>1, <1>4, <2>2, <2>4 DEF Meant, h
<1>5. CASE c.op = "remove_node" /\ RemoveNode(c.node)
  <2>1. Unconnected(disk, n)
    BY <1>5 DEF Careful, RemoveNode
  <2>2. /\ Spot(Graph(disk, meta), c.node) # 0
        /\ \E s : Done(s, RemoveAt(Graph(disk, meta), Spot(Graph(disk, meta), c.node)))
    BY <1>2, <1>5, <2>1, RemoveNodeGood
  <2> QED
    BY <1>1, <1>3, <1>5, <2>2 DEF Meant
<1>6. CASE c.op = "add_property" /\ AddProperty(c.node, c.prop)
  <2>1. /\ Spot(Graph(disk, meta), c.node) # 0
        /\ \E s : Done(s, [Graph(disk, meta) EXCEPT
                             ![Spot(Graph(disk, meta), c.node)] = <<Plain(c.prop)>> \o @])
    BY <1>2, <1>6, AddPropertyGood
  <2> QED
    BY <1>1, <1>3, <1>6, <2>1 DEF Meant
<1>7. CASE c.op = "remove_property" /\ RemoveProperty(c.node, c.prop)
  <2>1. FindProperty(n, c.prop) # 1
    BY <1>7 DEF Careful, RemoveProperty
  <2>2. /\ Spot(Graph(disk, meta), c.node) # 0
        /\ \E s : Done(s, [Graph(disk, meta) EXCEPT
             ![Spot(Graph(disk, meta), c.node)] = Dropped(@, c.prop)])
    BY <1>2, <1>7, <2>1, RemovePropertyGood
  <2> QED
    BY <1>1, <1>3, <1>7, <2>2 DEF Meant
<1>8. CASE c.op = "add_relationship" /\ AddRelationship(c.rel)
  <2>1. PICK s : More(s, Graph(disk, meta), ns)
    BY <1>2, <1>8, AddRelationshipGood
  <2>2. \E t : Done(t, Graph(disk, meta))
    BY <2>1, MoreDone
  <2> QED
    BY <1>1, <1>3, <2>2 DEF Meant
<1>9. CASE Refuse(c)
  BY <1>1, <1>9 DEF Refuse, vars, PathInv, Path, Meant
<1>10. CASE GoAstray(c)
  BY <1>1, <1>10 DEF GoAstray, PathInv, Path, Meant
<1>11. c.op # "remove_relationship"
  BY DEF Careful
<1> QED
  BY <1>4, <1>5, <1>6, <1>7, <1>8, <1>9, <1>10, <1>11 DEF Call

(* A write that is made is one the way no longer has; a reader finds the same as *)
(* before, or the new graph.                                                     *)
LEMMA FlushPath ==
  ASSUME PathInv, ~torn, Flush
  PROVE  /\ PathInv' /\ graph' = graph
         /\ Graph(disk, dmeta)' = Graph(disk, dmeta) \/ Graph(disk, dmeta)' = graph
<1> DEFINE w == Head(pend)
           f == [disk |-> disk, meta |-> dmeta]
           g == [disk |-> disk', meta |-> dmeta']
<1>1. /\ pend # <<>> /\ pend' = Tail(pend) /\ meta' = meta /\ torn' = torn
      /\ graph' = graph /\ crashes' = crashes
      /\ IF w.at = 0 THEN dmeta' = w.data /\ disk' = disk
         ELSE disk' = PutAt(disk, w.at, w.data) /\ dmeta' = dmeta
  BY DEF Flush
<1>2. IsList(pend) /\ Path
  BY DEF PathInv
<1>3. PICK d : /\ Reached(f, pend, [disk |-> d, meta |-> meta])
               /\ Well(d, meta, crashes = 0) /\ graph = Graph(d, meta)
  BY <1>2 DEF Path
<1> DEFINE e == [disk |-> d, meta |-> meta]
<1>4. After(f, w) = g
  BY <1>1 DEF After
<1>5. IsList(Tail(pend))
  <2>1. PICK T : pend \in Seq(T)
    BY <1>2 DEF IsList
  <2>2. Tail(pend) \in Seq(T)
    BY <1>1, <2>1
  <2> QED
    BY <2>2 DEF IsList
<1>6. View(f) = Graph(disk, dmeta) /\ View(g) = Graph(disk', dmeta') /\ View(e) = graph
  BY <1>3 DEF View
<1> HIDE DEF f, g, e
<1>7. Reached(f, pend, e)
  BY <1>3 DEF e
<1>8. Reached(g, Tail(pend), e) /\ (View(g) = View(f) \/ View(g) = View(e))
  BY <1>1, <1>2, <1>4, <1>7, ReachedPop
<1>9. Reached([disk |-> disk', meta |-> dmeta'], pend', [disk |-> d, meta |-> meta'])
  BY <1>1, <1>8 DEF g, e
<1>10. Well(d, meta', crashes' = 0) /\ graph' = Graph(d, meta')
  BY <1>1, <1>3
<1>11. Path'
  BY <1>9, <1>10 DEF Path
<1> QED
  BY <1>1, <1>5, <1>6, <1>8, <1>11 DEF PathInv

(* The file a restart finds is sound: in order, unless its list is torn. *)
LEMMA CrashPath ==
  ASSUME PathInv, ~torn, Crash
  PROVE  PathInv' /\ graph' = Graph(disk, dmeta) /\ disk' = disk /\ dmeta' = dmeta
<1>1. /\ disk' = disk /\ dmeta' = dmeta /\ meta' = dmeta /\ pend' = <<>>
      /\ torn' = ~Linked(disk, dmeta) /\ graph' = Graph(disk, dmeta) /\ crashes' = crashes + 1
  BY DEF Crash
<1>2. Sound(disk, dmeta)
  BY PathSound DEF PathInv
<1>3. crashes' \in Nat /\ crashes' # 0
  BY <1>1 DEF PathInv
<1>4. ASSUME Linked(disk, dmeta) PROVE IsList(pend') /\ Path'
  <2>1. Well(disk, dmeta, crashes' = 0)
    BY <1>2, <1>3, <1>4 DEF Sound, Whole, Well
  <2> DEFINE f == [disk |-> disk, meta |-> dmeta]
  <2>2. f.disk = disk /\ f.meta = dmeta
    OBVIOUS
  <2> HIDE DEF f
  <2>3. Reached(f, <<>>, f)
    BY <1>2, <2>2, ReachedNothing
  <2>4. IsList(<<>>)
    <3>1. <<>> \in Seq({})
      OBVIOUS
    <3> QED
      BY <3>1 DEF IsList
  <2> QED
    BY <1>1, <2>1, <2>3, <2>4 DEF Path, f
<1> QED
  BY <1>1, <1>3, <1>4 DEF PathInv

--------------------------------------------------------------------------------
(* What a file in order is to a reader. *)
LEMMA FullLinked ==
  ASSUME NEW d, NEW m, NEW ns, NEW ps, NEW h, NEW fl, Full(d, m, ns, ps, h, fl)
  PROVE  Linked(d, m)
<1> DEFINE z == Len(ns)
<1>1. IsList(d) /\ Doubly(d, m, ns)
  BY DEF Full
<1>2. /\ NodeChain(d, m.first) = ns /\ z \in Nat /\ DOMAIN ns = 1 .. z
      /\ ToSet(ns) = {ns[i] : i \in 1 .. z}
      /\ \A n \in ToSet(ns) : IsA(d, n, "node")
  BY <1>1, NodeChains
<1>3. /\ \A i \in 1 .. z : d[ns[i]].prev = IF i = 1 THEN 0 ELSE ns[i - 1]
      /\ m.last = IF z = 0 THEN 0 ELSE ns[z]
      /\ IsList(ns)
  BY <1>1 DEF Doubly, Way
<1>4. z = 0 <=> ns = <<>>
  BY <1>3 DEF IsList
<1>5. m.last = IF ns = <<>> THEN 0 ELSE Last(ns)
  BY <1>3, <1>4 DEF Last
<1>6. \A i \in DOMAIN ns :
        IsA(d, ns[i], "node") /\ d[ns[i]].prev = IF i = 1 THEN 0 ELSE ns[i - 1]
  BY <1>2, <1>3
<1> HIDE DEF z
<1> QED
  BY <1>2, <1>5, <1>6 DEF Linked

(* The lists of free blocks, taken together, name no block twice. *)
LEMMA FreeListsExact ==
  ASSUME NEW d, IsList(d), NEW m, NEW fl, Free(d, m, fl)
  PROVE  LET fs == FreeChain(d, m.free.static)
             fd == FreeChain(d, m.free.dynamic)
         IN  /\ \A b \in ToSet(fs) : IsA(d, b, "free") /\ d[b].class = "static"
             /\ \A b \in ToSet(fd) : IsA(d, b, "free") /\ d[b].class = "dynamic"
             /\ Len(fs \o fd) = Cardinality(ToSet(fs \o fd))
<1> DEFINE fs == fl["static"]
           fd == fl["dynamic"]
           u == fs \o fd
           x == Len(fs)
           y == Len(fd)
<1>1. FreeChain(d, m.free.static) = fs /\ FreeChain(d, m.free.dynamic) = fd
  BY FreeChains
<1>2. /\ Way(d, "free", m.free["static"], fs) /\ \A b \in ToSet(fs) : d[b].class = "static"
      /\ Way(d, "free", m.free["dynamic"], fd) /\ \A b \in ToSet(fd) : d[b].class = "dynamic"
  BY DEF Free
<1> HIDE DEF fs, fd
<1>3. /\ \A b \in ToSet(fs) : IsA(d, b, "free") /\ d[b].class = "static"
      /\ \A b \in ToSet(fd) : IsA(d, b, "free") /\ d[b].class = "dynamic"
      /\ x \in Nat /\ y \in Nat
      /\ ToSet(fs) = {fs[i] : i \in 1 .. x} /\ ToSet(fd) = {fd[i] : i \in 1 .. y}
  BY <1>2, WayElements
<1>4. /\ IsList(fs) /\ IsList(fd)
      /\ \A i, j \in 1 .. x : fs[i] = fs[j] => i = j
      /\ \A i, j \in 1 .. y : fd[i] = fd[j] => i = j
  BY <1>2 DEF Way
<1>5. \A i \in 1 .. x : \A j \in 1 .. y : fs[i] # fd[j]
  <2>1. \A i \in 1 .. x : d[fs[i]].class = "static"
    BY <1>3
  <2>2. \A j \in 1 .. y : d[fd[j]].class = "dynamic"
    BY <1>3
  <2> QED
    BY <2>1, <2>2
<1>6. /\ Len(u) = x + y /\ DOMAIN u = 1 .. x + y
      /\ \A i \in 1 .. x : u[i] = fs[i]
      /\ \A i \in 1 .. y : u[x + i] = fd[i]
      /\ IsList(u)
  <2>1. PICK S, T : fs \in Seq(S) /\ fd \in Seq(T)
    BY <1>4 DEF IsList
  <2>2. fs \in Seq(S \cup T) /\ fd \in Seq(S \cup T)
    BY <2>1
  <2>3. u \in Seq(S \cup T)
    BY <2>2
  <2> QED
    BY <2>2, <2>3 DEF IsList
<1> HIDE DEF u, x, y
<1>7. \A i \in 1 .. x + y : i \in 1 .. x \/ (i - x \in 1 .. y /\ x + (i - x) = i)
  BY <1>3
<1>8. ASSUME NEW i \in 1 .. x + y, NEW j \in 1 .. x + y, u[i] = u[j] PROVE i = j
  <2>1. CASE i \in 1 .. x
    <3>1. CASE j \in 1 .. x
      BY <1>4, <1>6, <1>8, <2>1, <3>1
    <3>2. CASE j - x \in 1 .. y /\ x + (j - x) = j
      <4>1. u[x + (j - x)] = fd[j - x] /\ fs[i] # fd[j - x]
        BY <1>5, <1>6, <2>1, <3>2
      <4> QED
        BY <1>6, <1>8, <2>1, <3>2, <4>1
    <3> QED
      BY <1>7, <3>1, <3>2
  <2>2. CASE i - x \in 1 .. y /\ x + (i - x) = i
    <3>1. u[x + (i - x)] = fd[i - x]
      BY <1>6, <2>2
    <3>2. CASE j \in 1 .. x
      <4>1. fs[j] # fd[i - x]
        BY <1>5, <2>2, <3>2
      <4> QED
        BY <1>6, <1>8, <2>2, <3>1, <3>2, <4>1
    <3>3. CASE j - x \in 1 .. y /\ x + (j - x) = j
      <4>1. u[x + (j - x)] = fd[j - x]
        BY <1>6, <3>3
      <4>2. i - x = j - x
        BY <1>4, <1>8, <2>2, <3>1, <3>3, <4>1
      <4> QED
        BY <2>2, <3>3, <4>2
    <3> QED
      BY <1>7, <3>2, <3>3
  <2> QED
    BY <1>7, <2>1, <2>2
<1>9. Cardinality(ToSet(u)) = Len(u)
  <2>1. ToSet(u) = {u[i] : i \in 1 .. x + y}
    BY <1>6 DEF ToSet
  <2>2. u \in [1 .. x + y -> ToSet(u)]
    <3>1. \A i \in 1 .. x + y : u[i] \in ToSet(u)
      BY <2>1
    <3>2. u = [i \in 1 .. x + y |-> u[i]]
      BY <1>6 DEF IsList
    <3> QED
      BY <3>1, <3>2
  <2>3. u \in Bijection(1 .. x + y, ToSet(u))
    <3>1. u \in Injection(1 .. x + y, ToSet(u))
      BY <1>8, <2>2 DEF Injection, IsInjective
    <3>2. u \in Surjection(1 .. x + y, ToSet(u))
      BY <2>1, <2>2 DEF Surjection
    <3> QED
      BY <3>1, <3>2 DEF Bijection
  <2>4. x + y \in Nat
    BY <1>3
  <2> QED
    BY <1>6, <2>3, <2>4, FS_CountingElements DEF ExistsBijection
<1>10. Len(fs \o fd) = Cardinality(ToSet(fs \o fd))
  BY <1>9 DEF u
<1> QED
  BY <1>1, <1>3, <1>10

(* Every pointer of a file in order leads to a record of its type. *)
LEMMA FullPointers ==
  ASSUME NEW d, NEW m, NEW ns, NEW ps, NEW fl, Full(d, m, ns, ps, 0, fl)
  PROVE  Typed(d, m)
<1>1. /\ IsList(d) /\ Owners(d, ps, 0) /\ Doubly(d, m, ns)
      /\ \A n : n \in DOMAIN ps <=> n = 0 \/ n \in ToSet(ns)
  BY DEF Full
<1>2. /\ NodeChain(d, m.first) = ns /\ Len(ns) \in Nat
      /\ ToSet(ns) = {ns[i] : i \in 1 .. Len(ns)}
      /\ \A n \in ToSet(ns) : IsA(d, n, "node") /\ n \in 1 .. Len(d)
  BY <1>1, NodeChains
<1>3. Nodes(d, m) = ToSet(ns)
  BY <1>2 DEF Nodes
<1>4. \A n \in Nodes(d, m) : n \in DOMAIN ps /\ n # 0
  BY <1>1, <1>2, <1>3, ListLength
<1>5. NodePointers(d, m)
  <2>1. /\ m.first = IF Len(ns) = 0 THEN 0 ELSE ns[1]
        /\ m.last = IF Len(ns) = 0 THEN 0 ELSE ns[Len(ns)]
        /\ \A i \in 1 .. Len(ns) : d[ns[i]].next = IF i = Len(ns) THEN 0 ELSE ns[i + 1]
        /\ \A i \in 1 .. Len(ns) : d[ns[i]].prev = IF i = 1 THEN 0 ELSE ns[i - 1]
    BY <1>1 DEF Doubly, Way
  <2>2. \A i \in 1 .. Len(ns) : IsA(d, ns[i], "node")
    BY <1>2
  <2>3. Points(d, m.first, "node") /\ Points(d, m.last, "node")
    <3>1. Len(ns) # 0 => 1 \in 1 .. Len(ns) /\ Len(ns) \in 1 .. Len(ns)
      BY <1>2
    <3> QED
      BY <2>1, <2>2, <3>1 DEF Points
  <2>4. ASSUME NEW n \in Nodes(d, m)
        PROVE  Points(d, d[n].next, "node") /\ Points(d, d[n].prev, "node")
    <3>1. PICK i \in 1 .. Len(ns) : n = ns[i]
      BY <1>2, <1>3
    <3>2. /\ i # Len(ns) => i + 1 \in 1 .. Len(ns)
          /\ i # 1 => i - 1 \in 1 .. Len(ns)
      BY <1>2
    <3> QED
      BY <2>1, <2>2, <3>1, <3>2 DEF Points
  <2> QED
    BY <2>3, <2>4 DEF NodePointers
<1>6. PropertyPointers(d, m)
  <2>1. \A n \in Nodes(d, m) :
          PropertyChain(d, n) = ps[n] /\ Way(d, "property", d[n].prop, ps[n])
    <3> TAKE n \in Nodes(d, m)
    <3>1. Way(d, "property", Head0(d, 0, n), ps[n]) /\ Head0(d, 0, n) = d[n].prop
      BY <1>1, <1>4 DEF Owners, Head0
    <3> QED
      BY <1>1, <1>4, <3>1, OwnerChains
  <2>2. ASSUME NEW a, NEW s, Way(d, "property", a, s)
        PROVE  /\ Points(d, a, "property")
               /\ \A p \in ToSet(s) : Points(d, d[p].next, "property")
    <3>1. /\ Len(s) \in Nat /\ ToSet(s) = {s[i] : i \in 1 .. Len(s)}
          /\ \A b \in ToSet(s) : IsA(d, b, "property")
      BY <2>2, WayElements
    <3>2. /\ a = IF Len(s) = 0 THEN 0 ELSE s[1]
          /\ \A i \in 1 .. Len(s) : d[s[i]].next = IF i = Len(s) THEN 0 ELSE s[i + 1]
      BY <2>2 DEF Way
    <3>3. Len(s) # 0 => 1 \in 1 .. Len(s)
      BY <3>1
    <3>4. Points(d, a, "property")
      BY <3>1, <3>2, <3>3 DEF Points
    <3>5. ASSUME NEW i \in 1 .. Len(s) PROVE Points(d, d[s[i]].next, "property")
      <4>1. i # Len(s) => i + 1 \in 1 .. Len(s)
        BY <3>1
      <4> QED
        BY <3>1, <3>2, <4>1 DEF Points
    <3> QED
      BY <3>1, <3>4, <3>5
  <2>3. \A n \in Nodes(d, m) : Points(d, d[n].prop, "property")
    BY <2>1, <2>2
  <2>4. ASSUME NEW p \in Properties(d, m)
        PROVE  /\ Points(d, d[p].next, "property")
               /\ IsA(d, d[p].key, "chunk")
               /\ d[p].type = "STRING" => IsA(d, d[p].val, "chunk")
    <3>1. PICK n \in Nodes(d, m) : p \in ToSet(PropertyChain(d, n))
      BY DEF Properties
    <3>2. Points(d, d[p].next, "property")
      BY <2>1, <2>2, <3>1
    <3>3. p \in Props(ps)
      BY <1>4, <2>1, <3>1 DEF Props
    <3>4. \A c \in Chunks(d[p]) : IsA(d, c, "chunk")
      BY <1>1, <3>3 DEF Owners
    <3>5. d[p].key \in Chunks(d[p]) /\ (d[p].type = "STRING" => d[p].val \in Chunks(d[p]))
      BY DEF Chunks
    <3> QED
      BY <3>2, <3>4, <3>5
  <2> QED
    BY <2>3, <2>4 DEF PropertyPointers
<1>7. RelationshipPointers(d, m)
  <2>1. Related(d, ps)
    BY DEF Full
  <2>2. \A n \in Nodes(d, m) : Points(d, d[n].rel, "relationship")
    BY <1>4, <2>1 DEF Related, Points
  <2>3. ASSUME NEW r, IsA(d, r, "relationship")
        PROVE  /\ IsA(d, d[r].first, "node") /\ IsA(d, d[r].second, "node")
               /\ IsA(d, d[r].type, "chunk")
               /\ \A f \in {"fprev", "fnext", "sprev", "snext"} : Points(d, d[r][f], "relationship")
    <3>1. RelationAt(d, ps, r)
      BY <2>1, <2>3 DEF Related
    <3>2. \A n \in DOMAIN ps : n # 0 => IsA(d, n, "node")
      BY <1>1 DEF Owners
    <3>3. IsA(d, d[r].first, "node") /\ IsA(d, d[r].second, "node") /\ IsA(d, d[r].type, "chunk")
      BY <3>1, <3>2 DEF RelationAt, Ends
    <3>4. \A q \in {d[r].fprev, d[r].fnext, d[r].sprev, d[r].snext} : Points(d, q, "relationship")
      BY <3>1 DEF RelationAt, Neighbours
    <3> QED
      BY <3>3, <3>4
  <2>4. \A r \in Relationships(d, m) : IsA(d, r, "relationship")
    BY DEF Relationships
  <2> QED
    BY <2>2, <2>3, <2>4 DEF RelationshipPointers
<1> QED
  BY <1>5, <1>6, <1>7 DEF Typed


(* A header that is bounded has a type. *)
LEMMA BoundedType ==
  ASSUME NEW d, IsList(d), NEW m, Bounded(d, m), NEW x \in Nat, Len(d) <= x
  PROVE  m \in [first : 0 .. x, last : 0 .. x, free : [static : 0 .. x, dynamic : 0 .. x]]
<1> DEFINE z == Len(d)
           y == m.free
<1>1. z \in Nat /\ z <= x
  BY ListLength
<1>2. m = [first |-> m.first, last |-> m.last, free |-> [static |-> y.static, dynamic |-> y.dynamic]]
  BY DEF Bounded, Header
<1>3. m.first \in 0 .. z /\ m.last \in 0 .. z /\ y.static \in 0 .. z /\ y.dynamic \in 0 .. z
  BY DEF Bounded
<1> HIDE DEF z, y
<1>4. m.first \in 0 .. x /\ m.last \in 0 .. x /\ y.static \in 0 .. x /\ y.dynamic \in 0 .. x
  BY <1>1, <1>3
<1>5. [static |-> y.static, dynamic |-> y.dynamic] \in [static : 0 .. x, dynamic : 0 .. x]
  BY <1>4
<1> QED
  BY <1>2, <1>4, <1>5

(* The file with the writes that are still to come is long enough for the header *)
(* in memory.                                                                    *)
LEMMA PathTypes ==
  ASSUME PathInv, ~torn
  PROVE  /\ \A b \in DOMAIN disk :
              disk[b].kind \in {"node", "property", "relationship", "chunk", "free", "junk"}
         /\ {meta, dmeta} \subseteq
              LET Addr == 0 .. Len(disk) + Len(pend)
              IN  [first : Addr, last : Addr, free : [static : Addr, dynamic : Addr]]
<1> DEFINE f == [disk |-> disk, meta |-> dmeta]
           x == Len(disk) + Len(pend)
           z == Len(disk)
           n == Len(pend)
<1>1. IsList(pend) /\ Path /\ Sound(disk, dmeta)
  BY PathSound DEF PathInv
<1>2. /\ IsList(disk) /\ Kinds(disk) /\ Bounded(disk, dmeta)
      /\ z \in Nat /\ n \in Nat /\ DOMAIN disk = 1 .. z
  BY <1>1, ListLength DEF Sound
<1>3. PICK d : Reached(f, pend, [disk |-> d, meta |-> meta]) /\ Well(d, meta, crashes = 0)
  BY <1>1 DEF Path
<1> DEFINE g == [disk |-> d, meta |-> meta]
<1>4. f.disk = disk /\ g.disk = d
  OBVIOUS
<1> HIDE DEF f, g
<1>5. Reached(f, pend, g)
  BY <1>3 DEF g
<1>6. 0 \in 0 .. n
  BY <1>2
<1>7. Len(g.disk) <= Len(f.disk) + (n - 0)
  BY <1>5, <1>6 DEF Reached
<1>8. IsList(d) /\ Bounded(d, meta)
  BY <1>3, FullSound DEF Well, Sound
<1>9. x \in Nat /\ z <= x /\ Len(d) <= x
  BY <1>2, <1>4, <1>7
<1> HIDE DEF x
<1>10. {meta, dmeta} \subseteq
         [first : 0 .. x, last : 0 .. x, free : [static : 0 .. x, dynamic : 0 .. x]]
  BY <1>2, <1>8, <1>9, BoundedType
<1> QED
  BY <1>2, <1>10 DEF Kinds, x

(* What counts the calls and the stops stays within the bounds. *)
Counted == ops \in 0 .. MaxOps /\ crashes \in 0 .. MaxCrashes /\ astray \in BOOLEAN

(* They do. *)
LEMMA CountedInductive == Spec => []Counted
<1>1. Init => Counted
  <2> SUFFICES ASSUME Init PROVE Counted
    OBVIOUS
  <2>1. 0 \in 0 .. MaxOps /\ 0 \in 0 .. MaxCrashes
    BY BoundsAssumption
  <2> QED
    BY <2>1 DEF Init, Counted
<1>2. Counted /\ [Next]_vars => Counted'
  <2> SUFFICES ASSUME Counted, [Next]_vars PROVE Counted'
    OBVIOUS
  <2>1. ASSUME NEW s, Perform(s) PROVE Counted'
    BY <2>1, BoundsAssumption DEF Counted, Perform
  <2>2. ASSUME NEW c \in Calls, Call(c) PROVE Counted'
    <3>1. CASE \E s : Perform(s)
      BY <2>1, <3>1
    <3>2. CASE Refuse(c)
      BY <3>2 DEF Counted, Refuse, vars
    <3>3. CASE GoAstray(c)
      BY <3>3 DEF Counted, GoAstray
    <3> QED
      BY <2>2, <3>1, <3>2, <3>3 DEF Call, AddNode, RemoveNode, AddProperty, RemoveProperty,
         AddRelationship, RemoveRelationship
  <2>3. CASE Flush
    BY <2>3 DEF Counted, Flush
  <2>4. CASE Crash
    BY <2>4, BoundsAssumption DEF Counted, Crash
  <2>5. CASE UNCHANGED vars
    BY <2>5 DEF Counted, vars
  <2> QED
    BY <2>2, <2>3, <2>4, <2>5 DEF Next
<1> QED
  BY <1>1, <1>2, PTL DEF Spec

(* The calls a careful program makes are calls. *)
LEMMA CarefulCalls == CarefulSpec => Spec
<1>1. [CarefulNext]_vars => [Next]_vars
  BY DEF CarefulNext, Next
<1> QED
  BY <1>1, PTL DEF CarefulSpec, Spec

(* No step takes back what torn says. *)
LEMMA TornStays ==
  ASSUME torn, [CarefulNext]_vars PROVE torn'
<1>1. CASE UNCHANGED vars
  BY <1>1 DEF vars
<1>2. CASE CarefulNext
  <2>1. ASSUME NEW c \in Calls, Call(c) PROVE torn'
    BY <2>1 DEF Call, AddNode, RemoveNode, AddProperty, RemoveProperty,
       AddRelationship, RemoveRelationship, Perform, Refuse, GoAstray, vars
  <2>2. CASE Flush
    BY <2>2 DEF Flush
  <2>3. CASE Crash
    BY <2>3 DEF Crash
  <2> QED
    BY <1>2, <2>1, <2>2, <2>3 DEF CarefulNext
<1> QED
  BY <1>1, <1>2

(* The stops are counted. *)
LEMMA StopsCounted ==
  ASSUME crashes \in Nat, [CarefulNext]_vars PROVE crashes' \in Nat /\ (crashes # 0 => crashes' # 0)
<1>1. CASE UNCHANGED vars
  BY <1>1 DEF vars
<1>2. CASE CarefulNext
  <2>1. ASSUME NEW c \in Calls, Call(c) PROVE crashes' = crashes
    BY <2>1 DEF Call, AddNode, RemoveNode, AddProperty, RemoveProperty,
       AddRelationship, RemoveRelationship, Perform, Refuse, GoAstray, vars
  <2>2. CASE Flush
    BY <2>2 DEF Flush
  <2>3. CASE Crash
    BY <2>3 DEF Crash
  <2> QED
    BY <1>2, <2>1, <2>2, <2>3 DEF CarefulNext
<1> QED
  BY <1>1, <1>2

(* The invariant holds. *)
THEOREM PathInductive ==
  CarefulSpec => []PathInv
<1>1. Init => PathInv
  BY InitPath
<1>2. PathInv /\ [CarefulNext]_vars => PathInv'
  <2> SUFFICES ASSUME PathInv, [CarefulNext]_vars PROVE PathInv'
    OBVIOUS
  <2>1. CASE torn
    <3>1. torn' /\ crashes' \in Nat /\ crashes' # 0
      BY <2>1, TornStays, StopsCounted DEF PathInv
    <3> QED
      BY <3>1 DEF PathInv
  <2>2. CASE ~torn /\ UNCHANGED vars
    BY <2>2 DEF vars, PathInv, Path
  <2>3. CASE ~torn /\ CarefulNext
    BY <2>3, Described, CallPath, FlushPath, CrashPath DEF CarefulNext
  <2> QED
    BY <2>1, <2>2, <2>3
<1> QED
  BY <1>1, <1>2, PTL DEF CarefulSpec

(* Whatever a careful program calls, and wherever the process stops: every record *)
(* has one of the kinds of the data file, and the header in the file and the one *)
(* in memory point into the file with the writes to come, since an address is    *)
(* handed out for the end of the file or from a list of free blocks.             *)
THEOREM AlwaysTypeOK ==
  CarefulSpec => [](~torn => TypeOK)
<1>1. PathInv /\ Counted => (~torn => TypeOK)
  BY PathTypes DEF Counted, TypeOK
<1> QED
  BY <1>1, PathInductive, CountedInductive, CarefulCalls, PTL

(* The invariant on the list of nodes, ... *)
LEMMA PathLinked ==
  ASSUME PathInv PROVE NodeListLinked
BY QuietWell, FullLinked DEF PathInv, NodeListLinked, Quiet, Well

(* The list of nodes is linked both ways, from first_node_addr to last_node_addr,*)
(* whenever no call is under way: node_write and remove_node keep it, and a stop *)
(* between any two of their writes tears it or leaves the whole file in order.   *)
THEOREM AlwaysNodeListLinked ==
  CarefulSpec => []NodeListLinked
<1>1. PathInv => NodeListLinked
  BY PathLinked
<1> QED
  BY <1>1, PathInductive, PTL

(* ... on what is reachable, ... *)
LEMMA PathNotFree ==
  ASSUME PathInv PROVE ReachableNotFree
<1> SUFFICES ASSUME ~torn PROVE ReachableNotFree
  BY DEF ReachableNotFree
<1>1. NotFree(disk, dmeta)
  BY PathSound DEF PathInv, Sound
<1> QED
  BY <1>1 DEF NotFree, ReachableNotFree

(* No node, no record of a property or a relationship and no string of one is on *)
(* a list of free blocks while it can be reached, at no write of any call: the   *)
(* order in which they unlink and release is right.                              *)
THEOREM AlwaysReachableNotFree ==
  CarefulSpec => []ReachableNotFree
<1>1. PathInv => ReachableNotFree
  BY PathNotFree
<1> QED
  BY <1>1, PathInductive, PTL

(* ... on the lists of free blocks, ... *)
LEMMA PathFreeLists ==
  ASSUME PathInv PROVE ~torn => FreeListsInFile
<1> SUFFICES ASSUME ~torn PROVE FreeListsInFile
  OBVIOUS
<1>1. IsList(disk) /\ \E fl : Free(disk, dmeta, fl)
  BY PathSound DEF PathInv, Sound
<1> QED
  BY <1>1, FreeListsExact DEF FreeListsInFile

(* The two lists of free blocks are lists of free_space records of their class,  *)
(* without repetition and apart from each other, at every write, so that a stop  *)
(* at any point leaves them so.                                                  *)
THEOREM AlwaysFreeListsInFile ==
  CarefulSpec => [](~torn => FreeListsInFile)
<1>1. PathInv => (~torn => FreeListsInFile)
  BY PathFreeLists
<1> QED
  BY <1>1, PathInductive, PTL

(* Between two calls every pointer of the file leads to a record of its type.    *)
LEMMA PathTyped ==
  ASSUME PathInv, ~torn, Quiet
  PROVE  Typed(disk, meta)
<1>1. Well(disk, meta, crashes = 0)
  BY QuietWell DEF PathInv, Quiet
<1> QED
  BY <1>1, FullPointers DEF Well

(* A node leads to its properties, a property to the next one and to its strings, *)
(* so that every call finds the file it expects and is followed.                 *)
THEOREM AlwaysPropertyPointersTyped ==
  CarefulSpec => [](PropertyPointersTyped /\ (Quiet /\ ~torn => Ready))
<1>1. PathInv => PropertyPointersTyped /\ (Quiet /\ ~torn => Ready)
  BY PathTyped DEF PropertyPointersTyped, Typed, Ready
<1> QED
  BY <1>1, PathInductive, PTL

(* A node leads to a relationship, a relationship to its two nodes, its type and *)
(* the relationships before and after it on the chains of both.                  *)
THEOREM AlwaysRelationshipPointersTyped ==
  CarefulSpec => []RelationshipPointersTyped
<1>1. PathInv => RelationshipPointersTyped
  BY PathTyped DEF RelationshipPointersTyped, Typed
<1> QED
  BY <1>1, PathInductive, PTL
--------------------------------------------------------------------------------
(* The terms of GraphModel are those of the file. *)
LEMMA ModelMin ==
  ASSUME NEW S PROVE Model!Min(S) = Min(S)
BY DEF Model!Min, Min

LEMMA ModelMatches ==
  ASSUME NEW u, NEW desc PROVE Model!Matches(u, desc) <=> Matches(u, desc)
<1>1. \A p, q : Model!SameKey(p, q) <=> SameKey(p, q)
  BY DEF Model!SameKey, SameKey
<1>2. \A p, q : Model!SameValue(p, q) <=> SameValue(p, q)
  BY DEF Model!SameValue, SameValue, Model!Near, Near
<1>3. \A p, q : Model!Compare(p, q) <=> Compare(p, q)
  BY <1>2 DEF Model!Compare, Compare
<1>4. \A p, q : Model!PropertyEqual(p, q) <=> PropertyEqual(p, q)
  BY <1>1, <1>3 DEF Model!PropertyEqual, PropertyEqual
<1>5. Model!Matched(u, desc) = Matched(u, desc)
  BY <1>4 DEF Model!Matched, Matched
<1>6. \A S : Model!Cardinality(S) = Cardinality(S)
  BY DEF Model!Cardinality, Cardinality
<1> QED
  BY <1>5, <1>6 DEF Model!Matches, Matches

LEMMA ModelTerms ==
  ASSUME NEW desc, NEW prop
  PROVE  /\ Model!Place(desc) = Spot(graph, desc)
         /\ Model!Plain(prop) = Plain(prop)
         /\ \A u, i : Model!RemoveAt(u, i) = RemoveAt(u, i)
         /\ \A u : Model!RemoveFirstMatch(u, LAMBDA q : Model!SameKey(q, prop)) = Dropped(u, prop)
<1>1. Model!Place(desc) = Spot(graph, desc)
  BY ModelMin, ModelMatches DEF Model!Place, Spot, Model!SelectInSeq, SelectInSeq
<1>2. Model!Plain(prop) = Plain(prop)
  BY DEF Model!Plain, Plain
<1>3. \A u, i : Model!RemoveAt(u, i) = RemoveAt(u, i)
  BY DEF Model!RemoveAt, RemoveAt
<1>4. \A q : Model!SameKey(q, prop) <=> SameKey(q, prop)
  BY DEF Model!SameKey, SameKey
<1>5. \A u : Model!RemoveFirstMatch(u, LAMBDA q : Model!SameKey(q, prop)) = Dropped(u, prop)
  BY <1>3, <1>4, ModelMin DEF Model!RemoveFirstMatch, Model!SelectInSeq,
     Dropped, RemoveFirstMatch, SelectInSeq
<1> QED
  BY <1>1, <1>2, <1>3, <1>5

(* A call of a careful program is one of the model, or changes nothing there. *)
LEMMA CallImplements ==
  ASSUME PathInv, ~torn, Quiet, NEW c \in Calls, Careful(c), Call(c)
  PROVE  [Model!Next]_<<graph, Graph(disk, dmeta)>>
<1>1. /\ Meant(c, graph, graph') /\ graph = Graph(disk, dmeta)
      /\ Graph(disk, dmeta)' = Graph(disk, dmeta)
  BY Described, CallPath
<1> DEFINE i == Spot(graph, c.node)
<1>2. /\ Model!Place(c.node) = i /\ Model!Plain(c.prop) = Plain(c.prop)
      /\ Model!RemoveAt(graph, i) = RemoveAt(graph, i)
      /\ \A u : Model!RemoveFirstMatch(u, LAMBDA q : Model!SameKey(q, c.prop)) = Dropped(u, c.prop)
  BY ModelTerms
<1>3. \A j : Model!Plain(c.node[j]) = Plain(c.node[j])
  BY ModelTerms
<1> HIDE DEF i
<1>4. ASSUME NEW g, graph' = g PROVE Model!Change(g)
  BY <1>1, <1>4 DEF Model!Change
<1>5. CASE graph' = graph
  BY <1>1, <1>5
<1>6. CASE /\ c.op = "add_node" /\ i = 0
           /\ graph' = Append(graph, [j \in DOMAIN c.node |-> Plain(c.node[j])])
  <2>1. Model!AddNode(c.node)
    BY <1>2, <1>3, <1>4, <1>6 DEF Model!AddNode
  <2> QED
    BY <1>6, <2>1 DEF Model!Next
<1>7. CASE c.op = "add_property" /\ i # 0 /\ graph' = [graph EXCEPT ![i] = <<Plain(c.prop)>> \o @]
  <2>1. Model!AddProperty(c.node, c.prop)
    BY <1>2, <1>4, <1>7 DEF Model!AddProperty
  <2> QED
    BY <1>7, <2>1 DEF Model!Next
<1>8. CASE c.op = "remove_node" /\ i # 0 /\ graph' = RemoveAt(graph, i)
  <2>1. Model!RemoveNode(c.node)
    BY <1>2, <1>4, <1>8 DEF Model!RemoveNode
  <2> QED
    BY <1>8, <2>1 DEF Model!Next
<1>9. CASE c.op = "remove_property" /\ i # 0 /\ graph' = [graph EXCEPT ![i] = Dropped(@, c.prop)]
  <2>1. Model!RemoveProperty(c.node, c.prop)
    BY <1>2, <1>4, <1>9 DEF Model!RemoveProperty
  <2> QED
    BY <1>9, <2>1 DEF Model!Next
<1> QED
  BY <1>1, <1>5, <1>6, <1>7, <1>8, <1>9 DEF Meant, i

(* A careful program sees the graph GraphModel describes, and so does who reads  *)
(* the file, a moment later: what a call does to the graph is done by one single *)
(* write of it, so that a stop loses the whole call or none of it.               *)
THEOREM AlwaysImplementsModel ==
  CarefulSpec => ImplementsModel
<1>1. Init => Model!Init
  BY InitPath DEF Init, Model!Init
<1>2. PathInv /\ [CarefulNext]_vars => [torn' \/ Model!Next]_<<graph, Graph(disk, dmeta)>>
  <2> SUFFICES ASSUME PathInv, [CarefulNext]_vars, ~torn
               PROVE  [Model!Next]_<<graph, Graph(disk, dmeta)>>
    BY TornStays
  <2>1. ASSUME NEW c \in Calls, Quiet, Careful(c), Call(c)
        PROVE  [Model!Next]_<<graph, Graph(disk, dmeta)>>
    BY <2>1, CallImplements
  <2>2. CASE Flush
    BY <2>2, FlushPath DEF Model!Next, Model!Save
  <2>3. CASE Crash
    BY <2>3, CrashPath DEF Model!Next, Model!Stop
  <2>4. CASE UNCHANGED vars
    BY <2>4 DEF vars
  <2> QED
    BY <2>1, <2>2, <2>3, <2>4 DEF CarefulNext
<1> QED
  BY <1>1, <1>2, PathInductive, PTL DEF CarefulSpec, ImplementsModel

--------------------------------------------------------------------------------
(* A list that names no block twice is as long as the set of its blocks. *)
LEMMA DistinctCount ==
  ASSUME NEW u, IsList(u), \A i, j \in 1 .. Len(u) : u[i] = u[j] => i = j
  PROVE  Len(u) = Cardinality(ToSet(u))
<1>1. Len(u) \in Nat /\ DOMAIN u = 1 .. Len(u)
  BY ListLength
<1>2. ToSet(u) = {u[i] : i \in 1 .. Len(u)}
  BY <1>1 DEF ToSet
<1>3. u \in [1 .. Len(u) -> ToSet(u)]
  <2>1. \A i \in 1 .. Len(u) : u[i] \in ToSet(u)
    BY <1>2
  <2>2. u = [i \in 1 .. Len(u) |-> u[i]]
    BY <1>1 DEF IsList
  <2> QED
    BY <2>1, <2>2
<1>4. u \in Injection(1 .. Len(u), ToSet(u))
  BY <1>3 DEF Injection, IsInjective
<1>5. u \in Surjection(1 .. Len(u), ToSet(u))
  BY <1>2, <1>3 DEF Surjection
<1> QED
  BY <1>1, <1>4, <1>5, FS_CountingElements DEF Bijection, ExistsBijection

(* The loop over the relationships of a node meets its own chain. *)
LEMMA OwnChainIs ==
  ASSUME NEW d, IsList(d), NEW n, NEW c, OwnChain(d, n, c)
  PROVE  /\ RelationshipChain(d, n) = c
         /\ ToSet(c) = {r \in DOMAIN d : d[r].kind = "relationship" /\ n \in {d[r].first, d[r].second}}
         /\ Len(c) = Cardinality(ToSet(c))
<1> DEFINE X == 0 .. Len(d) + 1
           fnext == Link(d, "relationship", "fnext")
           snext == Link(d, "relationship", "snext")
           L == [b \in X |-> IF IsA(d, b, "relationship") /\ d[b].first = n
                             THEN fnext[b] ELSE snext[b]]
           a == d[n].rel
<1>1. /\ IsList(c) /\ a = IF Len(c) = 0 THEN 0 ELSE c[1]
      /\ \A i \in 1 .. Len(c) : Side(d[c[i]], n) = IF i = Len(c) THEN 0 ELSE c[i + 1]
      /\ \A i, j \in 1 .. Len(c) : c[i] = c[j] => i = j
      /\ \A r : (\E i \in 1 .. Len(c) : c[i] = r) <=> IsA(d, r, "relationship") /\ n \in Ends(d[r])
  BY DEF OwnChain
<1>2. Len(c) \in Nat /\ DOMAIN c = 1 .. Len(c) /\ Len(d) \in Nat /\ DOMAIN d = 1 .. Len(d)
  BY <1>1, ListLength
<1>3. \A i \in 1 .. Len(c) : IsA(d, c[i], "relationship") /\ n \in Ends(d[c[i]])
  BY <1>1
<1>4. \A i \in 1 .. Len(c) : c[i] \in 1 .. Len(d) /\ c[i] \in X /\ c[i] \in 1 .. Len(d) + 1
  BY <1>2, <1>3 DEF IsA
<1>5. \A x \in X : Address(d, x) = x
  BY DEF Address
<1>6. Closed(fnext) /\ Closed(snext) /\ DOMAIN fnext = X /\ DOMAIN snext = X
  BY LinkClosed
<1>7. \A i \in 1 .. Len(c) : L[c[i]] = Address(d, Side(d[c[i]], n))
  <2> TAKE i \in 1 .. Len(c)
  <2>1. fnext[c[i]] = Address(d, d[c[i]].fnext) /\ snext[c[i]] = Address(d, d[c[i]].snext)
    BY <1>3, <1>4 DEF Link
  <2> HIDE DEF fnext, snext
  <2> QED
    BY <1>3, <1>4, <2>1 DEF Side
<1>8. Closed(L) /\ DOMAIN L = X
  <2> HIDE DEF fnext, snext, X
  <2> QED
    BY <1>6 DEF Closed
<1>9. RelationshipChain(d, n) = Chain(L, Address(d, a))
  BY DEF RelationshipChain
<1> HIDE DEF L, X
<1>10. \A i \in 1 .. Len(c) : L[c[i]] = IF i = Len(c) THEN 0 ELSE c[i + 1]
  <2> TAKE i \in 1 .. Len(c)
  <2>1. i # Len(c) => i + 1 \in 1 .. Len(c)
    <3> DEFINE z == Len(c)
    <3>1. z \in Nat /\ i \in 1 .. z
      BY <1>2
    <3> HIDE DEF z
    <3>2. i # z => i + 1 \in 1 .. z
      BY ONLY <3>1
    <3> QED
      BY <3>2 DEF z
  <2>2. 0 \in X
    BY <1>2 DEF X
  <2> QED
    BY <1>1, <1>4, <1>5, <1>7, <2>1, <2>2
<1>11. Trail(d, L, a, c)
  BY <1>1, <1>4, <1>10 DEF Trail
<1>12. Leads(L, a, c) /\ Address(d, a) = a
  BY <1>8, <1>11, TrailLeads DEF X
<1>13. RelationshipChain(d, n) = c
  BY <1>8, <1>9, <1>12, ChainIs
<1>14. ToSet(c) = {r \in DOMAIN d : d[r].kind = "relationship" /\ n \in {d[r].first, d[r].second}}
  <2>1. \A r : r \in ToSet(c) <=> IsA(d, r, "relationship") /\ n \in Ends(d[r])
    <3>1. ToSet(c) = {c[i] : i \in 1 .. Len(c)}
      BY <1>2 DEF ToSet
    <3> QED
      BY <1>1, <3>1
  <2> QED
    BY <2>1 DEF IsA, Ends
<1> QED
  BY <1>1, <1>13, <1>14, DistinctCount

(* ... on the chains of relationships, ... *)
LEMMA PathChains ==
  ASSUME PathInv PROVE RelationshipChainsExact
<1> SUFFICES ASSUME Quiet, crashes = 0, NEW n \in Nodes(disk, meta)
             PROVE  LET c == RelationshipChain(disk, n)
                    IN  /\ ToSet(c) = {r \in DOMAIN disk : /\ disk[r].kind = "relationship"
                                                           /\ n \in {disk[r].first, disk[r].second}}
                        /\ Len(c) = Cardinality(ToSet(c))
  BY DEF RelationshipChainsExact
<1>1. PICK ns, ps, fl : Full(disk, meta, ns, ps, 0, fl) /\ Clean(disk, ps, fl)
  BY QuietWell DEF PathInv, Quiet, Well
<1>2. IsList(disk) /\ Doubly(disk, meta, ns) /\ \A x : x \in DOMAIN ps <=> x = 0 \/ x \in ToSet(ns)
  BY <1>1 DEF Full
<1>3. n \in ToSet(ns) /\ n # 0
  <3>1. NodeChain(disk, meta.first) = ns /\ \A x \in ToSet(ns) : x \in 1 .. Len(disk)
    BY <1>2, NodeChains
  <3>2. n \in ToSet(ns)
    BY <3>1 DEF Nodes
  <3> QED
    BY <3>1, <3>2
<1>4. PICK c : OwnChain(disk, n, c)
  BY <1>1, <1>2, <1>3 DEF Clean, Chained
<1> QED
  BY <1>2, <1>4, OwnChainIs

(* Between two calls, as long as the process has not stopped, the chain of a     *)
(* node is its relationships, all of them and each once, and it ends: although   *)
(* every record is on two chains, which a call extends one after the other.      *)
THEOREM AlwaysRelationshipChainsExact ==
  CarefulSpec => []RelationshipChainsExact
<1>1. PathInv => RelationshipChainsExact
  BY PathChains
<1> QED
  BY <1>1, PathInductive, PTL
--------------------------------------------------------------------------------
(* What a reader finds of a file in order. *)
LEMMA FullParts ==
  ASSUME NEW d, NEW m, NEW ns, NEW ps, NEW fl, Full(d, m, ns, ps, 0, fl)
  PROVE  /\ IsList(d) /\ NodeChain(d, m.first) = ns /\ Nodes(d, m) = ToSet(ns)
         /\ \A x : x \in DOMAIN ps <=> x = 0 \/ x \in ToSet(ns)
         /\ 0 \notin ToSet(ns) /\ ToSet(ps[0]) = {}
         /\ \A n \in ToSet(ns) : PropertyChain(d, n) = ps[n]
         /\ Properties(d, m) = Props(ps)
         /\ \A c \in Class : FreeChain(d, m.free[c]) = fl[c]
<1>1. /\ IsList(d) /\ Free(d, m, fl) /\ Owners(d, ps, 0) /\ Doubly(d, m, ns)
      /\ \A x : x \in DOMAIN ps <=> x = 0 \/ x \in ToSet(ns)
  BY DEF Full
<1>2. NodeChain(d, m.first) = ns /\ \A n \in ToSet(ns) : IsA(d, n, "node") /\ n \in 1 .. Len(d)
  BY <1>1, NodeChains
<1>3. Nodes(d, m) = ToSet(ns) /\ 0 \notin ToSet(ns)
  BY <1>2 DEF Nodes
<1>4. ToSet(ps[0]) = {}
  <2>1. Way(d, "property", 0, ps[0])
    <3>1. 0 \in DOMAIN ps /\ \A o \in DOMAIN ps : Way(d, "property", Head0(d, 0, o), ps[o])
      BY <1>1 DEF Owners
    <3>2. Head0(d, 0, 0) = 0
      BY DEF Head0
    <3> QED
      BY <3>1, <3>2
  <2> QED
    BY <1>1, <2>1, NoRecord
<1>5. \A n \in ToSet(ns) : PropertyChain(d, n) = ps[n]
  BY <1>1, <1>3, OwnerChains
<1>6. Properties(d, m) = Props(ps)
  <2>1. ASSUME NEW p, p \in Properties(d, m) PROVE p \in Props(ps)
    <3>1. PICK n \in ToSet(ns) : p \in ToSet(PropertyChain(d, n))
      BY <1>3, <2>1 DEF Properties
    <3> QED
      BY <1>1, <1>5, <3>1 DEF Props
  <2>2. ASSUME NEW p, p \in Props(ps) PROVE p \in Properties(d, m)
    <3>1. PICK o \in DOMAIN ps : p \in ToSet(ps[o])
      BY <2>2 DEF Props
    <3>2. o \in ToSet(ns)
      BY <1>1, <1>4, <3>1
    <3>3. IsA(d, p, "property")
      BY <1>1, <2>2, PropsAre
    <3> QED
      BY <1>3, <1>5, <3>1, <3>2, <3>3 DEF Properties
  <2> QED
    BY <2>1, <2>2
<1>7. \A c \in Class : FreeChain(d, m.free[c]) = fl[c]
  BY <1>1, FreeChains DEF Class
<1> QED
  BY <1>1, <1>2, <1>3, <1>4, <1>5, <1>6, <1>7

(* What a part of a file in order accounts for: a node, a property, a chunk, a   *)
(* relationship, or a free block.                                                *)
NodeClaim(ns, x) == \E i \in DOMAIN ns : x = <<"node", 0, i, ns[i]>>

PropertyClaim(ns, ps, x) ==
  \E n \in ToSet(ns) : \E i \in DOMAIN ps[n] : x = <<"property", n, i, ps[n][i]>>

ChunkClaim(d, ps, x) ==
  \/ \E p \in Props(ps) : x = <<"key", p, 0, d[p].key>>
  \/ \E p \in Props(ps) : d[p].type = "STRING" /\ x = <<"value", p, 0, d[p].val>>
  \/ \E r : IsA(d, r, "relationship") /\ x = <<"type", r, 0, d[r].type>>

RelationClaim(d, x) == \E r : IsA(d, r, "relationship") /\ x = <<"relationship", 0, 0, r>>

FreeClaim(fl, x) == \E c \in Class : \E i \in DOMAIN fl[c] : x = <<c, 0, i, fl[c][i]>>

LEMMA ClaimsAre ==
  ASSUME NEW d, NEW m, NEW ns, NEW ps, NEW fl, Full(d, m, ns, ps, 0, fl), NEW x \in Claims(d, m)
  PROVE  \/ NodeClaim(ns, x) \/ PropertyClaim(ns, ps, x) \/ ChunkClaim(d, ps, x)
         \/ RelationClaim(d, x) \/ FreeClaim(fl, x)
<1> DEFINE claims(part, of, blocks) == {<<part, of, i, blocks[i]>> : i \in DOMAIN blocks}
<1>1. /\ NodeChain(d, m.first) = ns /\ Nodes(d, m) = ToSet(ns)
      /\ \A n \in ToSet(ns) : PropertyChain(d, n) = ps[n]
      /\ Properties(d, m) = Props(ps)
      /\ \A c \in Class : FreeChain(d, m.free[c]) = fl[c]
  BY FullParts
<1>2. \A r \in Relationships(d, m) : IsA(d, r, "relationship")
  BY DEF Relationships
<1>3. \/ x \in claims("node", 0, ns)
      \/ \E n \in ToSet(ns) : x \in claims("property", n, PropertyChain(d, n))
      \/ \E p \in Props(ps) : x = <<"key", p, 0, d[p].key>>
      \/ \E p \in Props(ps) : d[p].type = "STRING" /\ x = <<"value", p, 0, d[p].val>>
      \/ \E r \in Relationships(d, m) : x = <<"relationship", 0, 0, r>>
      \/ \E r \in Relationships(d, m) : x = <<"type", r, 0, d[r].type>>
      \/ \E c \in Class : x \in claims(c, 0, FreeChain(d, m.free[c]))
  <2> DEFINE A1 == claims("node", 0, NodeChain(d, m.first))
             A2 == UNION {claims("property", n, PropertyChain(d, n)) : n \in Nodes(d, m)}
             A3 == {<<"key", p, 0, d[p].key>> : p \in Properties(d, m)}
             A4 == {<<"value", p, 0, d[p].val>> : p \in {q \in Properties(d, m) : d[q].type = "STRING"}}
             A5 == {<<"relationship", 0, 0, r>> : r \in Relationships(d, m)}
             A6 == {<<"type", r, 0, d[r].type>> : r \in Relationships(d, m)}
             A7 == UNION {claims(c, 0, FreeChain(d, m.free[c])) : c \in {"static", "dynamic"}}
  <2>1. x \in A1 \cup A2 \cup A3 \cup A4 \cup A5 \cup A6 \cup A7
    BY DEF Claims
  <2>2. x \in A2 => \E n \in ToSet(ns) : x \in claims("property", n, PropertyChain(d, n))
    BY <1>1
  <2>3. x \in A3 => \E p \in Props(ps) : x = <<"key", p, 0, d[p].key>>
    BY <1>1
  <2>4. x \in A4 => \E p \in Props(ps) : d[p].type = "STRING" /\ x = <<"value", p, 0, d[p].val>>
    BY <1>1
  <2>5. x \in A7 => \E c \in Class : x \in claims(c, 0, FreeChain(d, m.free[c]))
    BY DEF Class
  <2>6. x \in A1 => x \in claims("node", 0, ns)
    BY <1>1
  <2>7. /\ x \in A5 => \E r \in Relationships(d, m) : x = <<"relationship", 0, 0, r>>
        /\ x \in A6 => \E r \in Relationships(d, m) : x = <<"type", r, 0, d[r].type>>
    OBVIOUS
  <2> HIDE DEF A1, A2, A3, A4, A5, A6, A7, claims
  <2> QED
    BY <2>1, <2>2, <2>3, <2>4, <2>5, <2>6, <2>7
<1>4. CASE x \in claims("node", 0, ns)
  BY <1>4 DEF NodeClaim
<1>5. CASE \E n \in ToSet(ns) : x \in claims("property", n, PropertyChain(d, n))
  BY <1>1, <1>5 DEF PropertyClaim
<1>6. CASE \E c \in Class : x \in claims(c, 0, FreeChain(d, m.free[c]))
  BY <1>1, <1>6 DEF FreeClaim
<1> HIDE DEF claims
<1> QED
  BY <1>2, <1>3, <1>4, <1>5, <1>6 DEF ChunkClaim, RelationClaim

(* The records there are of that kind. *)
LEMMA ClaimKinds ==
  ASSUME NEW d, NEW m, NEW ns, NEW ps, NEW fl, Full(d, m, ns, ps, 0, fl), NEW x
  PROVE  /\ NodeClaim(ns, x) => IsA(d, x[4], "node")
         /\ PropertyClaim(ns, ps, x) => IsA(d, x[4], "property")
         /\ ChunkClaim(d, ps, x) => IsA(d, x[4], "chunk")
         /\ RelationClaim(d, x) => IsA(d, x[4], "relationship")
         /\ FreeClaim(fl, x) => IsA(d, x[4], "free")
<1>1. /\ IsList(d) /\ Free(d, m, fl) /\ Owners(d, ps, 0) /\ Doubly(d, m, ns) /\ Related(d, ps)
      /\ \A n : n \in DOMAIN ps <=> n = 0 \/ n \in ToSet(ns)
  BY DEF Full
<1>2. \A s : \A i \in DOMAIN s : s[i] \in ToSet(s)
  BY DEF ToSet
<1>3. ASSUME NodeClaim(ns, x) PROVE IsA(d, x[4], "node")
  <2>1. PICK i \in DOMAIN ns : x = <<"node", 0, i, ns[i]>>
    BY <1>3 DEF NodeClaim
  <2>2. x[4] = ns[i]
    BY <2>1
  <2> QED
    BY <1>1, <1>2, <2>2, NodeChains
<1>4. ASSUME PropertyClaim(ns, ps, x) PROVE IsA(d, x[4], "property")
  <2>1. PICK n \in ToSet(ns) : \E i \in DOMAIN ps[n] : x = <<"property", n, i, ps[n][i]>>
    BY <1>4 DEF PropertyClaim
  <2>2. PICK i \in DOMAIN ps[n] : x = <<"property", n, i, ps[n][i]>>
    BY <2>1
  <2>3. x[4] = ps[n][i]
    BY <2>2
  <2>4. x[4] \in ToSet(ps[n])
    BY <1>2, <2>2, <2>3
  <2>5. x[4] \in Props(ps)
    BY <1>1, <2>4 DEF Props
  <2> QED
    BY <1>1, <2>5, PropsAre
<1>5. ASSUME ChunkClaim(d, ps, x) PROVE IsA(d, x[4], "chunk")
  <2>1. CASE \E p \in Props(ps) : x = <<"key", p, 0, d[p].key>>
    <3>1. PICK p \in Props(ps) : x = <<"key", p, 0, d[p].key>>
      BY <2>1
    <3>2. x[4] = d[p].key /\ d[p].key \in Chunks(d[p])
      BY <3>1 DEF Chunks
    <3> QED
      BY <1>1, <3>2, PropsAre
  <2>2. CASE \E p \in Props(ps) : d[p].type = "STRING" /\ x = <<"value", p, 0, d[p].val>>
    <3>1. PICK p \in Props(ps) : d[p].type = "STRING" /\ x = <<"value", p, 0, d[p].val>>
      BY <2>2
    <3>2. x[4] = d[p].val /\ d[p].val \in Chunks(d[p])
      BY <3>1 DEF Chunks
    <3> QED
      BY <1>1, <3>2, PropsAre
  <2>3. CASE \E r : IsA(d, r, "relationship") /\ x = <<"type", r, 0, d[r].type>>
    <3>1. PICK r : IsA(d, r, "relationship") /\ x = <<"type", r, 0, d[r].type>>
      BY <2>3
    <3>2. x[4] = d[r].type
      BY <3>1
    <3> QED
      BY <1>1, <3>1, <3>2 DEF Related, RelationAt
  <2> QED
    BY <1>5, <2>1, <2>2, <2>3 DEF ChunkClaim
<1>6. ASSUME RelationClaim(d, x) PROVE IsA(d, x[4], "relationship")
  BY <1>6 DEF RelationClaim
<1>7. ASSUME FreeClaim(fl, x) PROVE IsA(d, x[4], "free")
  <2>1. PICK c \in Class : \E i \in DOMAIN fl[c] : x = <<c, 0, i, fl[c][i]>>
    BY <1>7 DEF FreeClaim
  <2>2. PICK i \in DOMAIN fl[c] : x = <<c, 0, i, fl[c][i]>>
    BY <2>1
  <2>3. x[4] = fl[c][i] /\ fl[c][i] \in ToSet(fl[c])
    BY <1>2, <2>2
  <2>4. Way(d, "free", m.free[c], fl[c])
    BY <1>1 DEF Free, Class
  <2> QED
    BY <2>3, <2>4, WayElements
<1> QED
  BY <1>3, <1>4, <1>5, <1>6, <1>7

(* Two parts that account for one block are the same. *)
LEMMA ClaimsApart ==
  ASSUME NEW d, NEW m, NEW ns, NEW ps, NEW fl, Full(d, m, ns, ps, 0, fl),
         NEW x \in Claims(d, m), NEW y \in Claims(d, m), x[4] = y[4]
  PROVE  x = y
<1>1. /\ IsList(d) /\ Free(d, m, fl) /\ Owners(d, ps, 0) /\ Doubly(d, m, ns) /\ Related(d, ps)
      /\ \A n : n \in DOMAIN ps <=> n = 0 \/ n \in ToSet(ns)
  BY DEF Full
<1>2. \A k, l : IsA(d, x[4], k) /\ IsA(d, y[4], l) => k = l
  BY DEF IsA
<1>3. \A kind, a, s : Way(d, kind, a, s) => \A i, j \in DOMAIN s : s[i] = s[j] => i = j
  BY ListLength DEF Way
<1>4. CASE NodeClaim(ns, x) /\ NodeClaim(ns, y)
  <2>1. PICK i \in DOMAIN ns : x = <<"node", 0, i, ns[i]>>
    BY <1>4 DEF NodeClaim
  <2>2. PICK j \in DOMAIN ns : y = <<"node", 0, j, ns[j]>>
    BY <1>4 DEF NodeClaim
  <2>3. ns[i] = ns[j]
    BY <2>1, <2>2
  <2>4. i = j
    BY <1>1, <1>3, <2>3 DEF Doubly
  <2> QED
    BY <2>1, <2>2, <2>4
<1>5. CASE PropertyClaim(ns, ps, x) /\ PropertyClaim(ns, ps, y)
  <2>1. PICK n \in ToSet(ns) : \E i \in DOMAIN ps[n] : x = <<"property", n, i, ps[n][i]>>
    BY <1>5 DEF PropertyClaim
  <2>2. PICK i \in DOMAIN ps[n] : x = <<"property", n, i, ps[n][i]>>
    BY <2>1
  <2>3. PICK o \in ToSet(ns) : \E j \in DOMAIN ps[o] : y = <<"property", o, j, ps[o][j]>>
    BY <1>5 DEF PropertyClaim
  <2>4. PICK j \in DOMAIN ps[o] : y = <<"property", o, j, ps[o][j]>>
    BY <2>3
  <2>5. ps[n][i] = ps[o][j]
    BY <2>2, <2>4
  <2>6. n = o
    <3>1. ps[n][i] \in ToSet(ps[n]) /\ ps[n][i] \in ToSet(ps[o])
      BY <2>2, <2>4, <2>5 DEF ToSet
    <3> QED
      BY <1>1, <3>1 DEF Owners
  <2>7. i = j
    <3>1. Way(d, "property", Head0(d, 0, n), ps[n])
      BY <1>1 DEF Owners
    <3> QED
      BY <1>3, <2>2, <2>4, <2>5, <2>6, <3>1
  <2> QED
    BY <2>2, <2>4, <2>6, <2>7
<1>6. CASE ChunkClaim(d, ps, x) /\ ChunkClaim(d, ps, y)
  <2>1. /\ \A p, q \in Props(ps) : \A c : c \in Chunks(d[p]) /\ c \in Chunks(d[q]) => p = q
        /\ \A p \in Props(ps) : d[p].type = "STRING" => d[p].key # d[p].val
        /\ \A p \in Props(ps) : d[p].key \in Chunks(d[p])
        /\ \A p \in Props(ps) : d[p].type = "STRING" => d[p].val \in Chunks(d[p])
    BY <1>1 DEF Owners, Chunks
  <2>2. /\ \A r : IsA(d, r, "relationship") => \A p \in Props(ps) : d[r].type \notin Chunks(d[p])
        /\ \A q, r : IsA(d, q, "relationship") /\ IsA(d, r, "relationship") /\ d[q].type = d[r].type => q = r
    BY <1>1 DEF Related, RelationAt
  <2> DEFINE K(z) == \E p \in Props(ps) : z = <<"key", p, 0, d[p].key>>
             V(z) == \E p \in Props(ps) : d[p].type = "STRING" /\ z = <<"value", p, 0, d[p].val>>
             T(z) == \E r : IsA(d, r, "relationship") /\ z = <<"type", r, 0, d[r].type>>
  <2>3. (K(x) \/ V(x) \/ T(x)) /\ (K(y) \/ V(y) \/ T(y))
    BY <1>6 DEF ChunkClaim
  <2>4. ASSUME NEW z, NEW w, K(z), K(w), z[4] = w[4] PROVE z = w
    <3>1. PICK p \in Props(ps) : z = <<"key", p, 0, d[p].key>>
      BY <2>4
    <3>2. PICK q \in Props(ps) : w = <<"key", q, 0, d[q].key>>
      BY <2>4
    <3>3. z[4] = d[p].key /\ w[4] = d[q].key
      BY <3>1, <3>2
    <3> QED
      BY <2>1, <2>4, <3>1, <3>2, <3>3
  <2>5. ASSUME NEW z, NEW w, V(z), V(w), z[4] = w[4] PROVE z = w
    <3>1. PICK p \in Props(ps) : d[p].type = "STRING" /\ z = <<"value", p, 0, d[p].val>>
      BY <2>5
    <3>2. PICK q \in Props(ps) : d[q].type = "STRING" /\ w = <<"value", q, 0, d[q].val>>
      BY <2>5
    <3>3. z[4] = d[p].val /\ w[4] = d[q].val
      BY <3>1, <3>2
    <3> QED
      BY <2>1, <2>5, <3>1, <3>2, <3>3
  <2>6. ASSUME NEW z, NEW w, T(z), T(w), z[4] = w[4] PROVE z = w
    <3>1. PICK p : IsA(d, p, "relationship") /\ z = <<"type", p, 0, d[p].type>>
      BY <2>6
    <3>2. PICK q : IsA(d, q, "relationship") /\ w = <<"type", q, 0, d[q].type>>
      BY <2>6
    <3>3. z[4] = d[p].type /\ w[4] = d[q].type
      BY <3>1, <3>2
    <3> QED
      BY <2>2, <2>6, <3>1, <3>2, <3>3
  <2>7. ASSUME NEW z, NEW w, K(z), V(w), z[4] = w[4] PROVE FALSE
    <3>1. PICK p \in Props(ps) : z = <<"key", p, 0, d[p].key>>
      BY <2>7
    <3>2. PICK q \in Props(ps) : d[q].type = "STRING" /\ w = <<"value", q, 0, d[q].val>>
      BY <2>7
    <3>3. z[4] = d[p].key /\ w[4] = d[q].val
      BY <3>1, <3>2
    <3> QED
      BY <2>1, <2>7, <3>1, <3>2, <3>3
  <2>8. ASSUME NEW z, NEW w, K(z) \/ V(z), T(w), z[4] = w[4] PROVE FALSE
    <3>1. PICK q : IsA(d, q, "relationship") /\ w = <<"type", q, 0, d[q].type>>
      BY <2>8
    <3>2. PICK p \in Props(ps) : z[4] \in Chunks(d[p])
      <4>1. CASE K(z)
        <5>1. PICK p \in Props(ps) : z = <<"key", p, 0, d[p].key>>
          BY <4>1
        <5> QED
          BY <2>1, <5>1
      <4>2. CASE V(z)
        <5>1. PICK p \in Props(ps) : d[p].type = "STRING" /\ z = <<"value", p, 0, d[p].val>>
          BY <4>2
        <5> QED
          BY <2>1, <5>1
      <4> QED
        BY <2>8, <4>1, <4>2
    <3>3. w[4] = d[q].type
      BY <3>1
    <3> QED
      BY <2>2, <2>8, <3>1, <3>2, <3>3
  <2> HIDE DEF K, V, T
  <2> QED
    BY <2>3, <2>4, <2>5, <2>6, <2>7, <2>8
<1>7. CASE RelationClaim(d, x) /\ RelationClaim(d, y)
  BY <1>7 DEF RelationClaim
<1>8. CASE FreeClaim(fl, x) /\ FreeClaim(fl, y)
  <2>1. PICK c \in Class : \E i \in DOMAIN fl[c] : x = <<c, 0, i, fl[c][i]>>
    BY <1>8 DEF FreeClaim
  <2>2. PICK i \in DOMAIN fl[c] : x = <<c, 0, i, fl[c][i]>>
    BY <2>1
  <2>3. PICK b \in Class : \E j \in DOMAIN fl[b] : y = <<b, 0, j, fl[b][j]>>
    BY <1>8 DEF FreeClaim
  <2>4. PICK j \in DOMAIN fl[b] : y = <<b, 0, j, fl[b][j]>>
    BY <2>3
  <2>5. fl[c][i] = fl[b][j]
    BY <2>2, <2>4
  <2>6. /\ Way(d, "free", m.free[c], fl[c]) /\ \A a \in ToSet(fl[c]) : d[a].class = c
        /\ \A a \in ToSet(fl[b]) : d[a].class = b
    BY <1>1 DEF Free, Class
  <2>7. fl[c][i] \in ToSet(fl[c]) /\ fl[b][j] \in ToSet(fl[b])
    BY <2>2, <2>4 DEF ToSet
  <2>8. c = b
    BY <2>5, <2>6, <2>7
  <2>9. i = j
    BY <1>3, <2>2, <2>4, <2>5, <2>6, <2>8
  <2> QED
    BY <2>2, <2>4, <2>8, <2>9
<1> QED
  BY <1>2, <1>4, <1>5, <1>6, <1>7, <1>8, ClaimsAre, ClaimKinds

(* What a file in order accounts for is accounted for. *)
LEMMA ClaimsHave ==
  ASSUME NEW d, NEW m, NEW ns, NEW ps, NEW fl, Full(d, m, ns, ps, 0, fl), NEW b
  PROVE  /\ b \in ToSet(ns) => \E x \in Claims(d, m) : x[4] = b
         /\ b \in Props(ps) => \E x \in Claims(d, m) : x[4] = b
         /\ \A p \in Props(ps) : b \in Chunks(d[p]) => \E x \in Claims(d, m) : x[4] = b
         /\ \A r \in Relationships(d, m) : b \in {r, d[r].type} => \E x \in Claims(d, m) : x[4] = b
         /\ \A c \in Class : b \in ToSet(fl[c]) => \E x \in Claims(d, m) : x[4] = b
<1> DEFINE claims(part, of, blocks) == {<<part, of, i, blocks[i]>> : i \in DOMAIN blocks}
           A1 == claims("node", 0, NodeChain(d, m.first))
           A2 == UNION {claims("property", n, PropertyChain(d, n)) : n \in Nodes(d, m)}
           A3 == {<<"key", p, 0, d[p].key>> : p \in Properties(d, m)}
           A4 == {<<"value", p, 0, d[p].val>> : p \in {q \in Properties(d, m) : d[q].type = "STRING"}}
           A5 == {<<"relationship", 0, 0, r>> : r \in Relationships(d, m)}
           A6 == {<<"type", r, 0, d[r].type>> : r \in Relationships(d, m)}
           A7 == UNION {claims(c, 0, FreeChain(d, m.free[c])) : c \in {"static", "dynamic"}}
<1>1. /\ NodeChain(d, m.first) = ns /\ Nodes(d, m) = ToSet(ns)
      /\ \A x : x \in DOMAIN ps <=> x = 0 \/ x \in ToSet(ns)
      /\ ToSet(ps[0]) = {}
      /\ \A n \in ToSet(ns) : PropertyChain(d, n) = ps[n]
      /\ Properties(d, m) = Props(ps)
      /\ \A c \in Class : FreeChain(d, m.free[c]) = fl[c]
  BY FullParts
<1>2. Claims(d, m) = A1 \cup A2 \cup A3 \cup A4 \cup A5 \cup A6 \cup A7
  BY DEF Claims
<1>3. ASSUME NEW s, b \in ToSet(s), NEW part, NEW of PROVE \E x \in claims(part, of, s) : x[4] = b
  <2>1. PICK i \in DOMAIN s : b = s[i]
    BY <1>3 DEF ToSet
  <2>2. <<part, of, i, s[i]>> \in claims(part, of, s) /\ <<part, of, i, s[i]>>[4] = s[i]
    OBVIOUS
  <2> HIDE DEF claims
  <2> QED
    BY <2>1, <2>2
<1>4. ASSUME b \in ToSet(ns) PROVE \E x \in A1 : x[4] = b
  <2> HIDE DEF claims
  <2> QED
    BY <1>1, <1>3, <1>4
<1>5. ASSUME b \in Props(ps) PROVE \E x \in A2 : x[4] = b
  <2>1. PICK n \in DOMAIN ps : b \in ToSet(ps[n])
    BY <1>5 DEF Props
  <2>2. n \in ToSet(ns)
    BY <1>1, <2>1
  <2> HIDE DEF claims
  <2>3. \E x \in claims("property", n, PropertyChain(d, n)) : x[4] = b
    BY <1>1, <1>3, <2>1, <2>2
  <2> QED
    BY <1>1, <2>2, <2>3
<1>6. ASSUME NEW c \in Class, b \in ToSet(fl[c]) PROVE \E x \in A7 : x[4] = b
  <2> HIDE DEF claims
  <2>1. \E x \in claims(c, 0, FreeChain(d, m.free[c])) : x[4] = b
    BY <1>1, <1>3, <1>6
  <2> QED
    BY <2>1 DEF Class
<1> HIDE DEF A1, A2, A7
<1>7. ASSUME NEW p \in Props(ps), b \in Chunks(d[p]) PROVE \E x \in A3 \cup A4 : x[4] = b
  <2>1. <<"key", p, 0, d[p].key>> \in A3 /\ <<"key", p, 0, d[p].key>>[4] = d[p].key
    BY <1>1
  <2>2. d[p].type = "STRING"
          => <<"value", p, 0, d[p].val>> \in A4 /\ <<"value", p, 0, d[p].val>>[4] = d[p].val
    BY <1>1
  <2>3. b = d[p].key \/ (d[p].type = "STRING" /\ b = d[p].val)
    BY <1>7 DEF Chunks
  <2> HIDE DEF A3, A4
  <2> QED
    BY <2>1, <2>2, <2>3
<1>8. ASSUME NEW r \in Relationships(d, m), b \in {r, d[r].type} PROVE \E x \in A5 \cup A6 : x[4] = b
  <2>1. <<"relationship", 0, 0, r>> \in A5 /\ <<"relationship", 0, 0, r>>[4] = r
    OBVIOUS
  <2>2. <<"type", r, 0, d[r].type>> \in A6 /\ <<"type", r, 0, d[r].type>>[4] = d[r].type
    OBVIOUS
  <2> HIDE DEF A5, A6
  <2> QED
    BY <1>8, <2>1, <2>2
<1> HIDE DEF A3, A4, A5, A6
<1> QED
  BY <1>2, <1>4, <1>5, <1>6, <1>7, <1>8

(* When no chain is broken, every relationship is found from its nodes. *)
LEMMA RelationsAre ==
  ASSUME NEW d, NEW m, NEW ns, NEW ps, NEW fl, Full(d, m, ns, ps, 0, fl), Chained(d, ps)
  PROVE  \A r : r \in Relationships(d, m) <=> IsA(d, r, "relationship")
<1>1. /\ IsList(d) /\ Related(d, ps) /\ Nodes(d, m) = ToSet(ns)
      /\ \A x : x \in DOMAIN ps <=> x = 0 \/ x \in ToSet(ns)
  BY FullParts DEF Full
<1>2. ASSUME NEW r, IsA(d, r, "relationship") PROVE r \in Relationships(d, m)
  <2>1. PICK n : n \in Ends(d[r]) /\ n \in DOMAIN ps /\ n # 0
    BY <1>1, <1>2 DEF Related, RelationAt, Ends
  <2>2. PICK c : OwnChain(d, n, c)
    BY <2>1 DEF Chained
  <2>3. RelationshipChain(d, n) = c /\ r \in ToSet(c)
    BY <1>1, <1>2, <2>1, <2>2, OwnChainIs DEF IsA, Ends
  <2> QED
    BY <1>1, <1>2, <2>1, <2>3 DEF Relationships
<1> QED
  BY <1>2 DEF Relationships

(* Without a stop, that is every block but those filled with junk. *)
LEMMA ClaimsCover ==
  ASSUME NEW d, NEW m, NEW ns, NEW ps, NEW fl, Full(d, m, ns, ps, 0, fl), Clean(d, ps, fl)
  PROVE  {x[4] : x \in Claims(d, m)} = {b \in DOMAIN d : d[b] # Junk}
<1>1. /\ IsList(d) /\ Related(d, ps) /\ NodeChain(d, m.first) = ns /\ Nodes(d, m) = ToSet(ns)
      /\ \A x : x \in DOMAIN ps <=> x = 0 \/ x \in ToSet(ns)
  BY FullParts DEF Full
<1>2. DOMAIN d = 1 .. Len(d) /\ Len(d) \in Nat
  BY <1>1, ListLength
<1>3. ASSUME NEW x \in Claims(d, m) PROVE x[4] \in DOMAIN d /\ d[x[4]] # Junk
  <2>1. PICK kind \in {"node", "property", "chunk", "relationship", "free"} : IsA(d, x[4], kind)
    BY ClaimsAre, ClaimKinds
  <2>2. Junk.kind = "junk"
    BY DEF Junk
  <2> QED
    BY <2>1, <2>2 DEF IsA
<1>4. ASSUME NEW b \in DOMAIN d, d[b] # Junk PROVE \E x \in Claims(d, m) : x[4] = b
  <2>1. ~Loose(d, ps, fl, b) /\ b \in 1 .. Len(d) + 1 /\ b # 0
    BY <1>2, <1>4 DEF Clean
  <2>2. \/ b \in ToSet(ns) \/ b \in Props(ps) \/ b \in ToSet(fl["static"]) \/ b \in ToSet(fl["dynamic"])
        \/ \E p \in Props(ps) : b \in Chunks(d[p])
        \/ \E r : IsA(d, r, "relationship") /\ b \in {r, d[r].type}
    BY <1>1, <2>1 DEF Loose
  <2>3. \A r : r \in Relationships(d, m) <=> IsA(d, r, "relationship")
    BY RelationsAre DEF Clean
  <2> QED
    BY <2>2, <2>3, ClaimsHave DEF Class
<1> QED
  BY <1>3, <1>4

(* ... and on who owns a block. *)
LEMMA PathOwned ==
  ASSUME PathInv PROVE BlocksOwnedOnce
<1> SUFFICES ASSUME Quiet, ~torn
             PROVE  /\ \A x, y \in Claims(disk, meta) : x[4] = y[4] => x = y
                    /\ crashes = 0 => {x[4] : x \in Claims(disk, meta)} = {b \in DOMAIN disk : disk[b] # Junk}
  BY DEF BlocksOwnedOnce
<1>1. PICK ns, ps, fl : Full(disk, meta, ns, ps, 0, fl) /\ (crashes = 0 => Clean(disk, ps, fl))
  BY QuietWell DEF PathInv, Quiet, Well
<1> QED
  BY <1>1, ClaimsApart, ClaimsCover

(* Between two calls every block belongs to one node, property or relationship,  *)
(* or to one list of free blocks, and to no other: nothing a call releases is    *)
(* still in use, nothing it takes is in use already; and as long as the process  *)
(* has not stopped nothing leaks but the blocks add_relationship fills with junk.*)
THEOREM AlwaysBlocksOwnedOnce ==
  CarefulSpec => []BlocksOwnedOnce
<1>1. PathInv => BlocksOwnedOnce
  BY PathOwned
<1> QED
  BY <1>1, PathInductive, PTL
--------------------------------------------------------------------------------
(* The queries of the server: whatever they are, the calls they make are calls   *)
(* of graph.h, ...                                                               *)
Requests == UNION {ToSet(CallsOf[q]) : q \in Queries}

LEMMA RequestIs ==
  ASSUME NEW c \in Requests
  PROVE  /\ c.op \in {"add_node", "remove_node", "add_relationship", "remove_relationship",
                      "dump", "exit"}
         /\ c.op = "add_node" => IsList(c.node)
BY CallsOfAssumption DEF Requests, IsList

LEMMA RequestLists ==
  ASSUME NEW q \in Queries PROVE CallsOf[q] \in Seq(Requests)
<1>1. CallsOf[q] \in Seq(ToSet(CallsOf[q])) /\ ToSet(CallsOf[q]) \subseteq Requests
  BY CallsOfAssumption DEF Requests
<1> QED
  BY <1>1, SeqMonotonic

(* ... made one after the other. *)
LEMMA HeadRequested ==
  ASSUME todo \in Seq(Requests), todo # <<>> PROVE Head(todo) \in Requests /\ Tail(todo) \in Seq(Requests)
OBVIOUS

(* A dump is under way only for the call that asked for it. *)
Waiting == todo \in Seq(Requests) /\ (pc = "dump" => todo # <<>>)

LEMMA EvalRequests ==
  ASSUME Waiting, [EvalNext]_<<vars, eval>> PROVE Waiting'
<1>1. <<>> \in Seq(Requests)
  OBVIOUS
<1>2. CASE UNCHANGED <<vars, eval>>
  BY <1>2 DEF eval, Waiting
<1>3. CASE MakeCall
  BY <1>3, HeadRequested DEF MakeCall, Waiting
<1>4. CASE MakeWrite
  BY <1>4 DEF MakeWrite, eval, Waiting
<1>5. CASE ReadStep
  <2>1. CASE StartDump
    BY <2>1 DEF StartDump, Waiting
  <2>2. CASE DumpNode
    BY <2>2 DEF DumpNode, Waiting
  <2>3. CASE DumpLoops
    BY <2>3 DEF DumpLoops, Waiting
  <2>4. CASE EndDump
    BY <2>4, HeadRequested DEF EndDump, Waiting
  <2>5. CASE Answer
    BY <2>5 DEF Answer, Waiting
  <2>6. CASE Exit
    BY <1>1, <2>6 DEF Exit, Forget, Waiting
  <2> QED
    BY <1>5, <2>1, <2>2, <2>3, <2>4, <2>5, <2>6 DEF ReadStep
<1>6. CASE Stop
  BY <1>1, <1>6 DEF Stop, Forget, Waiting
<1>7. ASSUME NEW q \in Queries, Begin(q) PROVE Waiting'
  BY <1>7, RequestLists DEF Begin, Waiting
<1> QED
  BY <1>2, <1>3, <1>4, <1>5, <1>6, <1>7 DEF EvalNext, ChangeStep

(* The header is saved by every call of a query, and by its exit. *)
LEMMA EvalSaves ==
  ASSUME SavedInv, Waiting, [EvalNext]_<<vars, eval>> PROVE SavedInv'
<1>1. UNCHANGED vars => SavedInv'
  BY DEF vars, SavedInv
<1>2. CASE UNCHANGED <<vars, eval>>
  BY <1>1, <1>2
<1>3. CASE MakeCall
  BY <1>3, HeadRequested, RequestIs, CallSaves DEF MakeCall, Waiting
<1>4. CASE MakeWrite
  BY <1>4, FlushSaves DEF MakeWrite
<1>5. CASE Exit
  <2>1. pend' = <<>> /\ meta' = dmeta /\ dmeta' = dmeta /\ disk' = disk
    BY <1>5 DEF Exit, Quiet
  <2>2. <<>> \in Seq({}) /\ Len(<<>>) = 0
    OBVIOUS
  <2>3. IsList(<<>>) /\ Saved(<<>>, dmeta, dmeta)
    BY <2>2 DEF IsList, Saved
  <2> QED
    BY <2>1, <2>3 DEF SavedInv
<1>6. CASE ReadStep
  BY <1>1, <1>5, <1>6 DEF ReadStep, StartDump, DumpNode, DumpLoops, EndDump, Answer
<1>7. CASE Stop
  BY <1>7, CrashSaves DEF Stop
<1>8. ASSUME NEW q \in Queries, Begin(q) PROVE SavedInv'
  BY <1>1, <1>8 DEF Begin
<1> QED
  BY <1>2, <1>3, <1>4, <1>6, <1>7, <1>8 DEF EvalNext, ChangeStep

(* What a step of the store leaves of the stops there were. *)
LEMMA CallTorn ==
  ASSUME NEW c, Call(c) PROVE torn' = torn /\ crashes' = crashes
BY DEF Call, AddNode, RemoveNode, AddProperty, RemoveProperty, AddRelationship,
   RemoveRelationship, Perform, Refuse, GoAstray, vars

(* A call that is not risky is one of a careful program, and is followed. *)
OnFile == PathInv /\ (~torn => ~astray)

LEMMA CallOnFile ==
  ASSUME OnFile, NEW c \in Requests, Call(c), ~Risky(c) PROVE OnFile'
<1>1. CASE torn
  BY <1>1, CallTorn DEF OnFile, PathInv
<1>2. CASE ~torn
  <2>1. Quiet
    BY DEF Call, AddNode, RemoveNode, AddProperty, RemoveProperty, AddRelationship,
       RemoveRelationship, Refuse, GoAstray, Ready
  <2>2. Ready
    BY <1>2, <2>1, PathTyped DEF OnFile, Ready
  <2>3. Careful(c)
    BY <2>2, RequestIs DEF Careful, Risky
  <2>4. PathInv'
    BY <1>2, <2>1, <2>3, RequestIs, CallPath DEF OnFile
  <2>5. ~GoAstray(c)
    BY <2>2, RequestIs DEF GoAstray, Risky
  <2>6. astray' = astray
    BY <2>5 DEF Call, AddNode, RemoveNode, AddProperty, RemoveProperty, AddRelationship,
       RemoveRelationship, Perform, Refuse, vars
  <2> QED
    BY <1>2, <2>4, <2>6, CallTorn DEF OnFile
<1> QED
  BY <1>1, <1>2

(* As long as no removal of a query is risky the file stays in order. *)
LEMMA EvalOnFile ==
  ASSUME ~risky => OnFile, Waiting, [EvalNext]_<<vars, eval>> PROVE ~risky' => OnFile'
<1>1. UNCHANGED vars /\ risky' = risky => (~risky' => OnFile')
  <2> SUFFICES ASSUME UNCHANGED vars, OnFile PROVE OnFile'
    OBVIOUS
  <2>1. Path => Path'
    BY DEF vars, Path
  <2> QED
    BY <2>1 DEF vars, OnFile, PathInv
<1>2. CASE UNCHANGED <<vars, eval>>
  BY <1>1, <1>2 DEF eval
<1>3. CASE MakeCall
  BY <1>3, HeadRequested, CallOnFile DEF MakeCall, Waiting
<1>4. CASE MakeWrite
  <2> SUFFICES ASSUME ~risky' PROVE OnFile'
    OBVIOUS
  <2>1. Flush /\ OnFile
    BY <1>4 DEF MakeWrite, eval
  <2>2. astray' = astray /\ torn' = torn /\ crashes' = crashes
    BY <2>1 DEF Flush
  <2>3. CASE torn
    BY <2>1, <2>2, <2>3 DEF OnFile, PathInv
  <2>4. CASE ~torn
    BY <2>1, <2>2, <2>4, FlushPath DEF OnFile
  <2> QED
    BY <2>3, <2>4
<1>5. CASE Exit
  <2> SUFFICES ASSUME ~risky' PROVE OnFile'
    OBVIOUS
  <2>1. OnFile /\ pend = <<>> /\ meta' = dmeta /\ UNCHANGED <<disk, dmeta, pend, graph, astray, crashes, torn>>
    BY <1>5 DEF Exit, Quiet
  <2>2. CASE torn
    BY <2>1, <2>2 DEF OnFile, PathInv
  <2>3. CASE ~torn
    <3>1. meta = dmeta
      BY <2>1, <2>3, QuietWell DEF OnFile, PathInv
    <3> QED
      BY <2>1, <2>3, <3>1 DEF OnFile, PathInv, Path
  <2> QED
    BY <2>2, <2>3
<1>6. CASE ReadStep
  BY <1>1, <1>5, <1>6 DEF ReadStep, StartDump, DumpNode, DumpLoops, EndDump, Answer
<1>7. CASE Stop
  <2> SUFFICES ASSUME ~risky' PROVE OnFile'
    OBVIOUS
  <2>1. Crash /\ OnFile
    BY <1>7 DEF Stop
  <2>2. ~astray' /\ crashes' = crashes + 1 /\ (torn => torn')
    BY <2>1 DEF Crash
  <2>3. CASE torn
    <3>1. crashes \in Nat
      BY <2>1 DEF OnFile, PathInv
    <3> QED
      BY <2>2, <2>3, <3>1 DEF OnFile, PathInv
  <2>4. CASE ~torn
    BY <2>1, <2>2, <2>4, CrashPath DEF OnFile
  <2> QED
    BY <2>3, <2>4
<1>8. ASSUME NEW q \in Queries, Begin(q) PROVE ~risky' => OnFile'
  BY <1>1, <1>8 DEF Begin
<1> QED
  BY <1>2, <1>3, <1>4, <1>6, <1>7, <1>8 DEF EvalNext, ChangeStep

(* The invariant of the queries: the calls to come are calls, the header is      *)
(* saved, and as long as no query was risky the file is on its way between two   *)
(* files in order.                                                               *)
EvalInv == Waiting /\ SavedInv /\ (~risky => OnFile)

(* For any queries, and wherever the server stops, it holds. *)
THEOREM EvalInductive ==
  EvalSpec => []EvalInv
<1>1. EvalInit => EvalInv
  <2> SUFFICES ASSUME EvalInit PROVE EvalInv
    OBVIOUS
  <2>1. <<>> \in Seq(Requests)
    OBVIOUS
  <2>2. PathInv /\ SavedInv /\ ~astray
    BY InitPath, InitSaved DEF EvalInit, Init
  <2> QED
    BY <2>1, <2>2 DEF EvalInit, EvalInv, Waiting, OnFile
<1>2. EvalInv /\ [EvalNext]_<<vars, eval>> => EvalInv'
  BY EvalRequests, EvalSaves, EvalOnFile DEF EvalInv
<1> QED
  BY <1>1, <1>2, PTL DEF EvalSpec

(* As long as clients only INSERT, SELECT, and DELETE or MODIFY nodes that are   *)
(* there and have no relationships, every pointer of the file leads to a record  *)
(* of its type between two calls, and no call uses the -1 of a failed search as  *)
(* an address: for any queries, at any depth, and any stops that do not tear the *)
(* list of nodes.                                                                *)
THEOREM QueriesStayOnFile ==
  EvalSpec => []StaysOnFile
<1>1. EvalInv => StaysOnFile
  BY PathTyped DEF EvalInv, OnFile, StaysOnFile
<1> QED
  BY <1>1, EvalInductive, PTL

(* Whatever the queries are, and whatever they find: between two calls the       *)
(* header in the file is the one in memory.                                      *)
THEOREM QueriesSaveMeta ==
  EvalSpec => []MetaSaved
<1>1. EvalInv => MetaSaved
  BY SavedIs DEF EvalInv
<1> QED
  BY <1>1, EvalInductive, PTL

(* Such queries leave the lists of the file, and who owns a block, as a careful  *)
(* program does, at every write and whatever is done at once.                    *)
THEOREM QueriesKeepLists ==
  EvalSpec => [](~risky => /\ NodeListLinked /\ ReachableNotFree /\ RelationshipChainsExact
                           /\ BlocksOwnedOnce /\ (~torn => FreeListsInFile))
<1>1. EvalInv => (~risky => /\ NodeListLinked /\ ReachableNotFree /\ RelationshipChainsExact
                            /\ BlocksOwnedOnce /\ (~torn => FreeListsInFile))
  BY PathLinked, PathNotFree, PathChains, PathOwned, PathFreeLists DEF EvalInv, OnFile
<1> QED
  BY <1>1, EvalInductive, PTL
--------------------------------------------------------------------------------
(* The answer to a SELECT.  u has f of each of R, once: in the order of rs. *)
InOrderOf(f, u, R, rs) ==
  /\ IsList(rs) /\ IsList(u) /\ Len(u) = Len(rs)
  /\ \A i \in 1 .. Len(rs) : u[i] = f[rs[i]]
  /\ \A i, j \in 1 .. Len(rs) : rs[i] = rs[j] => i = j
  /\ \A r : r \in R <=> \E i \in 1 .. Len(rs) : rs[i] = r

Once(f, u, R) == \E rs : InOrderOf(f, u, R, rs)

LEMMA OnceNone ==
  ASSUME NEW f PROVE Once(f, <<>>, {})
<1>1. <<>> \in Seq({}) /\ Len(<<>>) = 0 /\ 1 .. 0 = {}
  OBVIOUS
<1>2. InOrderOf(f, <<>>, {}, <<>>)
  BY <1>1 DEF InOrderOf, IsList
<1> QED
  BY <1>2 DEF Once

LEMMA OnceOne ==
  ASSUME NEW f, NEW r PROVE Once(f, <<f[r]>>, {r})
<1> DEFINE rs == <<r>>
           u == <<f[r]>>
<1>1. rs \in Seq({r}) /\ u \in Seq({f[r]}) /\ Len(rs) = 1 /\ Len(u) = 1
  OBVIOUS
<1>2. rs[1] = r /\ u[1] = f[r]
  OBVIOUS
<1>3. \A i : i \in 1 .. 1 <=> i = 1
  OBVIOUS
<1>4. IsList(rs) /\ IsList(u)
  BY <1>1 DEF IsList
<1> HIDE DEF rs, u
<1>5. InOrderOf(f, u, {r}, rs)
  BY <1>1, <1>2, <1>3, <1>4 DEF InOrderOf
<1> QED
  BY <1>5 DEF Once, u

(* Two lists joined. *)
Appended(u, v, w) ==
  /\ IsList(w) /\ Len(w) = Len(u) + Len(v)
  /\ \A i \in 1 .. Len(u) : w[i] = u[i]
  /\ \A i \in 1 .. Len(v) : w[Len(u) + i] = v[i]

LEMMA ListJoin ==
  ASSUME NEW u, IsList(u), NEW v, IsList(v) PROVE Appended(u, v, u \o v)
<1>1. PICK S, T : u \in Seq(S) /\ v \in Seq(T)
  BY DEF IsList
<1>2. u \in Seq(S \cup T) /\ v \in Seq(S \cup T)
  BY <1>1
<1>3. u \o v \in Seq(S \cup T) /\ Len(u) \in Nat /\ Len(v) \in Nat
  BY <1>2
<1> QED
  BY <1>2, <1>3 DEF IsList, Appended

(* Two lists of different records joined. *)
LEMMA OnceJoin ==
  ASSUME NEW f, NEW u, NEW v, NEW R, NEW Q, Once(f, u, R), Once(f, v, Q), R \cap Q = {}
  PROVE  Once(f, u \o v, R \cup Q)
<1>1. PICK rs : /\ IsList(rs) /\ IsList(u) /\ Len(u) = Len(rs)
                /\ \A i \in 1 .. Len(rs) : u[i] = f[rs[i]]
                /\ \A i, j \in 1 .. Len(rs) : rs[i] = rs[j] => i = j
                /\ \A r : r \in R <=> \E i \in 1 .. Len(rs) : rs[i] = r
  BY DEF Once, InOrderOf
<1>2. PICK qs : /\ IsList(qs) /\ IsList(v) /\ Len(v) = Len(qs)
                /\ \A i \in 1 .. Len(qs) : v[i] = f[qs[i]]
                /\ \A i, j \in 1 .. Len(qs) : qs[i] = qs[j] => i = j
                /\ \A r : r \in Q <=> \E i \in 1 .. Len(qs) : qs[i] = r
  BY DEF Once, InOrderOf
<1> DEFINE ws == rs \o qs
           x == Len(rs)
           y == Len(qs)
<1>3. x \in Nat /\ y \in Nat
  BY <1>1, <1>2, ListLength
<1>4. /\ IsList(ws) /\ Len(ws) = x + y
      /\ \A i \in 1 .. x : ws[i] = rs[i]
      /\ \A i \in 1 .. y : ws[x + i] = qs[i]
  <2>1. Appended(rs, qs, ws)
    BY <1>1, <1>2, ListJoin
  <2> QED
    BY <2>1 DEF Appended
<1>5. /\ IsList(u \o v) /\ Len(u \o v) = x + y
      /\ \A i \in 1 .. x : (u \o v)[i] = u[i]
      /\ \A i \in 1 .. y : (u \o v)[x + i] = v[i]
  <2> DEFINE w == u \o v
  <2>1. Appended(u, v, w) /\ Len(u) = x /\ Len(v) = y
    BY <1>1, <1>2, ListJoin
  <2> HIDE DEF w
  <2>2. /\ IsList(w) /\ Len(w) = x + y
        /\ \A i \in 1 .. x : w[i] = u[i]
        /\ \A i \in 1 .. y : w[x + i] = v[i]
    BY <2>1 DEF Appended
  <2> QED
    BY <2>2 DEF w
<1> HIDE DEF ws, x, y
<1>6. \A i \in 1 .. x + y : i \in 1 .. x \/ (i - x \in 1 .. y /\ i = x + (i - x))
  BY <1>3
<1>7. \A i \in 1 .. x : i \in 1 .. x + y
  BY <1>3
<1>8. \A i \in 1 .. y : x + i \in 1 .. x + y
  BY <1>3
<1>9. \A i \in 1 .. x : ws[i] \in R
  BY <1>1, <1>4 DEF x
<1>10. \A i \in 1 .. y : ws[x + i] \in Q
  BY <1>2, <1>4 DEF y
<1>11. \A i \in 1 .. x + y : (u \o v)[i] = f[ws[i]]
  <2> TAKE i \in 1 .. x + y
  <2>1. CASE i \in 1 .. x
    BY <1>1, <1>4, <1>5, <2>1 DEF x
  <2>2. CASE i - x \in 1 .. y /\ i = x + (i - x)
    <3> DEFINE k == i - x
    <3>1. k \in 1 .. y /\ i = x + k
      BY <2>2
    <3> HIDE DEF k
    <3> QED
      BY <1>2, <1>4, <1>5, <3>1 DEF y
  <2> QED
    BY <1>6, <2>1, <2>2
<1>12. ASSUME NEW i \in 1 .. x + y, NEW j \in 1 .. x + y, ws[i] = ws[j] PROVE i = j
  <2>1. CASE i \in 1 .. x /\ j \in 1 .. x
    BY <1>1, <1>4, <1>12, <2>1 DEF x
  <2>2. CASE i \in 1 .. x /\ j \notin 1 .. x
    BY <1>6, <1>9, <1>10, <1>12, <2>2
  <2>3. CASE i \notin 1 .. x /\ j \in 1 .. x
    BY <1>6, <1>9, <1>10, <1>12, <2>3
  <2>4. CASE i \notin 1 .. x /\ j \notin 1 .. x
    <3>1. i - x \in 1 .. y /\ i = x + (i - x) /\ j - x \in 1 .. y /\ j = x + (j - x)
      BY <1>6, <2>4
    <3>2. qs[i - x] = qs[j - x]
      BY <1>4, <1>12, <3>1
    <3>3. i - x = j - x
      BY <1>2, <3>1, <3>2 DEF y
    <3> QED
      BY <3>1, <3>3
  <2> QED
    BY <2>1, <2>2, <2>3, <2>4
<1>13. ASSUME NEW r PROVE r \in R \cup Q <=> \E i \in 1 .. x + y : ws[i] = r
  <2>1. ASSUME r \in R PROVE \E i \in 1 .. x + y : ws[i] = r
    BY <1>1, <1>4, <1>7, <2>1 DEF x
  <2>2. ASSUME r \in Q PROVE \E i \in 1 .. x + y : ws[i] = r
    BY <1>2, <1>4, <1>8, <2>2 DEF y
  <2>3. ASSUME NEW i \in 1 .. x + y, ws[i] = r PROVE r \in R \cup Q
    BY <1>6, <1>9, <1>10, <2>3
  <2> QED
    BY <2>1, <2>2, <2>3
<1>14. InOrderOf(f, u \o v, R \cup Q, ws)
  BY <1>4, <1>5, <1>11, <1>12, <1>13 DEF InOrderOf
<1> QED
  BY <1>14 DEF Once

(* It has as many of a kind as R has. *)
TimesIn(u, y) == Cardinality({i \in DOMAIN u : u[i] = y})
TimesOf(f, R, y) == Cardinality({x \in R : f[x] = y})

LEMMA OnceCounts ==
  ASSUME NEW f, NEW u, NEW R, Once(f, u, R)
  PROVE  Len(u) = Cardinality(R) /\ \A y : TimesIn(u, y) = TimesOf(f, R, y)
<1>1. PICK rs : /\ IsList(rs) /\ IsList(u) /\ Len(u) = Len(rs)
                /\ \A i \in 1 .. Len(rs) : u[i] = f[rs[i]]
                /\ \A i, j \in 1 .. Len(rs) : rs[i] = rs[j] => i = j
                /\ \A r : r \in R <=> \E i \in 1 .. Len(rs) : rs[i] = r
  BY DEF Once, InOrderOf
<1>2. Len(rs) \in Nat /\ DOMAIN rs = 1 .. Len(rs) /\ DOMAIN u = 1 .. Len(rs)
  BY <1>1, ListLength
<1>3. R = ToSet(rs)
  <2>1. ToSet(rs) = {rs[i] : i \in 1 .. Len(rs)}
    BY <1>2 DEF ToSet
  <2> QED
    BY <1>1, <2>1
<1>4. Len(u) = Cardinality(R)
  BY <1>1, <1>3, DistinctCount
<1>5. ASSUME NEW y PROVE TimesIn(u, y) = TimesOf(f, R, y)
  <2> DEFINE I == {i \in DOMAIN u : u[i] = y}
             K == {x \in R : f[x] = y}
             g == [i \in I |-> rs[i]]
  <2>1. IsFiniteSet(I)
    <3>1. I \subseteq 1 .. Len(rs) /\ IsFiniteSet(1 .. Len(rs))
      BY <1>2, FS_Interval
    <3> QED
      BY <3>1, FS_Subset
  <2>2. \A i \in I : i \in 1 .. Len(rs) /\ rs[i] \in K
    BY <1>1, <1>2
  <2>3. \A x \in K : \E i \in I : rs[i] = x
    BY <1>1, <1>2
  <2> HIDE DEF I, K
  <2>4. g \in [I -> K] /\ \A i \in I : g[i] = rs[i]
    BY <2>2
  <2>5. g \in Injection(I, K)
    BY <1>1, <2>2, <2>4 DEF Injection, IsInjective
  <2>6. g \in Surjection(I, K)
    BY <2>3, <2>4 DEF Surjection
  <2>7. ExistsBijection(I, K)
    BY <2>5, <2>6 DEF Bijection, ExistsBijection
  <2>8. Cardinality(K) = Cardinality(I)
    BY <2>1, <2>7, FS_Bijection
  <2> QED
    BY <2>8 DEF I, K, TimesIn, TimesOf
<1> QED
  BY <1>4, <1>5

(* A loop that takes f of some of the records it meets takes each of them once. *)
LEMMA GatherOnce ==
  ASSUME NEW T, NEW link, NEW item, Closed(link), Items(item, link, T), NEW f, NEW P,
         \A x \in DOMAIN link : x # 0 => item[x] = IF x \in P THEN <<f[x]>> ELSE <<>>,
         NEW a, NEW s, Leads(link, a, s)
  PROVE  Once(f, Gather(link, item, a), P \cap ToSet(s))
<1> DEFINE X == DOMAIN link
           A == {k \in Nat : \A x \in X : \A t \in Seq(X) :
                   Leads(link, x, t) /\ Len(t) = k
                     => Once(f, Gather(link, item, x), P \cap ToSet(t))}
<1>1. 0 \in X /\ \A x \in X : link[x] \in X
  BY DEF Closed
<1>2. 0 \in A
  <2> SUFFICES ASSUME NEW x \in X, NEW t \in Seq(X), Leads(link, x, t), Len(t) = 0
               PROVE  Once(f, Gather(link, item, x), P \cap ToSet(t))
    OBVIOUS
  <2>1. t = <<>> /\ x = 0
    BY DEF Leads
  <2>2. ToSet(t) = {}
    BY <2>1 DEF ToSet
  <2>3. Gather(link, item, x) = <<>>
    BY <2>1, GatherNowhere
  <2>4. P \cap ToSet(t) = {}
    BY <2>2
  <2> QED
    BY <2>3, <2>4, OnceNone
<1>3. ASSUME NEW k \in Nat, k \in A PROVE k + 1 \in A
  <2> SUFFICES ASSUME NEW x \in X, NEW t \in Seq(X), Leads(link, x, t), Len(t) = k + 1
               PROVE  Once(f, Gather(link, item, x), P \cap ToSet(t))
    OBVIOUS
  <2> DEFINE r == Tail(t)
             v == Gather(link, item, link[x])
  <2>1. x # 0
    BY LeadsOn DEF Leads
  <2> HIDE DEF A
  <2>2. /\ Leads(link, link[x], r) /\ Len(r) = k /\ x \notin ToSet(r)
        /\ \A b : b \in ToSet(t) <=> b = x \/ b \in ToSet(r)
    <3>1. /\ Leads(link, link[x], Tail(t)) /\ Len(Tail(t)) = Len(t) - 1 /\ x \notin ToSet(Tail(t))
          /\ \A b : b \in ToSet(t) <=> b = x \/ b \in ToSet(Tail(t))
      BY <2>1, LeadsPop
    <3> QED
      BY <3>1
  <2> HIDE DEF r
  <2>3. r \in Seq(X) /\ link[x] \in X
    BY <1>1, <2>2, LeadsOn
  <2>4. Once(f, v, P \cap ToSet(r))
    BY <1>3, <2>2, <2>3 DEF A
  <2>5. Gather(link, item, x) = item[x] \o v
    <3>1. Gather(link, item, x) = item[x] \o Gather(link, item, link[x])
      BY ONLY <2>1, GatherStep, Closed(link), Items(item, link, T), Leads(link, x, t)
    <3> QED
      BY <3>1
  <2> HIDE DEF v
  <2>6. CASE x \in P
    <3>1. Once(f, <<f[x]>> \o v, {x} \cup (P \cap ToSet(r)))
      <4>1. Once(f, <<f[x]>>, {x}) /\ {x} \cap (P \cap ToSet(r)) = {}
        BY <2>2, OnceOne
      <4> QED
        BY <2>4, <4>1, OnceJoin
    <3>2. {x} \cup (P \cap ToSet(r)) = P \cap ToSet(t)
      BY <2>2, <2>6
    <3> QED
      BY <2>1, <2>5, <2>6, <3>1, <3>2
  <2>7. CASE x \notin P
    <3>1. Once(f, <<>> \o v, {} \cup (P \cap ToSet(r)))
      BY <2>4, OnceNone, OnceJoin
    <3>2. {} \cup (P \cap ToSet(r)) = P \cap ToSet(t)
      BY <2>2, <2>7
    <3> QED
      BY <2>1, <2>5, <2>7, <3>1, <3>2
  <2> QED
    BY <2>6, <2>7
<1> HIDE DEF A
<1>4. Nat \subseteq A
  BY <1>2, <1>3, Induct
<1>5. a \in X /\ s \in Seq(X) /\ Len(s) \in Nat
  BY <1>1, LeadsOn
<1> HIDE DEF X
<1> QED
  BY <1>4, <1>5 DEF A

(* A loop that takes nothing of any record takes nothing. *)
LEMMA GatherNothing ==
  ASSUME NEW T, NEW link, NEW item, Closed(link), Items(item, link, T),
         \A x \in DOMAIN link : item[x] = <<>>, NEW a \in DOMAIN link
  PROVE  Gather(link, item, a) = <<>>
<1> DEFINE X == DOMAIN link
           w == Walk(link, item)
           A == {n \in Nat : \A x \in X : w[n][x] = <<>>}
<1>1. Follows(w, link, item) /\ \A x \in X : link[x] \in X
  BY WalkEquation DEF Closed
<1> HIDE DEF w
<1>2. 0 \in A
  BY <1>1 DEF Follows
<1>3. ASSUME NEW n \in Nat, n \in A PROVE n + 1 \in A
  <2>1. ASSUME NEW x \in X PROVE w[n + 1][x] = <<>>
    <3>1. CASE x = 0
      BY <1>1, <3>1 DEF Follows
    <3>2. CASE x # 0
      <4>1. w[n + 1][x] = item[x] \o w[n][link[x]] /\ w[n][link[x]] = <<>> /\ item[x] = <<>>
        BY <1>1, <1>3, <3>2 DEF Follows
      <4> QED
        BY <4>1
    <3> QED
      BY <3>1, <3>2
  <2> QED
    BY <2>1
<1> HIDE DEF A
<1>4. Nat \subseteq A
  BY <1>2, <1>3, Induct
<1>5. Cardinality(X) \in Nat
  BY FS_CardinalityType DEF Closed
<1> QED
  BY <1>4, <1>5 DEF A, Gather, w

(* What a chain of the result has of each relationship. *)
DumpedAt(d) == [b \in 0 .. Len(d) + 1 |-> Dumped(d, b)]

(* The chain of a node that is only a first leads along first_next. *)
LEMMA FirstNextLeads ==
  ASSUME NEW d, IsList(d), NEW n, NEW c, OwnChain(d, n, c),
         \A i \in 1 .. Len(c) : d[c[i]].first = n
  PROVE  /\ Leads(Link(d, "relationship", "fnext"), d[n].rel, c)
         /\ Address(d, d[n].rel) = d[n].rel
<1> DEFINE X == 0 .. Len(d) + 1
           link == Link(d, "relationship", "fnext")
           a == d[n].rel
<1>1. /\ IsList(c) /\ a = IF Len(c) = 0 THEN 0 ELSE c[1]
      /\ \A i \in 1 .. Len(c) : Side(d[c[i]], n) = IF i = Len(c) THEN 0 ELSE c[i + 1]
      /\ \A i, j \in 1 .. Len(c) : c[i] = c[j] => i = j
      /\ \A r : (\E i \in 1 .. Len(c) : c[i] = r) <=> IsA(d, r, "relationship") /\ n \in Ends(d[r])
  BY DEF OwnChain
<1>2. Len(c) \in Nat /\ DOMAIN c = 1 .. Len(c) /\ Len(d) \in Nat /\ DOMAIN d = 1 .. Len(d)
  BY <1>1, ListLength
<1>3. \A i \in 1 .. Len(c) : IsA(d, c[i], "relationship")
  BY <1>1
<1>4. \A i \in 1 .. Len(c) : c[i] \in 1 .. Len(d) /\ c[i] \in X /\ c[i] \in 1 .. Len(d) + 1
  BY <1>2, <1>3 DEF IsA
<1>5. \A x \in X : Address(d, x) = x
  BY DEF Address
<1>6. Closed(link) /\ DOMAIN link = X
  BY LinkClosed
<1>7. \A i \in 1 .. Len(c) : link[c[i]] = Address(d, Side(d[c[i]], n))
  <2> TAKE i \in 1 .. Len(c)
  <2>1. link[c[i]] = Address(d, d[c[i]].fnext)
    BY <1>3, <1>4 DEF Link
  <2> HIDE DEF link
  <2> QED
    BY <2>1 DEF Side
<1> HIDE DEF link, X
<1>8. \A i \in 1 .. Len(c) : link[c[i]] = IF i = Len(c) THEN 0 ELSE c[i + 1]
  <2> TAKE i \in 1 .. Len(c)
  <2>1. i # Len(c) => i + 1 \in 1 .. Len(c)
    <3> DEFINE z == Len(c)
    <3>1. z \in Nat /\ i \in 1 .. z
      BY <1>2
    <3> HIDE DEF z
    <3>2. i # z => i + 1 \in 1 .. z
      BY ONLY <3>1
    <3> QED
      BY <3>2 DEF z
  <2>2. 0 \in X
    BY <1>2 DEF X
  <2> QED
    BY <1>1, <1>4, <1>5, <1>7, <2>1, <2>2
<1>9. Trail(d, link, a, c)
  BY <1>1, <1>4, <1>8 DEF Trail
<1>10. Leads(link, a, c) /\ Address(d, a) = a
  BY <1>6, <1>9, TrailLeads DEF X
<1> QED
  BY <1>10 DEF link

(* While nodes are on one side only, a node contributes its own relationships. *)
LEMMA DumpedFromIs ==
  ASSUME NEW ns, NEW ps, NEW fl, InOrder(ns, ps, fl), crashes = 0, OneSided, NEW n \in ToSet(ns)
  PROVE  Once(DumpedAt(disk), DumpedFrom(n),
              {r \in MatchingOnes(Head(todo).rel) : disk[r].first = n})
<1> DEFINE X == 0 .. Len(disk) + 1
           rel == Head(todo).rel
           takes(b) == /\ IsA(disk, b, "relationship") /\ RelationshipEqual(disk, b, rel)
                       /\ disk[b].first = n
           link == Link(disk, "relationship", "fnext")
           item == [b \in X |-> IF takes(b) THEN <<Dumped(disk, b)>> ELSE <<>>]
           P == {b \in X : takes(b)}
           T == {Dumped(disk, b) : b \in X}
           f == DumpedAt(disk)
           a == Address(disk, disk[n].rel)
<1>1. /\ IsList(disk) /\ Nodes(disk, meta) = ToSet(ns)
      /\ \A x : x \in DOMAIN ps <=> x = 0 \/ x \in ToSet(ns)
      /\ 0 \notin ToSet(ns) /\ Chained(disk, ps)
      /\ \A r : r \in Relationships(disk, meta) <=> IsA(disk, r, "relationship")
  BY FullParts, RelationsAre DEF InOrder
<1>2. Len(disk) \in Nat /\ DOMAIN disk = 1 .. Len(disk)
  BY <1>1, ListLength
<1>3. P = {r \in MatchingOnes(rel) : disk[r].first = n}
  <2>1. \A r : IsA(disk, r, "relationship") => r \in X
    BY <1>2 DEF IsA
  <2> QED
    BY <1>1, <2>1 DEF MatchingOnes
<1>4. DumpedFrom(n) = Gather(link, item, a)
  BY DEF DumpedFrom
<1>5. Closed(link) /\ DOMAIN link = X /\ a \in X
  BY <1>1, LinkClosed, AddressIn
<1>6. Items(item, link, T)
  <2>1. \A b \in X : <<Dumped(disk, b)>> \in Seq(T)
    OBVIOUS
  <2>2. <<>> \in Seq(T)
    OBVIOUS
  <2> HIDE DEF takes, T, X
  <2>3. item \in [X -> Seq(T)]
    BY <2>1, <2>2
  <2> QED
    BY <1>5, <2>3 DEF Items
<1>7. \A x \in X : item[x] = IF x \in P THEN <<f[x]>> ELSE <<>>
  <2>1. \A x \in X : f[x] = Dumped(disk, x)
    BY DEF DumpedAt
  <2> HIDE DEF takes, f
  <2> QED
    BY <2>1
<1>8. CASE P = {}
  <2> HIDE DEF item, P, link, a, X
  <2>1. \A x \in DOMAIN link : item[x] = <<>>
    BY <1>5, <1>7, <1>8
  <2>2. Gather(link, item, a) = <<>>
    BY <1>5, <1>6, <2>1, GatherNothing
  <2> QED
    BY <1>3, <1>4, <1>8, <2>2, OnceNone
<1>9. CASE P # {}
  <2>1. PICK r : r \in P /\ IsA(disk, r, "relationship") /\ disk[r].first = n
    BY <1>9
  <2>2. PICK c : OwnChain(disk, n, c)
    BY <1>1 DEF Chained
  <2>3. ASSUME NEW i \in 1 .. Len(c) PROVE disk[c[i]].first = n
    <3>1. IsA(disk, c[i], "relationship") /\ n \in Ends(disk[c[i]])
      BY <2>2 DEF OwnChain
    <3>2. disk[r].first # disk[c[i]].second
      BY <1>1, <2>1, <3>1 DEF OneSided
    <3> QED
      BY <2>1, <3>1, <3>2 DEF Ends
  <2>4. Leads(link, a, c)
    BY <1>1, <2>2, <2>3, FirstNextLeads
  <2>5. P \subseteq ToSet(c)
    <3>1. ToSet(c) = {x \in DOMAIN disk : /\ disk[x].kind = "relationship"
                                           /\ n \in {disk[x].first, disk[x].second}}
      BY <1>1, <2>2, OwnChainIs
    <3> QED
      BY <3>1 DEF IsA
  <2> HIDE DEF item, P, link, a, X, f
  <2>6. Once(f, Gather(link, item, a), P \cap ToSet(c))
    BY <1>5, <1>6, <1>7, <2>4, GatherOnce
  <2>7. P \cap ToSet(c) = P
    BY <2>5
  <2> QED
    BY <1>3, <1>4, <2>6, <2>7 DEF f
<1> QED
  BY <1>8, <1>9

(* What is left of a query ends as the query does; a SELECT writes nothing.      *)
CallsInv ==
  /\ pend # <<>> => pc = "calls" /\ query.type # "SELECT"
  /\ pc # "idle" => query \in Queries
  /\ pc = "answered" => todo = <<>>
  /\ pc \in {"calls", "dump"} =>
       /\ todo \in Seq(ToSet(CallsOf[query]))
       /\ todo # <<>> => Last(todo) = Last(CallsOf[query])

LEMMA TailLast ==
  ASSUME NEW S, NEW s \in Seq(S), s # <<>>
  PROVE  /\ Head(s) \in S /\ Tail(s) \in Seq(S)
         /\ Tail(s) # <<>> => Last(Tail(s)) = Last(s)
         /\ Tail(s) = <<>> => Head(s) = Last(s)
<1>1. Len(s) \in Nat /\ Len(s) # 0 /\ Len(Tail(s)) = Len(s) - 1 /\ Head(s) = s[1]
  OBVIOUS
<1>2. \A i \in 1 .. Len(s) - 1 : Tail(s)[i] = s[i + 1]
  OBVIOUS
<1>3. ASSUME Tail(s) # <<>> PROVE Last(Tail(s)) = Last(s)
  <2>1. Len(s) - 1 \in 1 .. Len(s) - 1 /\ (Len(s) - 1) + 1 = Len(s)
    BY <1>1, <1>3
  <2> QED
    BY <1>1, <1>2, <2>1 DEF Last
<1>4. ASSUME Tail(s) = <<>> PROVE Head(s) = Last(s)
  <2>1. Len(s) = 1
    <3> DEFINE t == Tail(s)
    <3>1. Len(t) = 0
      <4>1. t = <<>>
        BY <1>4
      <4> HIDE DEF t
      <4> QED
        BY <4>1
    <3>2. Len(s) \in Nat /\ Len(t) = Len(s) - 1
      BY <1>1
    <3> HIDE DEF t
    <3> QED
      BY ONLY <3>1, <3>2
  <2> QED
    BY <1>1, <2>1 DEF Last
<1> QED
  BY <1>3, <1>4

(* The calls a SELECT makes are no calls of graph.h; a dump may go astray. *)
LEMMA ReadingCall ==
  ASSUME NEW c, c.op \in {"dump", "exit"}, Call(c) PROVE pend' = pend /\ astray'
BY DEF Call, GoAstray, Refuse, NodeThere, NodeNotThere, EndNotThere,
   PropertyNotThere

LEMMA EvalCalls ==
  ASSUME CallsInv, Waiting, [EvalNext]_<<vars, eval>> PROVE CallsInv'
<1>1. CASE UNCHANGED <<vars, eval>>
  BY <1>1 DEF vars, eval, CallsInv
<1>2. CASE MakeCall
  <2>1. /\ pc = "calls" /\ todo # <<>> /\ Call(Head(todo)) /\ todo' = Tail(todo)
        /\ pc' = "calls" /\ query' = query /\ query \in Queries
    BY <1>2 DEF MakeCall, CallsInv
  <2>2. Head(todo) \in ToSet(CallsOf[query])
    BY <2>1, TailLast DEF CallsInv
  <2>3. pend' # <<>> => query.type # "SELECT"
    <3>1. query.type = "SELECT" => Head(todo).op \in {"dump", "exit"}
      BY <2>1, <2>2, CallsOfAssumption
    <3> QED
      BY <2>1, <3>1, ReadingCall DEF CallsInv
  <2>4. /\ todo' \in Seq(ToSet(CallsOf[query]))
        /\ todo' # <<>> => Last(todo') = Last(CallsOf[query])
    BY <2>1, TailLast DEF CallsInv
  <2> QED
    BY <2>1, <2>3, <2>4 DEF CallsInv
<1>3. CASE MakeWrite
  BY <1>3 DEF MakeWrite, Flush, eval, CallsInv
<1>4. CASE StartDump
  BY <1>4 DEF StartDump, Ready, Quiet, vars, CallsInv
<1>5. CASE DumpNode
  BY <1>5 DEF DumpNode, vars, CallsInv
<1>6. CASE DumpLoops
  BY <1>6 DEF DumpLoops, vars, CallsInv
<1>7. CASE EndDump
  <2>1. pc = "dump" /\ pc' = "calls" /\ todo' = Tail(todo) /\ UNCHANGED <<pend, query>>
    BY <1>7 DEF EndDump, vars
  <2>2. /\ todo' \in Seq(ToSet(CallsOf[query]))
        /\ todo' # <<>> => Last(todo') = Last(CallsOf[query])
    BY <2>1, TailLast DEF CallsInv, Waiting
  <2> QED
    BY <2>1, <2>2 DEF CallsInv
<1>8. CASE Answer
  BY <1>8 DEF Answer, Quiet, vars, CallsInv
<1>9. CASE Exit
  BY <1>9 DEF Exit, Forget, Quiet, CallsInv
<1>10. CASE Stop
  BY <1>10 DEF Stop, Crash, Forget, CallsInv
<1>11. ASSUME NEW q \in Queries, Begin(q) PROVE CallsInv'
  <2>1. /\ pend' = <<>> /\ pc' = "calls" /\ query' = q /\ todo' = CallsOf[q]
    BY <1>11 DEF Begin, vars, CallsInv
  <2>2. CallsOf[q] \in Seq(ToSet(CallsOf[q]))
    BY CallsOfAssumption
  <2> QED
    BY <2>1, <2>2 DEF CallsInv
<1> QED
  BY <1>1, <1>2, <1>3, <1>4, <1>5, <1>6, <1>7, <1>8, <1>9, <1>10, <1>11
     DEF EvalNext, ChangeStep, ReadStep

(* A dump under way has taken the relationships of the nodes before the k-th, in *)
(* a file in order, ...                                                          *)
FirstAmong(ns, k) == {ns[j] : j \in 1 .. k - 1}

Taking(ns, k) ==
  /\ k \in 1 .. Len(ns) + 1
  /\ cursor = IF k = Len(ns) + 1 THEN 0 ELSE ns[k]
  /\ Once(DumpedAt(disk), result,
          {r \in MatchingOnes(Head(todo).rel) : disk[r].first \in FirstAmong(ns, k)})

Dumping == \E ns, ps, fl, k : InOrder(ns, ps, fl) /\ Taking(ns, k)

(* ... and one that has ended, those of all nodes. *)
HasAll == Once(DumpedAt(disk), result, MatchingOnes(Last(CallsOf[query]).rel))

Exact == crashes = 0 /\ OneSided

SelectInv ==
  ~risky /\ query.type = "SELECT" /\ Exact =>
    /\ pc = "dump" => Dumping
    /\ pc \in {"calls", "answered"} /\ todo = <<>> /\ CallsOf[query] # <<>> => HasAll

(* It starts with none, ... *)
LEMMA StartTaking ==
  ASSUME OnFile, Exact, StartDump PROVE Dumping'
<1>1. Quiet /\ UNCHANGED vars /\ cursor' = meta.first /\ result' = <<>> /\ todo' = todo
  BY DEF StartDump, Ready
<1>2. PICK ns, ps, fl : InOrder(ns, ps, fl)
  BY <1>1, QuietWell, WellInOrder DEF Quiet, OnFile, PathInv, Exact
<1>3. InOrder(ns, ps, fl)'
  BY <1>1, <1>2 DEF vars, InOrder, NoLeak
<1>4. Len(ns) \in Nat /\ meta.first = IF Len(ns) = 0 THEN 0 ELSE ns[1]
  BY <1>2, ListLength DEF InOrder, Full, Doubly, Way
<1>5. 1 \in 1 .. Len(ns) + 1 /\ (1 = Len(ns) + 1 <=> Len(ns) = 0)
  BY <1>4
<1>6. FirstAmong(ns, 1) = {}
  BY DEF FirstAmong
<1>7. Once(DumpedAt(disk'), <<>>, {})
  BY OnceNone
<1>8. Taking(ns, 1)'
  BY <1>1, <1>4, <1>5, <1>6, <1>7 DEF Taking
<1> QED
  BY <1>3, <1>8 DEF Dumping

(* ... adds those of one node after the other, ... *)
LEMMA NodeTaking ==
  ASSUME Dumping, Exact, DumpNode PROVE Dumping'
<1>1. /\ UNCHANGED vars /\ todo' = todo /\ cursor # 0 /\ result' = result \o DumpedFrom(cursor)
      /\ cursor' = IF disk[cursor].next = cursor THEN 0 ELSE disk[cursor].next
  BY DEF DumpNode
<1>2. PICK ns, ps, fl, k : InOrder(ns, ps, fl) /\ Taking(ns, k)
  BY DEF Dumping
<1>3. InOrder(ns, ps, fl)'
  BY <1>1, <1>2 DEF vars, InOrder, NoLeak
<1> DEFINE z == Len(ns)
           M == MatchingOnes(Head(todo).rel)
           f == DumpedAt(disk)
           before == {r \in M : disk[r].first \in FirstAmong(ns, k)}
           own == {r \in M : disk[r].first = cursor}
           until == {r \in M : disk[r].first \in FirstAmong(ns, k + 1)}
<1>4. /\ z \in Nat /\ ToSet(ns) = {ns[i] : i \in 1 .. z} /\ 0 \notin ToSet(ns)
      /\ \A i \in 1 .. z : disk[ns[i]].next = IF i = z THEN 0 ELSE ns[i + 1]
      /\ \A i, j \in 1 .. z : ns[i] = ns[j] => i = j
  <2>1. Way(disk, "node", meta.first, ns) /\ 0 \notin ToSet(ns)
    BY <1>2, FullParts DEF InOrder, Full, Doubly
  <2>2. z \in Nat /\ ToSet(ns) = {ns[i] : i \in 1 .. z}
    BY <2>1, WayElements
  <2>3. /\ \A i \in 1 .. z : disk[ns[i]].next = IF i = z THEN 0 ELSE ns[i + 1]
        /\ \A i, j \in 1 .. z : ns[i] = ns[j] => i = j
    BY <2>1 DEF Way
  <2> QED
    BY <2>1, <2>2, <2>3
<1>5. k \in 1 .. z + 1 /\ (cursor = IF k = z + 1 THEN 0 ELSE ns[k]) /\ Once(f, result, before)
  BY <1>2 DEF Taking
<1>6. k \in 1 .. z /\ cursor = ns[k] /\ cursor \in ToSet(ns) /\ k + 1 \in 1 .. z + 1
  BY <1>1, <1>4, <1>5
<1>7. Once(f, DumpedFrom(cursor), own)
  BY <1>2, <1>6, DumpedFromIs DEF Exact
<1> HIDE DEF z, f, M
<1>8. FirstAmong(ns, k + 1) = FirstAmong(ns, k) \cup {cursor}
  <2>1. \A j : j \in 1 .. (k + 1) - 1 <=> j \in 1 .. k - 1 \/ j = k
    BY <1>4, <1>6
  <2> QED
    BY <1>6, <2>1 DEF FirstAmong
<1>9. cursor \notin FirstAmong(ns, k)
  <2>1. \A j \in 1 .. k - 1 : j \in 1 .. z /\ j # k
    BY <1>4, <1>6
  <2> QED
    BY <1>4, <1>6, <2>1 DEF FirstAmong
<1>10. before \cap own = {} /\ before \cup own = until
  BY <1>8, <1>9
<1> HIDE DEF before, own, until
<1>11. Once(f, result', until)
  BY <1>1, <1>5, <1>7, <1>10, OnceJoin
<1>12. cursor' = IF k + 1 = z + 1 THEN 0 ELSE ns[k + 1]
  <2>1. disk[cursor].next = IF k = z THEN 0 ELSE ns[k + 1]
    BY <1>4, <1>6
  <2>2. k # z => k + 1 \in 1 .. z /\ ns[k + 1] # cursor
    BY <1>4, <1>6
  <2>3. k = z <=> k + 1 = z + 1
    BY <1>4, <1>6
  <2> QED
    BY <1>1, <2>1, <2>2, <2>3
<1>13. Taking(ns, k + 1)'
  <2>1. disk' = disk /\ MatchingOnes(Head(todo).rel)' = MatchingOnes(Head(todo).rel)
    BY <1>1 DEF vars, MatchingOnes
  <2> QED
    BY <1>6, <1>11, <1>12, <2>1 DEF Taking, f, until, M, z
<1> QED
  BY <1>3, <1>13 DEF Dumping

(* ... and ends with those of all nodes. *)
LEMMA EndTaking ==
  ASSUME Dumping, Exact, cursor = 0
  PROVE  Once(DumpedAt(disk), result, MatchingOnes(Head(todo).rel))
<1>1. PICK ns, ps, fl, k : InOrder(ns, ps, fl) /\ Taking(ns, k)
  BY DEF Dumping
<1> DEFINE z == Len(ns)
           M == MatchingOnes(Head(todo).rel)
<1>2. /\ z \in Nat /\ ToSet(ns) = {ns[i] : i \in 1 .. z} /\ 0 \notin ToSet(ns)
      /\ Nodes(disk, meta) = ToSet(ns)
  <2>1. Way(disk, "node", meta.first, ns) /\ 0 \notin ToSet(ns) /\ Nodes(disk, meta) = ToSet(ns)
    BY <1>1, FullParts DEF InOrder, Full, Doubly
  <2> QED
    BY <2>1, WayElements
<1>3. k = z + 1
  <2>1. k \in 1 .. z + 1 /\ (cursor = IF k = z + 1 THEN 0 ELSE ns[k])
    BY <1>1 DEF Taking
  <2>2. k # z + 1 => k \in 1 .. z
    BY <1>2, <2>1
  <2> QED
    BY <1>2, <2>1, <2>2
<1>4. FirstAmong(ns, k) = ToSet(ns)
  BY <1>2, <1>3 DEF FirstAmong
<1>5. {r \in M : disk[r].first \in FirstAmong(ns, k)} = M
  <2>1. \A r \in M : disk[r].first \in Nodes(disk, meta)
    BY DEF Exact, OneSided, MatchingOnes
  <2> QED
    BY <1>2, <1>4, <2>1
<1> QED
  BY <1>1, <1>5 DEF Taking

LEMMA EvalSelects ==
  ASSUME Waiting, CallsInv, ~risky => OnFile, ~risky' => OnFile', crashes \in Nat, SelectInv,
         [EvalNext]_<<vars, eval>>
  PROVE  SelectInv'
<1>1. UNCHANGED vars => (Exact' <=> Exact)
  BY DEF vars, Exact, OneSided
<1>2. UNCHANGED <<vars, query, todo, cursor, result>> => (Dumping' <=> Dumping) /\ (HasAll' <=> HasAll)
  <2> SUFFICES ASSUME UNCHANGED <<vars, query, todo, cursor, result>>
               PROVE  (Dumping' <=> Dumping) /\ (HasAll' <=> HasAll)
    OBVIOUS
  <2>1. \A ns, ps, fl : InOrder(ns, ps, fl)' <=> InOrder(ns, ps, fl)
    BY DEF vars, InOrder, NoLeak
  <2>2. \A ns, k : Taking(ns, k)' <=> Taking(ns, k)
    BY DEF vars, Taking, MatchingOnes
  <2> QED
    BY <2>1, <2>2 DEF vars, Dumping, HasAll, MatchingOnes
<1> SUFFICES ASSUME ~risky', query'.type = "SELECT", Exact'
             PROVE  /\ pc' = "dump" => Dumping'
                    /\ pc' \in {"calls", "answered"} /\ todo' = <<>> /\ CallsOf[query'] # <<>>
                         => HasAll'
  BY DEF SelectInv
<1>3. CASE UNCHANGED <<vars, eval>>
  BY <1>1, <1>2, <1>3 DEF eval, SelectInv
<1>4. CASE MakeCall
  <2>1. /\ todo # <<>> /\ Call(Head(todo)) /\ query' = query /\ pc = "calls" /\ pc' = pc
        /\ query \in Queries
    BY <1>4 DEF MakeCall, CallsInv
  <2>2. Head(todo) \in ToSet(CallsOf[query])
    BY <2>1, TailLast DEF CallsInv
  <2>3. astray'
    BY <2>1, <2>2, ReadingCall, CallsOfAssumption
  <2>4. ~torn' => ~astray'
    BY DEF OnFile
  <2>5. torn' => crashes' # 0
    BY DEF OnFile, PathInv
  <2> QED
    BY <2>3, <2>4, <2>5 DEF Exact
<1>5. CASE MakeWrite
  BY <1>5 DEF MakeWrite, Flush, eval, CallsInv
<1>6. CASE StartDump
  <2>1. pc' = "dump" /\ ~risky /\ UNCHANGED vars
    BY <1>6 DEF StartDump
  <2> QED
    BY <1>1, <1>6, <2>1, StartTaking
<1>7. CASE DumpNode
  <2>1. pc = "dump" /\ pc' = "dump" /\ ~risky /\ query' = query /\ UNCHANGED vars
    BY <1>7 DEF DumpNode
  <2> QED
    BY <1>1, <1>7, <2>1, NodeTaking DEF SelectInv
<1>8. CASE DumpLoops
  BY <1>8 DEF DumpLoops
<1>9. CASE EndDump
  <2>1. /\ pc = "dump" /\ pc' = "calls" /\ cursor = 0 /\ ~risky /\ todo' = Tail(todo)
        /\ UNCHANGED <<vars, query, result>>
    BY <1>9 DEF EndDump
  <2> SUFFICES ASSUME todo' = <<>> PROVE HasAll'
    BY <2>1
  <2>2. Head(todo) = Last(CallsOf[query])
    BY <2>1, TailLast DEF CallsInv, Waiting
  <2>3. Once(DumpedAt(disk), result, MatchingOnes(Head(todo).rel))
    BY <1>1, <2>1, EndTaking DEF SelectInv
  <2> QED
    BY <2>1, <2>2, <2>3 DEF vars, HasAll, MatchingOnes
<1>10. CASE Answer
  BY <1>1, <1>2, <1>10 DEF Answer, SelectInv
<1>11. CASE Exit
  BY <1>11 DEF Exit, Forget
<1>12. CASE Stop
  BY <1>12 DEF Stop, Forget
<1>13. ASSUME NEW q \in Queries, Begin(q)
       PROVE  /\ pc' = "dump" => Dumping'
              /\ pc' \in {"calls", "answered"} /\ todo' = <<>> /\ CallsOf[query'] # <<>> => HasAll'
  BY <1>13 DEF Begin
<1> QED
  BY <1>3, <1>4, <1>5, <1>6, <1>7, <1>8, <1>9, <1>10, <1>11, <1>12, <1>13
     DEF EvalNext, ChangeStep, ReadStep

AnswerInv == crashes \in Nat /\ CallsInv /\ SelectInv

(* For any queries, wherever the nodes and relationships lie in the file: while  *)
(* nodes are on one side only, an answered SELECT has each relationship that     *)
(* matches its last nested selection, once.  (As long as no removal was risky    *)
(* and the process has not stopped: then the chains are complete.)               *)
THEOREM SelectsAreExact ==
  EvalSpec => [](~risky /\ crashes = 0 => SelectExact)
<1>1. EvalInit => AnswerInv
  BY DEF EvalInit, Init, CallsInv, SelectInv, AnswerInv
<1>2. crashes \in Nat /\ [EvalNext]_<<vars, eval>> => crashes' \in Nat
  <2> SUFFICES ASSUME crashes \in Nat, [EvalNext]_<<vars, eval>> PROVE crashes' \in Nat
    OBVIOUS
  <2>1. CASE MakeCall
    BY <2>1, CallTorn DEF MakeCall
  <2>2. CASE MakeWrite
    BY <2>2 DEF MakeWrite, Flush
  <2>3. CASE Stop
    BY <2>3 DEF Stop, Crash
  <2>4. CASE ReadStep
    BY <2>4 DEF ReadStep, StartDump, DumpNode, DumpLoops, EndDump, Answer, Exit, vars
  <2>5. ASSUME NEW q \in Queries, Begin(q) PROVE crashes' \in Nat
    BY <2>5 DEF Begin, vars
  <2> QED
    BY <2>1, <2>2, <2>3, <2>4, <2>5 DEF EvalNext, ChangeStep, vars
<1>3. EvalInv /\ EvalInv' /\ AnswerInv /\ [EvalNext]_<<vars, eval>> => AnswerInv'
  BY <1>2, EvalCalls, EvalSelects DEF EvalInv, AnswerInv
<1>4. EvalInv /\ AnswerInv => (~risky /\ crashes = 0 => SelectExact)
  <2> SUFFICES ASSUME EvalInv, CallsInv, SelectInv, ~risky, crashes = 0, pc = "answered",
                      query.type = "SELECT", CallsOf[query] # <<>>, OneSided
               PROVE  LET matching == MatchingOnes(Last(CallsOf[query]).rel)
                      IN  /\ Len(result) = Cardinality(matching)
                          /\ \A r \in matching :
                               Cardinality({i \in DOMAIN result : result[i] = Dumped(disk, r)})
                                 = Cardinality({x \in matching : Dumped(disk, x) = Dumped(disk, r)})
    BY DEF SelectExact, AnswerInv
  <2> DEFINE M == MatchingOnes(Last(CallsOf[query]).rel)
             f == DumpedAt(disk)
  <2>1. Once(f, result, M)
    BY DEF SelectInv, CallsInv, HasAll, Exact
  <2>2. \A x \in M : x \in 1 .. Len(disk)
    <3>1. DOMAIN disk = 1 .. Len(disk)
      BY ListLength DEF EvalInv, SavedInv
    <3> QED
      BY <3>1 DEF MatchingOnes, Relationships, IsA
  <2>3. \A x \in M : f[x] = Dumped(disk, x)
    <3>1. \A x \in 1 .. Len(disk) : x \in 0 .. Len(disk) + 1
      BY ListLength DEF EvalInv, SavedInv
    <3> QED
      BY <2>2, <3>1 DEF DumpedAt
  <2> HIDE DEF M, f
  <2>4. Len(result) = Cardinality(M)
    BY <2>1, OnceCounts
  <2>5. ASSUME NEW r \in M
        PROVE  Cardinality({i \in DOMAIN result : result[i] = Dumped(disk, r)})
                 = Cardinality({x \in M : Dumped(disk, x) = Dumped(disk, r)})
    <3> DEFINE y == Dumped(disk, r)
    <3>1. TimesIn(result, y) = TimesOf(f, M, y)
      BY <2>1, OnceCounts
    <3>2. {x \in M : f[x] = y} = {x \in M : Dumped(disk, x) = y}
      BY <2>3
    <3> QED
      BY <3>1, <3>2 DEF TimesIn, TimesOf
  <2> QED
    BY <2>4, <2>5 DEF M
<1> QED
  BY <1>1, <1>3, <1>4, EvalInductive, PTL DEF EvalSpec

--------------------------------------------------------------------------------
(* What an INSERT connects.  The first match of a description stays the first    *)
(* when a node comes after it, ...                                               *)
LEMMA SpotAppend ==
  ASSUME NEW G, IsList(G), NEW x, NEW desc
  PROVE  /\ Spot(G, desc) # 0 => Spot(Append(G, x), desc) = Spot(G, desc)
         /\ Matches(x, desc) => Spot(Append(G, x), desc) # 0
<1> DEFINE H == Append(G, x)
           I == {k \in 1 .. Len(G) : Matches(G[k], desc)}
           J == {k \in 1 .. Len(H) : Matches(H[k], desc)}
<1>1. Spot(G, desc) = IF I # {} THEN Min(I) ELSE 0
  BY DEF SelectInSeq, Spot
<1>2. Spot(H, desc) = IF J # {} THEN Min(J) ELSE 0
  BY DEF SelectInSeq, Spot
<1>3. Len(G) \in Nat
  BY ListLength
<1>4. /\ Len(H) = Len(G) + 1 /\ H[Len(G) + 1] = x /\ \A k \in 1 .. Len(G) : H[k] = G[k]
  BY ListAppend
<1> HIDE DEF H
<1>5. I \subseteq Nat /\ J \subseteq Nat /\ I \subseteq 1 .. Len(G)
  OBVIOUS
<1>6. I \subseteq J /\ \A k \in J : k \in I \/ k = Len(G) + 1
  BY <1>3, <1>4
<1>7. Matches(x, desc) => Len(G) + 1 \in J
  BY <1>3, <1>4
<1> HIDE DEF I, J
<1>8. ASSUME I # {} PROVE Min(J) = Min(I)
  <2>1. Min(I) \in I /\ \A k \in I : Min(I) <= k
    BY <1>5, <1>8, MinIn
  <2>2. Min(J) \in J /\ \A k \in J : Min(J) <= k
    BY <1>5, <1>6, <1>8, MinIn
  <2>3. Min(J) <= Min(I)
    BY <1>6, <2>1, <2>2
  <2> DEFINE a == Min(I)
             b == Min(J)
  <2>4. a \in 1 .. Len(G) /\ b \in Nat /\ b <= a /\ (b \in I \/ b = Len(G) + 1)
    BY <1>5, <1>6, <2>1, <2>2, <2>3
  <2>5. b \in I => a <= b
    BY <2>1
  <2> HIDE DEF a, b
  <2>6. a = b
    BY <1>3, <2>4, <2>5
  <2> QED
    BY <2>6 DEF a, b
<1>9. J # {} => Min(J) # 0
  <2>1. \A k \in J : k # 0
    BY <1>3, <1>5, <1>6
  <2> QED
    BY <1>5, <2>1, MinIn
<1> QED
  BY <1>1, <1>2, <1>6, <1>7, <1>8, <1>9 DEF H

(* ... and a node matches the values it was added with.                          *)
LEMMA FindsItself ==
  ASSUME NEW desc, IsList(desc), Values(desc)
  PROVE  Matches([i \in DOMAIN desc |-> Plain(desc[i])], desc)
<1> DEFINE u == [i \in DOMAIN desc |-> Plain(desc[i])]
<1>1. Len(desc) \in Nat /\ DOMAIN desc = 1 .. Len(desc) /\ DOMAIN u = DOMAIN desc
  BY ListLength
<1>2. ASSUME NEW i \in DOMAIN desc PROVE PropertyEqual(u[i], desc[i])
  <2>1. u[i].type = desc[i].type /\ u[i].key = desc[i].key /\ u[i].val = desc[i].val
    BY DEF Plain
  <2>2. desc[i].type = "DOUBLE" => Near(desc[i].val, desc[i].val)
    <3>1. desc[i].type = "DOUBLE" => desc[i].val \in Int
      BY DEF Values
    <3> QED
      BY <3>1, PrecisionAssumption DEF Near
  <2>3. desc[i].cmp = "EQUAL"
    BY DEF Values
  <2> HIDE DEF u
  <2> QED
    BY <2>1, <2>2, <2>3 DEF PropertyEqual, SameKey, Compare, SameValue
<1> HIDE DEF u
<1>3. Matched(u, desc) = 1 .. Len(desc)
  BY <1>1, <1>2 DEF Matched
<1>4. Cardinality(1 .. Len(desc)) = Len(desc)
  <2>1. \A n \in Nat : Cardinality(1 .. n) = n
    BY FS_Interval
  <2> QED
    BY <1>1, <2>1
<1>5. Matches(u, desc)
  BY <1>1, <1>3, <1>4 DEF Matches
<1> QED
  BY <1>5 DEF u

(* The graph a file in order shows is a list. *)
LEMMA GraphList ==
  ASSUME NEW d, NEW m, NEW ns, NEW ps, NEW fl, Full(d, m, ns, ps, 0, fl)
  PROVE  IsList(Graph(d, m))
<1>1. Graph(d, m) = Picture(d, ns, ps) /\ Len(ns) \in Nat
  BY GraphIs, FoundNode DEF Meets
<1>2. Graph(d, m) \in [1 .. Len(ns) -> {Read(d, ps[ns[x]]) : x \in 1 .. Len(ns)}]
  BY <1>1 DEF Picture
<1> QED
  BY <1>1, <1>2, ListOf, ZenonT(30) DEF IsList

(* A file that shows the graph of another, or one node more, behind the others.  *)
OneMore(d, m, e, k) ==
  Graph(e, k) = Graph(d, m) \/ \E x : Graph(e, k) = Append(Graph(d, m), x)

(* A node that was found is found again. *)
LEMMA FoundStays ==
  ASSUME NEW d, NEW m, NEW ns, NEW ps, NEW fl, Full(d, m, ns, ps, 0, fl),
         NEW e, NEW k, NEW rs, NEW qs, NEW gl, Full(e, k, rs, qs, 0, gl),
         Extends(rs, ns), OneMore(d, m, e, k), NEW desc, FindNode(d, m.first, desc) # 0
  PROVE  FindNode(e, k.first, desc) = FindNode(d, m.first, desc)
<1> DEFINE n == FindNode(d, m.first, desc)
           i == Spot(Graph(d, m), desc)
           r == FindNode(e, k.first, desc)
           j == Spot(Graph(e, k), desc)
<1>1. Meets(ns, n, i) /\ Meets(rs, r, j)
  BY FoundNode
<1>2. i # 0 /\ n # 0
  BY <1>1 DEF Meets
<1>3. IsList(Graph(d, m))
  BY GraphList
<1>4. j = i
  <2>1. CASE Graph(e, k) = Graph(d, m)
    BY <2>1
  <2>2. ASSUME NEW x, Graph(e, k) = Append(Graph(d, m), x) PROVE j = i
    BY <1>2, <1>3, <2>2, SpotAppend
  <2> QED
    BY <2>1, <2>2 DEF OneMore
<1> HIDE DEF n, i, r, j
<1>5. r # 0 /\ r = rs[i] /\ n = ns[i] /\ i \in 1 .. Len(ns)
  BY <1>1, <1>2, <1>4 DEF Meets
<1>6. r = n
  BY <1>5 DEF Extends
<1> QED
  BY <1>6 DEF r, n

(* What a call of an INSERT leaves: the node, or the relationship of the two. *)
Holds(d, m, c) ==
  /\ c.op # "exit"
  /\ c.op = "add_node" => FindNode(d, m.first, c.node) # 0
  /\ c.op = "add_relationship" =>
       /\ 0 \notin {FindNode(d, m.first, c.rel.first), FindNode(d, m.first, c.rel.second)}
       /\ \E r : /\ IsA(d, r, "relationship")
                 /\ Made(d, r) = [first |-> FindNode(d, m.first, c.rel.first),
                                  second |-> FindNode(d, m.first, c.rel.second),
                                  type |-> c.rel.type]

(* It stays. *)
LEMMA HoldsStays ==
  ASSUME NEW d, NEW m, NEW ns, NEW ps, NEW fl, Full(d, m, ns, ps, 0, fl),
         NEW e, NEW k, NEW rs, NEW qs, NEW gl, Full(e, k, rs, qs, 0, gl),
         Extends(rs, ns), OneMore(d, m, e, k), Stays(d, e), NEW c, Holds(d, m, c)
  PROVE  Holds(e, k, c)
<1>1. \A desc : FindNode(d, m.first, desc) # 0
                  => FindNode(e, k.first, desc) = FindNode(d, m.first, desc)
  BY FoundStays
<1>2. \A r : IsA(d, r, "relationship") => IsA(e, r, "relationship") /\ Made(e, r) = Made(d, r)
  BY DEF Stays, Made
<1>3. CASE c.op = "add_relationship"
  <2> DEFINE n1 == FindNode(d, m.first, c.rel.first)
             n2 == FindNode(d, m.first, c.rel.second)
  <2>1. PICK r : /\ IsA(d, r, "relationship") /\ n1 # 0 /\ n2 # 0
                 /\ Made(d, r) = [first |-> n1, second |-> n2, type |-> c.rel.type]
    BY <1>3 DEF Holds
  <2>2. FindNode(e, k.first, c.rel.first) = n1 /\ FindNode(e, k.first, c.rel.second) = n2
    BY <1>1, <2>1
  <2>3. IsA(e, r, "relationship") /\ Made(e, r) = Made(d, r)
    BY <1>2, <2>1
  <2> QED
    BY <1>3, <2>1, <2>2, <2>3 DEF Holds
<1> QED
  BY <1>1, <1>3 DEF Holds

(* The file the writes to come lead to. *)
Coming(d) ==
  /\ Reached([disk |-> disk, meta |-> dmeta], pend, [disk |-> d, meta |-> meta])
  /\ Well(d, meta, crashes = 0)
  /\ graph = Graph(d, meta)

LEMMA GoodComing ==
  ASSUME meta = dmeta, NEW g, NEW s, NEW ns, NEW ps, Perform(s), Good(Now(g), s, ns, ps, 0, {})
  PROVE  Coming(s.disk)' /\ meta' = s.meta
<1>1. /\ disk' = disk /\ dmeta' = dmeta /\ meta' = s.meta /\ pend' = s.log
      /\ graph' = Graph(s.disk, s.meta) /\ crashes' = crashes
  BY DEF Perform
<1>2. FileOf(Now(g)) = [disk |-> disk, meta |-> dmeta] /\ (Now(g).exact <=> crashes = 0)
  BY NowIs
<1>3. /\ Reached([disk |-> disk, meta |-> dmeta], s.log, [disk |-> s.disk, meta |-> s.meta])
      /\ crashes = 0 => Chained(s.disk, ps)
  BY <1>2 DEF Good
<1>4. PICK fl : Full(s.disk, s.meta, ns, ps, 0, fl) /\ NoLeak(s.disk, ps, fl, {})
  BY DEF Good, Part
<1>5. Well(s.disk, s.meta, crashes = 0)
  BY <1>3, <1>4 DEF Well, Clean, NoLeak
<1> QED
  BY <1>1, <1>3, <1>5 DEF Coming

(* When they are made it is there. *)
LEMMA ComingNow ==
  ASSUME pend = <<>>, NEW d, Coming(d) PROVE d = disk
<1> DEFINE f == [disk |-> disk, meta |-> dmeta]
           g == [disk |-> d, meta |-> meta]
<1>1. Reached(f, <<>>, g) /\ Len(<<>>) = 0 /\ f.disk = disk /\ g.disk = d
  BY DEF Coming
<1> HIDE DEF f, g
<1>2. f = g
  BY <1>1 DEF Reached
<1> QED
  BY <1>1, <1>2

(* A call leads to a file that has what those before it left. *)
LEMMA MoreComing ==
  ASSUME meta = dmeta, NEW ns, NEW ps, NEW fl, InOrder(ns, ps, fl),
         NEW g, NEW s, More(s, g, ns),
         g = Graph(disk, meta) \/ \E x : g = Append(Graph(disk, meta), x)
  PROVE  /\ Coming(s.disk)' /\ meta' = s.meta /\ Graph(s.disk, s.meta) = g
         /\ \A c : Holds(disk, meta, c) => Holds(s.disk, s.meta, c)
<1>1. PICK rs, qs : Good(Now(g), s, rs, qs, 0, {}) /\ Extends(rs, ns)
  BY DEF More
<1>2. Perform(s)
  BY DEF More
<1>3. Now(g).disk = disk /\ Now(g).graph = g
  BY NowIs
<1>4. PICK gl : Full(s.disk, s.meta, rs, qs, 0, gl)
  BY <1>1 DEF Good, Part
<1>5. Stays(disk, s.disk) /\ Graph(s.disk, s.meta) = g
  BY <1>1, <1>3 DEF Good
<1>6. OneMore(disk, meta, s.disk, s.meta)
  BY <1>5 DEF OneMore
<1>7. Full(disk, meta, ns, ps, 0, fl)
  BY DEF InOrder
<1>8. \A c : Holds(disk, meta, c) => Holds(s.disk, s.meta, c)
  BY <1>1, <1>4, <1>5, <1>6, <1>7, HoldsStays
<1>9. Coming(s.disk)' /\ meta' = s.meta
  BY <1>1, <1>2, GoodComing
<1> QED
  BY <1>5, <1>8, <1>9

(* Each call of an INSERT leaves what it is for, ... *)
LEMMA AddingHolds ==
  ASSUME meta = dmeta, NEW ns, NEW ps, NEW fl, InOrder(ns, ps, fl),
         NEW desc, IsList(desc), Values(desc), AddNode(desc)
  PROVE  \E d : /\ Coming(d)' /\ FindNode(d, meta'.first, desc) # 0
                /\ \A c : Holds(disk, meta, c) => Holds(d, meta', c)
<1> DEFINE x == [i \in DOMAIN desc |-> Plain(desc[i])]
           g == Append(Graph(disk, meta), x)
<1>1. PICK s : More(s, g, ns)
  BY AddNodeGood
<1>2. Matches(x, desc)
  BY FindsItself
<1>3. IsList(Graph(disk, meta))
  BY GraphList DEF InOrder
<1> HIDE DEF x
<1>4. /\ Coming(s.disk)' /\ meta' = s.meta /\ Graph(s.disk, s.meta) = g
      /\ \A c : Holds(disk, meta, c) => Holds(s.disk, s.meta, c)
  BY <1>1, MoreComing
<1>5. Spot(g, desc) # 0
  BY <1>2, <1>3, SpotAppend
<1>6. PICK rs, qs, gl : Full(s.disk, s.meta, rs, qs, 0, gl)
  BY <1>1 DEF More, Good, Part
<1>7. Meets(rs, FindNode(s.disk, s.meta.first, desc), Spot(g, desc))
  BY <1>4, <1>6, FoundNode
<1>8. FindNode(s.disk, s.meta.first, desc) # 0
  BY <1>5, <1>7 DEF Meets
<1> QED
  BY <1>4, <1>8

(* ... the relationship too, since its nodes are there. *)
LEMMA ConnectingHolds ==
  ASSUME meta = dmeta, NEW ns, NEW ps, NEW fl, InOrder(ns, ps, fl),
         NEW c, c.op = "add_relationship", AddRelationship(c.rel)
  PROVE  \E d : Coming(d)' /\ Holds(d, meta', c) /\ \A b : Holds(disk, meta, b) => Holds(d, meta', b)
<1> DEFINE n1 == FindNode(disk, meta.first, c.rel.first)
           n2 == FindNode(disk, meta.first, c.rel.second)
           G == Graph(disk, meta)
<1>1. PICK s, r : /\ More(s, G, ns) /\ IsA(s.disk, r, "relationship")
                  /\ Made(s.disk, r) = [first |-> n1, second |-> n2, type |-> c.rel.type]
  BY AddRelationshipGood
<1>2. n1 # 0 /\ n2 # 0
  BY DEF AddRelationship
<1>3. /\ Coming(s.disk)' /\ meta' = s.meta /\ Graph(s.disk, s.meta) = G
      /\ \A b : Holds(disk, meta, b) => Holds(s.disk, s.meta, b)
  BY <1>1, MoreComing
<1>4. PICK rs, qs : Good(Now(G), s, rs, qs, 0, {}) /\ Extends(rs, ns)
  BY <1>1 DEF More
<1>5. PICK gl : Full(s.disk, s.meta, rs, qs, 0, gl)
  BY <1>4 DEF Good, Part
<1>6. Full(disk, meta, ns, ps, 0, fl) /\ OneMore(disk, meta, s.disk, s.meta)
  BY <1>3 DEF InOrder, OneMore
<1>7. /\ FindNode(s.disk, s.meta.first, c.rel.first) = n1
      /\ FindNode(s.disk, s.meta.first, c.rel.second) = n2
  BY <1>2, <1>4, <1>5, <1>6, FoundStays
<1> HIDE DEF n1, n2, G
<1>8. Holds(s.disk, s.meta, c)
  BY <1>1, <1>2, <1>7 DEF Holds
<1> QED
  BY <1>3, <1>8

LEMMA InsertCall ==
  ASSUME OnFile, ~torn, NEW q \in Queries, q.type = "INSERT",
         NEW k \in Nat, k < Len(CallsOf[q]), Call(CallsOf[q][k + 1]),
         \A i \in 1 .. k : Holds(disk, meta, CallsOf[q][i])
  PROVE  \E d : Coming(d)' /\ \A i \in 1 .. k + 1 : Holds(d, meta', CallsOf[q][i])
<1> DEFINE calls == CallsOf[q]
           c == calls[k + 1]
<1>1. Quiet
  BY DEF Call, AddNode, RemoveNode, AddProperty, RemoveProperty, AddRelationship,
     RemoveRelationship, Refuse, GoAstray, Ready
<1>2. Ready /\ pend = <<>> /\ Path /\ PathInv
  BY <1>1, PathTyped DEF OnFile, Ready, PathInv, Quiet
<1>3. Well(disk, meta, crashes = 0) /\ meta = dmeta /\ graph = Graph(disk, meta)
  BY <1>2, QuietWell
<1>4. PICK ns, ps, fl : InOrder(ns, ps, fl)
  BY <1>3, WellInOrder
<1>5. /\ calls \in Seq(ToSet(calls)) /\ Len(calls) \in Nat
      /\ k + 1 \in DOMAIN calls /\ c \in ToSet(calls)
  <2>1. calls \in Seq(ToSet(calls))
    BY CallsOfAssumption
  <2> QED
    BY <2>1
<1>6. /\ c.op \in {"add_node", "add_relationship", "exit"}
      /\ c.op = "add_node" => c.node \in Seq(ToSet(c.node)) /\ Values(c.node)
      /\ NodesFirst(calls)
  BY <1>5, CallsOfAssumption
<1> HIDE DEF calls, c
<1>7. ASSUME NEW d, Coming(d)', Holds(d, meta', c),
             \A b : Holds(disk, meta, b) => Holds(d, meta', b)
      PROVE  \A i \in 1 .. k + 1 : Holds(d, meta', calls[i])
  <2>1. \A i \in 1 .. k : Holds(d, meta', calls[i])
    BY <1>7 DEF calls
  <2>2. Holds(d, meta', calls[k + 1])
    BY <1>7 DEF c
  <2>3. \A i \in 1 .. k + 1 : i \in 1 .. k \/ i = k + 1
    OBVIOUS
  <2> QED
    BY <2>1, <2>2, <2>3
<1>8. Call(c)
  BY DEF c, calls
<1>9. CASE c.op = "add_node" /\ AddNode(c.node)
  <2>1. IsList(c.node)
    BY <1>6, <1>9 DEF IsList
  <2>2. PICK d : /\ Coming(d)' /\ FindNode(d, meta'.first, c.node) # 0
                 /\ \A b : Holds(disk, meta, b) => Holds(d, meta', b)
    BY <1>3, <1>4, <1>6, <1>9, <2>1, AddingHolds
  <2>3. Holds(d, meta', c)
    BY <1>9, <2>2 DEF Holds
  <2> QED
    BY <1>7, <2>2, <2>3 DEF calls
<1>10. CASE c.op = "add_relationship" /\ AddRelationship(c.rel)
  <2>1. PICK d : /\ Coming(d)' /\ Holds(d, meta', c)
                 /\ \A b : Holds(disk, meta, b) => Holds(d, meta', b)
    BY <1>3, <1>4, <1>10, ConnectingHolds
  <2> QED
    BY <1>7, <2>1 DEF calls
<1>11. CASE c.op = "add_node" /\ Refuse(c)
  <2>1. FindNode(disk, meta.first, c.node) # 0 /\ UNCHANGED vars
    BY <1>11 DEF Refuse, NodeThere, NodeNotThere, EndNotThere, PropertyNotThere
  <2>2. PICK d : d = disk
    OBVIOUS
  <2>3. Reached([disk |-> disk, meta |-> dmeta], pend, [disk |-> d, meta |-> meta])
    <3> DEFINE f == [disk |-> disk, meta |-> dmeta]
    <3>1. IsList(<<>>)
      <4>1. <<>> \in Seq({})
        OBVIOUS
      <4> QED
        BY <4>1 DEF IsList
    <3>2. Sound(disk, dmeta) /\ f.disk = disk /\ f.meta = dmeta
      BY <1>2, <3>1, PathSound
    <3> HIDE DEF f
    <3>3. Reached(f, <<>>, f)
      BY <3>2, ReachedNothing
    <3> QED
      BY <1>2, <1>3, <2>2, <3>3 DEF f
  <2>4. Coming(d)'
    BY <1>3, <2>1, <2>2, <2>3 DEF Coming, vars
  <2>5. meta' = meta /\ Holds(d, meta, c)
    BY <1>11, <2>1, <2>2 DEF Holds, vars
  <2>6. Holds(d, meta', c) /\ \A b : Holds(disk, meta, b) => Holds(d, meta', b)
    BY <2>2, <2>5
  <2> QED
    BY <1>7, <2>4, <2>6 DEF calls
<1>12. CASE c.op = "add_relationship" /\ Refuse(c)
  <2>1. PICK desc \in {c.rel.first, c.rel.second} : FindNode(disk, meta.first, desc) = 0
    BY <1>12 DEF Refuse, NodeThere, NodeNotThere, EndNotThere, PropertyNotThere
  <2>2. PICK j \in 1 .. k :
          calls[j].op = "exit" \/ (calls[j].op = "add_node" /\ calls[j].node = desc)
    <3>1. PICK j \in 1 .. (k + 1) - 1 :
            calls[j].op = "exit" \/ (calls[j].op = "add_node" /\ calls[j].node = desc)
      BY <1>5, <1>6, <1>12, <2>1 DEF NodesFirst, c
    <3> QED
      BY <3>1
  <2>3. Holds(disk, meta, calls[j])
    BY DEF calls
  <2> QED
    BY <2>1, <2>2, <2>3 DEF Holds
<1>13. ~GoAstray(c)
  BY <1>2, <1>6 DEF GoAstray
<1>14. c.op = "exit" => ~Refuse(c)
  BY DEF Refuse, NodeThere, NodeNotThere, EndNotThere, PropertyNotThere
<1> QED
  BY <1>6, <1>8, <1>9, <1>10, <1>11, <1>12, <1>13, <1>14 DEF Call

(* The first k calls of the query have been made. *)
Remains(k) ==
  /\ k \in 0 .. Len(CallsOf[query]) /\ Len(todo) = Len(CallsOf[query]) - k
  /\ \A i \in 1 .. Len(todo) : todo[i] = CallsOf[query][k + i]

Inserting ==
  \E d, k : Coming(d) /\ Remains(k) /\ \A i \in 1 .. k : Holds(d, meta, CallsOf[query][i])

(* An INSERT has what its calls so far are for, when the writes to come are made.*)
InsertInv ==
  ~risky /\ ~torn /\ query.type = "INSERT" =>
    pc \notin {"dump", "loops"} /\ (pc \in {"calls", "answered"} => Inserting)

(* It begins with nothing, ... *)
LEMMA InsertBegins ==
  ASSUME Path, NEW q \in Queries, Begin(q) PROVE Inserting'
<1>1. query' = q /\ todo' = CallsOf[q] /\ UNCHANGED vars
  BY DEF Begin
<1>2. CallsOf[q] \in Seq(ToSet(CallsOf[q]))
  BY CallsOfAssumption
<1>3. PICK d : Coming(d)
  BY DEF Path, Coming
<1>4. Coming(d)'
  BY <1>1, <1>3 DEF Coming, vars
<1>5. Remains(0)'
  BY <1>1, <1>2 DEF Remains
<1> QED
  BY <1>4, <1>5 DEF Inserting

(* ... makes one call after the other, ... *)
LEMMA InsertCalls ==
  ASSUME OnFile, ~torn, Waiting, query \in Queries, query.type = "INSERT", pend = <<>>, Inserting,
         MakeCall
  PROVE  Inserting'
<1> DEFINE calls == CallsOf[query]
<1>1. PICK d, k : Coming(d) /\ Remains(k) /\ \A i \in 1 .. k : Holds(d, meta, calls[i])
  BY DEF Inserting
<1>2. todo # <<>> /\ Call(Head(todo)) /\ todo' = Tail(todo) /\ query' = query
  BY DEF MakeCall
<1>3. d = disk
  BY <1>1, ComingNow
<1>4. /\ calls \in Seq(ToSet(calls)) /\ Len(calls) \in Nat /\ todo \in Seq(Requests)
      /\ Len(todo) \in Nat \ {0} /\ Head(todo) = todo[1]
      /\ Len(Tail(todo)) = Len(todo) - 1
      /\ \A i \in 1 .. Len(Tail(todo)) : Tail(todo)[i] = todo[i + 1]
  <2>1. calls \in Seq(ToSet(calls))
    BY CallsOfAssumption
  <2>2. IsList(todo)
    BY DEF Waiting, IsList
  <2> QED
    BY <1>2, <2>1, <2>2, ListTail DEF Waiting
<1>5. /\ k \in Nat /\ k < Len(calls) /\ Head(todo) = calls[k + 1]
      /\ Len(Tail(todo)) = Len(calls) - (k + 1)
      /\ \A i \in 1 .. Len(Tail(todo)) : Tail(todo)[i] = calls[k + 1 + i]
  <2>1. /\ k \in 0 .. Len(calls) /\ Len(todo) = Len(calls) - k
        /\ \A i \in 1 .. Len(todo) : todo[i] = calls[k + i]
    BY <1>1 DEF Remains
  <2> HIDE DEF calls
  <2>2. \A i \in 1 .. Len(Tail(todo)) : i + 1 \in 1 .. Len(todo) /\ k + (i + 1) = k + 1 + i
    BY <1>4, <2>1
  <2> QED
    BY <1>4, <2>1, <2>2
<1>6. PICK e : Coming(e)' /\ \A i \in 1 .. k + 1 : Holds(e, meta', calls[i])
  BY <1>1, <1>2, <1>3, <1>5, InsertCall
<1>7. Remains(k + 1)'
  BY <1>2, <1>4, <1>5 DEF Remains
<1> QED
  BY <1>2, <1>6, <1>7 DEF Inserting

(* ... and one write after the other. *)
LEMMA InsertWrites ==
  ASSUME IsList(pend), Inserting, MakeWrite PROVE Inserting'
<1> DEFINE w == Head(pend)
           f == [disk |-> disk, meta |-> dmeta]
           g == [disk |-> disk', meta |-> dmeta']
<1>1. PICK d, k : Coming(d) /\ Remains(k) /\ \A i \in 1 .. k : Holds(d, meta, CallsOf[query][i])
  BY DEF Inserting
<1>2. /\ pend # <<>> /\ pend' = Tail(pend) /\ meta' = meta /\ graph' = graph /\ crashes' = crashes
      /\ IF w.at = 0 THEN dmeta' = w.data /\ disk' = disk
         ELSE disk' = PutAt(disk, w.at, w.data) /\ dmeta' = dmeta
      /\ query' = query /\ todo' = todo
  BY DEF MakeWrite, Flush, eval
<1>3. After(f, w) = g
  BY <1>2 DEF After
<1> DEFINE e == [disk |-> d, meta |-> meta]
<1>4. Reached(f, pend, e)
  BY <1>1 DEF Coming
<1> HIDE DEF f, g, e
<1>5. Reached(g, Tail(pend), e)
  BY <1>2, <1>3, <1>4, ReachedPop
<1>6. Reached([disk |-> disk', meta |-> dmeta'], pend', [disk |-> d, meta |-> meta'])
  BY <1>2, <1>5 DEF g, e
<1>7. Coming(d)'
  BY <1>1, <1>2, <1>6 DEF Coming
<1>8. Remains(k)' /\ \A i \in 1 .. k : Holds(d, meta', CallsOf[query'][i])
  BY <1>1, <1>2 DEF Remains
<1> QED
  BY <1>7, <1>8 DEF Inserting

LEMMA EvalInserts ==
  ASSUME Waiting, CallsInv, ~risky => OnFile, InsertInv, [EvalNext]_<<vars, eval>>
  PROVE  InsertInv'
<1> SUFFICES ASSUME ~risky', ~torn', query'.type = "INSERT"
             PROVE  pc' \notin {"dump", "loops"} /\ (pc' \in {"calls", "answered"} => Inserting')
  BY DEF InsertInv
<1>1. UNCHANGED <<vars, query, todo>> => (Inserting' <=> Inserting)
  <2> SUFFICES ASSUME UNCHANGED <<vars, query, todo>> PROVE Inserting' <=> Inserting
    OBVIOUS
  <2>1. \A d : Coming(d)' <=> Coming(d)
    BY DEF vars, Coming
  <2>2. \A k : Remains(k)' <=> Remains(k)
    BY DEF Remains
  <2> QED
    BY <2>1, <2>2 DEF vars, Inserting
<1>2. CASE UNCHANGED <<vars, eval>>
  BY <1>1, <1>2 DEF vars, eval, InsertInv
<1>3. CASE MakeCall
  <2>1. /\ pc = "calls" /\ pc' = pc /\ query' = query /\ ~risky /\ Call(Head(todo))
        /\ query \in Queries
    BY <1>3 DEF MakeCall, CallsInv
  <2>2. ~torn
    BY <2>1, CallTorn
  <2>3. pend = <<>>
    BY <2>1 DEF Call, AddNode, RemoveNode, AddProperty, RemoveProperty, AddRelationship,
       RemoveRelationship, Refuse, GoAstray, Ready, Quiet
  <2> QED
    BY <1>3, <2>1, <2>2, <2>3, InsertCalls DEF InsertInv
<1>4. CASE MakeWrite
  <2>1. UNCHANGED <<pc, query, risky, torn>>
    BY <1>4 DEF MakeWrite, Flush, eval
  <2>2. IsList(pend)
    BY <2>1 DEF OnFile, PathInv
  <2> QED
    BY <1>4, <2>1, <2>2, InsertWrites DEF InsertInv
<1>5. CASE StartDump
  <2>1. pc = "calls" /\ todo # <<>> /\ Head(todo).op = "dump" /\ query' = query
    BY <1>5 DEF StartDump
  <2>2. query \in Queries /\ Head(todo) \in ToSet(CallsOf[query])
    BY <2>1, TailLast DEF CallsInv
  <2> QED
    BY <2>1, <2>2, CallsOfAssumption
<1>6. CASE DumpNode \/ DumpLoops \/ EndDump
  BY <1>6 DEF DumpNode, DumpLoops, EndDump, InsertInv, vars
<1>7. CASE Answer
  BY <1>1, <1>7 DEF Answer, InsertInv, vars
<1>8. CASE Exit \/ Stop
  BY <1>8 DEF Exit, Stop, Forget
<1>9. ASSUME NEW q \in Queries, Begin(q)
      PROVE  pc' \notin {"dump", "loops"} /\ (pc' \in {"calls", "answered"} => Inserting')
  <2>1. ~risky /\ ~torn /\ pc' = "calls"
    BY <1>9 DEF Begin, vars
  <2> QED
    BY <1>9, <2>1, InsertBegins DEF OnFile, PathInv
<1> QED
  BY <1>2, <1>3, <1>4, <1>5, <1>6, <1>7, <1>8, <1>9 DEF EvalNext, ChangeStep, ReadStep

(* What an answered INSERT is for is in the file, and found there. *)
LEMMA AnsweredConnects ==
  ASSUME OnFile, ~torn, crashes = 0, pend = <<>>, Inserting, todo = <<>>,
         NEW c \in ToSet(CallsOf[query]), c.op = "add_relationship", query \in Queries
  PROVE  \E r \in Relationships(disk, meta) :
           /\ Text(disk, disk[r].type) = c.rel.type
           /\ disk[r].first = FindNode(disk, meta.first, c.rel.first)
           /\ disk[r].second = FindNode(disk, meta.first, c.rel.second)
<1>1. PICK d, k : Coming(d) /\ Remains(k) /\ \A i \in 1 .. k : Holds(d, meta, CallsOf[query][i])
  BY DEF Inserting
<1>2. d = disk
  BY <1>1, ComingNow
<1>3. Holds(disk, meta, c)
  <2>1. CallsOf[query] \in Seq(ToSet(CallsOf[query]))
    BY CallsOfAssumption
  <2>2. PICK i \in 1 .. Len(CallsOf[query]) : c = CallsOf[query][i]
    BY <2>1 DEF ToSet
  <2>3. k = Len(CallsOf[query])
    BY <1>1, <2>1 DEF Remains
  <2> QED
    BY <1>1, <1>2, <2>2, <2>3
<1>4. PICK r : /\ IsA(disk, r, "relationship")
               /\ Made(disk, r) = [first |-> FindNode(disk, meta.first, c.rel.first),
                                   second |-> FindNode(disk, meta.first, c.rel.second),
                                   type |-> c.rel.type]
  BY <1>3 DEF Holds
<1>5. PICK ns, ps, fl : Full(disk, meta, ns, ps, 0, fl) /\ Clean(disk, ps, fl)
  BY QuietWell DEF OnFile, PathInv, Well
<1>6. r \in Relationships(disk, meta)
  BY <1>4, <1>5, RelationsAre DEF Clean
<1> QED
  BY <1>4, <1>6 DEF Made

ConnectInv == CallsInv /\ InsertInv

(* For any queries, and whatever was in the file before: an answered INSERT has  *)
(* connected every pair of nodes it describes, and the two are the first ones    *)
(* that match what it describes them with.  (As long as no removal was risky and *)
(* the process has not stopped: then the chains lead to every relationship.)     *)
THEOREM InsertsConnect ==
  EvalSpec => [](~risky /\ crashes = 0 => InsertConnects)
<1>1. EvalInit => ConnectInv
  BY DEF EvalInit, Init, NoQuery, CallsInv, InsertInv, ConnectInv
<1>2. EvalInv /\ EvalInv' /\ ConnectInv /\ [EvalNext]_<<vars, eval>> => ConnectInv'
  BY EvalCalls, EvalInserts DEF EvalInv, ConnectInv
<1>3. EvalInv /\ ConnectInv => (~risky /\ crashes = 0 => InsertConnects)
  <2> SUFFICES ASSUME EvalInv, CallsInv, InsertInv, ~risky, crashes = 0, pc = "answered",
                      query.type = "INSERT", ~torn,
                      NEW c \in ToSet(CallsOf[query]), c.op = "add_relationship"
               PROVE  \E r \in Relationships(disk, meta) :
                        /\ Text(disk, disk[r].type) = c.rel.type
                        /\ disk[r].first = FindNode(disk, meta.first, c.rel.first)
                        /\ disk[r].second = FindNode(disk, meta.first, c.rel.second)
    BY DEF InsertConnects, ConnectInv
  <2>1. pend = <<>> /\ todo = <<>> /\ query \in Queries /\ Inserting /\ OnFile
    BY DEF CallsInv, InsertInv, EvalInv
  <2> QED
    BY <2>1, AnsweredConnects
<1> QED
  BY <1>1, <1>2, <1>3, EvalInductive, PTL DEF EvalSpec
================================================================================
