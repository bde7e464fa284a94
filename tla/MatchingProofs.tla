----------------------------- MODULE MatchingProofs -----------------------------
(* Theorems about NodeMatching: what nodes_equal decides, for every node,        *)
(* description, value and precision.                                             *)
EXTENDS NodeMatching, FiniteSetTheorems, FunctionTheorems, TLAPS

(* The inductive invariant: the node and the description are sequences of what   *)
(* they may have.                                                                *)
Built == props \in Seq(Stored) /\ desc \in Seq(Wanted)
--------------------------------------------------------------------------------
(* A sequence has finitely many places, as many as its length. *)
LEMMA Places ==
  ASSUME NEW S, NEW s \in Seq(S)
  PROVE  /\ Len(s) \in Nat /\ DOMAIN s = 1 .. Len(s)
         /\ IsFiniteSet(DOMAIN s) /\ Cardinality(DOMAIN s) = Len(s)
<1>1. Len(s) \in Nat /\ DOMAIN s = 1 .. Len(s)
  OBVIOUS
<1>2. IsFiniteSet(1 .. Len(s)) /\ Cardinality(1 .. Len(s)) = Len(s)
  BY <1>1, FS_Interval, SMTT(30)
<1> QED
  BY <1>1, <1>2

(* The places that match are some of those of the node. *)
LEMMA MatchedFinite ==
  ASSUME NEW S, NEW s \in Seq(S), NEW d
  PROVE  /\ Matched(s, d) \subseteq DOMAIN s
         /\ IsFiniteSet(Matched(s, d)) /\ Cardinality(Matched(s, d)) \in Nat
<1>1. Matched(s, d) \subseteq DOMAIN s
  BY DEF Matched
<1>2. IsFiniteSet(Matched(s, d))
  BY <1>1, Places, FS_Subset
<1> QED
  BY <1>1, <1>2, FS_CardinalityType

(* If each property of a description without repeated keys is satisfied, the     *)
(* places that satisfy them differ, so there are enough of them.                 *)
LEMMA SatisfiedIsMatched ==
  ASSUME NEW S, NEW s \in Seq(S), NEW T, NEW d \in Seq(T), KeyedOnce(d),
         \A j \in DOMAIN d : \E i \in DOMAIN s : PropertyEqual(s[i], d[j])
  PROVE  Matches(s, d)
<1> DEFINE M == Matched(s, d)
           g == [j \in DOMAIN d |-> CHOOSE i \in DOMAIN s : PropertyEqual(s[i], d[j])]
<1>1. ASSUME NEW j \in DOMAIN d
      PROVE  g[j] \in DOMAIN s /\ PropertyEqual(s[g[j]], d[j])
  OBVIOUS
<1>2. g \in [DOMAIN d -> M]
  <2>1. ASSUME NEW j \in DOMAIN d PROVE g[j] \in M
    BY <1>1 DEF Matched
  <2> QED
    BY <2>1
<1> HIDE DEF g
<1>3. ASSUME NEW j \in DOMAIN d, NEW k \in DOMAIN d, g[j] = g[k] PROVE j = k
  <2>1. SameKey(d[j], d[k])
    BY <1>1, <1>3 DEF PropertyEqual, SameKey
  <2> QED
    BY <2>1 DEF KeyedOnce
<1>4. g \in Injection(DOMAIN d, M)
  BY <1>2, <1>3 DEF Injection, IsInjective
<1>5. IsFiniteSet(M) /\ Cardinality(M) \in Nat /\ Cardinality(DOMAIN d) = Len(d) /\ Len(d) \in Nat
  BY MatchedFinite, Places
<1>6. Cardinality(DOMAIN d) <= Cardinality(M)
  BY <1>4, <1>5, FS_Injection
<1> QED
  BY <1>5, <1>6 DEF Matches

(* The other way, for a node without repeated keys: no two of its properties     *)
(* satisfy the same one of the description, so if there are enough places, every *)
(* property of the description has one, and its key once.                        *)
LEMMA MatchedIsSatisfied ==
  ASSUME NEW S, NEW s \in Seq(S), NEW T, NEW d \in Seq(T), KeyedOnce(s), Matches(s, d)
  PROVE  /\ KeyedOnce(d)
         /\ \A j \in DOMAIN d : \E i \in DOMAIN s : PropertyEqual(s[i], d[j])
<1> DEFINE M == Matched(s, d)
           f == [i \in M |-> CHOOSE j \in DOMAIN d : PropertyEqual(s[i], d[j])]
<1>1. ASSUME NEW i \in M
      PROVE  i \in DOMAIN s /\ f[i] \in DOMAIN d /\ PropertyEqual(s[i], d[f[i]])
  BY DEF Matched
<1>2. f \in [M -> DOMAIN d]
  BY <1>1
<1> HIDE DEF f
<1>3. ASSUME NEW i \in M, NEW k \in M, SameKey(d[f[i]], d[f[k]]) PROVE i = k
  <2>1. SameKey(s[i], s[k])
    BY <1>1, <1>3 DEF PropertyEqual, SameKey
  <2> QED
    BY <2>1, <1>1 DEF KeyedOnce
<1>4. f \in Injection(M, DOMAIN d)
  BY <1>2, <1>3 DEF Injection, IsInjective, SameKey
<1>5. /\ Cardinality(M) \in Nat /\ Len(d) \in Nat
      /\ IsFiniteSet(DOMAIN d) /\ Cardinality(DOMAIN d) = Len(d)
  BY MatchedFinite, Places
<1>6. Cardinality(M) = Cardinality(DOMAIN d)
  <2>1. Cardinality(M) <= Cardinality(DOMAIN d)
    BY <1>4, <1>5, FS_Injection
  <2> QED
    BY <2>1, <1>5 DEF Matches
<1>7. f \in Surjection(M, DOMAIN d)
  BY <1>4, <1>5, <1>6, FS_Injection
<1>8. \A j \in DOMAIN d : \E i \in M : f[i] = j
  BY <1>7 DEF Surjection
<1>9. \A j \in DOMAIN d : \E i \in DOMAIN s : PropertyEqual(s[i], d[j])
  BY <1>1, <1>8
<1>10. KeyedOnce(d)
  BY <1>3, <1>8 DEF KeyedOnce
<1> QED
  BY <1>9, <1>10

--------------------------------------------------------------------------------
(* Both are built of what they may have. *)
LEMMA AlwaysSequences == Spec => []Built
<1>1. Init => Built
  BY DEF Init, Built
<1>2. Built /\ [Next]_<<props, desc>> => Built'
  <2> SUFFICES ASSUME Built, [Next]_<<props, desc>> PROVE Built'
    OBVIOUS
  <2>1. CASE UNCHANGED <<props, desc>>
    BY <2>1 DEF Built
  <2>2. ASSUME NEW p \in Stored, Store(p) PROVE Built'
    <3>1. <<p>> \o props \in Seq(Stored)
      BY DEF Built
    <3> QED
      BY <2>2, <3>1 DEF Built, Store
  <2>3. ASSUME NEW q \in Wanted, Want(q) PROVE Built'
    <3>1. Append(desc, q) \in Seq(Wanted)
      BY DEF Built
    <3> QED
      BY <2>3, <3>1 DEF Built, Want
  <2> QED
    BY <2>1, <2>2, <2>3 DEF Next
<1> QED
  BY <1>1, <1>2, PTL DEF Spec

(* However long the node and the description are, nodes_equal takes the node for *)
(* the description exactly if each property asked for is there, provided that    *)
(* the node has no key twice: its counter never stands for the wrong number.     *)
THEOREM MatchAlwaysExact == Spec => []MatchExact
<1>1. Built => MatchExact
  BY SatisfiedIsMatched, MatchedIsSatisfied DEF Built, MatchExact
<1> QED
  BY <1>1, AlwaysSequences, PTL

(* Whatever a node is added with, find_node's comparison finds it by that again. *)
THEOREM AlwaysFoundByItself == Spec => []FoundByItself
<1>1. ASSUME Built PROVE FoundByItself
  <2>1. ASSUME NEW i \in DOMAIN props PROVE PropertyEqual(props[i], Asked(props[i], "EQUAL"))
    <3>1. props[i].val \in Int
      BY <1>1, StoredAssumption DEF Built
    <3>2. Near(props[i].val, props[i].val)
      BY <3>1, PrecisionAssumption DEF Near
    <3> QED
      BY <3>2 DEF PropertyEqual, SameKey, Compare, SameValue, Asked
  <2>2. /\ props \in Seq(Stored) /\ Len(props) \in Nat /\ DOMAIN props = 1 .. Len(props)
        /\ Cardinality(DOMAIN props) = Len(props)
    BY <1>1, Places DEF Built
  <2>3. DOMAIN OwnDescription = DOMAIN props /\ Len(OwnDescription) = Len(props)
    BY <2>2 DEF OwnDescription
  <2>4. Matched(props, OwnDescription) = DOMAIN props
    BY <2>1, <2>3 DEF Matched, OwnDescription
  <2> QED
    BY <2>2, <2>3, <2>4 DEF FoundByItself, Matches
<1> QED
  BY <1>1, AlwaysSequences, PTL
================================================================================
