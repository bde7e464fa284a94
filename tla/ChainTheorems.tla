------------------------------ MODULE ChainTheorems ------------------------------
(* Theorems about Chains: what a loop that follows a list meets and takes from   *)
(* it, for lists of any length, by induction on the number of steps.             *)
EXTENDS Chains, SequencesExt, FiniteSetTheorems, SequenceTheorems, TLAPS

(* Induction over the natural numbers, for a set instead of a predicate: a set    *)
(* that holds 0 and with every number the next one holds them all.               *)
LEMMA Induct ==
  ASSUME NEW S, 0 \in S, \A n \in Nat : n \in S => n + 1 \in S
  PROVE  Nat \subseteq S
<1> DEFINE T == Nat \ S
           R == OpToRel(<, Nat)
<1> SUFFICES ASSUME T # {} PROVE FALSE
  OBVIOUS
<1>1. IsWellFoundedOn(R, Nat)
  BY NatLessThanWellFounded
<1>2. \A x, y \in Nat : y < x => <<y, x>> \in R
  BY DEF OpToRel
<1> HIDE DEF R
<1>3. T \subseteq Nat
  OBVIOUS
<1>4. PICK x \in T : \A y \in T : <<y, x>> \notin R
  BY <1>1, <1>3, WFMin
<1>5. x # 0 /\ x \in Nat /\ x - 1 \in Nat /\ x - 1 < x
  OBVIOUS
<1>6. x - 1 \in S
  BY <1>2, <1>4, <1>5
<1> QED
  BY <1>5, <1>6

(* Recursion: what n turns of a step make of s0, ...                             *)
Iterates(S, s0, step, n) ==
  {g \in [0 .. n -> S] : g[0] = s0 /\ \A i \in 0 .. n - 1 : g[i + 1] = step[g[i]]}

(* ... which does not depend on how many more turns are taken, ...               *)
LEMMA IteratesAgree ==
  ASSUME NEW S, NEW s0 \in S, NEW step \in [S -> S], NEW m \in Nat, NEW n \in Nat,
         NEW g \in Iterates(S, s0, step, m), NEW h \in Iterates(S, s0, step, n),
         NEW i \in Nat, i <= m, i <= n
  PROVE  g[i] = h[i]
<1> DEFINE A == {j \in Nat : j <= m /\ j <= n => g[j] = h[j]}
<1>1. 0 \in A
  BY DEF Iterates
<1>2. ASSUME NEW j \in Nat, j \in A PROVE j + 1 \in A
  <2>1. CASE j + 1 <= m /\ j + 1 <= n
    BY <1>2, <2>1 DEF Iterates
  <2> QED
    BY <2>1
<1> HIDE DEF A
<1>3. Nat \subseteq A
  BY <1>1, <1>2, Induct
<1> QED
  BY <1>3 DEF A

(* ... is defined for every number of turns, ...                                 *)
LEMMA IteratesExist ==
  ASSUME NEW S, NEW s0 \in S, NEW step \in [S -> S], NEW n \in Nat
  PROVE  Iterates(S, s0, step, n) # {}
<1> DEFINE A == {j \in Nat : Iterates(S, s0, step, j) # {}}
<1>1. 0 \in A
  <2>1. [i \in 0 .. 0 |-> s0] \in Iterates(S, s0, step, 0)
    BY DEF Iterates
  <2> QED
    BY <2>1
<1>2. ASSUME NEW j \in Nat, j \in A PROVE j + 1 \in A
  <2>1. PICK g \in Iterates(S, s0, step, j) : TRUE
    BY <1>2
  <2> DEFINE h == [i \in 0 .. j + 1 |-> IF i = j + 1 THEN step[g[j]] ELSE g[i]]
  <2>2. g \in [0 .. j -> S] /\ g[0] = s0 /\ \A i \in 0 .. j - 1 : g[i + 1] = step[g[i]]
    BY <2>1 DEF Iterates
  <2>3. h \in [0 .. j + 1 -> S] /\ h[0] = s0
    BY <2>2
  <2>4. ASSUME NEW i \in 0 .. j PROVE h[i + 1] = step[h[i]]
    BY <2>2
  <2>5. h \in Iterates(S, s0, step, j + 1)
    BY <2>3, <2>4 DEF Iterates
  <2> QED
    BY <2>5
<1> HIDE DEF A
<1>3. Nat \subseteq A
  BY <1>1, <1>2, Induct
<1> QED
  BY <1>3 DEF A

(* ... and so there is a function that takes any number of turns.                *)
Iterations(S, s0, step) ==
  {f \in [Nat -> S] : f[0] = s0 /\ \A n \in Nat : f[n + 1] = step[f[n]]}

(* A step can be repeated any number of times.                                   *)
LEMMA IterationExists ==
  ASSUME NEW S, NEW s0 \in S, NEW step \in [S -> S]
  PROVE  Iterations(S, s0, step) # {}
<1> DEFINE It(n) == Iterates(S, s0, step, n)
           G(n) == CHOOSE g \in It(n) : TRUE
           f == [n \in Nat |-> G(n)[n]]
<1>1. ASSUME NEW n \in Nat PROVE G(n) \in It(n)
  BY IteratesExist
<1> HIDE DEF G
<1>2. f \in [Nat -> S]
  BY <1>1 DEF Iterates
<1>3. f[0] = s0
  BY <1>1 DEF Iterates
<1>4. ASSUME NEW n \in Nat PROVE f[n + 1] = step[f[n]]
  <2>1. G(n)[n] = G(n + 1)[n]
    BY <1>1, IteratesAgree
  <2>2. G(n + 1)[n + 1] = step[G(n + 1)[n]]
    BY <1>1 DEF Iterates
  <2> QED
    BY <2>1, <2>2
<1> QED
  BY <1>2, <1>3, <1>4 DEF Iterations


--------------------------------------------------------------------------------
(* What Walk is chosen to be. *)
IsWalk(link, item, w) ==
  w = [left \in Nat |->
        [x \in DOMAIN link |->
           IF x = 0 \/ left = 0 THEN <<>> ELSE item[x] \o w[left - 1][link[x]]]]

(* There is a function with the recursive definition of Walk: the walks of one   *)
(* more step are made from those of one step fewer, for all addresses at once.   *)
LEMMA WalkExists ==
  ASSUME NEW X, NEW link \in [X -> X], NEW T, NEW item \in [X -> Seq(T)]
  PROVE  \E w \in [Nat -> [X -> Seq(T)]] : IsWalk(link, item, w)
<1> DEFINE S == [X -> Seq(T)]
           s0 == [x \in X |-> <<>>]
           turn(s, x) == IF x = 0 THEN <<>> ELSE item[x] \o s[link[x]]
           step == [s \in S |-> [x \in X |-> turn(s, x)]]
<1>1. s0 \in S /\ \A x \in X : s0[x] = <<>>
  OBVIOUS
<1>2. step \in [S -> S]
  <2>1. ASSUME NEW s \in S, NEW x \in X PROVE turn(s, x) \in Seq(T)
    <3>1. item[x] \in Seq(T) /\ s[link[x]] \in Seq(T)
      OBVIOUS
    <3> QED
      BY <3>1
  <2> HIDE DEF turn
  <2> QED
    BY <2>1
<1>3. \A s \in S : \A x \in X : step[s][x] = turn(s, x)
  OBVIOUS
<1> HIDE DEF step, S, s0
<1>4. PICK f \in Iterations(S, s0, step) : TRUE
  BY <1>1, <1>2, IterationExists
<1>5. f \in [Nat -> S] /\ f[0] = s0 /\ \A n \in Nat : f[n + 1] = step[f[n]]
  BY <1>4 DEF Iterations
<1>6. ASSUME NEW n \in Nat PROVE f[n] \in S /\ f[n] \in [X -> Seq(T)]
  BY <1>5 DEF S
<1>7. ASSUME NEW left \in Nat, NEW x \in X
      PROVE  f[left][x] = IF x = 0 \/ left = 0 THEN <<>> ELSE item[x] \o f[left - 1][link[x]]
  <2>1. CASE left = 0
    BY <1>1, <1>5, <2>1
  <2>2. CASE left # 0
    <3>1. left - 1 \in Nat /\ (left - 1) + 1 = left
      BY <2>2
    <3>2. f[left] = step[f[left - 1]]
      BY <1>5, <3>1
    <3> QED
      BY <1>3, <1>6, <2>2, <3>1, <3>2
  <2> QED
    BY <2>1, <2>2
<1>8. ASSUME NEW left \in Nat
      PROVE  f[left] = [x \in X |-> IF x = 0 \/ left = 0 THEN <<>>
                                    ELSE item[x] \o f[left - 1][link[x]]]
  BY <1>6, <1>7
<1>9. f = [left \in Nat |-> [x \in X |-> IF x = 0 \/ left = 0 THEN <<>>
                                         ELSE item[x] \o f[left - 1][link[x]]]]
  BY <1>8, <1>5
<1> QED
  BY <1>6, <1>9 DEF IsWalk

(* The recursion that defines Walk has a solution, for links that stay among *)
(* the addresses. *)
LEMMA WalkIs ==
  ASSUME NEW X, NEW link \in [X -> X], NEW T, NEW item \in [X -> Seq(T)]
  PROVE  IsWalk(link, item, Walk(link, item))
<1>1. PICK w : IsWalk(link, item, w)
  BY WalkExists
<1>2. Walk(link, item) = CHOOSE v : IsWalk(link, item, v)
  BY DEF Walk, IsWalk
<1> QED
  BY <1>1, <1>2

(* Every record leads to a record, or nowhere, ... *)
Closed(link) ==
  /\ IsFiniteSet(DOMAIN link) /\ 0 \in DOMAIN link
  /\ link \in [DOMAIN link -> DOMAIN link]

(* ... and what is taken from one is a sequence. *)
Items(item, link, T) == item \in [DOMAIN link -> Seq(T)]

(* The equations of a walk. *)
Follows(w, link, item) ==
  /\ \A n \in Nat, x \in DOMAIN link : x = 0 \/ n = 0 => w[n][x] = <<>>
  /\ \A n \in Nat, x \in DOMAIN link : x # 0 => w[n + 1][x] = item[x] \o w[n][link[x]]

(* Walk satisfies its equations. *)
LEMMA WalkEquation ==
  ASSUME NEW link, NEW item, NEW T, Closed(link), Items(item, link, T)
  PROVE  Follows(Walk(link, item), link, item)
<1> DEFINE w == Walk(link, item)
           X == DOMAIN link
<1>1. link \in [X -> X] /\ item \in [X -> Seq(T)]
  BY DEF Closed, Items
<1>2. PICK v \in [Nat -> [X -> Seq(T)]] : IsWalk(link, item, v)
  BY <1>1, WalkExists
<1>3. w = CHOOSE u : IsWalk(link, item, u)
  BY DEF Walk, IsWalk
<1>4. IsWalk(link, item, w)
  BY <1>2, <1>3
<1> HIDE DEF w
<1>5. \A n \in Nat, x \in X :
        w[n][x] = IF x = 0 \/ n = 0 THEN <<>> ELSE item[x] \o w[n - 1][link[x]]
  <2> TAKE n \in Nat, x \in X
  <2>1. w[n] = [y \in X |-> IF y = 0 \/ n = 0 THEN <<>> ELSE item[y] \o w[n - 1][link[y]]]
    BY <1>4 DEF IsWalk
  <2> QED
    BY <2>1
<1>6. \A n \in Nat, x \in X : x # 0 => w[n + 1][x] = item[x] \o w[n][link[x]]
  <2> TAKE n \in Nat, x \in X
  <2>1. n + 1 \in Nat /\ n + 1 # 0 /\ (n + 1) - 1 = n
    OBVIOUS
  <2> QED
    BY <1>5, <2>1
<1> QED
  BY <1>5, <1>6 DEF w, Follows

--------------------------------------------------------------------------------
(* s is the way from a to the end of its list: it meets no record twice.         *)
Leads(link, a, s) ==
  /\ s \in Seq(DOMAIN link \ {0})
  /\ Len(s) = 0 => a = 0
  /\ Len(s) # 0 => s[1] = a /\ link[s[Len(s)]] = 0
  /\ \A i \in 1 .. Len(s) - 1 : link[s[i]] = s[i + 1]
  /\ \A i, j \in 1 .. Len(s) : s[i] = s[j] => i = j

(* From nowhere there is the empty way, and no other. *)
LEMMA LeadsNowhere ==
  ASSUME NEW link PROVE Leads(link, 0, <<>>) /\ \A s : Leads(link, 0, s) => s = <<>>
BY DEF Leads

(* A way meets only records of the file, the first one at a. *)
LEMMA LeadsOn ==
  ASSUME NEW link, NEW a, NEW s, Leads(link, a, s)
  PROVE  /\ s \in Seq(DOMAIN link) /\ Len(s) \in Nat
         /\ ToSet(s) = {s[i] : i \in 1 .. Len(s)}
         /\ ToSet(s) \subseteq DOMAIN link \ {0}
         /\ a = 0 <=> s = <<>>
         /\ a # 0 => a = s[1] /\ a \in ToSet(s)
BY DEF Leads, ToSet

(* The way from the record after a is the rest of the way from a. *)
LEMMA LeadsPop ==
  ASSUME NEW link, NEW a, NEW s, Leads(link, a, s), a # 0
  PROVE  /\ Leads(link, link[a], Tail(s))
         /\ s = <<a>> \o Tail(s)
         /\ \A b : b \in ToSet(s) <=> b = a \/ b \in ToSet(Tail(s))
         /\ a \notin ToSet(Tail(s))
         /\ Len(s) \in Nat /\ Len(Tail(s)) = Len(s) - 1
<1> DEFINE t == Tail(s)
           X == DOMAIN link \ {0}
<1>1. s \in Seq(X) /\ Len(s) \in Nat \ {0} /\ s[1] = a
  BY DEF Leads
<1>2. t \in Seq(X) /\ Len(t) = Len(s) - 1 /\ \A i \in 1 .. Len(t) : t[i] = s[i + 1]
  BY <1>1
<1> HIDE DEF t
<1>3. link[s[Len(s)]] = 0 /\ \A i \in 1 .. Len(s) - 1 : link[s[i]] = s[i + 1]
  BY <1>1 DEF Leads
<1>4. \A i, j \in 1 .. Len(s) : s[i] = s[j] => i = j
  BY DEF Leads
<1>5. Len(t) = 0 => link[a] = 0
  <2> HAVE Len(t) = 0
  <2>1. Len(s) = 1
    BY <1>1, <1>2
  <2> QED
    BY <1>1, <1>3, <2>1
<1>6. Len(t) # 0 => t[1] = link[a] /\ link[t[Len(t)]] = 0
  BY <1>1, <1>2, <1>3
<1>7. \A i \in 1 .. Len(t) - 1 : link[t[i]] = t[i + 1]
  BY <1>1, <1>2, <1>3
<1>8. \A i, j \in 1 .. Len(t) : t[i] = t[j] => i = j
  <2> TAKE i, j \in 1 .. Len(t)
  <2>1. i + 1 \in 1 .. Len(s) /\ j + 1 \in 1 .. Len(s) /\ t[i] = s[i + 1] /\ t[j] = s[j + 1]
    BY <1>1, <1>2
  <2> HAVE t[i] = t[j]
  <2>2. i + 1 = j + 1
    BY <1>4, <2>1
  <2> QED
    BY <2>2
<1>9. Leads(link, link[a], t)
  BY <1>2, <1>5, <1>6, <1>7, <1>8 DEF Leads
<1>10. s = <<a>> \o t
  BY <1>1 DEF t
<1>11. ToSet(s) = {a} \cup ToSet(t)
  <2>1. \A i \in 1 .. Len(s) : i = 1 \/ (i - 1 \in 1 .. Len(t) /\ s[i] = t[i - 1])
    BY <1>1, <1>2
  <2>2. \A i \in 1 .. Len(t) : i + 1 \in 1 .. Len(s) /\ t[i] = s[i + 1]
    BY <1>1, <1>2
  <2>3. DOMAIN s = 1 .. Len(s) /\ DOMAIN t = 1 .. Len(t)
    BY <1>1, <1>2
  <2>4. 1 \in 1 .. Len(s)
    BY <1>1
  <2>5. ToSet(s) = {s[i] : i \in 1 .. Len(s)} /\ ToSet(t) = {t[i] : i \in 1 .. Len(t)}
    BY <2>3 DEF ToSet
  <2>6. ToSet(s) \subseteq {a} \cup ToSet(t)
    BY <1>1, <2>1, <2>5
  <2>7. {a} \cup ToSet(t) \subseteq ToSet(s)
    BY <1>1, <2>2, <2>4, <2>5
  <2> QED
    BY <2>6, <2>7
<1>12. a \notin ToSet(t)
  <2>1. \A i \in 1 .. Len(t) : i + 1 \in 1 .. Len(s) /\ i + 1 # 1 /\ t[i] = s[i + 1]
    BY <1>1, <1>2
  <2>2. 1 \in 1 .. Len(s) /\ DOMAIN t = 1 .. Len(t)
    BY <1>1, <1>2
  <2> QED
    BY <1>1, <1>4, <2>1, <2>2 DEF ToSet
<1> QED
  BY <1>1, <1>2, <1>9, <1>10, <1>11, <1>12 DEF t

(* A record put in front of a way it is not on makes the way longer. *)
LEMMA LeadsPush ==
  ASSUME NEW link, NEW a \in DOMAIN link \ {0}, NEW t, Leads(link, link[a], t), a \notin ToSet(t)
  PROVE  Leads(link, a, <<a>> \o t)
<1> DEFINE X == DOMAIN link \ {0}
           s == <<a>> \o t
<1>1. t \in Seq(X) /\ Len(t) \in Nat /\ DOMAIN t = 1 .. Len(t) /\ <<a>> \in Seq(X)
  BY DEF Leads
<1>2. s \in Seq(X) /\ Len(s) = Len(t) + 1 /\ s[1] = a /\ \A i \in 1 .. Len(t) : s[i + 1] = t[i]
  BY <1>1
<1> HIDE DEF s
<1>3. \A i \in 1 .. Len(s) : i = 1 \/ (i - 1 \in 1 .. Len(t) /\ s[i] = t[i - 1])
  <2> TAKE i \in 1 .. Len(s)
  <2>1. i # 1 => i - 1 \in 1 .. Len(t) /\ (i - 1) + 1 = i
    BY <1>1, <1>2
  <2> QED
    BY <1>2, <2>1
<1>4. \A i \in 1 .. Len(s) - 1 : link[s[i]] = s[i + 1]
  <2> TAKE i \in 1 .. Len(s) - 1
  <2>1. CASE i = 1
    <3>1. Len(t) # 0 /\ s[2] = t[1]
      BY <1>1, <1>2, <2>1
    <3> QED
      BY <1>2, <2>1, <3>1 DEF Leads
  <2>2. CASE i # 1
    <3>1. i - 1 \in 1 .. Len(t) - 1 /\ s[i] = t[i - 1] /\ s[i + 1] = t[i] /\ (i - 1) + 1 = i
      BY <1>1, <1>2, <1>3, <2>2
    <3>2. link[t[i - 1]] = t[(i - 1) + 1]
      BY <3>1 DEF Leads
    <3> QED
      BY <3>1, <3>2
  <2> QED
    BY <2>1, <2>2
<1>5. link[s[Len(s)]] = 0
  <2>1. CASE Len(t) = 0
    BY <1>2, <2>1 DEF Leads
  <2>2. CASE Len(t) # 0
    <3>1. s[Len(s)] = t[Len(t)]
      BY <1>1, <1>2, <2>2
    <3> QED
      BY <2>2, <3>1 DEF Leads
  <2> QED
    BY <2>1, <2>2
<1>6. \A i \in 1 .. Len(t) : t[i] # a
  BY <1>1 DEF ToSet
<1>7. \A i, j \in 1 .. Len(t) : t[i] = t[j] => i = j
  BY DEF Leads
<1>8. \A i, j \in 1 .. Len(s) : s[i] = s[j] => i = j
  <2> TAKE i, j \in 1 .. Len(s)
  <2>1. CASE i = 1 \/ j = 1
    BY <1>2, <1>3, <1>6, <2>1
  <2>2. CASE i # 1 /\ j # 1
    <3>1. i - 1 \in 1 .. Len(t) /\ s[i] = t[i - 1] /\ j - 1 \in 1 .. Len(t) /\ s[j] = t[j - 1]
      BY <1>3, <2>2
    <3>2. s[i] = s[j] => i - 1 = j - 1
      BY <1>7, <3>1
    <3> QED
      BY <1>2, <3>2
  <2> QED
    BY <2>1, <2>2
<1> QED
  <2>1. Leads(link, a, s)
    BY <1>1, <1>2, <1>4, <1>5, <1>8 DEF Leads
  <2> QED
    BY <2>1 DEF s

(* A way does not change when the records on it do not. *)
LEMMA LeadsFrame ==
  ASSUME NEW link, NEW other, NEW a, NEW s, Leads(link, a, s),
         \A b \in ToSet(s) : b \in DOMAIN other /\ other[b] = link[b]
  PROVE  Leads(other, a, s)
<1>1. s \in Seq(DOMAIN link \ {0}) /\ Len(s) \in Nat /\ DOMAIN s = 1 .. Len(s)
  BY DEF Leads
<1>2. \A i \in 1 .. Len(s) : s[i] \in DOMAIN other \ {0} /\ other[s[i]] = link[s[i]]
  BY <1>1 DEF ToSet
<1>3. s \in Seq(DOMAIN other \ {0})
  BY <1>1, <1>2
<1> QED
  BY <1>2, <1>3 DEF Leads

(* A way is not longer than there are records. *)
LEMMA LeadsLength ==
  ASSUME NEW link, NEW a, NEW s, Leads(link, a, s), IsFiniteSet(DOMAIN link)
  PROVE  Len(s) \in Nat /\ Cardinality(DOMAIN link) \in Nat /\ Len(s) <= Cardinality(DOMAIN link)
<1> DEFINE X == DOMAIN link
<1>1. Len(s) \in Nat /\ s \in [1 .. Len(s) -> X] /\ \A i, j \in 1 .. Len(s) : s[i] = s[j] => i = j
  BY DEF Leads
<1>2. s \in Injection(1 .. Len(s), X)
  BY <1>1 DEF Injection, IsInjective
<1>3. Cardinality(1 .. Len(s)) <= Cardinality(X)
  BY <1>2, FS_Injection
<1>4. Cardinality(1 .. Len(s)) = Len(s)
  <2> DEFINE n == Len(s)
  <2>1. 1 \in Int /\ n \in Int /\ n >= 0
    BY <1>1
  <2> HIDE DEF n
  <2>2. Cardinality(1 .. n) = IF 1 > n THEN 0 ELSE n - 1 + 1
    BY <2>1, FS_Interval
  <2>3. Cardinality(1 .. n) = n
    BY <2>1, <2>2
  <2> QED
    BY <2>3 DEF n
<1> QED
  BY <1>1, <1>3, <1>4, FS_CardinalityType

--------------------------------------------------------------------------------
(* A walk that gets to the end of its list takes the same from equal records,     *)
(* however many more steps it may take.                                          *)
LEMMA WalkFrame ==
  ASSUME NEW T, NEW link, NEW item, Closed(link), Items(item, link, T),
         NEW other, NEW kept, Closed(other), Items(kept, other, T),
         NEW a, NEW s, Leads(link, a, s),
         \A b \in ToSet(s) : b \in DOMAIN other /\ other[b] = link[b] /\ kept[b] = item[b],
         NEW n \in Nat, NEW m \in Nat, Len(s) <= n, Len(s) <= m
  PROVE  Walk(link, item)[n][a] = Walk(other, kept)[m][a]
<1> DEFINE X == DOMAIN link
           Y == DOMAIN other
           w == Walk(link, item)
           v == Walk(other, kept)
           Fits(l, x, t) ==
             /\ Leads(link, x, t) /\ Len(t) <= l
             /\ \A b \in ToSet(t) : b \in Y /\ other[b] = link[b] /\ kept[b] = item[b]
           A == {k \in Nat : \A l \in Nat : \A x \in X : \A t \in Seq(X) :
                               Fits(k, x, t) /\ Fits(l, x, t) => w[k][x] = v[l][x]}
<1>1. Follows(w, link, item) /\ Follows(v, other, kept)
  BY WalkEquation
<1> HIDE DEF w, v
<1>2. /\ \A k \in Nat, x \in X : x = 0 \/ k = 0 => w[k][x] = <<>>
      /\ \A k \in Nat, x \in X : x # 0 => w[k + 1][x] = item[x] \o w[k][link[x]]
  BY <1>1 DEF Follows
<1>3. /\ \A k \in Nat, x \in Y : x = 0 \/ k = 0 => v[k][x] = <<>>
      /\ \A k \in Nat, x \in Y : x # 0 => v[k + 1][x] = kept[x] \o v[k][other[x]]
  BY <1>1 DEF Follows
<1>4. 0 \in X /\ 0 \in Y /\ \A x \in X : link[x] \in X
  BY DEF Closed
<1>5. 0 \in A
  <2> SUFFICES ASSUME NEW l \in Nat, NEW x \in X, NEW t \in Seq(X), Fits(0, x, t)
               PROVE  w[0][x] = v[l][x]
    OBVIOUS
  <2>1. Len(t) = 0 /\ x = 0
    BY LeadsOn DEF Leads
  <2> QED
    BY <1>2, <1>3, <1>4, <2>1
<1>6. ASSUME NEW k \in Nat, k \in A PROVE k + 1 \in A
  <2> SUFFICES ASSUME NEW l \in Nat, NEW x \in X, NEW t \in Seq(X), Fits(k + 1, x, t), Fits(l, x, t)
               PROVE  w[k + 1][x] = v[l][x]
    OBVIOUS
  <2> HIDE DEF Fits, A
  <2>1. CASE x = 0
    BY <1>2, <1>3, <1>4, <2>1
  <2>2. CASE x # 0
    <3> DEFINE u == Tail(t)
    <3>1. Leads(link, x, t)
      BY DEF Fits
    <3>2. /\ Leads(link, link[x], u) /\ x \in ToSet(t) /\ ToSet(u) \subseteq ToSet(t)
          /\ Len(t) \in Nat /\ Len(u) = Len(t) - 1
      <4>1. Leads(link, link[x], u)
        BY <2>2, <3>1, LeadsPop
      <4>2. x \in ToSet(t) /\ ToSet(u) \subseteq ToSet(t)
        BY <2>2, <3>1, LeadsPop
      <4>3. Len(t) \in Nat /\ Len(u) = Len(t) - 1
        BY <2>2, <3>1, LeadsPop
      <4> QED
        BY <4>1, <4>2, <4>3
    <3>3. u \in Seq(X) /\ Len(u) \in Nat /\ link[x] \in X
      BY <1>4, <3>2, LeadsOn
    <3> HIDE DEF u
    <3>4. Len(u) <= k /\ l - 1 \in Nat /\ Len(u) <= l - 1 /\ (l - 1) + 1 = l
      BY <3>2, <3>3 DEF Fits
    <3>5. Fits(k, link[x], u) /\ Fits(l - 1, link[x], u)
      BY <3>2, <3>4 DEF Fits
    <3>6. w[k][link[x]] = v[l - 1][link[x]]
      BY <1>6, <3>3, <3>4, <3>5 DEF A
    <3>7. x \in Y /\ other[x] = link[x] /\ kept[x] = item[x]
      BY <3>2 DEF Fits
    <3>8. w[k + 1][x] = item[x] \o w[k][link[x]]
      BY <1>2, <2>2
    <3>9. v[(l - 1) + 1][x] = kept[x] \o v[l - 1][other[x]]
      BY <1>3, <2>2, <3>4, <3>7
    <3> QED
      BY <3>4, <3>6, <3>7, <3>8, <3>9
  <2> QED
    BY <2>1, <2>2
<1>7. a \in X /\ s \in Seq(X) /\ Fits(n, a, s) /\ Fits(m, a, s)
  BY <1>4, LeadsOn
<1> HIDE DEF A
<1>8. Nat \subseteq A
  BY <1>5, <1>6, Induct
<1>9. w[n][a] = v[m][a]
  BY <1>7, <1>8 DEF A
<1> QED
  BY <1>9 DEF w, v

(* What is gathered along a list does not change when the records on it do not.  *)
LEMMA GatherFrame ==
  ASSUME NEW T, NEW link, NEW item, Closed(link), Items(item, link, T),
         NEW other, NEW kept, Closed(other), Items(kept, other, T),
         NEW a, NEW s, Leads(link, a, s),
         \A b \in ToSet(s) : b \in DOMAIN other /\ other[b] = link[b] /\ kept[b] = item[b]
  PROVE  Gather(other, kept, a) = Gather(link, item, a)
<1> DEFINE n == Cardinality(DOMAIN link)
           m == Cardinality(DOMAIN other)
<1>1. Leads(other, a, s)
  BY LeadsFrame
<1>2. n \in Nat /\ Len(s) <= n /\ m \in Nat /\ Len(s) <= m
  BY <1>1, LeadsLength DEF Closed
<1> HIDE DEF n, m
<1>3. Walk(link, item)[n][a] = Walk(other, kept)[m][a]
  BY <1>2, WalkFrame
<1> QED
  BY <1>3 DEF Gather, n, m

(* From nowhere there is nothing to gather. *)
LEMMA GatherNowhere ==
  ASSUME NEW T, NEW link, NEW item, Closed(link), Items(item, link, T)
  PROVE  Gather(link, item, 0) = <<>>
<1>1. Cardinality(DOMAIN link) \in Nat /\ 0 \in DOMAIN link
  BY FS_CardinalityType DEF Closed
<1>2. Follows(Walk(link, item), link, item)
  BY WalkEquation
<1> QED
  BY <1>1, <1>2 DEF Gather, Follows

(* What is gathered from a on is what is taken there and what is gathered from   *)
(* the next record on.                                                           *)
LEMMA GatherStep ==
  ASSUME NEW T, NEW link, NEW item, Closed(link), Items(item, link, T),
         NEW a, NEW s, Leads(link, a, s), a # 0
  PROVE  Gather(link, item, a) = item[a] \o Gather(link, item, link[a])
<1> DEFINE w == Walk(link, item)
           n == Cardinality(DOMAIN link)
           u == Tail(s)
<1>1. Leads(link, link[a], u) /\ Len(s) \in Nat /\ Len(u) = Len(s) - 1
  BY LeadsPop
<1>2. n \in Nat /\ Len(s) <= n
  BY LeadsLength DEF Closed
<1>3. Len(u) \in Nat
  BY <1>1, LeadsOn
<1> HIDE DEF u, n
<1>4. n - 1 \in Nat /\ (n - 1) + 1 = n /\ Len(u) <= n - 1 /\ Len(u) <= n
  BY <1>1, <1>2, <1>3
<1>5. a \in DOMAIN link /\ ToSet(u) \subseteq DOMAIN link
  BY <1>1, LeadsOn
<1>6. w[(n - 1) + 1][a] = item[a] \o w[n - 1][link[a]]
  BY <1>4, <1>5, WalkEquation DEF Follows
<1>7. w[n - 1][link[a]] = w[n][link[a]]
  BY <1>1, <1>2, <1>4, <1>5, WalkFrame
<1> QED
  BY <1>4, <1>6, <1>7 DEF Gather, n

(* One thing is taken from each of the first records of s, and none from others. *)
Takes(item, s, v) ==
  /\ Len(v) <= Len(s)
  /\ \A i \in 1 .. Len(s) : item[s[i]] = IF i <= Len(v) THEN <<v[i]>> ELSE <<>>

(* What is gathered along a way to the end is what its records have.             *)
LEMMA GatherIs ==
  ASSUME NEW T, NEW link, NEW item, Closed(link), Items(item, link, T),
         NEW a, NEW s, Leads(link, a, s), NEW v \in Seq(T), Takes(item, s, v)
  PROVE  Gather(link, item, a) = v
<1> DEFINE X == DOMAIN link
           A == {k \in Nat : \A x \in X : \A t \in Seq(X) : \A u \in Seq(T) :
                   Leads(link, x, t) /\ Len(t) = k /\ Takes(item, t, u) => Gather(link, item, x) = u}
<1>1. 0 \in X /\ \A x \in X : link[x] \in X
  BY DEF Closed
<1>2. 0 \in A
  <2> SUFFICES ASSUME NEW x \in X, NEW t \in Seq(X), NEW u \in Seq(T),
                      Leads(link, x, t), Len(t) = 0, Takes(item, t, u)
               PROVE  Gather(link, item, x) = u
    OBVIOUS
  <2>1. t = <<>> /\ x = 0
    BY DEF Leads
  <2>2. u = <<>>
    BY DEF Takes
  <2> QED
    BY <2>1, <2>2, GatherNowhere
<1>3. ASSUME NEW k \in Nat, k \in A PROVE k + 1 \in A
  <2> SUFFICES ASSUME NEW x \in X, NEW t \in Seq(X), NEW u \in Seq(T),
                      Leads(link, x, t), Len(t) = k + 1, Takes(item, t, u)
               PROVE  Gather(link, item, x) = u
    OBVIOUS
  <2> DEFINE r == Tail(t)
             w == IF u = <<>> THEN <<>> ELSE Tail(u)
  <2>1. x # 0
    BY LeadsOn DEF Leads
  <2>2. Leads(link, link[x], r) /\ t = <<x>> \o r /\ Len(r) = k
    BY <2>1, LeadsPop
  <2>3. t[1] = x /\ \A i \in 1 .. k : r[i] = t[i + 1]
    BY <2>2
  <2> HIDE DEF r
  <2>4. r \in Seq(X) /\ link[x] \in X
    BY <1>1, <2>2, LeadsOn
  <2>5. /\ w \in Seq(T) /\ Len(w) = (IF Len(u) = 0 THEN 0 ELSE Len(u) - 1) /\ Len(u) \in Nat
        /\ \A i \in 1 .. Len(w) : w[i] = u[i + 1]
        /\ u = IF Len(u) = 0 THEN w ELSE <<u[1]>> \o w
    <3>1. CASE u = <<>>
      BY <3>1
    <3>2. CASE u # <<>>
      BY <3>2
    <3> QED
      BY <3>1, <3>2
  <2> HIDE DEF w
  <2>6. Takes(item, r, w)
    <3>1. Len(w) <= Len(r)
      BY <2>2, <2>5 DEF Takes
    <3>2. ASSUME NEW i \in 1 .. Len(r)
          PROVE  item[r[i]] = IF i <= Len(w) THEN <<w[i]>> ELSE <<>>
      <4>1. i + 1 \in 1 .. Len(t) /\ r[i] = t[i + 1]
        BY <2>2, <2>3, <3>2
      <4>2. item[r[i]] = IF i + 1 <= Len(u) THEN <<u[i + 1]>> ELSE <<>>
        BY <4>1 DEF Takes
      <4>3. i + 1 <= Len(u) <=> i <= Len(w)
        BY <2>2, <2>5, <3>2
      <4>4. i <= Len(w) => w[i] = u[i + 1]
        BY <2>2, <2>5, <3>2
      <4> QED
        BY <4>2, <4>3, <4>4
    <3> QED
      BY <3>1, <3>2 DEF Takes
  <2>7. Gather(link, item, link[x]) = w
    BY <1>3, <2>2, <2>4, <2>5, <2>6
  <2>8. Gather(link, item, x) = item[x] \o Gather(link, item, link[x])
    <3> HIDE DEF X, A
    <3> QED
      BY <2>1, GatherStep
  <2>9. item[x] = IF Len(u) = 0 THEN <<>> ELSE <<u[1]>>
    <3>1. 1 \in 1 .. Len(t) /\ (1 <= Len(u) <=> Len(u) # 0)
      BY <2>5
    <3> QED
      BY <2>3, <3>1 DEF Takes
  <2> QED
    BY <2>5, <2>7, <2>8, <2>9
<1> HIDE DEF A
<1>4. Nat \subseteq A
  BY <1>2, <1>3, Induct
<1>5. a \in X /\ s \in Seq(X) /\ Len(s) \in Nat
  BY <1>1, LeadsOn
<1> HIDE DEF X
<1> QED
  BY <1>4, <1>5 DEF A

(* Chain is the way itself. *)
LEMMA ChainIs ==
  ASSUME NEW link, Closed(link), NEW a, NEW s, Leads(link, a, s)
  PROVE  Chain(link, a) = s
<1> DEFINE item == [b \in DOMAIN link |-> <<b>>]
<1>1. s \in Seq(DOMAIN link) /\ Len(s) \in Nat /\ \A i \in 1 .. Len(s) : s[i] \in DOMAIN link
  BY LeadsOn
<1>2. Items(item, link, DOMAIN link)
  <2>1. item \in [DOMAIN link -> Seq(DOMAIN link)]
    OBVIOUS
  <2> QED
    BY <2>1 DEF Items
<1>3. Takes(item, s, s)
  BY <1>1 DEF Takes
<1> HIDE DEF item
<1>4. Gather(link, item, a) = s
  BY <1>1, <1>2, <1>3, GatherIs
<1> QED
  BY <1>4 DEF Chain, item

(* A walk does not leave a set of records that no link but to 0 leads out of.    *)
LEMMA ChainWithin ==
  ASSUME NEW link, Closed(link), NEW S, S \subseteq DOMAIN link, 0 \notin S,
         \A x \in S : link[x] \in S \cup {0}, NEW a \in S \cup {0}
  PROVE  Chain(link, a) \in Seq(S)
<1> DEFINE X == DOMAIN link
           Z == S \cup {0}
           item == [x \in X |-> <<x>>]
           w == Walk(link, item)
           A == {n \in Nat : \A x \in Z : w[n][x] \in Seq(S)}
<1>1. item \in [X -> Seq(X)] /\ \A x \in X : item[x] = <<x>>
  OBVIOUS
<1>2. Items(item, link, X)
  BY <1>1 DEF Items
<1>3. /\ Z \subseteq X /\ \A x \in Z : x # 0 => x \in S /\ link[x] \in Z
      /\ a \in Z
  BY DEF Closed
<1> HIDE DEF item
<1>4. Follows(w, link, item)
  BY <1>2, WalkEquation
<1> HIDE DEF w
<1>5. \A n \in Nat, x \in X : x = 0 \/ n = 0 => w[n][x] = <<>>
  BY <1>4 DEF Follows
<1>6. \A n \in Nat, x \in X : x # 0 => w[n + 1][x] = item[x] \o w[n][link[x]]
  BY <1>4 DEF Follows
<1>7. \A x \in S : <<x>> \in Seq(S)
  OBVIOUS
<1>8. <<>> \in Seq(S)
  OBVIOUS
<1> HIDE DEF X, Z
<1>9. 0 \in A
  BY <1>3, <1>5, <1>8
<1>10. ASSUME NEW n \in Nat, n \in A PROVE n + 1 \in A
  <2> SUFFICES ASSUME NEW x \in Z PROVE w[n + 1][x] \in Seq(S)
    OBVIOUS
  <2>1. CASE x = 0
    <3>1. n + 1 \in Nat
      OBVIOUS
    <3>2. w[n + 1][x] = <<>>
      BY <1>3, <1>5, <2>1, <3>1
    <3> QED
      BY <1>8, <3>2
  <2>2. CASE x # 0
    <3>1. w[n + 1][x] = item[x] \o w[n][link[x]]
      BY <1>3, <1>6, <2>2
    <3>2. w[n][link[x]] \in Seq(S)
      BY <1>3, <1>10, <2>2
    <3>3. item[x] \in Seq(S)
      BY <1>1, <1>3, <1>7, <2>2
    <3> QED
      BY <3>1, <3>2, <3>3
  <2> QED
    BY <2>1, <2>2
<1> HIDE DEF A
<1>11. Nat \subseteq A
  BY <1>9, <1>10, Induct
<1>12. Cardinality(X) \in Nat
  BY FS_CardinalityType DEF Closed, X
<1>13. w[Cardinality(X)][a] \in Seq(S)
  BY <1>3, <1>11, <1>12 DEF A
<1> QED
  BY <1>13 DEF X, Chain, Gather, w, item

(* A walk meets no record at address 0, whatever the records lead to. *)
LEMMA ChainNotZero ==
  ASSUME NEW link, Closed(link), NEW a \in DOMAIN link
  PROVE  Chain(link, a) \in Seq(DOMAIN link \ {0})
<1> DEFINE S == DOMAIN link \ {0}
<1>1. S \subseteq DOMAIN link /\ 0 \notin S /\ a \in S \cup {0}
  OBVIOUS
<1>2. \A x \in S : link[x] \in S \cup {0}
  BY DEF Closed
<1> HIDE DEF S
<1>3. Chain(link, a) \in Seq(S)
  BY <1>1, <1>2, ChainWithin
<1> QED
  BY <1>3 DEF S
================================================================================
