-------------------------- MODULE QueryListenerProofs --------------------------
(* Theorems about QueryListener, for every document.                             *)
EXTENDS QueryListener, SequenceTheorems, ChainTheorems

(* The frames of walk and the parts left in them. *)
Left ==
  [definition : Seq(Definition), type : Seq(Type), name : Seq(Names), argument : Seq(Argument),
   comparator : Seq({"EQUAL"} \cup Other), value : Seq(Values), selection : Seq(Selections)]
Frames == [rule : {"document", "definition", "selection", "argument"}, left : Left]

(* What the message is made of. *)
MadeArgument == [name : Maybe(Names), comparator : {"EQUAL"} \cup Other, value : Maybe(Values)]
Made == [name : Maybe(Names), value : Maybe(Values), args : Seq(MadeArgument)]

Places == 0 .. Len(selections)

MessageInv ==
  /\ document \in Seq(Definition) /\ walk \in Seq(Frames) /\ type \in Type
  /\ selections \in Seq(Made) /\ read \in Seq(Selections) /\ Len(read) = Len(selections)
  /\ below \in [Places -> Seq(1 .. Len(selections))]
  /\ stack \in Seq(Places)
  /\ argument \in [of : Places, at : Nat]

(* The stack is the way from the query to the selection that is read, the last   *)
(* one below each, and the open argument is the last one of the top.             *)
StackInv ==
  /\ Len(stack) \in Nat \ {0} /\ stack[1] = 0
  /\ \A j \in 1 .. Len(stack) : \A i \in 1 .. j - 1 : stack[i] < stack[j]
  /\ \A i \in 1 .. Len(stack) - 1 :
       below[stack[i]] # <<>> /\ stack[i + 1] = below[stack[i]][Len(below[stack[i]])]
  /\ InArgument => /\ Len(stack) # 1 /\ argument.of = Top
                   /\ argument.at = Len(selections[Top].args) /\ argument.at # 0

(* The walk is in the document, then in a definition, then in the selections of  *)
(* the stack, and in the open argument.                                          *)
RuleAt(k) ==
  IF k = 1 THEN "document" ELSE IF k = 2 THEN "definition"
  ELSE IF k = Len(stack) + 2 THEN "argument" ELSE "selection"
WalkInv ==
  /\ \/ Len(walk) = 1 /\ Len(stack) = 1 /\ ~InArgument
     \/ Len(walk) = Len(stack) + 1 /\ ~InArgument
     \/ Len(walk) = Len(stack) + 2 /\ InArgument
  /\ \A k \in 1 .. Len(walk) : walk[k].rule = RuleAt(k)

(* What a field x is in the end, y: the last of the parts of its kind, q, sets it. *)
Becomes(q, x, y) == IF q = <<>> THEN x = y ELSE q[Len(q)] = y

(* The definitions that have been entered. *)
Entered == Len(document) - Len(walk[1].left.definition)

(* What has been read of the document, of its last definition, ...               *)
InDocument(left) ==
  /\ left.type = <<>> /\ left.name = <<>> /\ left.argument = <<>> /\ left.comparator = <<>>
  /\ left.value = <<>> /\ left.selection = <<>>
  /\ Len(left.definition) <= Len(document)
  /\ \A i \in 1 .. Len(left.definition) : left.definition[i] = document[Entered + i]
  /\ Len(walk) = 1 => TypeIs(type, Entered) /\ ReadBelow(0) = Joined(document)[Entered]

InDefinition(left) ==
  /\ left.definition = <<>> /\ left.argument = <<>> /\ left.comparator = <<>> /\ left.value = <<>>
  /\ \E t \in Type : TypeIs(t, Entered) /\ Becomes(left.type, type, t)
  /\ ReadBelow(0) \o left.selection = Joined(document)[Entered]

(* ... of a selection, made in the message with the selections sub below it, and *)
(* all arguments but the open one, ...                                           *)
InSelection(left, made, sel, open, sub) ==
  /\ left.definition = <<>> /\ left.type = <<>>
  /\ Becomes(left.name, made.name, sel.name)
  /\ Len(made.args) + Len(left.argument) = Len(sel.args)
  /\ \A a \in 1 .. Len(left.argument) : left.argument[a] = sel.args[Len(made.args) + a]
  /\ \A a \in 1 .. Len(made.args) : a # open => made.args[a] = MeantArgument(sel.args[a])
  /\ \A c \in 1 .. Len(left.comparator) : left.comparator[c] = "EQUAL"
  /\ Becomes(left.value, made.value, sel.value)
  /\ sub \o left.selection = sel.subs

(* ... and of an argument, of which made is what the message has.                *)
InArgumentOf(left, made, arg) ==
  /\ left.definition = <<>> /\ left.type = <<>> /\ left.argument = <<>> /\ left.selection = <<>>
  /\ Becomes(left.name, made.name, arg.name)
  /\ Becomes(left.comparator, made.comparator, MeantArgument(arg).comparator)
  /\ Becomes(left.value, made.value, arg.value)

(* What has been read and what is left is, together, what is meant. *)
DocumentInv == InDocument(walk[1].left)
DefinitionInv == Len(walk) >= 2 => InDefinition(walk[2].left)
OpenIn(s) == IF argument.of = s THEN argument.at ELSE 0
SelectionAt(i) ==
  InSelection(walk[i + 1].left, selections[stack[i]], read[stack[i]], OpenIn(stack[i]),
              ReadBelow(stack[i]))
SelectionInv == \A i \in 2 .. Len(stack) : SelectionAt(i)
ArgumentInv ==
  InArgument => InArgumentOf(Inner.left, selections[Top].args[argument.at],
                             read[Top].args[argument.at])
DoneWith(s) == selections[s] = Meant(read[s]) /\ ReadBelow(s) = read[s].subs
DoneInv ==
  \A s \in 1 .. Len(selections) : (\A i \in 1 .. Len(stack) : stack[i] # s) => DoneWith(s)

(* The inductive invariant. *)
IInv ==
  /\ MessageInv /\ StackInv /\ WalkInv
  /\ DocumentInv /\ DefinitionInv /\ SelectionInv /\ ArgumentInv /\ DoneInv
--------------------------------------------------------------------------------
(* Sequences.                                                                    *)
(* What is left after the first one, ... *)
LEMMA TailIs ==
  ASSUME NEW S, NEW s \in Seq(S), s # <<>>
  PROVE  /\ Len(s) \in Nat \ {0} /\ Head(s) \in S /\ Head(s) = s[1]
         /\ Tail(s) \in Seq(S) /\ Len(Tail(s)) = Len(s) - 1
         /\ \A i \in 1 .. Len(s) - 1 : Tail(s)[i] = s[i + 1]
<1>1. Head(s) \in S /\ Tail(s) \in Seq(S) /\ Len(Tail(s)) = Len(s) - 1
      /\ \A i \in 1 .. Len(Tail(s)) : Tail(s)[i] = s[i + 1]
  BY HeadTailProperties
<1>2. Len(s) \in Nat \ {0}
  BY EmptySeq
<1> QED
  BY <1>1, <1>2

(* ... before the last one, ... *)
LEMMA FrontIs ==
  ASSUME NEW S, NEW s \in Seq(S), s # <<>>
  PROVE  /\ Front(s) \in Seq(S) /\ Len(Front(s)) = Len(s) - 1
         /\ \A i \in 1 .. Len(s) - 1 : Front(s)[i] = s[i]
<1>1. Len(s) \in Nat \ {0}
  BY EmptySeq
<1>2. Front(s) = SubSeq(s, 1, Len(s) - 1)
  BY DEF Front
<1>3. \A i \in 1 .. Len(s) - 1 : s[i] \in S
  BY <1>1, ElementOfSeq
<1>4. /\ SubSeq(s, 1, Len(s) - 1) \in Seq(S)
      /\ Len(SubSeq(s, 1, Len(s) - 1)) = IF 1 <= Len(s) - 1 THEN Len(s) - 1 - 1 + 1 ELSE 0
      /\ \A i \in 1 .. Len(s) - 1 - 1 + 1 : SubSeq(s, 1, Len(s) - 1)[i] = s[1 + i - 1]
  BY <1>1, <1>3, SubSeqProperties
<1>5. \A i \in 1 .. Len(s) - 1 : 1 + i - 1 = i /\ i \in 1 .. Len(s) - 1 - 1 + 1
  BY <1>1
<1> DEFINE f == SubSeq(s, 1, Len(s) - 1)
<1> HIDE DEF f
<1>6. f \in Seq(S) /\ \A i \in 1 .. Len(s) - 1 : f[i] = s[i]
  BY <1>4, <1>5 DEF f
<1>7. Len(f) = IF 1 <= Len(s) - 1 THEN Len(s) - 1 - 1 + 1 ELSE 0
  BY <1>4 DEF f
<1>8. Len(f) = Len(s) - 1
  <2> DEFINE n == Len(s)
             m == Len(f)
  <2>1. n \in Nat \ {0} /\ m = IF 1 <= n - 1 THEN n - 1 - 1 + 1 ELSE 0
    BY <1>1, <1>7
  <2> HIDE DEF n, m
  <2>2. m = n - 1
    BY <2>1
  <2> QED
    BY <2>2 DEF n, m
<1> QED
  BY <1>2, <1>6, <1>8 DEF f

(* ... and that a sequence which grows by the first of another one, that shrinks, *)
(* stays the same together with it.                                              *)
LEMMA MoveOne ==
  ASSUME NEW S, NEW s \in Seq(S), NEW t \in Seq(S), t # <<>>
  PROVE  Append(s, Head(t)) \o Tail(t) = s \o t
<1> DEFINE u == Append(s, Head(t)) \o Tail(t)
           v == s \o t
<1>1. /\ Len(t) \in Nat \ {0} /\ Head(t) \in S /\ Head(t) = t[1]
      /\ Tail(t) \in Seq(S) /\ Len(Tail(t)) = Len(t) - 1
      /\ \A i \in 1 .. Len(t) - 1 : Tail(t)[i] = t[i + 1]
  BY TailIs
<1>2. Len(s) \in Nat
  BY LenProperties
<1> DEFINE a == Append(s, Head(t))
<1>3. /\ a \in Seq(S) /\ Len(a) = Len(s) + 1
      /\ \A i \in 1 .. Len(s) : a[i] = s[i]
      /\ a[Len(s) + 1] = t[1]
  BY <1>1, AppendProperties
<1> HIDE DEF a
<1>4. /\ u \in Seq(S) /\ Len(u) = Len(s) + Len(t)
      /\ \A i \in 1 .. Len(s) + Len(t) :
           u[i] = IF i <= Len(s) + 1 THEN a[i] ELSE Tail(t)[i - (Len(s) + 1)]
  <2>1. u = a \o Tail(t)
    BY DEF a
  <2> QED
    BY <1>1, <1>2, <1>3, <2>1
<1>5. /\ v \in Seq(S) /\ Len(v) = Len(s) + Len(t)
      /\ \A i \in 1 .. Len(s) + Len(t) : v[i] = IF i <= Len(s) THEN s[i] ELSE t[i - Len(s)]
  OBVIOUS
<1> HIDE DEF u, v
<1>6. ASSUME NEW i \in 1 .. Len(s) + Len(t) PROVE u[i] = v[i]
  <2>1. i \in Int /\ Len(s) \in Int /\ Len(t) \in Int
    BY <1>1, <1>2
  <2>2. CASE i <= Len(s)
    BY SMTT(30), <1>1, <1>2, <1>3, <1>4, <1>5, <2>2
  <2>3. CASE i = Len(s) + 1
    BY <1>1, <1>2, <1>3, <1>4, <1>5, <2>3
  <2>4. CASE i > Len(s) + 1
    <3>1. i - (Len(s) + 1) \in 1 .. Len(t) - 1 /\ (i - (Len(s) + 1)) + 1 = i - Len(s)
      BY <1>1, <1>2, <2>4
    <3>2. Tail(t)[i - (Len(s) + 1)] = t[i - Len(s)]
      BY <1>1, <3>1
    <3> QED
      BY <1>4, <1>5, <2>1, <2>4, <3>2
  <2> QED
    BY <2>1, <2>2, <2>3, <2>4
<1> QED
  BY <1>4, <1>5, <1>6, SeqEqual DEF u, v

(* The last of several parts is that of what is left after the first of them.     *)
LEMMA BecomesTail ==
  ASSUME NEW S, NEW q \in Seq(S), NEW x, NEW y, q # <<>>, Becomes(q, x, y)
  PROVE  Becomes(Tail(q), Head(q), y)
<1>1. /\ Len(q) \in Nat \ {0} /\ Head(q) = q[1] /\ Len(Tail(q)) = Len(q) - 1
      /\ Tail(q) \in Seq(S) /\ \A i \in 1 .. Len(q) - 1 : Tail(q)[i] = q[i + 1]
  BY TailIs
<1>2. q[Len(q)] = y
  BY DEF Becomes
<1>3. CASE Len(q) = 1
  <2> DEFINE t == Tail(q)
  <2> HIDE DEF t
  <2>1. t \in Seq(S) /\ Len(t) = 0
    BY <1>1, <1>3 DEF t
  <2>2. t = <<>>
    BY <2>1, EmptySeq
  <2>3. Tail(q) = <<>>
    BY <2>2 DEF t
  <2>4. Head(q) = y
    BY <1>1, <1>2, <1>3
  <2> QED
    BY <2>3, <2>4 DEF Becomes
<1>4. CASE Len(q) # 1
  <2> DEFINE t == Tail(q)
  <2> HIDE DEF t
  <2>1. t \in Seq(S) /\ Len(t) = Len(q) - 1
    BY <1>1 DEF t
  <2>2. Len(q) - 1 \in 1 .. Len(q) - 1 /\ (Len(q) - 1) + 1 = Len(q)
    BY <1>1, <1>4
  <2>3. t # <<>>
    BY <1>1, <1>4, <2>1
  <2>4. Len(q) - 1 \in 1 .. Len(q) - 1 /\ Tail(q) # <<>> /\ (Len(q) - 1) + 1 = Len(q)
    BY <2>2, <2>3 DEF t
  <2>5. Tail(q)[Len(Tail(q))] = q[Len(q)]
    BY <1>1, <2>4
  <2> QED
    BY <1>2, <2>4, <2>5 DEF Becomes
<1> QED
  BY <1>3, <1>4

(* The selections of the first definitions are those of one less and its own.    *)
LEMMA JoinedIs ==
  ASSUME NEW defs \in Seq(Definition)
  PROVE  /\ Joined(defs)[0] = <<>>
         /\ \A n \in 1 .. Len(defs) : Joined(defs)[n] = Joined(defs)[n - 1] \o defs[n].selections
         /\ \A n \in 0 .. Len(defs) : Joined(defs)[n] \in Seq(Selections)
<1> DEFINE N == Len(defs)
           J(k) == {f \in [0 .. k -> Seq(Selections)] :
                      f[0] = <<>> /\ \A n \in 1 .. k : f[n] = f[n - 1] \o defs[n].selections}
           A == {k \in Nat : k <= N => J(k) # {}}
<1>1. N \in Nat /\ \A n \in 1 .. N : defs[n].selections \in Seq(Selections)
  <2>1. N \in Nat /\ \A n \in 1 .. N : defs[n] \in Definition
    BY LenProperties, ElementOfSeq
  <2> QED
    BY <2>1 DEF Definition
<1> HIDE DEF N
<1>2. 0 \in A
  <2> DEFINE e == [k \in 0 .. 0 |-> <<>>]
  <2>1. <<>> \in Seq(Selections)
    BY EmptySeq
  <2>2. e \in [0 .. 0 -> Seq(Selections)] /\ e[0] = <<>>
    BY <2>1
  <2>3. e \in J(0)
    BY <2>2
  <2> QED
    BY <2>3
<1>3. ASSUME NEW k \in Nat, k \in A PROVE k + 1 \in A
  <2>1. k + 1 \in Nat /\ (k + 1 <= N => k <= N)
    BY <1>1
  <2> SUFFICES ASSUME k + 1 <= N PROVE J(k + 1) # {}
    BY <2>1
  <2>2. J(k) # {}
    BY <1>3, <2>1
  <2>3. PICK f \in J(k) : TRUE
    BY <2>2
  <2> DEFINE g == [n \in 0 .. k + 1 |-> IF n = k + 1 THEN f[k] \o defs[k + 1].selections ELSE f[n]]
  <2>4. k + 1 \in 1 .. N /\ f[k] \in Seq(Selections)
    BY <1>1, <2>3
  <2>5. f[k] \o defs[k + 1].selections \in Seq(Selections)
    BY <1>1, <2>4, ConcatProperties
  <2>6. g \in [0 .. k + 1 -> Seq(Selections)]
    BY <2>3, <2>5
  <2>7. g[0] = <<>> /\ \A n \in 1 .. k + 1 : g[n] = g[n - 1] \o defs[n].selections
    <3>1. g[0] = f[0]
      OBVIOUS
    <3>2. ASSUME NEW n \in 1 .. k + 1 PROVE g[n] = g[n - 1] \o defs[n].selections
      <4>1. n - 1 \in 0 .. k /\ g[n - 1] = f[n - 1]
        OBVIOUS
      <4>2. CASE n = k + 1
        <5>1. n - 1 = k /\ k + 1 \in 0 .. k + 1
          BY <4>2
        <5>2. g[n] = f[k] \o defs[k + 1].selections
          BY <4>2, <5>1
        <5> QED
          BY <4>1, <4>2, <5>2, <5>1
      <4>3. CASE n # k + 1
        <5>1. n \in 1 .. k /\ n \in 0 .. k + 1
          BY <4>3
        <5>2. g[n] = f[n]
          BY <4>3, <5>1
        <5>3. f[n] = f[n - 1] \o defs[n].selections
          BY <2>3, <5>1
        <5> QED
          BY <4>1, <5>2, <5>3
      <4> QED
        BY <4>2, <4>3
    <3> QED
      BY <2>3, <3>1, <3>2
  <2> QED
    BY <2>6, <2>7
<1> HIDE DEF A
<1>4. Nat \subseteq A
  BY <1>2, <1>3, Induct
<1>5. J(N) # {}
  <2>1. N \in A
    BY <1>1, <1>4
  <2>2. N <= N
    BY <1>1
  <2> HIDE DEF J
  <2> QED
    BY <2>1, <2>2 DEF A
<1>6. PICK f \in J(N) : TRUE
  BY <1>5
<1> DEFINE body(j) == [n \in 0 .. N |-> IF n = 0 THEN <<>> ELSE j[n - 1] \o defs[n].selections]
<1>7. f = body(f)
  <2>1. ASSUME NEW n \in 0 .. N PROVE f[n] = body(f)[n]
    <3>1. CASE n = 0
      BY <1>1, <1>6, <3>1
    <3>2. CASE n # 0
      <4>1. n \in 1 .. N
        BY <1>1, <3>2
      <4> QED
        BY <1>6, <3>2, <4>1
    <3> QED
      BY <3>1, <3>2
  <2> QED
    BY <1>6, <2>1
<1>8. Joined(defs) = CHOOSE j : j = body(j)
  BY DEF Joined, N
<1>9. Joined(defs) = body(Joined(defs))
  <2> HIDE DEF body
  <2> QED
    BY <1>7, <1>8
<1> DEFINE h == Joined(defs)
<1> HIDE DEF h
<1>10. h = body(h)
  BY <1>9 DEF h
<1>11. h[0] = <<>> /\ \A n \in 1 .. N : h[n] = h[n - 1] \o defs[n].selections
  <2>1. h = [n \in 0 .. N |-> IF n = 0 THEN <<>> ELSE h[n - 1] \o defs[n].selections]
    BY <1>10
  <2>2. \A n \in 0 .. N : h[n] = IF n = 0 THEN <<>> ELSE h[n - 1] \o defs[n].selections
    BY <2>1
  <2>3. 0 \in 0 .. N /\ \A n \in 1 .. N : n \in 0 .. N /\ n # 0
    BY <1>1
  <2> QED
    BY <2>2, <2>3
<1> DEFINE B == {n \in Nat : n <= N => h[n] \in Seq(Selections)}
<1>12. 0 \in B
  BY <1>11, EmptySeq
<1>13. ASSUME NEW n \in Nat, n \in B PROVE n + 1 \in B
  <2> SUFFICES ASSUME n + 1 <= N PROVE h[n + 1] \in Seq(Selections)
    OBVIOUS
  <2>1. n + 1 \in 1 .. N /\ (n + 1) - 1 = n /\ h[n] \in Seq(Selections)
    BY <1>1, <1>13
  <2>2. h[n + 1] = h[n] \o defs[n + 1].selections
    BY <1>11, <2>1
  <2>3. defs[n + 1].selections \in Seq(Selections)
    BY <1>1, <2>1
  <2> QED
    BY <2>1, <2>2, <2>3, ConcatProperties
<1> HIDE DEF B
<1>14. Nat \subseteq B
  BY <1>12, <1>13, Induct
<1>15. \A n \in 0 .. N : h[n] \in Seq(Selections)
  BY <1>1, <1>14 DEF B
<1> QED
  BY <1>11, <1>15 DEF h, N
--------------------------------------------------------------------------------
(* Where the walk is.                                                            *)
(* The ends of the walk and the stack. *)
LEMMA EndsAre ==
  ASSUME IInv
  PROVE  /\ Len(walk) \in Nat \ {0} /\ Inner = walk[Len(walk)] /\ Inner \in Frames
         /\ \A k \in 1 .. Len(walk) : walk[k] \in Frames
         /\ Len(stack) \in Nat \ {0} /\ Top = stack[Len(stack)] /\ Top \in Places
         /\ \A i \in 1 .. Len(stack) : stack[i] \in Places
         /\ Len(selections) \in Nat
<1>1. Len(selections) \in Nat /\ Len(walk) \in Nat /\ Len(stack) \in Nat \ {0}
  BY LenProperties DEF IInv, MessageInv, StackInv
<1>2. Len(walk) # 0
  BY <1>1 DEF IInv, WalkInv
<1>3. \A k \in 1 .. Len(walk) : walk[k] \in Frames
  BY ElementOfSeq DEF IInv, MessageInv
<1>4. \A i \in 1 .. Len(stack) : stack[i] \in Places
  BY ElementOfSeq DEF IInv, MessageInv
<1>5. Inner = walk[Len(walk)] /\ Top = stack[Len(stack)]
  BY DEF Inner, Top, Last
<1>6. Len(walk) \in 1 .. Len(walk) /\ Len(stack) \in 1 .. Len(stack)
  BY <1>1, <1>2
<1> QED
  BY <1>1, <1>2, <1>3, <1>4, <1>5, <1>6

(* The innermost rule is the document, a definition, a selection or an argument. *)
AtDocument ==
  /\ Len(walk) = 1 /\ Len(stack) = 1 /\ Top = 0 /\ ~InArgument
  /\ InDocument(Inner.left) /\ Inner.rule = "document"
AtDefinition ==
  /\ Len(walk) = 2 /\ Len(stack) = 1 /\ Top = 0 /\ ~InArgument
  /\ InDefinition(Inner.left) /\ Inner.rule = "definition"
AtSelection ==
  /\ Len(walk) = Len(stack) + 1 /\ Len(stack) >= 2 /\ Top \in 1 .. Len(selections) /\ ~InArgument
  /\ InSelection(Inner.left, selections[Top], read[Top], 0, ReadBelow(Top))
  /\ Inner.rule = "selection"
AtArgument ==
  /\ Len(walk) = Len(stack) + 2 /\ Len(stack) >= 2 /\ Top \in 1 .. Len(selections) /\ InArgument
  /\ argument = [of |-> Top, at |-> Len(selections[Top].args)]
  /\ Len(selections[Top].args) \in Nat \ {0}
  /\ InArgumentOf(Inner.left, selections[Top].args[argument.at], read[Top].args[argument.at])
  /\ Inner.rule = "argument"

(* The walk is in one of these, and what has been read is as the invariant says. *)
LEMMA Where ==
  ASSUME IInv
  PROVE  AtDocument \/ AtDefinition \/ AtSelection \/ AtArgument
<1>1. /\ Len(walk) \in Nat \ {0} /\ Inner = walk[Len(walk)]
      /\ Len(stack) \in Nat \ {0} /\ Top = stack[Len(stack)] /\ Top \in 0 .. Len(selections)
      /\ Len(selections) \in Nat
  BY EndsAre DEF Places
<1>2. Inner.rule = RuleAt(Len(walk))
  BY <1>1 DEF IInv, WalkInv
<1>3. Len(stack) # 1 => Top \in 1 .. Len(selections)
  <2> SUFFICES ASSUME Len(stack) # 1 PROVE Top # 0
    BY <1>1
  <2> DEFINE m == Len(stack)
  <2> HIDE DEF m
  <2>1. m \in Nat \ {0} /\ m # 1
    BY <1>1 DEF m
  <2>2. 1 \in 1 .. m - 1 /\ m \in 1 .. m
    BY <2>1
  <2>3. stack[1] < stack[m] /\ stack[1] = 0
    BY <2>2 DEF IInv, StackInv, m
  <2> QED
    BY <1>1, <2>3 DEF m
<1>4. Len(stack) = 1 => Top = 0
  BY <1>1 DEF IInv, StackInv
<1>5. CASE Len(walk) = 1 /\ Len(stack) = 1 /\ ~InArgument
  BY <1>1, <1>2, <1>4, <1>5 DEF IInv, DocumentInv, AtDocument, RuleAt
<1>6. CASE Len(walk) = Len(stack) + 1 /\ ~InArgument
  <2>1. CASE Len(stack) = 1
    BY <1>1, <1>2, <1>4, <1>6, <2>1 DEF IInv, DefinitionInv, AtDefinition, RuleAt
  <2>2. CASE Len(stack) # 1
    <3> DEFINE m == Len(stack)
    <3> HIDE DEF m
    <3>1. m \in Nat \ {0} /\ m # 1
      BY <1>1, <2>2 DEF m
    <3>2. m \in 2 .. m /\ m >= 2
      BY <3>1
    <3>3. Len(stack) \in 2 .. Len(stack) /\ Len(stack) >= 2
      BY <3>2 DEF m
    <3>4. OpenIn(Top) = 0
      BY <1>6 DEF OpenIn, InArgument, Nowhere
    <3>5. InSelection(Inner.left, selections[Top], read[Top], 0, ReadBelow(Top))
      BY <1>1, <1>6, <3>3, <3>4 DEF IInv, SelectionInv, SelectionAt
    <3>6. Inner.rule = "selection"
      BY <1>1, <1>2, <1>6, <3>3 DEF RuleAt
    <3> QED
      BY <1>3, <1>6, <2>2, <3>3, <3>5, <3>6 DEF AtSelection
  <2> QED
    BY <2>1, <2>2
<1>7. CASE Len(walk) = Len(stack) + 2 /\ InArgument
  <2>1. /\ Len(stack) # 1 /\ argument.of = Top /\ argument.at = Len(selections[Top].args)
        /\ argument.at # 0 /\ argument \in [of : Places, at : Nat]
    BY <1>7 DEF IInv, StackInv, MessageInv
  <2>2. argument = [of |-> Top, at |-> Len(selections[Top].args)]
    BY <2>1
  <2>3. Inner.rule = "argument"
    BY <1>1, <1>2, <1>7, <2>1 DEF RuleAt
  <2> DEFINE m == Len(stack)
  <2> HIDE DEF m
  <2>4. m \in Nat \ {0} /\ m # 1
    BY <1>1, <2>1 DEF m
  <2>5. m >= 2
    BY <2>4
  <2>6. Len(stack) >= 2
    BY <2>5 DEF m
  <2>7. InArgumentOf(Inner.left, selections[Top].args[argument.at], read[Top].args[argument.at])
    BY <1>7 DEF IInv, ArgumentInv
  <2>8. Len(selections[Top].args) \in Nat \ {0}
    BY <2>1
  <2> QED
    BY <1>3, <1>7, <2>1, <2>2, <2>3, <2>6, <2>7, <2>8 DEF AtArgument
<1> QED
  BY <1>5, <1>6, <1>7 DEF IInv, WalkInv

(* When one part of a rule is passed, the others stay and so do the other rules.  *)
KindSet ==
  {"definition", "type", "name", "argument", "comparator", "value", "selection"}
What(kind) ==
  CASE kind = "definition" -> Definition
    [] kind = "type" -> Type
    [] kind = "name" -> Names
    [] kind = "argument" -> Argument
    [] kind = "comparator" -> {"EQUAL"} \cup Other
    [] kind = "value" -> Values
    [] kind = "selection" -> Selections

(* What Rest leaves: one part less of the kind it is on, and all frames else. *)
LEMMA RestIs ==
  ASSUME IInv, NEW kind \in KindSet, On(kind)
  PROVE  /\ Inner.left[kind] # <<>> /\ Inner.left[kind] \in Seq(What(kind))
         /\ Rest(kind) \in Seq(Frames) /\ Len(Rest(kind)) = Len(walk)
         /\ \A k \in 1 .. Len(walk) - 1 : Rest(kind)[k] = walk[k]
         /\ Rest(kind)[Len(walk)].rule = Inner.rule
         /\ \A k \in KindSet :
              Rest(kind)[Len(walk)].left[k] = IF k = kind THEN Tail(Inner.left[k]) ELSE Inner.left[k]
<1> DEFINE n == Len(walk)
           new == [rule |-> Inner.rule, left |-> [Inner.left EXCEPT ![kind] = Tail(@)]]
<1>1. n \in Nat \ {0} /\ Inner = walk[n] /\ Inner \in Frames
  BY EndsAre
<1>2. Inner.left \in Left
  BY <1>1 DEF Frames
<1>3. Inner.left[kind] # <<>> /\ Inner.left[kind] \in Seq(What(kind))
  BY <1>2 DEF On, Left, What, KindSet
<1>4. Tail(Inner.left[kind]) \in Seq(What(kind))
  BY <1>3, TailIs
<1>5. [Inner.left EXCEPT ![kind] = Tail(@)] \in Left
  BY <1>2, <1>4 DEF Left, What, KindSet
<1>6. new \in Frames
  BY <1>1, <1>5 DEF Frames
<1>7. Rest(kind) = [walk EXCEPT ![n] = new]
  <2>1. [walk[n] EXCEPT !.left[kind] = Tail(@)] = new
    <3> DEFINE f == walk[n]
    <3>1. f \in [rule : {"document", "definition", "selection", "argument"}, left : Left] /\ Inner = f
      BY <1>1 DEF Frames
    <3> HIDE DEF f
    <3> DEFINE x == [f.left EXCEPT ![kind] = Tail(@)]
    <3>2. [f EXCEPT !.left[kind] = Tail(@)] = [f EXCEPT !.left = x]
      BY <3>1
    <3> HIDE DEF x
    <3>3. [f EXCEPT !.left = x] = [rule |-> f.rule, left |-> x]
      BY <3>1
    <3>4. [f EXCEPT !.left[kind] = Tail(@)]
            = [rule |-> f.rule, left |-> [f.left EXCEPT ![kind] = Tail(@)]]
      BY <3>2, <3>3 DEF x
    <3> QED
      BY <3>1, <3>4 DEF f
  <2>2. walk \in [1 .. n -> Frames] /\ n \in 1 .. n
    BY <1>1, LenProperties DEF IInv, MessageInv
  <2> QED
    BY <1>1, <2>1, <2>2 DEF Rest
<1> HIDE DEF n, new
<1>8. walk \in Seq(Frames) /\ n = Len(walk) /\ n \in 1 .. Len(walk)
  BY <1>1 DEF IInv, MessageInv, n
<1>9. /\ [walk EXCEPT ![n] = new] \in Seq(Frames)
      /\ Len([walk EXCEPT ![n] = new]) = Len(walk)
      /\ \A j \in 1 .. Len(walk) : [walk EXCEPT ![n] = new][j] = IF j = n THEN new ELSE walk[j]
  BY <1>6, <1>8, ExceptSeq
<1>10. /\ Rest(kind) \in Seq(Frames) /\ Len(Rest(kind)) = n /\ Rest(kind)[n] = new
       /\ \A k \in 1 .. n - 1 : Rest(kind)[k] = walk[k]
  BY <1>1, <1>7, <1>8, <1>9
<1>11. /\ new.rule = Inner.rule
       /\ \A k \in KindSet : new.left[k] = IF k = kind THEN Tail(Inner.left[k]) ELSE Inner.left[k]
  BY <1>2 DEF new, Left, KindSet
<1> QED
  BY <1>3, <1>10, <1>11 DEF n
--------------------------------------------------------------------------------
(* What a step does to the walk.                                                 *)
LEMMA PassIs ==
  ASSUME IInv, NEW kind \in KindSet, Pass(kind)
  PROVE  /\ Inner.left[kind] # <<>> /\ Inner.left[kind] \in Seq(What(kind))
         /\ walk' \in Seq(Frames) /\ Len(walk') = Len(walk)
         /\ \A k \in 1 .. Len(walk) - 1 : walk'[k] = walk[k]
         /\ walk'[Len(walk)].rule = Inner.rule
         /\ \A k \in KindSet :
              walk'[Len(walk)].left[k] = IF k = kind THEN Tail(Inner.left[k]) ELSE Inner.left[k]
         /\ document' = document
BY RestIs DEF Pass

(* A rule with parts that is entered: one part less above, and a new frame. *)
LEMMA EnterIs ==
  ASSUME IInv, NEW kind \in {"definition", "selection", "argument"}, NEW parts \in Left,
         Enter(kind, parts)
  PROVE  /\ Inner.left[kind] # <<>> /\ Inner.left[kind] \in Seq(What(kind))
         /\ walk' \in Seq(Frames) /\ Len(walk') = Len(walk) + 1
         /\ \A k \in 1 .. Len(walk) - 1 : walk'[k] = walk[k]
         /\ walk'[Len(walk)].rule = Inner.rule
         /\ \A k \in KindSet :
              walk'[Len(walk)].left[k] = IF k = kind THEN Tail(Inner.left[k]) ELSE Inner.left[k]
         /\ walk'[Len(walk) + 1] = [rule |-> kind, left |-> parts]
         /\ document' = document
<1> DEFINE n == Len(walk)
           r == Rest(kind)
           f == [rule |-> kind, left |-> parts]
<1>1. /\ Inner.left[kind] # <<>> /\ Inner.left[kind] \in Seq(What(kind))
      /\ r \in Seq(Frames) /\ Len(r) = n
      /\ \A k \in 1 .. n - 1 : r[k] = walk[k]
      /\ r[n].rule = Inner.rule
      /\ \A k \in KindSet : r[n].left[k] = IF k = kind THEN Tail(Inner.left[k]) ELSE Inner.left[k]
  <2>1. kind \in KindSet /\ On(kind)
    BY DEF Enter, KindSet
  <2> QED
    BY <2>1, RestIs
<1>2. f \in Frames
  BY DEF Frames
<1>3. walk' = Append(r, f) /\ document' = document
  BY DEF Enter, Frame
<1>4. n \in Nat \ {0}
  BY EndsAre
<1> HIDE DEF n, r, f
<1>5. /\ walk' \in Seq(Frames) /\ Len(walk') = n + 1 /\ walk'[n + 1] = f
      /\ \A k \in 1 .. n : walk'[k] = r[k]
  BY <1>1, <1>2, <1>3, AppendProperties
<1>6. n \in 1 .. n /\ \A k \in 1 .. n - 1 : k \in 1 .. n
  BY <1>4
<1>7. walk'[n] = r[n] /\ \A k \in 1 .. n - 1 : walk'[k] = walk[k]
  BY <1>1, <1>5, <1>6
<1> QED
  BY <1>1, <1>3, <1>5, <1>7 DEF n, f

(* A rule that is left: nothing was left in it, and its frame goes. *)
LEMMA ExitIs ==
  ASSUME IInv, NEW rule, Exit(rule)
  PROVE  /\ Inner = [rule |-> rule, left |-> Nothing]
         /\ walk' \in Seq(Frames) /\ Len(walk') = Len(walk) - 1
         /\ \A k \in 1 .. Len(walk) - 1 : walk'[k] = walk[k]
         /\ document' = document
<1>1. walk \in Seq(Frames) /\ walk # <<>>
  BY EndsAre, EmptySeq DEF IInv, MessageInv
<1>2. /\ Front(walk) \in Seq(Frames) /\ Len(Front(walk)) = Len(walk) - 1
      /\ \A k \in 1 .. Len(walk) - 1 : Front(walk)[k] = walk[k]
  BY <1>1, FrontIs
<1> QED
  BY <1>2 DEF Exit, Frame

(* The selections below one of the message.                                      *)
LEMMA ReadBelowIs ==
  ASSUME IInv, NEW s \in Places
  PROVE  /\ ReadBelow(s) \in Seq(Selections) /\ Len(ReadBelow(s)) = Len(below[s])
         /\ \A i \in 1 .. Len(below[s]) : /\ below[s][i] \in 1 .. Len(selections)
                                         /\ ReadBelow(s)[i] = read[below[s][i]]
<1>1. below[s] \in Seq(1 .. Len(selections))
  BY DEF IInv, MessageInv
<1>2. Len(below[s]) \in Nat /\ DOMAIN below[s] = 1 .. Len(below[s])
      /\ \A i \in 1 .. Len(below[s]) : below[s][i] \in 1 .. Len(selections)
  BY <1>1, LenProperties, ElementOfSeq
<1>3. \A i \in 1 .. Len(selections) : read[i] \in Selections
  BY ElementOfSeq DEF IInv, MessageInv
<1>4. ReadBelow(s) = [i \in 1 .. Len(below[s]) |-> read[below[s][i]]]
  BY <1>2 DEF ReadBelow
<1> QED
  BY <1>2, <1>3, <1>4

(* They stay the same when more is read, ... *)
LEMMA ReadBelowKept ==
  ASSUME IInv, NEW s \in Places, below'[s] = below[s],
         \A t \in 1 .. Len(selections) : read'[t] = read[t]
  PROVE  ReadBelow(s)' = ReadBelow(s)
<1>1. \A i \in DOMAIN below[s] : below[s][i] \in 1 .. Len(selections)
  <2>1. below[s] \in Seq(1 .. Len(selections))
    BY DEF IInv, MessageInv
  <2> QED
    BY <2>1, LenProperties, ElementOfSeq
<1> QED
  BY <1>1 DEF ReadBelow

(* ... unless it is below this one, as the last. *)
LEMMA ReadBelowGrows ==
  ASSUME IInv, NEW s \in Places, NEW sel \in Selections, AddBelow(s), Given("selection") = sel
  PROVE  ReadBelow(s)' = Append(ReadBelow(s), sel)
<1> DEFINE n == Len(selections) + 1
           b == Len(below[s])
<1>1. /\ ReadBelow(s) \in Seq(Selections) /\ Len(ReadBelow(s)) = b
      /\ \A i \in 1 .. b : below[s][i] \in 1 .. Len(selections)
                           /\ ReadBelow(s)[i] = read[below[s][i]]
  BY ReadBelowIs
<1>2. /\ Len(selections) \in Nat /\ s \in 0 .. Len(selections) /\ read \in Seq(Selections)
      /\ Len(read) = Len(selections) /\ below[s] \in Seq(1 .. Len(selections))
  BY EndsAre DEF IInv, MessageInv, Places
<1>3. /\ read' = Append(read, sel)
      /\ below'[s] = Append(below[s], n)
  BY <1>2 DEF AddBelow
<1>4. /\ Len(read') = n /\ read'[n] = sel /\ \A t \in 1 .. Len(selections) : read'[t] = read[t]
  BY <1>2, <1>3
<1>5. b \in Nat
  BY <1>2, LenProperties
<1>6. /\ below'[s] \in Seq(1 .. n) /\ Len(below'[s]) = b + 1 /\ below'[s][b + 1] = n
      /\ \A i \in 1 .. b : below'[s][i] = below[s][i]
  <2>1. below[s] \in Seq(1 .. n)
    BY <1>2
  <2>2. n \in 1 .. n
    BY <1>2
  <2> QED
    BY <1>3, <2>1, <2>2, AppendProperties
<1>7. ReadBelow(s)' = [i \in 1 .. b + 1 |-> read'[below'[s][i]]]
  <2>1. DOMAIN below'[s] = 1 .. b + 1
    BY <1>6, LenProperties
  <2> QED
    BY <2>1 DEF ReadBelow
<1> DEFINE old == ReadBelow(s)
           new == [i \in 1 .. b + 1 |-> read'[below'[s][i]]]
<1> HIDE DEF n, b, old
<1>8. /\ Append(old, sel) \in Seq(Selections) /\ Len(Append(old, sel)) = b + 1
      /\ \A i \in 1 .. b : Append(old, sel)[i] = old[i]
      /\ Append(old, sel)[b + 1] = sel
  BY <1>1, AppendProperties DEF old
<1>9. ASSUME NEW i \in 1 .. b + 1 PROVE new[i] = Append(old, sel)[i]
  <2>1. CASE i = b + 1
    BY <1>4, <1>6, <1>8, <2>1
  <2>2. CASE i # b + 1
    <3>1. i \in 1 .. b
      BY <1>5, <2>2
    <3>2. new[i] = read'[below[s][i]] /\ below[s][i] \in 1 .. Len(selections)
      BY <1>1, <1>6, <3>1
    <3>3. Append(old, sel)[i] = read[below[s][i]]
      BY <1>1, <1>8, <3>1 DEF old
    <3> QED
      BY <1>4, <3>2, <3>3
  <2> QED
    BY <2>1, <2>2
<1>10. \A i \in 1 .. b + 1 : new[i] \in Selections
  BY <1>8, <1>9, ElementOfSeq
<1>11. new \in Seq(Selections) /\ Len(new) = b + 1
  BY <1>5, <1>10
<1> HIDE DEF new
<1>12. new = Append(old, sel)
  BY <1>8, <1>9, <1>11, SeqEqual
<1> QED
  BY <1>7, <1>12 DEF new, old
--------------------------------------------------------------------------------
(* The parts of the rules that are entered.                                      *)
LEMMA IfThereIs ==
  ASSUME NEW S, NEW x \in Maybe(S), Absent \notin S
  PROVE  /\ IfThere(x) \in Seq(S)
         /\ x = Absent => IfThere(x) = <<>>
         /\ x # Absent => x \in S /\ IfThere(x) = <<x>> /\ Len(IfThere(x)) = 1
BY DEF IfThere, Maybe

(* No parts at all are parts that a frame may have. *)
LEMMA NothingLeft == Nothing \in Left
BY EmptySeq DEF Nothing, Left

(* What is left of a rule that has been entered, kind by kind. *)
LEMMA DefinitionParts ==
  ASSUME NEW def \in Definition
  PROVE  /\ PartsOfDefinition(def) \in Left
         /\ LET left == PartsOfDefinition(def)
            IN  /\ left.definition = <<>> /\ left.argument = <<>> /\ left.comparator = <<>>
                /\ left.value = <<>> /\ left.type = IfThere(def.type)
                /\ left.selection = def.selections
<1>1. LET left == PartsOfDefinition(def)
      IN  /\ left.definition = <<>> /\ left.argument = <<>> /\ left.comparator = <<>>
          /\ left.value = <<>> /\ left.type = IfThere(def.type)
          /\ left.selection = def.selections
  BY DEF PartsOfDefinition, Nothing
<1>2. IfThere(def.type) \in Seq(Type) /\ IfThere(def.name) \in Seq(Names)
  BY IfThereIs, AbsentAssumption DEF Definition
<1>3. def.selections \in Seq(Selections)
  BY DEF Definition
<1>4. PartsOfDefinition(def) \in Left
  BY <1>2, <1>3, NothingLeft DEF Left, PartsOfDefinition
<1> QED
  BY <1>1, <1>4

(* The fields of a selection of a document. *)
LEMMA SelectionIs ==
  ASSUME NEW sel \in Selections
  PROVE  /\ sel.alias \in Maybe(Names) /\ sel.name \in Names /\ sel.args \in Seq(Argument)
         /\ sel.value \in Maybe(Values) /\ sel.subs \in Seq(Selections)
<1>1. sel \in [alias : Maybe(Names), name : Names, args : Seq(Argument), value : Maybe(Values),
               subs : Seq(Selections)]
  BY SelectionsAssumption
<1> QED
  BY <1>1

(* The parts of a selection set each of its fields, in the end, to what it means. *)
LEMMA SelectionParts ==
  ASSUME NEW sel \in Selections
  PROVE  /\ PartsOfSelection(sel) \in Left
         /\ LET left == PartsOfSelection(sel)
            IN  /\ left.definition = <<>> /\ left.type = <<>>
                /\ Becomes(left.name, Absent, sel.name)
                /\ left.argument = sel.args
                /\ \A c \in 1 .. Len(left.comparator) : left.comparator[c] = "EQUAL"
                /\ Becomes(left.value, Absent, sel.value)
                /\ left.selection = sel.subs
<1> DEFINE name == IfThere(sel.alias) \o <<sel.name>>
           cmp == IF sel.value = Absent THEN <<>> ELSE <<"EQUAL">>
<1>1. /\ sel.alias \in Maybe(Names) /\ sel.name \in Names /\ sel.args \in Seq(Argument)
      /\ sel.value \in Maybe(Values) /\ sel.subs \in Seq(Selections)
  BY SelectionIs
<1>2. LET left == PartsOfSelection(sel)
      IN  /\ left.definition = <<>> /\ left.type = <<>> /\ left.name = name
          /\ left.argument = sel.args /\ left.comparator = cmp
          /\ left.value = IfThere(sel.value) /\ left.selection = sel.subs
  BY DEF PartsOfSelection, Nothing
<1>3. name \in Seq(Names) /\ name # <<>> /\ name[Len(name)] = sel.name
  <2>1. IfThere(sel.alias) \in Seq(Names)
    BY <1>1, IfThereIs, AbsentAssumption
  <2> DEFINE q == IfThere(sel.alias)
  <2> HIDE DEF q
  <2>2. q \in Seq(Names)
    BY <2>1 DEF q
  <2>3. q \o <<sel.name>> = Append(q, sel.name)
    BY <1>1, <2>2, AppendIsConcat
  <2>4. /\ Append(q, sel.name) \in Seq(Names) /\ Append(q, sel.name) # <<>>
        /\ Append(q, sel.name)[Len(Append(q, sel.name))] = sel.name
    BY <1>1, <2>2, AppendProperties
  <2> QED
    BY <2>3, <2>4 DEF q
<1>4. cmp \in Seq({"EQUAL"} \cup Other) /\ \A c \in 1 .. Len(cmp) : cmp[c] = "EQUAL"
  <2>1. CASE sel.value = Absent
    BY <2>1
  <2>2. CASE sel.value # Absent
    BY <2>2
  <2> QED
    BY <2>1, <2>2
<1>5. /\ IfThere(sel.value) \in Seq(Values)
      /\ sel.value = Absent => IfThere(sel.value) = <<>>
      /\ sel.value # Absent => IfThere(sel.value) = <<sel.value>>
  BY <1>1, IfThereIs, AbsentAssumption
<1>6. Becomes(IfThere(sel.value), Absent, sel.value)
  BY <1>5 DEF Becomes
<1>7. Becomes(name, Absent, sel.name)
  BY <1>3 DEF Becomes
<1>8. PartsOfSelection(sel) = [Nothing EXCEPT !.name = name, !.argument = sel.args,
        !.comparator = cmp, !.value = IfThere(sel.value), !.selection = sel.subs]
  BY DEF PartsOfSelection
<1> HIDE DEF name, cmp
<1>9. PartsOfSelection(sel) \in Left
  BY <1>1, <1>3, <1>4, <1>5, <1>8, NothingLeft DEF Left
<1> QED
  BY <1>2, <1>4, <1>6, <1>7, <1>9

(* So do the parts of an argument, which starts as NewArgument. *)
LEMMA ArgumentParts ==
  ASSUME NEW arg \in Argument
  PROVE  /\ PartsOfArgument(arg) \in Left
         /\ InArgumentOf(PartsOfArgument(arg), NewArgument, arg)
<1>1. arg.name \in Names /\ arg.comparator \in Maybe({"EQUAL"} \cup Other) /\ arg.value \in Maybe(Values)
  BY DEF Argument
<1>2. LET left == PartsOfArgument(arg)
      IN  /\ left.definition = <<>> /\ left.type = <<>> /\ left.name = <<arg.name>>
          /\ left.argument = <<>> /\ left.comparator = IfThere(arg.comparator)
          /\ left.value = IfThere(arg.value) /\ left.selection = <<>>
  BY DEF PartsOfArgument, Nothing
<1>3. /\ IfThere(arg.value) \in Seq(Values)
      /\ arg.value = Absent => IfThere(arg.value) = <<>>
      /\ arg.value # Absent => IfThere(arg.value) = <<arg.value>>
  BY <1>1, IfThereIs, AbsentAssumption
<1>4. Absent \notin {"EQUAL"} \cup Other
  BY AbsentAssumption
<1>5. /\ IfThere(arg.comparator) \in Seq({"EQUAL"} \cup Other)
      /\ arg.comparator = Absent => IfThere(arg.comparator) = <<>>
      /\ arg.comparator # Absent => IfThere(arg.comparator) = <<arg.comparator>>
  <2> DEFINE S == {"EQUAL"} \cup Other
  <2> HIDE DEF S
  <2>1. Absent \notin S /\ arg.comparator \in Maybe(S)
    BY <1>1, <1>4 DEF S
  <2> QED
    BY <2>1, IfThereIs DEF S
<1>6. MeantArgument(arg).comparator = IF arg.comparator = Absent THEN "EQUAL" ELSE arg.comparator
  BY DEF MeantArgument, Argument
<1>7. PartsOfArgument(arg) \in Left
  <2>1. <<arg.name>> \in Seq(Names)
    BY <1>1
  <2>2. PartsOfArgument(arg) = [Nothing EXCEPT !.name = <<arg.name>>,
          !.comparator = IfThere(arg.comparator), !.value = IfThere(arg.value)]
    BY DEF PartsOfArgument
  <2> DEFINE x == <<arg.name>>
  <2> HIDE DEF x
  <2> QED
    BY <1>3, <1>5, <2>1, <2>2, NothingLeft DEF Left, x
<1>8. /\ Becomes(<<arg.name>>, Absent, arg.name)
      /\ Becomes(IfThere(arg.value), Absent, arg.value)
      /\ Becomes(IfThere(arg.comparator), "EQUAL", MeantArgument(arg).comparator)
  BY <1>3, <1>5, <1>6 DEF Becomes
<1> QED
  BY <1>2, <1>7, <1>8 DEF InArgumentOf, NewArgument

(* The type of the query after one more definition.                              *)
LEMMA TypeNext ==
  ASSUME NEW n \in Nat, NEW t, TypeIs(t, n)
  PROVE  /\ document[n + 1].type = Absent => TypeIs(t, n + 1)
         /\ TypeIs(document[n + 1].type, n + 1)
<1>1. \A m \in 1 .. n + 1 : m \in 1 .. n \/ m = n + 1
  OBVIOUS
<1>2. TypeIs(document[n + 1].type, n + 1)
  <2>1. n + 1 \in 1 .. n + 1 /\ \A l \in (n + 1) + 1 .. n + 1 : FALSE
    OBVIOUS
  <2> QED
    BY <2>1 DEF TypeIs
<1>3. ASSUME document[n + 1].type = Absent PROVE TypeIs(t, n + 1)
  <2>1. CASE t = "SELECT" /\ \A m \in 1 .. n : document[m].type = Absent
    BY <1>1, <1>3, <2>1 DEF TypeIs
  <2>2. CASE \E m \in 1 .. n : /\ document[m].type = t
                              /\ \A l \in m + 1 .. n : document[l].type = Absent
    <3>1. PICK m \in 1 .. n : /\ document[m].type = t
                              /\ \A l \in m + 1 .. n : document[l].type = Absent
      BY <2>2
    <3>2. m \in 1 .. n + 1 /\ \A l \in m + 1 .. n + 1 : l \in m + 1 .. n \/ l = n + 1
      OBVIOUS
    <3> QED
      BY <1>3, <3>1, <3>2 DEF TypeIs
  <2> QED
    BY <2>1, <2>2 DEF TypeIs
<1> QED
  BY <1>2, <1>3
--------------------------------------------------------------------------------
(* Definitions.                                                                  *)
(* What does not change when the message and the places in it do not. *)
LEMMA Quiet ==
  ASSUME IInv, UNCHANGED <<selections, below, stack, argument, read>>
  PROVE  /\ StackInv' /\ DoneInv' /\ Top' = Top /\ InArgument' = InArgument
         /\ \A s \in Places : ReadBelow(s)' = ReadBelow(s)
<1>1. StackInv'
  BY DEF IInv, StackInv, InArgument, Top
<1>2. \A s : ReadBelow(s)' = ReadBelow(s)
  BY DEF ReadBelow
<1>3. DoneInv'
  BY <1>2 DEF IInv, DoneInv, DoneWith
<1> QED
  BY <1>1, <1>2, <1>3 DEF Top, InArgument

(* The document as a whole is what is left at the start. *)
LEMMA InitIInv == Init => IInv
<1> SUFFICES ASSUME Init PROVE IInv
  OBVIOUS
<1> USE DEF Init
<1>1. document \in Seq(Definition)
  BY DocumentsAssumption
<1> DEFINE left == PartsOfDocument(document)
<1>2. /\ left.definition = document /\ left.type = <<>> /\ left.name = <<>> /\ left.argument = <<>>
      /\ left.comparator = <<>> /\ left.value = <<>> /\ left.selection = <<>> /\ left \in Left
  <2>1. PartsOfDocument(document) \in Left
    BY <1>1, NothingLeft DEF Left, PartsOfDocument
  <2> QED
    BY <2>1 DEF PartsOfDocument, Nothing
<1> HIDE DEF left
<1>3. walk = <<[rule |-> "document", left |-> left]>>
  BY DEF Frame, left
<1>4. walk \in Seq(Frames) /\ Len(walk) = 1 /\ walk[1] = [rule |-> "document", left |-> left]
  BY <1>2, <1>3 DEF Frames
<1>5. Len(document) \in Nat /\ Entered = 0
  BY <1>1, <1>2, <1>4, LenProperties DEF Entered
<1>6. /\ stack = <<0>> /\ Len(stack) = 1 /\ stack[1] = 0 /\ stack \in Seq(0 .. 0)
      /\ selections = <<>> /\ Len(selections) = 0 /\ read = <<>> /\ Len(read) = 0
      /\ below = [p \in {0} |-> <<>>] /\ argument = Nowhere /\ ~InArgument
  BY DEF InArgument
<1>7. MessageInv
  <2>1. Places = {0} /\ 0 .. 0 = {0} /\ selections \in Seq(Made) /\ read \in Seq(Selections)
    BY <1>6, EmptySeq DEF Places
  <2>2. below \in [Places -> Seq(1 .. Len(selections))]
    BY <1>6, <2>1, EmptySeq
  <2>3. argument \in [of : Places, at : Nat]
    BY <1>6, <2>1 DEF Nowhere
  <2> QED
    BY <1>1, <1>4, <1>6, <2>1, <2>2, <2>3 DEF MessageInv, Type
<1>8. StackInv /\ WalkInv
  BY <1>4, <1>6 DEF StackInv, WalkInv, RuleAt
<1>9. DocumentInv
  <2>1. ReadBelow(0) = <<>>
    <3>1. below[0] = <<>>
      BY <1>6
    <3> QED
      BY <3>1 DEF ReadBelow
  <2>2. Joined(document)[0] = <<>>
    BY <1>1, JoinedIs
  <2>3. TypeIs(type, 0)
    BY DEF TypeIs
  <2>4. Len(left.definition) <= Len(document)
        /\ \A i \in 1 .. Len(left.definition) : left.definition[i] = document[Entered + i]
    BY <1>2, <1>5
  <2> QED
    BY <1>2, <1>4, <1>5, <2>1, <2>2, <2>3, <2>4 DEF DocumentInv, InDocument
<1>10. DefinitionInv /\ SelectionInv /\ ArgumentInv
  BY <1>4, <1>6 DEF DefinitionInv, SelectionInv, ArgumentInv
<1>11. DoneInv
  BY <1>6 DEF DoneInv
<1> QED
  BY <1>7, <1>8, <1>9, <1>10, <1>11 DEF IInv

(* A definition that is entered has its type, name and selections left. *)
LEMMA EnterDefinitionIInv == IInv /\ EnterDefinition => IInv'
<1> SUFFICES ASSUME IInv, EnterDefinition PROVE IInv'
  OBVIOUS
<1> DEFINE L == Inner.left
           def == Given("definition")
           parts == PartsOfDefinition(def)
<1>1. On("definition") /\ L.definition # <<>>
  BY DEF EnterDefinition, Enter, On
<1>2. AtDocument
  BY <1>1, Where DEF AtDefinition, AtSelection, AtArgument, InDefinition, InSelection, InArgumentOf
<1>3. Len(stack) = 1 /\ Len(walk) = 1 /\ ~InArgument /\ InDocument(L) /\ Inner.rule = "document"
  BY <1>2 DEF AtDocument
<1>4. L \in Left /\ L.definition \in Seq(Definition) /\ Inner = walk[1] /\ Len(walk) = 1
  BY <1>2, EndsAre DEF Frames, Left, AtDocument
<1> DEFINE T == Tail(L.definition)
<1>5. /\ def \in Definition /\ def = L.definition[1] /\ T \in Seq(Definition)
      /\ Len(L.definition) \in Nat \ {0} /\ Len(T) = Len(L.definition) - 1
      /\ \A i \in 1 .. Len(L.definition) - 1 : T[i] = L.definition[i + 1]
  BY <1>1, <1>4, TailIs DEF Given
<1>6. /\ parts \in Left /\ parts.definition = <<>> /\ parts.argument = <<>>
      /\ parts.comparator = <<>> /\ parts.value = <<>> /\ parts.type = IfThere(def.type)
      /\ parts.selection = def.selections
  BY <1>5, DefinitionParts
<1>7. Enter("definition", parts) /\ UNCHANGED <<type, selections, below, stack, argument, read>>
  BY DEF EnterDefinition, query
<1> HIDE DEF def, parts, T
<1>8. /\ walk' \in Seq(Frames) /\ Len(walk') = 2 /\ document' = document
      /\ walk'[1].rule = "document"
      /\ walk'[2] = [rule |-> "definition", left |-> parts]
  <2>1. /\ walk' \in Seq(Frames) /\ Len(walk') = Len(walk) + 1 /\ document' = document
        /\ walk'[Len(walk)].rule = Inner.rule
        /\ walk'[Len(walk) + 1] = [rule |-> "definition", left |-> parts]
    BY <1>6, <1>7, EnterIs
  <2> QED
    BY <1>2, <1>4, <2>1 DEF AtDocument
<1>9. StackInv' /\ DoneInv' /\ ~InArgument' /\ ReadBelow(0)' = ReadBelow(0)
  <2>1. 0 \in Places
    BY EndsAre DEF Places
  <2> QED
    BY <1>2, <1>7, <2>1, Quiet DEF AtDocument
<1>10. MessageInv'
  BY <1>7, <1>8 DEF IInv, MessageInv, Places
<1>11. WalkInv'
  <2>1. Len(stack') = 1 /\ Len(walk') = Len(stack') + 1 /\ \A k \in 1 .. 2 : k = 1 \/ k = 2
    BY <1>7, <1>8, <1>3
  <2>2. \A k \in 1 .. 2 : walk'[k].rule = RuleAt(k)'
    BY <1>8, <2>1 DEF RuleAt
  <2> QED
    BY <1>8, <1>9, <2>1, <2>2 DEF WalkInv
<1>12. /\ walk'[1].left.definition = T /\ walk'[1].left.type = L.type /\ walk'[1].left.name = L.name
       /\ walk'[1].left.argument = L.argument /\ walk'[1].left.comparator = L.comparator
       /\ walk'[1].left.value = L.value /\ walk'[1].left.selection = L.selection
  <2>1. \A k \in KindSet : walk'[1].left[k] = IF k = "definition" THEN Tail(L[k]) ELSE L[k]
    <3>1. \A k \in KindSet :
            walk'[Len(walk)].left[k]
              = IF k = "definition" THEN Tail(Inner.left[k]) ELSE Inner.left[k]
      BY <1>6, <1>7, EnterIs
    <3> QED
      BY <1>4, <3>1
  <2> QED
    BY <2>1 DEF KindSet, T
<1>13. InDocument(L) /\ Entered = Len(document) - Len(L.definition) /\ Len(document) \in Nat
  BY <1>2, <1>4, LenProperties DEF AtDocument, Entered, IInv, MessageInv
<1>14. Len(L.definition) <= Len(document)
       /\ \A i \in 1 .. Len(L.definition) : L.definition[i] = document[Entered + i]
  BY <1>13 DEF InDocument
<1>15. Entered' = Len(document) - Len(T)
  BY <1>8, <1>12 DEF Entered
<1> HIDE DEF L
<1>16. Entered \in Nat /\ Entered' = Entered + 1 /\ Entered + 1 \in 1 .. Len(document)
  BY <1>5, <1>13, <1>14, <1>15
<1>17. def = document[Entered + 1]
  <2>1. 1 \in 1 .. Len(L.definition)
    BY <1>5
  <2> QED
    BY <1>5, <1>14, <2>1
<1>18. DocumentInv'
  <2>1. ASSUME NEW i \in 1 .. Len(T) PROVE T[i] = document[Entered + 1 + i]
    <3>1. i + 1 \in 1 .. Len(L.definition) /\ T[i] = L.definition[i + 1]
      BY <1>5
    <3>2. L.definition[i + 1] = document[Entered + (i + 1)]
      BY <1>14, <3>1
    <3>3. Entered + (i + 1) = Entered + 1 + i
      BY <1>16
    <3> QED
      BY <3>1, <3>2, <3>3
  <2>2. Len(T) <= Len(document)
    BY <1>5, <1>13, <1>14
  <2>3. /\ walk'[1].left.type = <<>> /\ walk'[1].left.name = <<>> /\ walk'[1].left.argument = <<>>
        /\ walk'[1].left.comparator = <<>> /\ walk'[1].left.value = <<>>
        /\ walk'[1].left.selection = <<>>
    BY <1>12, <1>13 DEF InDocument
  <2>4. /\ Len(walk'[1].left.definition) <= Len(document')
        /\ \A i \in 1 .. Len(walk'[1].left.definition) :
             walk'[1].left.definition[i] = document'[Entered' + i]
    BY <1>8, <1>12, <1>16, <2>1, <2>2
  <2>5. Len(walk') # 1
    BY <1>8
  <2> QED
    BY <2>3, <2>4, <2>5 DEF DocumentInv, InDocument
<1>19. DefinitionInv'
  <2>1. TypeIs(type, Entered) /\ ReadBelow(0) = Joined(document)[Entered]
    BY <1>13, <1>3 DEF InDocument
  <2>2. \E t \in Type : TypeIs(t, Entered + 1) /\ Becomes(parts.type, type, t)
    <3>1. def.type \in Maybe(Type) /\ type \in Type
      BY <1>5 DEF Definition, IInv, MessageInv
    <3>2. TypeIs(def.type, Entered + 1) /\ (def.type = Absent => TypeIs(type, Entered + 1))
      BY <1>16, <1>17, <2>1, TypeNext
    <3>3. /\ def.type = Absent => parts.type = <<>>
          /\ def.type # Absent => def.type \in Type /\ parts.type = <<def.type>>
      BY <1>6, <3>1, IfThereIs, AbsentAssumption
    <3>4. CASE def.type = Absent
      BY <3>1, <3>2, <3>3, <3>4 DEF Becomes
    <3>5. CASE def.type # Absent
      <4>1. Becomes(<<def.type>>, type, def.type)
        BY DEF Becomes
      <4> QED
        BY <3>2, <3>3, <3>5, <4>1
    <3> QED
      BY <3>4, <3>5
  <2>3. Joined(document)[Entered + 1] = Joined(document)[Entered] \o def.selections
    <3>1. document \in Seq(Definition) /\ (Entered + 1) - 1 = Entered
      BY <1>16 DEF IInv, MessageInv
    <3> QED
      BY <1>16, <1>17, <3>1, JoinedIs
  <2>4. \E t \in Type : TypeIs(t, Entered)' /\ Becomes(parts.type, type', t)
    BY <1>7, <1>8, <1>16, <2>2 DEF TypeIs
  <2>5. ReadBelow(0)' \o parts.selection = Joined(document')[Entered']
    BY <1>6, <1>8, <1>9, <1>16, <2>1, <2>3
  <2>6. walk'[2].left = parts
    BY <1>8
  <2> QED
    BY <1>6, <2>4, <2>5, <2>6 DEF DefinitionInv, InDefinition
<1>20. SelectionInv' /\ ArgumentInv'
  <2>1. Len(stack') = 1 /\ \A i \in 2 .. 1 : FALSE
    BY <1>7, <1>3
  <2> QED
    BY <1>9, <2>1 DEF SelectionInv, ArgumentInv
<1> QED
  BY <1>9, <1>10, <1>11, <1>18, <1>19, <1>20 DEF IInv
--------------------------------------------------------------------------------
(* In a definition nothing more is read of the document, ... *)
LEMMA DocumentKept ==
  ASSUME IInv, document' = document, walk'[1] = walk[1], Len(walk') # 1
  PROVE  DocumentInv' /\ Entered' = Entered
<1>1. Entered' = Entered
  BY DEF Entered
<1> QED
  BY <1>1 DEF IInv, DocumentInv, InDocument

(* ... and in a selection nothing of the definition. *)
LEMMA DefinitionKept ==
  ASSUME IInv, document' = document, walk'[1] = walk[1], walk'[2] = walk[2], Len(walk) >= 2,
         type' = type, ReadBelow(0)' = ReadBelow(0)
  PROVE  DefinitionInv'
<1>1. Entered' = Entered
  BY DEF Entered
<1>2. \A t : TypeIs(t, Entered)' <=> TypeIs(t, Entered)
  BY <1>1 DEF TypeIs
<1> QED
  BY <1>1, <1>2 DEF IInv, DefinitionInv, InDefinition

(* A definition that is left has been read. *)
LEMMA ExitDefinitionIInv == IInv /\ ExitDefinition => IInv'
<1> SUFFICES ASSUME IInv, ExitDefinition PROVE IInv'
  OBVIOUS
<1>1. Exit("definition") /\ UNCHANGED <<type, selections, below, stack, argument, read>>
  BY DEF ExitDefinition, query
<1>2. /\ Inner = [rule |-> "definition", left |-> Nothing]
      /\ walk' \in Seq(Frames) /\ Len(walk') = Len(walk) - 1
      /\ \A k \in 1 .. Len(walk) - 1 : walk'[k] = walk[k]
      /\ document' = document
  BY <1>1, ExitIs
<1>3. AtDefinition
  BY <1>2, Where DEF AtDocument, AtSelection, AtArgument
<1>4. Len(walk) = 2 /\ Len(stack) = 1 /\ ~InArgument /\ InDefinition(Inner.left)
  BY <1>3 DEF AtDefinition
<1>5. Len(walk') = 1 /\ walk'[1] = walk[1]
  BY <1>2, <1>4
<1>6. StackInv' /\ DoneInv' /\ ~InArgument' /\ ReadBelow(0)' = ReadBelow(0)
  <2>1. 0 \in Places
    BY EndsAre DEF Places
  <2> QED
    BY <1>1, <1>4, <2>1, Quiet
<1>7. MessageInv'
  BY <1>1, <1>2 DEF IInv, MessageInv, Places
<1>8. WalkInv'
  <2>1. Len(stack') = 1 /\ \A k \in 1 .. 1 : k = 1
    BY <1>1, <1>4
  <2>2. walk[1].rule = "document"
    BY <1>4 DEF IInv, WalkInv, RuleAt
  <2>3. \A k \in 1 .. 1 : walk'[k].rule = RuleAt(k)'
    BY <1>5, <2>1, <2>2 DEF RuleAt
  <2> QED
    BY <1>5, <1>6, <2>1, <2>3 DEF WalkInv
<1>9. DocumentInv'
  <2>1. Entered' = Entered
    BY <1>2, <1>5 DEF Entered
  <2>2. TypeIs(type, Entered)
    <3>1. PICK t \in Type : TypeIs(t, Entered) /\ Becomes(Inner.left.type, type, t)
      BY <1>4 DEF InDefinition
    <3>2. Inner.left.type = <<>>
      BY <1>2 DEF Nothing
    <3> QED
      BY <3>1, <3>2 DEF Becomes
  <2>3. ReadBelow(0) = Joined(document)[Entered]
    <3>1. Inner.left.selection = <<>>
      BY <1>2 DEF Nothing
    <3>2. 0 \in Places
      BY EndsAre DEF Places
    <3>3. ReadBelow(0) \o <<>> = ReadBelow(0)
      BY <3>2, ReadBelowIs, ConcatEmptySeq
    <3> QED
      BY <1>4, <3>1, <3>3 DEF InDefinition
  <2>4. TypeIs(type, Entered)'
    BY <1>1, <1>2, <2>1, <2>2 DEF TypeIs
  <2> QED
    BY <1>2, <1>5, <1>6, <2>1, <2>3, <2>4 DEF IInv, DocumentInv, InDocument
<1>10. DefinitionInv' /\ SelectionInv' /\ ArgumentInv'
  <2>1. Len(stack') = 1 /\ \A i \in 2 .. 1 : FALSE
    BY <1>1, <1>4
  <2> QED
    BY <1>5, <1>6, <2>1 DEF DefinitionInv, SelectionInv, ArgumentInv
<1> QED
  BY <1>6, <1>7, <1>8, <1>9, <1>10 DEF IInv

(* The type of a definition, and its name, which nobody keeps.                   *)
LEMMA InDefinitionIInv ==
  ASSUME IInv, AtDefinition, NEW kind \in {"type", "name"}, Pass(kind),
         UNCHANGED <<selections, below, stack, argument, read>>,
         type' = IF kind = "type" THEN Given("type") ELSE type
  PROVE  IInv'
<1> DEFINE L == Inner.left
<1>1. /\ L[kind] # <<>> /\ L[kind] \in Seq(What(kind))
      /\ walk' \in Seq(Frames) /\ Len(walk') = Len(walk)
      /\ \A k \in 1 .. Len(walk) - 1 : walk'[k] = walk[k]
      /\ walk'[Len(walk)].rule = Inner.rule
      /\ \A k \in KindSet : walk'[Len(walk)].left[k] = IF k = kind THEN Tail(L[k]) ELSE L[k]
      /\ document' = document
  <2>1. kind \in KindSet
    BY DEF KindSet
  <2> QED
    BY <2>1, PassIs
<1>2. /\ Len(walk) = 2 /\ Len(stack) = 1 /\ ~InArgument /\ InDefinition(L)
      /\ Inner.rule = "definition"
  BY DEF AtDefinition
<1>3. walk'[1] = walk[1] /\ walk'[2].rule = "definition"
  BY <1>1, <1>2
<1>4. \A k \in KindSet : walk'[2].left[k] = IF k = kind THEN Tail(L[k]) ELSE L[k]
  BY <1>1, <1>2
<1>5. StackInv' /\ DoneInv' /\ ~InArgument' /\ ReadBelow(0)' = ReadBelow(0)
  <2>1. 0 \in Places
    BY EndsAre DEF Places
  <2> QED
    BY <1>2, <2>1, Quiet
<1>6. kind = "type" => type' = Head(L.type) /\ L.type # <<>> /\ L.type \in Seq(Type)
  BY <1>1 DEF Given, What
<1>7. MessageInv'
  <2>1. type' \in Type
    BY <1>6, TailIs DEF IInv, MessageInv
  <2> QED
    BY <1>1, <2>1 DEF IInv, MessageInv, Places
<1>8. WalkInv'
  <2>1. Len(stack') = 1 /\ Len(walk') = Len(stack') + 1 /\ \A k \in 1 .. 2 : k = 1 \/ k = 2
    BY <1>1, <1>2
  <2>2. walk[1].rule = "document"
    BY <1>2 DEF IInv, WalkInv, RuleAt
  <2>3. \A k \in 1 .. 2 : walk'[k].rule = RuleAt(k)'
    BY <1>3, <2>1, <2>2 DEF RuleAt
  <2> QED
    BY <1>1, <1>2, <1>5, <2>1, <2>3 DEF WalkInv
<1>9. DocumentInv' /\ Entered' = Entered
  BY <1>1, <1>2, <1>3, DocumentKept
<1>10. DefinitionInv'
  <2>1. /\ walk'[2].left.definition = L.definition /\ walk'[2].left.argument = L.argument
        /\ walk'[2].left.comparator = L.comparator /\ walk'[2].left.value = L.value
        /\ walk'[2].left.selection = L.selection
        /\ walk'[2].left.type = IF kind = "type" THEN Tail(L.type) ELSE L.type
    BY <1>4 DEF KindSet
  <2>2. PICK t \in Type : TypeIs(t, Entered) /\ Becomes(L.type, type, t)
    BY <1>2 DEF InDefinition
  <2>3. Becomes(walk'[2].left.type, type', t)
    <3>1. CASE kind = "type"
      BY <1>6, <2>1, <2>2, <3>1, BecomesTail
    <3>2. CASE kind = "name"
      BY <2>1, <2>2, <3>2
    <3> QED
      BY <3>1, <3>2
  <2>4. TypeIs(t, Entered)'
    BY <1>1, <1>9, <2>2 DEF TypeIs
  <2>5. ReadBelow(0)' \o walk'[2].left.selection = Joined(document')[Entered']
    BY <1>1, <1>2, <1>5, <1>9, <2>1 DEF InDefinition
  <2> QED
    BY <1>2, <2>1, <2>3, <2>4, <2>5 DEF DefinitionInv, InDefinition
<1>11. SelectionInv' /\ ArgumentInv'
  <2>1. Len(stack') = 1 /\ \A i \in 2 .. 1 : FALSE
    BY <1>2
  <2> QED
    BY <1>5, <2>1 DEF SelectionInv, ArgumentInv
<1> QED
  BY <1>5, <1>7, <1>8, <1>9, <1>10, <1>11 DEF IInv

(* The type of the query is that of the last definition that has one. *)
LEMMA EnterTypeIInv == IInv /\ EnterType => IInv'
<1> SUFFICES ASSUME IInv, EnterType PROVE IInv'
  OBVIOUS
<1>1. Pass("type") /\ Inner.left.type # <<>>
  BY DEF EnterType, Pass, On
<1>2. AtDefinition
  BY <1>1, Where DEF AtDocument, AtSelection, AtArgument, InDocument, InSelection, InArgumentOf
<1> QED
  BY <1>1, <1>2, InDefinitionIInv DEF EnterType
--------------------------------------------------------------------------------
(* Selections and arguments.                                                     *)
(* What a step does not change: the rules around the innermost one, and all the  *)
(* selections but the one on top of the stack.                                   *)
Elsewhere ==
  /\ document' = document /\ type' = type
  /\ \A k \in 1 .. Len(walk) - 1 : walk'[k] = walk[k]
  /\ \A i \in 1 .. Len(stack) - 1 : stack'[i] = stack[i]
  /\ \A s \in 1 .. Len(selections) :
       /\ s # Top => selections'[s] = selections[s] /\ OpenIn(s)' = OpenIn(s)
       /\ read'[s] = read[s]
  /\ \A s \in Places : s # Top => below'[s] = below[s]

(* A selection around the top is another one. *)
LEMMA AroundIs ==
  ASSUME IInv, NEW i \in 2 .. Len(stack)
  PROVE  /\ stack[i] \in 1 .. Len(selections)
         /\ i # Len(stack) => stack[i] # Top
<1>1. /\ Len(stack) \in Nat \ {0} /\ Top = stack[Len(stack)] /\ Len(selections) \in Nat
      /\ \A j \in 1 .. Len(stack) : stack[j] \in 0 .. Len(selections)
  BY EndsAre DEF Places
<1>2. stack[1] = 0 /\ \A j \in 1 .. Len(stack) : \A k \in 1 .. j - 1 : stack[k] < stack[j]
  BY DEF IInv, StackInv
<1>3. 1 \in 1 .. i - 1 /\ i \in 1 .. Len(stack)
  BY <1>1
<1>4. 0 < stack[i] /\ stack[i] \in 0 .. Len(selections)
  BY <1>1, <1>2, <1>3
<1>5. ASSUME i # Len(stack) PROVE stack[i] < Top
  <2>1. i \in 1 .. Len(stack) - 1 /\ Len(stack) \in 1 .. Len(stack)
    BY <1>1, <1>5
  <2> QED
    BY <1>1, <1>2, <2>1
<1>6. Top \in 0 .. Len(selections)
  BY EndsAre DEF Places
<1> QED
  BY <1>1, <1>4, <1>5, <1>6

(* A step elsewhere keeps what the selections around the top, and those done, mean. *)
LEMMA AroundKept ==
  ASSUME IInv, Elsewhere
  PROVE  /\ \A i \in 2 .. Len(stack) - 1 : SelectionAt(i)'
         /\ \A s \in 1 .. Len(selections) : (\A i \in 1 .. Len(stack) : stack[i] # s) => DoneWith(s)'
<1>1. Len(stack) \in Nat \ {0} /\ Top = stack[Len(stack)] /\ Len(walk) \in Nat
  BY EndsAre
<1>2. ASSUME NEW s \in 1 .. Len(selections), s # Top PROVE ReadBelow(s)' = ReadBelow(s)
  <2>1. s \in Places /\ below'[s] = below[s] /\ \A t \in 1 .. Len(selections) : read'[t] = read[t]
    BY <1>2, EndsAre DEF Elsewhere, Places
  <2> QED
    BY <2>1, ReadBelowKept
<1>3. ASSUME NEW i \in 2 .. Len(stack) - 1 PROVE SelectionAt(i)'
  <2>1. i \in 2 .. Len(stack) /\ i # Len(stack) /\ i \in 1 .. Len(stack) - 1
    BY <1>1
  <2>2. stack[i] \in 1 .. Len(selections) /\ stack[i] # Top
    BY <2>1, AroundIs
  <2>3. i + 1 \in 1 .. Len(walk) - 1
    BY <1>1, <2>1 DEF IInv, WalkInv
  <2>4. walk'[i + 1] = walk[i + 1] /\ stack'[i] = stack[i]
    BY <2>1, <2>3 DEF Elsewhere
  <2>5. PICK s \in 1 .. Len(selections) : s = stack[i]
    BY <2>2
  <2>6. s # Top /\ s = stack'[i]
    BY <2>2, <2>4, <2>5
  <2>7. /\ selections'[s] = selections[s] /\ OpenIn(s)' = OpenIn(s) /\ read'[s] = read[s]
        /\ ReadBelow(s)' = ReadBelow(s)
    BY <1>2, <2>6 DEF Elsewhere
  <2>8. InSelection(walk[i + 1].left, selections[s], read[s], OpenIn(s), ReadBelow(s))
    BY <2>1, <2>5 DEF IInv, SelectionInv, SelectionAt
  <2>9. InSelection(walk'[i + 1].left, selections'[s], read'[s], OpenIn(s)', ReadBelow(s)')
    BY <2>4, <2>7, <2>8
  <2>10. OpenIn(stack[i])' = OpenIn(s)' /\ ReadBelow(stack[i])' = ReadBelow(s)'
    BY <2>6 DEF OpenIn, ReadBelow
  <2> QED
    BY <2>6, <2>9, <2>10 DEF SelectionAt
<1>4. ASSUME NEW s \in 1 .. Len(selections), \A i \in 1 .. Len(stack) : stack[i] # s
      PROVE  DoneWith(s)'
  <2>1. s # Top
    BY <1>1, <1>4
  <2>2. DoneWith(s)
    BY <1>4 DEF IInv, DoneInv
  <2> QED
    BY <1>2, <2>1, <2>2 DEF DoneWith, Elsewhere
<1> QED
  BY <1>3, <1>4

(* A step in a selection or an argument keeps the document and the definition. *)
LEMMA OuterKept ==
  ASSUME IInv, Elsewhere, AtSelection \/ AtArgument, Len(walk') # 1
  PROVE  DocumentInv' /\ DefinitionInv'
<1>1. /\ Len(walk) \in Nat /\ Len(walk) >= 3 /\ Top \in 1 .. Len(selections)
      /\ Len(selections) \in Nat /\ Len(stack) \in Nat
  BY EndsAre DEF AtSelection, AtArgument
<1>2. 1 \in 1 .. Len(walk) - 1 /\ 2 \in 1 .. Len(walk) - 1 /\ Len(walk) >= 2 /\ 0 \in Places /\ Top # 0
  BY <1>1 DEF Places
<1>3. walk'[1] = walk[1] /\ walk'[2] = walk[2] /\ document' = document /\ type' = type
  BY <1>2 DEF Elsewhere
<1>4. ReadBelow(0)' = ReadBelow(0)
  <2>1. below'[0] = below[0] /\ \A t \in 1 .. Len(selections) : read'[t] = read[t]
    BY <1>2 DEF Elsewhere
  <2> QED
    BY <1>2, <2>1, ReadBelowKept
<1> QED
  BY <1>2, <1>3, <1>4, DocumentKept, DefinitionKept

(* The open argument is complete when it is left. *)
LEMMA ExitArgumentIInv == IInv /\ ExitArgument => IInv'
<1> SUFFICES ASSUME IInv, ExitArgument PROVE IInv'
  OBVIOUS
<1>1. Exit("argument") /\ UNCHANGED <<type, selections, below, stack, read>> /\ argument' = Nowhere
  BY DEF ExitArgument, query
<1>2. /\ Inner = [rule |-> "argument", left |-> Nothing]
      /\ walk' \in Seq(Frames) /\ Len(walk') = Len(walk) - 1
      /\ \A k \in 1 .. Len(walk) - 1 : walk'[k] = walk[k]
      /\ document' = document
  BY <1>1, ExitIs
<1>3. AtArgument
  BY <1>2, Where DEF AtDocument, AtDefinition, AtSelection
<1>4. /\ Len(walk) = Len(stack) + 2 /\ Len(stack) \in Nat /\ Len(stack) >= 2
      /\ Top \in 1 .. Len(selections) /\ argument.of = Top
      /\ argument.at = Len(selections[Top].args)
      /\ InArgumentOf(Nothing, selections[Top].args[argument.at], read[Top].args[argument.at])
      /\ Top = stack[Len(stack)] /\ Len(selections[Top].args) \in Nat \ {0}
  BY <1>2, <1>3, EndsAre DEF AtArgument
<1>5. Elsewhere
  <2>1. \A s \in 1 .. Len(selections) : s # Top => OpenIn(s)' = OpenIn(s)
    BY <1>1, <1>4 DEF OpenIn, Nowhere
  <2> QED
    BY <1>1, <1>2, <2>1 DEF Elsewhere
<1>6. ~InArgument' /\ OpenIn(Top)' = 0
  BY <1>1 DEF InArgument, Top, OpenIn, Nowhere
<1>7. MessageInv'
  <2>1. argument' \in [of : Places', at : Nat]
    BY <1>1, EndsAre DEF Nowhere, Places
  <2> QED
    BY <1>1, <1>2, <2>1 DEF IInv, MessageInv, Places
<1>8. StackInv'
  BY <1>1, <1>6 DEF IInv, StackInv
<1>9. WalkInv'
  <2>1. \A k \in 1 .. Len(walk') : walk'[k].rule = RuleAt(k)'
    BY <1>1, <1>2, <1>4 DEF IInv, WalkInv, RuleAt
  <2> QED
    BY <1>1, <1>2, <1>4, <1>6, <2>1 DEF WalkInv
<1>10. DocumentInv' /\ DefinitionInv'
  BY <1>2, <1>3, <1>4, <1>5, OuterKept
<1>11. SelectionAt(Len(stack))'
  <2> DEFINE made == selections[Top]
             sel == read[Top]
             n == Len(made.args)
             left == walk[Len(stack) + 1].left
  <2>1. SelectionAt(Len(stack))
    BY <1>4 DEF IInv, SelectionInv
  <2>2. InSelection(left, made, sel, n, ReadBelow(Top))
    BY <1>4, <2>1 DEF SelectionAt, OpenIn
  <2>3. made.args[n] = MeantArgument(sel.args[n])
    <3>1. /\ made.args \in Seq(MadeArgument) /\ sel.args \in Seq(Argument)
          /\ n \in 1 .. n /\ n <= Len(sel.args)
      <4>1. made \in Made /\ sel \in Selections
        BY <1>4, ElementOfSeq DEF IInv, MessageInv
      <4>2. Len(left.argument) \in Nat
        <5>1. walk[Len(stack) + 1] \in Frames
          BY <1>4, EndsAre
        <5> QED
          BY <5>1, LenProperties DEF Frames, Left
      <4>3. Len(made.args) + Len(left.argument) = Len(sel.args)
        BY <2>2 DEF InSelection
      <4>4. made.args \in Seq(MadeArgument) /\ sel.args \in Seq(Argument)
        BY <4>1, SelectionIs DEF Made
      <4>5. n \in Nat \ {0} /\ n + Len(left.argument) = Len(sel.args)
        BY <1>4, <4>3
      <4> HIDE DEF made, sel, n, left
      <4>6. n \in 1 .. n /\ n <= Len(sel.args)
        BY <4>2, <4>5
      <4> QED
        BY <4>4, <4>6
    <3>2. made.args[n] \in MadeArgument /\ sel.args[n] \in Argument
      BY <3>1, ElementOfSeq
    <3>3. /\ made.args[n].name = sel.args[n].name /\ made.args[n].value = sel.args[n].value
          /\ made.args[n].comparator = MeantArgument(sel.args[n]).comparator
      BY <1>4 DEF InArgumentOf, Becomes, Nothing
    <3> QED
      BY <3>2, <3>3 DEF MadeArgument, Argument, MeantArgument
  <2>4. InSelection(left, made, sel, 0, ReadBelow(Top))
    <3> HIDE DEF made, sel, n, left
    <3> QED
      BY <2>2, <2>3 DEF InSelection, n
  <2>5. /\ walk'[Len(stack) + 1].left = left /\ stack'[Len(stack)] = Top
        /\ selections'[Top] = made /\ read'[Top] = sel
    BY <1>1, <1>2, <1>4
  <2>6. ReadBelow(Top) = ReadBelow(stack[Len(stack)])' /\ OpenIn(stack[Len(stack)])' = 0
    BY <1>1, <1>4 DEF ReadBelow, OpenIn, Nowhere
  <2> QED
    BY <1>1, <1>4, <2>4, <2>5, <2>6 DEF SelectionAt
<1>12. SelectionInv'
  <2>1. \A i \in 2 .. Len(stack) - 1 : SelectionAt(i)'
    BY <1>5, AroundKept
  <2>2. \A i \in 2 .. Len(stack) : i \in 2 .. Len(stack) - 1 \/ i = Len(stack)
    BY <1>4
  <2> QED
    BY <1>1, <1>11, <2>1, <2>2 DEF SelectionInv
<1>13. DoneInv'
  BY <1>1, <1>5, AroundKept DEF DoneInv
<1>14. ArgumentInv'
  BY <1>6 DEF ArgumentInv
<1> QED
  BY <1>7, <1>8, <1>9, <1>10, <1>12, <1>13, <1>14 DEF IInv

(* An argument is entered: the last one of the top, with nothing set. *)
LEMMA EnterArgumentIInv == IInv /\ EnterArgument => IInv'
<1> SUFFICES ASSUME IInv, EnterArgument PROVE IInv'
  OBVIOUS
<1> DEFINE L == Inner.left
           arg == Given("argument")
           parts == PartsOfArgument(arg)
           made == selections[Top]
           sel == read[Top]
           n == Len(made.args)
           m == Len(stack)
<1>1. On("argument") /\ L.argument # <<>>
  BY DEF EnterArgument, Enter, On
<1>2. AtSelection
  BY <1>1, Where DEF AtDocument, AtDefinition, AtArgument, InDocument, InDefinition, InArgumentOf
<1>3. /\ Len(walk) = m + 1 /\ m \in Nat /\ m >= 2 /\ ~InArgument
      /\ Top \in 1 .. Len(selections) /\ Len(selections) \in Nat /\ Top = stack[m]
      /\ InSelection(L, made, sel, 0, ReadBelow(Top)) /\ Inner.rule = "selection"
      /\ Inner = walk[m + 1]
  BY <1>2, EndsAre DEF AtSelection
<1>4. L \in Left /\ L.argument \in Seq(Argument)
  BY EndsAre DEF Frames, Left
<1> DEFINE T == Tail(L.argument)
<1>5. /\ arg \in Argument /\ arg = L.argument[1] /\ T \in Seq(Argument)
      /\ Len(L.argument) \in Nat \ {0} /\ Len(T) = Len(L.argument) - 1
      /\ \A i \in 1 .. Len(L.argument) - 1 : T[i] = L.argument[i + 1]
  BY <1>1, <1>4, TailIs DEF Given
<1>6. parts \in Left /\ InArgumentOf(parts, NewArgument, arg)
  BY <1>5, ArgumentParts
<1>7. /\ Enter("argument", parts)
      /\ selections' = [selections EXCEPT ![Top].args = Append(@, NewArgument)]
      /\ argument' = [of |-> Top, at |-> Len(selections'[Top].args)]
      /\ UNCHANGED <<type, below, stack, read>>
  BY DEF EnterArgument
<1>8. made \in Made /\ sel \in Selections /\ made.args \in Seq(MadeArgument) /\ sel.args \in Seq(Argument)
  <2>1. made \in Made /\ sel \in Selections
    BY <1>3, ElementOfSeq DEF IInv, MessageInv
  <2> QED
    BY <2>1, SelectionIs DEF Made
<1>9. n \in Nat
  BY <1>8, LenProperties
<1> DEFINE args == Append(made.args, NewArgument)
           new == [made EXCEPT !.args = args]
<1>10. /\ args \in Seq(MadeArgument) /\ Len(args) = n + 1 /\ args[n + 1] = NewArgument
       /\ \A a \in 1 .. n : args[a] = made.args[a]
  <2>1. NewArgument \in MadeArgument
    BY DEF NewArgument, MadeArgument, Maybe
  <2> QED
    BY <1>8, <2>1, AppendProperties
<1>11. new \in Made /\ new.args = args /\ new.name = made.name /\ new.value = made.value
  BY <1>8, <1>10 DEF Made
<1>12. /\ selections' \in Seq(Made) /\ Len(selections') = Len(selections) /\ selections'[Top] = new
       /\ \A s \in 1 .. Len(selections) : s # Top => selections'[s] = selections[s]
  <2>1. selections \in Seq(Made)
    BY DEF IInv, MessageInv
  <2>2. selections' = [selections EXCEPT ![Top] = new]
    BY <1>7
  <2> HIDE DEF new
  <2> QED
    BY <1>3, <1>11, <2>1, <2>2, ExceptSeq
<1>13. argument' = [of |-> Top, at |-> n + 1]
  BY <1>7, <1>10, <1>11, <1>12
<1>14. /\ walk' \in Seq(Frames) /\ Len(walk') = m + 2 /\ document' = document
       /\ \A k \in 1 .. m : walk'[k] = walk[k]
       /\ walk'[m + 1].rule = "selection" /\ walk'[m + 2] = [rule |-> "argument", left |-> parts]
       /\ \A k \in KindSet : walk'[m + 1].left[k] = IF k = "argument" THEN Tail(L[k]) ELSE L[k]
  <2> HIDE DEF parts, L, m
  <2>1. /\ walk' \in Seq(Frames) /\ Len(walk') = Len(walk) + 1
        /\ \A k \in 1 .. Len(walk) - 1 : walk'[k] = walk[k]
        /\ walk'[Len(walk)].rule = Inner.rule
        /\ \A k \in KindSet :
             walk'[Len(walk)].left[k] = IF k = "argument" THEN Tail(Inner.left[k]) ELSE Inner.left[k]
        /\ walk'[Len(walk) + 1] = [rule |-> "argument", left |-> parts]
        /\ document' = document
    BY <1>6, <1>7, EnterIs
  <2>2. Len(walk) + 1 = m + 2 /\ Len(walk) - 1 = m
    BY <1>3
  <2> QED
    BY <1>3, <2>1, <2>2 DEF L
<1> HIDE DEF arg, parts, args, new
<1>15. Elsewhere
  <2>1. \A s \in 1 .. Len(selections) : s # Top => OpenIn(s)' = OpenIn(s)
    <3>1. argument.of = 0
      BY <1>3 DEF InArgument, Nowhere
    <3> QED
      BY <1>3, <1>13, <3>1 DEF OpenIn
  <2> QED
    BY <1>3, <1>7, <1>12, <1>14, <2>1 DEF Elsewhere
<1>16. InArgument' /\ Top' = Top
  BY <1>3, <1>7, <1>13 DEF InArgument, Top, Nowhere
<1>17. MessageInv'
  <2>1. argument' \in [of : Places', at : Nat]
    BY <1>3, <1>9, <1>12, <1>13 DEF Places
  <2> QED
    BY <1>7, <1>12, <1>14, <2>1 DEF IInv, MessageInv, Places
<1>18. StackInv'
  <2>1. argument'.of = Top /\ argument'.at = Len(selections'[Top].args) /\ argument'.at # 0
    BY <1>9, <1>10, <1>11, <1>12, <1>13
  <2>2. Len(stack) # 1
    BY <1>3
  <2> QED
    BY <1>7, <1>16, <2>1, <2>2 DEF IInv, StackInv
<1>19. WalkInv'
  <2>1. \A k \in 1 .. m : walk'[k].rule = RuleAt(k)'
    BY <1>3, <1>7, <1>14 DEF IInv, WalkInv, RuleAt
  <2>2. walk'[m + 1].rule = RuleAt(m + 1)' /\ walk'[m + 2].rule = RuleAt(m + 2)'
    BY <1>3, <1>7, <1>14 DEF RuleAt
  <2>3. \A k \in 1 .. m + 2 : k \in 1 .. m \/ k = m + 1 \/ k = m + 2
    BY <1>3
  <2> QED
    BY <1>7, <1>14, <1>16, <2>1, <2>2, <2>3 DEF WalkInv
<1>20. DocumentInv' /\ DefinitionInv'
  BY <1>2, <1>3, <1>14, <1>15, OuterKept
<1>21. Len(sel.args) = n + Len(L.argument) /\ arg = sel.args[n + 1]
  <2>1. /\ n + Len(L.argument) = Len(sel.args)
        /\ \A a \in 1 .. Len(L.argument) : L.argument[a] = sel.args[n + a]
    BY <1>3 DEF InSelection
  <2>2. 1 \in 1 .. Len(L.argument)
    BY <1>5
  <2> QED
    BY <1>5, <2>1, <2>2
<1>22. SelectionAt(m)'
  <2> DEFINE M == walk'[m + 1].left
  <2>1. /\ M.definition = L.definition /\ M.type = L.type /\ M.name = L.name /\ M.argument = T
        /\ M.comparator = L.comparator /\ M.value = L.value /\ M.selection = L.selection
    BY <1>14 DEF KindSet
  <2>2. ReadBelow(Top)' = ReadBelow(Top)
    BY <1>7 DEF ReadBelow, Top
  <2> HIDE DEF M
  <2>3. Len(new.args) + Len(M.argument) = Len(sel.args)
    <3>1. Len(new.args) = n + 1 /\ Len(M.argument) = Len(L.argument) - 1
      BY <1>5, <1>10, <1>11, <2>1
    <3>2. Len(L.argument) \in Nat
      BY <1>5
    <3> DEFINE x == Len(new.args)
               y == Len(M.argument)
               z == Len(L.argument)
               t == Len(sel.args)
    <3>3. x = n + 1 /\ y = z - 1 /\ t = n + z /\ n \in Nat /\ z \in Nat
      BY <1>9, <1>21, <3>1, <3>2
    <3> HIDE DEF n, x, y, z, t
    <3>4. x + y = t
      BY <3>3
    <3> QED
      BY <3>4 DEF x, y, t
  <2>4. ASSUME NEW a \in 1 .. Len(M.argument) PROVE M.argument[a] = sel.args[Len(new.args) + a]
    <3>1. a + 1 \in 1 .. Len(L.argument) /\ M.argument[a] = L.argument[a + 1]
      BY <1>5, <2>1
    <3>2. L.argument[a + 1] = sel.args[n + (a + 1)]
      BY <1>3, <3>1 DEF InSelection
    <3>3. Len(new.args) = n + 1
      BY <1>10, <1>11
    <3>4. n + (a + 1) = n + 1 + a
      <4> HIDE DEF n
      <4> QED
        BY <1>9
    <3> QED
      BY <3>1, <3>2, <3>3, <3>4
  <2>5. ASSUME NEW a \in 1 .. Len(new.args), a # n + 1 PROVE new.args[a] = MeantArgument(sel.args[a])
    <3>1. a \in 1 .. n
      BY <1>9, <1>10, <1>11, <2>5
    <3>2. new.args[a] = made.args[a] /\ a # 0
      BY <1>9, <1>10, <1>11, <3>1
    <3> QED
      BY <1>3, <3>1, <3>2 DEF InSelection
  <2>6. InSelection(M, new, sel, n + 1, ReadBelow(Top))
    <3>1. /\ M.definition = <<>> /\ M.type = <<>> /\ Becomes(M.name, new.name, sel.name)
          /\ \A c \in 1 .. Len(M.comparator) : M.comparator[c] = "EQUAL"
          /\ Becomes(M.value, new.value, sel.value)
          /\ ReadBelow(Top) \o M.selection = sel.subs
      BY <1>3, <1>11, <2>1 DEF InSelection
    <3> QED
      BY <2>3, <2>4, <2>5, <3>1 DEF InSelection
  <2>7. stack'[m] = Top /\ selections'[Top] = new /\ read'[Top] = sel /\ OpenIn(stack[m])' = n + 1
        /\ ReadBelow(stack[m])' = ReadBelow(Top)
    BY <1>3, <1>7, <1>12, <1>13 DEF OpenIn, ReadBelow
  <2>8. Len(stack') = m /\ walk'[m + 1].left = M
    BY <1>7 DEF M
  <2> QED
    BY <2>6, <2>7, <2>8 DEF SelectionAt
<1>23. SelectionInv'
  <2>1. \A i \in 2 .. m - 1 : SelectionAt(i)'
    BY <1>15, AroundKept
  <2>2. \A i \in 2 .. m : i \in 2 .. m - 1 \/ i = m
    BY <1>3
  <2> QED
    BY <1>7, <1>22, <2>1, <2>2 DEF SelectionInv
<1>24. DoneInv'
  BY <1>7, <1>12, <1>15, AroundKept DEF DoneInv
<1>25. ArgumentInv'
  <2>1. Inner'.left = parts
    <3>1. Inner' = walk'[m + 2]
      BY <1>14 DEF Inner, Last
    <3> QED
      BY <1>14, <3>1
  <2>2. selections'[Top'].args[argument'.at] = NewArgument
    BY <1>10, <1>11, <1>12, <1>13, <1>16
  <2>3. read'[Top'].args[argument'.at] = arg
    BY <1>7, <1>13, <1>16, <1>21
  <2> QED
    BY <1>6, <2>1, <2>2, <2>3 DEF ArgumentInv
<1> QED
  BY <1>17, <1>18, <1>19, <1>20, <1>23, <1>24, <1>25 DEF IInv

(* A part of an argument sets its field. *)
LEMMA InArgumentIInv ==
  ASSUME IInv, AtArgument, NEW kind \in {"name", "comparator", "value"}, Pass(kind),
         SetArgument(kind), UNCHANGED <<type, below, stack, argument, read>>
  PROVE  IInv'
<1> DEFINE L == Inner.left
           made == selections[Top]
           sel == read[Top]
           n == Len(made.args)
           m == Len(stack)
           old == made.args[n]
           new == [old EXCEPT ![kind] = Given(kind)]
           args == [made.args EXCEPT ![n] = new]
           top == [made EXCEPT !.args = args]
<1>1. /\ Len(walk) = m + 2 /\ m \in Nat /\ m >= 2 /\ InArgument
      /\ Top \in 1 .. Len(selections) /\ Len(selections) \in Nat /\ Top = stack[m]
      /\ argument = [of |-> Top, at |-> n] /\ n \in Nat \ {0}
      /\ InArgumentOf(L, old, sel.args[n]) /\ Inner.rule = "argument"
      /\ Inner = walk[m + 2]
  BY EndsAre DEF AtArgument
<1>2. kind \in KindSet
  BY DEF KindSet
<1>3. /\ L[kind] # <<>> /\ L[kind] \in Seq(What(kind))
      /\ walk' \in Seq(Frames) /\ Len(walk') = m + 2 /\ document' = document
      /\ \A k \in 1 .. m + 1 : walk'[k] = walk[k]
      /\ walk'[m + 2].rule = "argument"
      /\ \A k \in KindSet : walk'[m + 2].left[k] = IF k = kind THEN Tail(L[k]) ELSE L[k]
  <2>1. Len(walk) - 1 = m + 1
    BY <1>1
  <2> QED
    <3>1. /\ L[kind] # <<>> /\ L[kind] \in Seq(What(kind))
          /\ walk' \in Seq(Frames) /\ Len(walk') = Len(walk) /\ document' = document
          /\ \A k \in 1 .. Len(walk) - 1 : walk'[k] = walk[k]
          /\ walk'[Len(walk)].rule = Inner.rule
      BY <1>2, PassIs
    <3>2. \A k \in KindSet :
            walk'[Len(walk)].left[k] = IF k = kind THEN Tail(L[k]) ELSE L[k]
      BY <1>2, PassIs
    <3> QED
      BY <1>1, <2>1, <3>1, <3>2
<1>4. Given(kind) = Head(L[kind]) /\ Given(kind) \in What(kind)
  BY <1>3, TailIs DEF Given
<1>5. made \in Made /\ sel \in Selections /\ made.args \in Seq(MadeArgument) /\ n \in 1 .. n
  <2>1. made \in Made /\ sel \in Selections
    BY <1>1, ElementOfSeq DEF IInv, MessageInv
  <2> QED
    BY <1>1, <2>1 DEF Made
<1>6. old \in MadeArgument
  BY <1>5, ElementOfSeq
<1>7. /\ new \in MadeArgument
      /\ new.name = IF kind = "name" THEN Head(L.name) ELSE old.name
      /\ new.comparator = IF kind = "comparator" THEN Head(L.comparator) ELSE old.comparator
      /\ new.value = IF kind = "value" THEN Head(L.value) ELSE old.value
  <2>1. CASE kind = "name"
    BY <1>4, <1>6, <2>1 DEF MadeArgument, What, Maybe
  <2>2. CASE kind = "comparator"
    BY <1>4, <1>6, <2>2 DEF MadeArgument, What, Maybe
  <2>3. CASE kind = "value"
    BY <1>4, <1>6, <2>3 DEF MadeArgument, What, Maybe
  <2> QED
    BY <2>1, <2>2, <2>3
<1>8. selections' = [selections EXCEPT ![Top] = top]
  <2>1. selections' = [selections EXCEPT ![Top].args[n][kind] = Given(kind)]
    BY <1>1 DEF SetArgument
  <2> DEFINE g == Given(kind)
  <2> HIDE DEF g
  <2>2. selections' = [selections EXCEPT ![Top].args[n][kind] = g]
    BY <2>1 DEF g
  <2>3. [selections EXCEPT ![Top].args[n][kind] = g]
          = [selections EXCEPT ![Top] = [made EXCEPT !.args = [made.args EXCEPT ![n] = [old EXCEPT ![kind] = g]]]]
    OBVIOUS
  <2> QED
    BY <2>2, <2>3 DEF g
<1> HIDE DEF new
<1>9. /\ args \in Seq(MadeArgument) /\ Len(args) = n /\ args[n] = new
      /\ \A a \in 1 .. n : a # n => args[a] = made.args[a]
  <2> HIDE DEF n
  <2>1. made.args \in Seq(MadeArgument) /\ n \in 1 .. Len(made.args) /\ n = Len(made.args)
    BY <1>5 DEF n
  <2> QED
    BY <1>5, <1>7, <2>1, ExceptSeq
<1> HIDE DEF args
<1>10. top \in Made /\ top.args = args /\ top.name = made.name /\ top.value = made.value
  BY <1>5, <1>9 DEF Made
<1> HIDE DEF top
<1>11. /\ selections' \in Seq(Made) /\ Len(selections') = Len(selections) /\ selections'[Top] = top
       /\ \A s \in 1 .. Len(selections) : s # Top => selections'[s] = selections[s]
  <2>1. selections \in Seq(Made)
    BY DEF IInv, MessageInv
  <2> QED
    BY <1>1, <1>8, <1>10, <2>1, ExceptSeq, SMTT(30)
<1>12. Elsewhere
  <2>1. \A s : OpenIn(s)' = OpenIn(s)
    BY DEF OpenIn
  <2>2. Len(walk) - 1 = m + 1
    BY <1>1
  <2> QED
    BY <1>1, <1>3, <1>11, <2>1, <2>2 DEF Elsewhere
<1>13. InArgument' /\ Top' = Top
  BY <1>1 DEF InArgument, Top
<1>14. MessageInv'
  BY <1>3, <1>11 DEF IInv, MessageInv, Places
<1>15. StackInv'
  <2>1. argument'.of = Top /\ argument'.at = Len(selections'[Top].args) /\ argument'.at # 0
    BY <1>1, <1>9, <1>10, <1>11
  <2>2. Len(stack) # 1
    BY <1>1
  <2> QED
    BY <1>13, <2>1, <2>2 DEF IInv, StackInv
<1>16. WalkInv'
  <2>1. \A k \in 1 .. m + 1 : walk'[k].rule = RuleAt(k)'
    BY <1>1, <1>3 DEF IInv, WalkInv, RuleAt
  <2>2. walk'[m + 2].rule = RuleAt(m + 2)'
    BY <1>1, <1>3 DEF RuleAt
  <2>3. \A k \in 1 .. m + 2 : k \in 1 .. m + 1 \/ k = m + 2
    BY <1>1
  <2> QED
    BY <1>3, <1>13, <2>1, <2>2, <2>3 DEF WalkInv
<1>17. DocumentInv' /\ DefinitionInv'
  BY <1>1, <1>3, <1>12, OuterKept
<1>18. SelectionAt(m)'
  <2> DEFINE M == walk[m + 1].left
  <2>1. SelectionAt(m)
    BY <1>1 DEF IInv, SelectionInv
  <2>2. InSelection(M, made, sel, n, ReadBelow(Top))
    BY <1>1, <2>1 DEF SelectionAt, OpenIn
  <2> HIDE DEF M
  <2>3. Len(top.args) = Len(made.args) /\ Len(made.args) = n
    BY <1>9, <1>10
  <2>4. \A a \in 1 .. n : a # n => top.args[a] = made.args[a]
    BY <1>9, <1>10
  <2>5. InSelection(M, top, sel, n, ReadBelow(Top))
    <3> HIDE DEF n
    <3> QED
      BY <1>10, <2>2, <2>3, <2>4 DEF InSelection
  <2>6. /\ stack'[m] = Top /\ selections'[Top] = top /\ read'[Top] = sel /\ OpenIn(stack[m])' = n
        /\ ReadBelow(stack[m])' = ReadBelow(Top)
    BY <1>1, <1>11 DEF OpenIn, ReadBelow
  <2>7. Len(stack') = m /\ walk'[m + 1].left = M
    <3>1. Len(stack') = m
      BY <1>1
    <3> HIDE DEF m
    <3>2. m + 1 \in 1 .. Len(walk) - 1
      BY <1>1
    <3> QED
      BY <1>3, <3>1, <3>2 DEF M
  <2> QED
    BY <2>5, <2>6, <2>7 DEF SelectionAt
<1>19. SelectionInv'
  <2>1. \A i \in 2 .. m - 1 : SelectionAt(i)'
    BY <1>12, AroundKept
  <2>2. \A i \in 2 .. m : i \in 2 .. m - 1 \/ i = m
    BY <1>1
  <2> QED
    BY <1>18, <2>1, <2>2 DEF SelectionInv
<1>20. DoneInv'
  BY <1>11, <1>12, AroundKept DEF DoneInv
<1>21. ArgumentInv'
  <2> DEFINE M == walk'[m + 2].left
             arg == sel.args[n]
  <2>1. /\ M.definition = L.definition /\ M.type = L.type /\ M.argument = L.argument
        /\ M.selection = L.selection
        /\ M.name = IF kind = "name" THEN Tail(L.name) ELSE L.name
        /\ M.comparator = IF kind = "comparator" THEN Tail(L.comparator) ELSE L.comparator
        /\ M.value = IF kind = "value" THEN Tail(L.value) ELSE L.value
    BY <1>3 DEF KindSet
  <2> HIDE DEF M, arg, old
  <2>2. /\ Becomes(L.name, old.name, arg.name)
        /\ Becomes(L.comparator, old.comparator, MeantArgument(arg).comparator)
        /\ Becomes(L.value, old.value, arg.value)
    BY <1>1 DEF InArgumentOf, arg
  <2>3. Becomes(M.name, new.name, arg.name)
    <3>1. CASE kind = "name"
      BY <1>3, <1>7, <2>1, <2>2, <3>1, BecomesTail
    <3>2. CASE kind # "name"
      BY <1>7, <2>1, <2>2, <3>2
    <3> QED
      BY <3>1, <3>2
  <2>4. Becomes(M.comparator, new.comparator, MeantArgument(arg).comparator)
    <3>1. CASE kind = "comparator"
      BY <1>3, <1>7, <2>1, <2>2, <3>1, BecomesTail
    <3>2. CASE kind # "comparator"
      BY <1>7, <2>1, <2>2, <3>2
    <3> QED
      BY <3>1, <3>2
  <2>5. Becomes(M.value, new.value, arg.value)
    <3>1. CASE kind = "value"
      BY <1>3, <1>7, <2>1, <2>2, <3>1, BecomesTail
    <3>2. CASE kind # "value"
      BY <1>7, <2>1, <2>2, <3>2
    <3> QED
      BY <3>1, <3>2
  <2>6. InArgumentOf(M, new, arg)
    BY <1>1, <2>1, <2>3, <2>4, <2>5 DEF InArgumentOf
  <2>7. Inner'.left = M
    <3>1. Inner' = walk'[m + 2]
      BY <1>3 DEF Inner, Last
    <3> QED
      BY <3>1 DEF M
  <2>8. selections'[Top'].args[argument'.at] = new
    BY <1>1, <1>9, <1>10, <1>11, <1>13
  <2>9. read'[Top'].args[argument'.at] = arg
    BY <1>1, <1>13 DEF arg
  <2> QED
    BY <2>6, <2>7, <2>8, <2>9 DEF ArgumentInv
<1> QED
  BY <1>14, <1>15, <1>16, <1>17, <1>19, <1>20, <1>21 DEF IInv

(* A part of a selection sets its field, or nothing if it is a comparator. *)
Set(made, kind, x) ==
  [name |-> IF kind = "name" THEN x ELSE made.name,
   value |-> IF kind = "value" THEN x ELSE made.value, args |-> made.args]

(* What Set does to the fields that a part may set. *)
LEMMA SetIs ==
  ASSUME NEW made \in Made, NEW x
  PROVE  /\ Set(made, "name", x) = [made EXCEPT !.name = x]
         /\ Set(made, "value", x) = [made EXCEPT !.value = x]
         /\ Set(made, "comparator", x) = made
BY DEF Set, Made

(* A name, a comparator or a value that a selection reads. *)
LEMMA InSelectionIInv ==
  ASSUME IInv, AtSelection, NEW kind \in {"name", "comparator", "value"}, Pass(kind),
         UNCHANGED <<type, below, stack, argument, read>>,
         selections' = [selections EXCEPT ![Top] = Set(selections[Top], kind, Given(kind))]
  PROVE  IInv'
<1> DEFINE L == Inner.left
           made == selections[Top]
           sel == read[Top]
           m == Len(stack)
           top == Set(made, kind, Given(kind))
<1>1. /\ Len(walk) = m + 1 /\ m \in Nat /\ m >= 2 /\ ~InArgument
      /\ Top \in 1 .. Len(selections) /\ Len(selections) \in Nat /\ Top = stack[m]
      /\ InSelection(L, made, sel, 0, ReadBelow(Top)) /\ Inner.rule = "selection"
      /\ Inner = walk[m + 1]
  BY EndsAre DEF AtSelection
<1>2. kind \in KindSet
  BY DEF KindSet
<1>3. /\ L[kind] # <<>> /\ L[kind] \in Seq(What(kind))
      /\ walk' \in Seq(Frames) /\ Len(walk') = m + 1 /\ document' = document
      /\ \A k \in 1 .. m : walk'[k] = walk[k]
      /\ walk'[m + 1].rule = "selection"
      /\ \A k \in KindSet : walk'[m + 1].left[k] = IF k = kind THEN Tail(L[k]) ELSE L[k]
  <2>1. Len(walk) - 1 = m
    BY <1>1
  <2> QED
    BY <1>1, <1>2, <2>1, PassIs
<1>4. Given(kind) = Head(L[kind]) /\ Given(kind) \in What(kind)
  BY <1>3, TailIs DEF Given
<1>5. made \in Made /\ sel \in Selections
  BY <1>1, ElementOfSeq DEF IInv, MessageInv
<1>6. /\ top \in Made /\ top.args = made.args
      /\ top.name = IF kind = "name" THEN Head(L.name) ELSE made.name
      /\ top.value = IF kind = "value" THEN Head(L.value) ELSE made.value
  <2>1. CASE kind = "name"
    BY <1>4, <1>5, <2>1 DEF Made, What, Maybe, Set
  <2>2. CASE kind = "comparator"
    BY <1>4, <1>5, <2>2 DEF Made, Set
  <2>3. CASE kind = "value"
    BY <1>4, <1>5, <2>3 DEF Made, What, Maybe, Set
  <2> QED
    BY <2>1, <2>2, <2>3
<1>7. selections' = [selections EXCEPT ![Top] = top]
  OBVIOUS
<1> HIDE DEF top
<1>8. /\ selections' \in Seq(Made) /\ Len(selections') = Len(selections) /\ selections'[Top] = top
      /\ \A s \in 1 .. Len(selections) : s # Top => selections'[s] = selections[s]
  <2>1. selections \in Seq(Made)
    BY DEF IInv, MessageInv
  <2> QED
    BY <1>1, <1>6, <1>7, <2>1, ExceptSeq
<1>9. Elsewhere
  <2>1. \A s : OpenIn(s)' = OpenIn(s)
    BY DEF OpenIn
  <2>2. Len(walk) - 1 = m
    BY <1>1
  <2> QED
    BY <1>1, <1>3, <1>8, <2>1, <2>2 DEF Elsewhere
<1>10. ~InArgument' /\ Top' = Top
  BY <1>1 DEF InArgument, Top
<1>11. MessageInv'
  BY <1>3, <1>8 DEF IInv, MessageInv, Places
<1>12. StackInv'
  BY <1>10 DEF IInv, StackInv
<1>13. WalkInv'
  <2>1. \A k \in 1 .. m : walk'[k].rule = RuleAt(k)'
    BY <1>1, <1>3 DEF IInv, WalkInv, RuleAt
  <2>2. walk'[m + 1].rule = RuleAt(m + 1)'
    BY <1>1, <1>3 DEF RuleAt
  <2>3. \A k \in 1 .. m + 1 : k \in 1 .. m \/ k = m + 1
    BY <1>1
  <2> QED
    BY <1>3, <1>10, <2>1, <2>2, <2>3 DEF WalkInv
<1>14. DocumentInv' /\ DefinitionInv'
  BY <1>1, <1>3, <1>9, OuterKept
<1>15. SelectionAt(m)'
  <2> DEFINE M == walk'[m + 1].left
  <2>1. /\ M.definition = L.definition /\ M.type = L.type /\ M.argument = L.argument
        /\ M.selection = L.selection
        /\ M.name = IF kind = "name" THEN Tail(L.name) ELSE L.name
        /\ M.comparator = IF kind = "comparator" THEN Tail(L.comparator) ELSE L.comparator
        /\ M.value = IF kind = "value" THEN Tail(L.value) ELSE L.value
    BY <1>3 DEF KindSet
  <2>2. /\ Becomes(L.name, made.name, sel.name) /\ Becomes(L.value, made.value, sel.value)
        /\ \A c \in 1 .. Len(L.comparator) : L.comparator[c] = "EQUAL"
    BY <1>1 DEF InSelection
  <2> HIDE DEF M, L, made
  <2>3. Becomes(M.name, top.name, sel.name)
    <3>1. CASE kind = "name"
      BY <1>3, <1>6, <2>1, <2>2, <3>1, BecomesTail
    <3>2. CASE kind # "name"
      BY <1>6, <2>1, <2>2, <3>2
    <3> QED
      BY <3>1, <3>2
  <2>4. \A c \in 1 .. Len(M.comparator) : M.comparator[c] = "EQUAL"
    <3>1. CASE kind = "comparator"
      <4>1. /\ Len(L.comparator) \in Nat \ {0} /\ Len(M.comparator) = Len(L.comparator) - 1
            /\ \A i \in 1 .. Len(L.comparator) - 1 : M.comparator[i] = L.comparator[i + 1]
        BY <1>3, <2>1, <3>1, TailIs
      <4> QED
        BY <2>2, <4>1, SMTT(30)
    <3>2. CASE kind # "comparator"
      BY <2>1, <2>2, <3>2
    <3> QED
      BY <3>1, <3>2
  <2>5. Becomes(M.value, top.value, sel.value)
    <3>1. CASE kind = "value"
      BY <1>3, <1>6, <2>1, <2>2, <3>1, BecomesTail
    <3>2. CASE kind # "value"
      BY <1>6, <2>1, <2>2, <3>2
    <3> QED
      BY <3>1, <3>2
  <2>6. InSelection(M, top, sel, 0, ReadBelow(Top))
    BY <1>1, <1>6, <2>1, <2>3, <2>4, <2>5 DEF InSelection
  <2>7. OpenIn(stack[m])' = 0
    BY <1>1 DEF OpenIn, InArgument, Nowhere
  <2>8. /\ stack'[m] = Top /\ selections'[Top] = top /\ read'[Top] = sel
        /\ ReadBelow(stack[m])' = ReadBelow(Top)
    BY <1>1, <1>8 DEF ReadBelow
  <2>9. Len(stack') = m /\ walk'[m + 1].left = M
    BY <1>1 DEF M
  <2> QED
    BY <2>6, <2>7, <2>8, <2>9 DEF SelectionAt
<1>16. SelectionInv'
  <2>1. \A i \in 2 .. m - 1 : SelectionAt(i)'
    BY <1>9, AroundKept
  <2>2. \A i \in 2 .. m : i \in 2 .. m - 1 \/ i = m
    BY <1>1
  <2> QED
    BY <1>15, <2>1, <2>2 DEF SelectionInv
<1>17. DoneInv'
  BY <1>8, <1>9, AroundKept DEF DoneInv
<1>18. ArgumentInv'
  BY <1>10 DEF ArgumentInv
<1> QED
  BY <1>11, <1>12, <1>13, <1>14, <1>16, <1>17, <1>18 DEF IInv

(* The comparator of a selection is EQUAL and sets nothing; ... *)
LEMMA EnterComparatorIInv == IInv /\ EnterComparator => IInv'
<1> SUFFICES ASSUME IInv, EnterComparator PROVE IInv'
  OBVIOUS
<1>1. Pass("comparator") /\ Inner.left.comparator # <<>>
  BY DEF EnterComparator, Pass, On
<1>2. AtSelection \/ AtArgument
  BY <1>1, Where DEF AtDocument, AtDefinition, InDocument, InDefinition
<1>3. CASE AtArgument
  BY <1>1, <1>3, InArgumentIInv DEF EnterComparator, AtArgument
<1>4. CASE AtSelection
  <2>1. UNCHANGED selections
    BY <1>4 DEF EnterComparator, AtSelection
  <2>2. Top \in 1 .. Len(selections) /\ selections[Top] \in Made
    BY <1>4, ElementOfSeq DEF AtSelection, IInv, MessageInv
  <2>3. Set(selections[Top], "comparator", Given("comparator")) = selections[Top]
    BY <2>2, SetIs
  <2>4. selections \in [1 .. Len(selections) -> Made]
    BY LenProperties DEF IInv, MessageInv
  <2>5. [selections EXCEPT ![Top] = selections[Top]] = selections
    BY <2>2, <2>4
  <2>6. selections' = [selections EXCEPT ![Top] =
                         Set(selections[Top], "comparator", Given("comparator"))]
    BY <2>1, <2>3, <2>5
  <2> QED
    BY <1>1, <1>4, <2>6, InSelectionIInv DEF EnterComparator
<1> QED
  BY <1>2, <1>3, <1>4

(* ... a value is that of the selection or of the open argument; ... *)
LEMMA EnterValueIInv == IInv /\ EnterValue => IInv'
<1> SUFFICES ASSUME IInv, EnterValue PROVE IInv'
  OBVIOUS
<1>1. Pass("value") /\ Inner.left.value # <<>>
  BY DEF EnterValue, Pass, On
<1>2. AtSelection \/ AtArgument
  BY <1>1, Where DEF AtDocument, AtDefinition, InDocument, InDefinition
<1>3. CASE AtArgument
  BY <1>1, <1>3, InArgumentIInv DEF EnterValue, AtArgument
<1>4. CASE AtSelection
  <2>1. selections' = [selections EXCEPT ![Top].value = Given("value")]
    BY <1>4 DEF EnterValue, AtSelection
  <2>2. Top \in 1 .. Len(selections) /\ selections[Top] \in Made
    BY <1>4, ElementOfSeq DEF AtSelection, IInv, MessageInv
  <2>3. Set(selections[Top], "value", Given("value")) = [selections[Top] EXCEPT !.value = Given("value")]
    BY <2>2, SetIs
  <2>4. selections' = [selections EXCEPT ![Top] = Set(selections[Top], "value", Given("value"))]
    BY <2>1, <2>3
  <2> QED
    BY <1>1, <1>4, <2>4, InSelectionIInv DEF EnterValue
<1> QED
  BY <1>2, <1>3, <1>4

(* ... and a name is the definition's, the selection's or the open argument's. *)
LEMMA EnterNameIInv == IInv /\ EnterName => IInv'
<1> SUFFICES ASSUME IInv, EnterName PROVE IInv'
  OBVIOUS
<1>1. Pass("name") /\ Inner.left.name # <<>> /\ UNCHANGED <<type, below, stack, argument, read>>
  BY DEF EnterName, Pass, On
<1>2. AtDefinition \/ AtSelection \/ AtArgument
  BY <1>1, Where DEF AtDocument, InDocument
<1>3. CASE AtArgument
  BY <1>1, <1>3, InArgumentIInv DEF EnterName, AtArgument
<1>4. CASE AtSelection
  <2>1. Top \in 1 .. Len(selections) /\ selections[Top] \in Made /\ ~InArgument
    BY <1>4, ElementOfSeq DEF AtSelection, IInv, MessageInv
  <2>2. selections' = [selections EXCEPT ![Top].name = Given("name")]
    BY <2>1 DEF EnterName
  <2>3. Set(selections[Top], "name", Given("name")) = [selections[Top] EXCEPT !.name = Given("name")]
    BY <2>1, SetIs
  <2>4. selections' = [selections EXCEPT ![Top] = Set(selections[Top], "name", Given("name"))]
    BY <2>2, <2>3
  <2> QED
    BY <1>1, <1>4, <2>4, InSelectionIInv
<1>5. CASE AtDefinition
  <2>1. UNCHANGED selections
    BY <1>5 DEF EnterName, AtDefinition
  <2> QED
    BY <1>1, <1>5, <2>1, InDefinitionIInv
<1> QED
  BY <1>2, <1>3, <1>4, <1>5

(* A selection that is left is complete. *)
LEMMA ExitSelectionIInv == IInv /\ ExitSelection => IInv'
<1> SUFFICES ASSUME IInv, ExitSelection PROVE IInv'
  OBVIOUS
<1> DEFINE made == selections[Top]
           sel == read[Top]
           m == Len(stack)
<1>1. /\ Exit("selection") /\ UNCHANGED <<type, selections, below, argument, read>>
      /\ stack' = Front(stack)
  BY DEF ExitSelection, query
<1>2. /\ Inner = [rule |-> "selection", left |-> Nothing]
      /\ walk' \in Seq(Frames) /\ Len(walk') = Len(walk) - 1
      /\ \A k \in 1 .. Len(walk) - 1 : walk'[k] = walk[k]
      /\ document' = document
  BY <1>1, ExitIs
<1>3. AtSelection
  BY <1>2, Where DEF AtDocument, AtDefinition, AtArgument
<1>4. /\ Len(walk) = m + 1 /\ m \in Nat /\ m >= 2 /\ ~InArgument
      /\ Top \in 1 .. Len(selections) /\ Len(selections) \in Nat /\ Top = stack[m]
      /\ InSelection(Nothing, made, sel, 0, ReadBelow(Top))
  BY <1>2, <1>3, EndsAre DEF AtSelection
<1>5. /\ stack' \in Seq(Places) /\ Len(stack') = m - 1
      /\ \A i \in 1 .. m - 1 : stack'[i] = stack[i]
  <2>1. stack \in Seq(Places) /\ stack # <<>>
    BY <1>4 DEF IInv, MessageInv
  <2> QED
    BY <1>1, <2>1, FrontIs
<1>6. Elsewhere
  <2>1. \A s : OpenIn(s)' = OpenIn(s)
    BY <1>1 DEF OpenIn
  <2> QED
    BY <1>1, <1>2, <1>5, <2>1 DEF Elsewhere
<1>7. ~InArgument'
  BY <1>1, <1>4 DEF InArgument
<1>8. MessageInv'
  BY <1>1, <1>2, <1>5 DEF IInv, MessageInv, Places
<1>9. StackInv'
  <2>1. Len(stack') \in Nat \ {0} /\ stack'[1] = 0
    <3>1. 1 \in 1 .. m - 1
      BY <1>4
    <3> QED
      BY <1>4, <1>5, <3>1 DEF IInv, StackInv
  <2>2. \A j \in 1 .. m - 1 : \A i \in 1 .. j - 1 : stack'[i] < stack'[j]
    <3>1. \A j \in 1 .. m - 1 : j \in 1 .. m /\ \A i \in 1 .. j - 1 : i \in 1 .. m - 1
      BY <1>4
    <3> QED
      BY <1>5, <3>1 DEF IInv, StackInv
  <2>3. ASSUME NEW i \in 1 .. (m - 1) - 1
        PROVE  /\ below'[stack'[i]] # <<>>
               /\ stack'[i + 1] = below'[stack'[i]][Len(below'[stack'[i]])]
    <3>1. i \in 1 .. m - 1 /\ i + 1 \in 1 .. m - 1
      BY <1>4
    <3> QED
      BY <1>1, <1>5, <3>1 DEF IInv, StackInv
  <2> QED
    BY <1>5, <1>7, <2>1, <2>2, <2>3 DEF StackInv
<1>10. WalkInv'
  <2>1. \A k \in 1 .. m : walk'[k].rule = RuleAt(k)'
    BY <1>2, <1>4, <1>5 DEF IInv, WalkInv, RuleAt
  <2>2. Len(walk') = m /\ Len(walk') = Len(stack') + 1
    BY <1>2, <1>4, <1>5
  <2> QED
    BY <1>7, <2>1, <2>2 DEF WalkInv
<1>11. DocumentInv' /\ DefinitionInv'
  BY <1>2, <1>3, <1>4, <1>6, OuterKept
<1>12. SelectionInv'
  BY <1>5, <1>6, AroundKept DEF SelectionInv
<1>13. DoneWith(Top)
  <2>1. made \in Made /\ sel \in Selections
    BY <1>4, ElementOfSeq DEF IInv, MessageInv
  <2>2. made.args \in Seq(MadeArgument) /\ sel.args \in Seq(Argument)
    BY <2>1, SelectionIs DEF Made
  <2>3. /\ made.name = sel.name /\ made.value = sel.value /\ Len(made.args) = Len(sel.args)
        /\ \A a \in 1 .. Len(made.args) : a # 0 => made.args[a] = MeantArgument(sel.args[a])
        /\ ReadBelow(Top) \o <<>> = sel.subs
    <3>1. Len(made.args) \in Nat
      BY <2>2
    <3> QED
      BY <1>4, <3>1 DEF InSelection, Nothing, Becomes
  <2>4. Top \in Places
    BY EndsAre
  <2>5. ReadBelow(Top) = sel.subs
    BY <2>3, <2>4, ReadBelowIs, ConcatEmptySeq
  <2>6. made.args = [a \in DOMAIN sel.args |-> MeantArgument(sel.args[a])]
    <3>1. DOMAIN sel.args = 1 .. Len(made.args)
      BY <2>2, <2>3, LenProperties
    <3>2. made.args = [a \in 1 .. Len(made.args) |-> made.args[a]]
      BY <2>2, LenProperties
    <3>3. \A a \in 1 .. Len(made.args) : made.args[a] = MeantArgument(sel.args[a])
      BY <2>2, <2>3
    <3> QED
      BY <3>1, <3>2, <3>3
  <2>7. made = [name |-> made.name, value |-> made.value, args |-> made.args]
    BY <2>1 DEF Made
  <2>8. made = Meant(sel)
    BY <2>3, <2>6, <2>7 DEF Meant
  <2> QED
    BY <2>5, <2>8 DEF DoneWith
<1>14. DoneInv'
  <2> SUFFICES ASSUME NEW s \in 1 .. Len(selections), \A i \in 1 .. m - 1 : stack[i] # s
               PROVE  DoneWith(s)'
    BY <1>1, <1>5 DEF DoneInv
  <2>1. CASE s = Top
    <3>1. DoneWith(s)
      BY <1>13, <2>1
    <3> QED
      BY <1>1, <3>1 DEF DoneWith, ReadBelow
  <2>2. CASE s # Top
    <3>1. \A i \in 1 .. m : i \in 1 .. m - 1 \/ i = m
      BY <1>4
    <3>2. \A i \in 1 .. m : stack[i] # s
      BY <1>4, <2>2, <3>1
    <3> QED
      BY <1>6, <3>2, AroundKept
  <2> QED
    BY <2>1, <2>2
<1>15. ArgumentInv'
  BY <1>7 DEF ArgumentInv
<1> QED
  BY <1>8, <1>9, <1>10, <1>11, <1>12, <1>14, <1>15 DEF IInv

(* A selection is entered: the last one below the top, or below the query. *)
LEMMA EnterSelectionIInv == IInv /\ EnterSelection => IInv'
<1> SUFFICES ASSUME IInv, EnterSelection PROVE IInv'
  OBVIOUS
<1> DEFINE L == Inner.left
           sel == Given("selection")
           parts == PartsOfSelection(sel)
           n == Len(selections)
           m == Len(stack)
           p == Top
           T == Tail(L.selection)
<1>1. /\ On("selection") /\ L.selection # <<>> /\ Enter("selection", parts) /\ AddBelow(p)
      /\ stack' = Append(stack, Len(selections')) /\ UNCHANGED <<type, argument>>
  BY DEF EnterSelection, Enter, On
<1>2. AtDefinition \/ AtSelection
  BY <1>1, Where DEF AtDocument, AtArgument, InDocument, InArgumentOf
<1>3. /\ Len(walk) = m + 1 /\ m \in Nat \ {0} /\ ~InArgument /\ p = stack[m]
      /\ p \in Places /\ n \in Nat /\ Inner = walk[m + 1] /\ Inner \in Frames
      /\ \A i \in 1 .. m : stack[i] \in 0 .. n
  BY <1>2, EndsAre DEF AtDefinition, AtSelection, Places
<1>4. L \in Left /\ L.selection \in Seq(Selections)
  BY <1>3 DEF Frames, Left
<1>5. /\ sel \in Selections /\ sel = Head(L.selection) /\ T \in Seq(Selections)
  BY <1>1, <1>4, TailIs DEF Given
<1>6. /\ parts \in Left /\ parts.definition = <<>> /\ parts.type = <<>>
      /\ Becomes(parts.name, Absent, sel.name) /\ parts.argument = sel.args
      /\ \A c \in 1 .. Len(parts.comparator) : parts.comparator[c] = "EQUAL"
      /\ Becomes(parts.value, Absent, sel.value) /\ parts.selection = sel.subs
  BY <1>5, SelectionParts
<1>7. /\ selections' = Append(selections, NewSelection) /\ read' = Append(read, sel)
      /\ below' = [q \in 0 .. n + 1 |-> IF q = n + 1 THEN <<>>
                                        ELSE IF q = p THEN Append(below[q], n + 1) ELSE below[q]]
  BY <1>1 DEF AddBelow
<1>8. /\ selections' \in Seq(Made) /\ Len(selections') = n + 1 /\ selections'[n + 1] = NewSelection
      /\ \A s \in 1 .. n : selections'[s] = selections[s]
  <2>1. NewSelection \in Made /\ selections \in Seq(Made)
    BY EmptySeq DEF NewSelection, Made, Maybe, IInv, MessageInv
  <2> QED
    BY <1>7, <2>1, AppendProperties
<1>9. /\ read' \in Seq(Selections) /\ Len(read') = n + 1 /\ read'[n + 1] = sel
      /\ \A s \in 1 .. n : read'[s] = read[s]
  <2>1. read \in Seq(Selections) /\ Len(read) = n
    BY DEF IInv, MessageInv
  <2> QED
    BY <1>5, <1>7, <2>1, AppendProperties
<1>10. /\ below' \in [0 .. n + 1 -> Seq(1 .. n + 1)] /\ below'[n + 1] = <<>>
       /\ below'[p] = Append(below[p], n + 1)
       /\ \A s \in Places : s # p => below'[s] = below[s]
  <2>1. \A q \in 0 .. n : below[q] \in Seq(1 .. n + 1)
    <3>1. ASSUME NEW q \in 0 .. n PROVE below[q] \in Seq(1 .. n + 1)
      <4>1. below[q] \in Seq(1 .. n)
        BY DEF IInv, MessageInv, Places
      <4>2. 1 .. n \subseteq 1 .. n + 1
        <5> HIDE DEF n
        <5> QED
          BY <1>3
      <4> QED
        BY <4>1, <4>2, SeqMonotonic
    <3> QED
      BY <3>1
  <2>2. n + 1 \in 1 .. n + 1 /\ p \in 0 .. n /\ p # n + 1 /\ \A q \in 0 .. n : q \in 0 .. n + 1 /\ q # n + 1
    BY <1>3 DEF Places
  <2>3. Append(below[p], n + 1) \in Seq(1 .. n + 1)
    BY <2>1, <2>2, AppendProperties
  <2>4. \A q \in 0 .. n + 1 : q \in 0 .. n \/ q = n + 1
    BY <1>3
  <2>5. \A q \in 0 .. n + 1 : (IF q = n + 1 THEN <<>> ELSE IF q = p THEN Append(below[q], n + 1) ELSE below[q])
                                \in Seq(1 .. n + 1)
    BY <2>1, <2>3, <2>4, EmptySeq
  <2> HIDE DEF n, p
  <2> QED
    BY <1>7, <2>2, <2>4, <2>5 DEF Places, n
<1>11. /\ stack' \in Seq(0 .. n + 1) /\ Len(stack') = m + 1 /\ stack'[m + 1] = n + 1
       /\ \A i \in 1 .. m : stack'[i] = stack[i]
  <2>1. stack \in Seq(0 .. n) /\ 0 .. n \subseteq 0 .. n + 1 /\ n + 1 \in 0 .. n + 1
    BY <1>3 DEF IInv, MessageInv, Places
  <2>2. stack \in Seq(0 .. n + 1)
    BY <2>1, SeqMonotonic
  <2> QED
    BY <1>1, <1>8, <2>1, <2>2, AppendProperties
<1>12. /\ walk' \in Seq(Frames) /\ Len(walk') = m + 2 /\ document' = document
       /\ \A k \in 1 .. m : walk'[k] = walk[k]
       /\ walk'[m + 1].rule = Inner.rule /\ walk'[m + 2] = [rule |-> "selection", left |-> parts]
       /\ \A k \in KindSet : walk'[m + 1].left[k] = IF k = "selection" THEN Tail(L[k]) ELSE L[k]
  <2> HIDE DEF parts, L, m
  <2>1. /\ walk' \in Seq(Frames) /\ Len(walk') = Len(walk) + 1
        /\ \A k \in 1 .. Len(walk) - 1 : walk'[k] = walk[k]
        /\ walk'[Len(walk)].rule = Inner.rule
        /\ \A k \in KindSet :
             walk'[Len(walk)].left[k] = IF k = "selection" THEN Tail(Inner.left[k]) ELSE Inner.left[k]
        /\ walk'[Len(walk) + 1] = [rule |-> "selection", left |-> parts]
        /\ document' = document
    BY <1>1, <1>6, EnterIs
  <2>2. Len(walk) + 1 = m + 2 /\ Len(walk) - 1 = m
    BY <1>3
  <2> QED
    BY <1>3, <2>1, <2>2 DEF L
<1> DEFINE M == walk'[m + 1].left
<1>13. /\ M.definition = L.definition /\ M.type = L.type /\ M.name = L.name
       /\ M.argument = L.argument /\ M.comparator = L.comparator /\ M.value = L.value
       /\ M.selection = T
  BY <1>12 DEF KindSet
<1>14. PICK s \in Places : s = p
  BY <1>3
<1>15. /\ ReadBelow(s)' = Append(ReadBelow(s), sel) /\ ReadBelow(s) \in Seq(Selections)
       /\ ReadBelow(s)' \o T = ReadBelow(s) \o L.selection
  <2>1. ReadBelow(s) \in Seq(Selections)
    BY ReadBelowIs
  <2>2. AddBelow(s)
    BY <1>1, <1>14
  <2>3. ReadBelow(s)' = Append(ReadBelow(s), sel)
    BY <1>5, <2>2, ReadBelowGrows
  <2>4. Append(ReadBelow(s), Head(L.selection)) \o Tail(L.selection) = ReadBelow(s) \o L.selection
    <3> HIDE DEF L
    <3> QED
      BY <1>1, <1>4, <2>1, MoveOne
  <2> QED
    BY <1>5, <2>1, <2>3, <2>4
<1> HIDE DEF L, sel, parts, T, M
<1>16. Elsewhere
  <2>1. \A q : OpenIn(q)' = OpenIn(q)
    BY <1>1 DEF OpenIn
  <2>2. Len(walk) - 1 = m /\ \A i \in 1 .. m - 1 : i \in 1 .. m
    BY <1>3
  <2> QED
    BY <1>1, <1>8, <1>9, <1>10, <1>11, <1>12, <2>1, <2>2 DEF Elsewhere
<1>17. ~InArgument'
  BY <1>1, <1>3 DEF InArgument
<1>18. MessageInv'
  <2>1. Places' = 0 .. n + 1
    BY <1>8 DEF Places
  <2>2. argument' \in [of : 0 .. n + 1, at : Nat]
    BY <1>1, <1>3 DEF IInv, MessageInv, Places
  <2> QED
    BY <1>1, <1>8, <1>9, <1>10, <1>11, <1>12, <2>1, <2>2 DEF IInv, MessageInv
<1>19. StackInv'
  <2>1. Len(stack') \in Nat \ {0} /\ stack'[1] = 0
    <3>1. 1 \in 1 .. m
      BY <1>3
    <3> QED
      BY <1>3, <1>11, <3>1 DEF IInv, StackInv
  <2>2. ASSUME NEW j \in 1 .. m + 1, NEW i \in 1 .. j - 1 PROVE stack'[i] < stack'[j]
    <3>1. i \in 1 .. m
      BY <1>3
    <3>2. CASE j = m + 1
      BY <1>3, <1>11, <3>1, <3>2
    <3>3. CASE j # m + 1
      <4>1. j \in 1 .. m
        BY <1>3, <3>3
      <4> QED
        BY <1>11, <3>1, <4>1 DEF IInv, StackInv
    <3> QED
      BY <3>2, <3>3
  <2>3. ASSUME NEW i \in 1 .. m
        PROVE  /\ below'[stack'[i]] # <<>>
               /\ stack'[i + 1] = below'[stack'[i]][Len(below'[stack'[i]])]
    <3>1. CASE i = m
      <4>1. below[p] \in Seq(1 .. n)
        BY <1>3 DEF IInv, MessageInv
      <4>2. below'[p] # <<>> /\ below'[p][Len(below'[p])] = n + 1
        <5> DEFINE b == below[p]
        <5> HIDE DEF b
        <5>1. b \in Seq(Nat) /\ n + 1 \in Nat
          BY <1>3, <4>1 DEF b
        <5>2. /\ Append(b, n + 1) # <<>> /\ Len(Append(b, n + 1)) = Len(b) + 1
              /\ Append(b, n + 1)[Len(b) + 1] = n + 1
          BY <5>1, AppendProperties
        <5> QED
          BY <1>10, <5>2 DEF b
      <4> QED
        BY <1>3, <1>11, <3>1, <4>2
    <3>2. CASE i # m
      <4>1. i \in 1 .. m - 1 /\ i + 1 \in 1 .. m
        BY <1>3, <3>2
      <4>2. stack[i] \in Places
        BY <1>3 DEF Places
      <4>3. stack[i] # p
        <5>1. i \in 1 .. m - 1 /\ m \in 1 .. m
          BY <1>3, <4>1
        <5>2. stack[i] < stack[m]
          BY <5>1 DEF IInv, StackInv
        <5> QED
          BY <1>3, <5>2
      <4>4. below'[stack[i]] = below[stack[i]] /\ stack'[i] = stack[i] /\ stack'[i + 1] = stack[i + 1]
        BY <1>10, <1>11, <3>1, <4>1, <4>2, <4>3
      <4>5. below[stack[i]] # <<>> /\ stack[i + 1] = below[stack[i]][Len(below[stack[i]])]
        BY <4>1 DEF IInv, StackInv
      <4> QED
        BY <4>4, <4>5
    <3> QED
      BY <3>1, <3>2
  <2>4. (m + 1) - 1 = m
    BY <1>3
  <2> QED
    BY <1>11, <1>17, <2>1, <2>2, <2>3, <2>4 DEF StackInv
<1>20. PICK d \in Nat \ {0} : d = m
  BY <1>3
<1>21. WalkInv'
  <2>1. \A k \in 1 .. d : walk'[k].rule = RuleAt(k)'
    BY SMTT(30), <1>3, <1>11, <1>12, <1>20 DEF IInv, WalkInv, RuleAt
  <2>2. walk'[d + 1].rule = RuleAt(d + 1)'
    <3>1. Inner.rule = RuleAt(d + 1)
      BY <1>3, <1>20 DEF IInv, WalkInv
    <3> QED
      BY <1>3, <1>11, <1>12, <1>20, <3>1 DEF RuleAt
  <2>3. walk'[d + 2].rule = RuleAt(d + 2)'
    BY <1>3, <1>11, <1>12, <1>20 DEF RuleAt
  <2>4. \A k \in 1 .. d + 2 : k \in 1 .. d \/ k = d + 1 \/ k = d + 2
    OBVIOUS
  <2>5. Len(walk') = Len(stack') + 1 /\ Len(walk') = d + 2
    BY <1>3, <1>11, <1>12, <1>20
  <2> QED
    BY <1>17, <2>1, <2>2, <2>3, <2>4, <2>5 DEF WalkInv
<1>22. DocumentInv' /\ DefinitionInv'
  <2>1. Len(walk') # 1
    BY <1>3, <1>12
  <2>2. CASE AtSelection
    BY <1>16, <2>1, <2>2, OuterKept
  <2>3. CASE AtDefinition
    <3>1. m = 1 /\ p = 0 /\ s = 0 /\ InDefinition(L) /\ walk'[1] = walk[1]
      BY <1>12, <1>14, <2>3 DEF AtDefinition, L
    <3>2. DocumentInv' /\ Entered' = Entered
      BY <1>12, <2>1, <3>1, DocumentKept
    <3>3. PICK t \in Type : TypeIs(t, Entered) /\ Becomes(L.type, type, t)
      BY <3>1 DEF InDefinition
    <3>4. TypeIs(t, Entered)' /\ Becomes(M.type, type', t)
      BY <1>1, <1>12, <1>13, <3>2, <3>3 DEF TypeIs
    <3>5. ReadBelow(0)' \o M.selection = Joined(document')[Entered']
      <4>1. ReadBelow(0)' \o T = ReadBelow(0) \o L.selection
        BY <1>15, <3>1
      <4>2. ReadBelow(0) \o L.selection = Joined(document)[Entered]
        BY <3>1 DEF InDefinition
      <4> QED
        BY <1>12, <1>13, <3>2, <4>1, <4>2
    <3>6. /\ M.definition = <<>> /\ M.argument = <<>> /\ M.comparator = <<>> /\ M.value = <<>>
      BY <1>13, <3>1 DEF InDefinition
    <3>7. walk'[2].left = M
      BY <3>1 DEF M
    <3> QED
      BY <3>2, <3>4, <3>5, <3>6, <3>7 DEF DefinitionInv, InDefinition
  <2> QED
    BY <1>2, <2>2, <2>3
<1>23. ASSUME d >= 2 PROVE SelectionAt(d)'
  <2> DEFINE made == selections[s]
  <2>1. AtSelection
    BY <1>2, <1>20, <1>23 DEF AtDefinition
  <2>2. /\ InSelection(L, made, read[s], 0, ReadBelow(s)) /\ s \in 1 .. n
    BY <1>14, <2>1 DEF AtSelection, L
  <2> HIDE DEF made
  <2>3. InSelection(M, made, read[s], 0, ReadBelow(s)')
    BY <1>13, <1>15, <2>2 DEF InSelection
  <2>4. stack'[d] = s
    BY <1>3, <1>11, <1>14, <1>20
  <2>5. selections'[s] = made /\ read'[s] = read[s]
    BY <1>8, <1>9, <2>2 DEF made
  <2>6. OpenIn(stack[d])' = 0
    BY <1>1, <1>3 DEF OpenIn, InArgument, Nowhere
  <2>7. ReadBelow(stack[d])' = ReadBelow(s)'
    BY <2>4 DEF ReadBelow
  <2>8. M = walk'[d + 1].left
    BY <1>20 DEF M
  <2> QED
    BY <2>3, <2>4, <2>5, <2>6, <2>7, <2>8 DEF SelectionAt
<1>24. SelectionAt(d + 1)'
  <2>1. ReadBelow(stack[d + 1])' = <<>>
    BY <1>10, <1>11, <1>20 DEF ReadBelow
  <2>2. OpenIn(stack[d + 1])' = 0
    BY <1>1, <1>3 DEF OpenIn, InArgument, Nowhere
  <2>3. /\ selections'[stack'[d + 1]] = NewSelection /\ read'[stack'[d + 1]] = sel
        /\ walk'[(d + 1) + 1].left = parts
    BY <1>8, <1>9, <1>11, <1>12, <1>20
  <2>4. InSelection(parts, NewSelection, sel, 0, <<>>)
    <3>1. Len(NewSelection.args) = 0 /\ NewSelection.name = Absent /\ NewSelection.value = Absent
      BY DEF NewSelection
    <3>2. sel.args \in Seq(Argument) /\ sel.subs \in Seq(Selections)
      BY <1>5, SelectionIs
    <3>3. <<>> \o sel.subs = sel.subs
      BY <3>2, ConcatEmptySeq
    <3>4. Len(sel.args) \in Nat /\ \A a \in 1 .. Len(sel.args) : 0 + a = a
      BY <3>2
    <3> QED
      BY <1>6, <3>1, <3>3, <3>4 DEF InSelection
  <2> QED
    BY <2>1, <2>2, <2>3, <2>4 DEF SelectionAt
<1>25. SelectionInv'
  <2> SUFFICES ASSUME NEW i \in 2 .. d + 1 PROVE SelectionAt(i)'
    BY <1>11, <1>20 DEF SelectionInv
  <2>1. i \in 2 .. d - 1 \/ (d >= 2 /\ i = d) \/ i = d + 1
    OBVIOUS
  <2>2. CASE i \in 2 .. d - 1
    <3>1. i \in 2 .. Len(stack) - 1
      BY <1>20, <2>2
    <3> QED
      BY <1>16, <3>1, AroundKept
  <2> QED
    BY <1>23, <1>24, <2>1, <2>2
<1>26. DoneInv'
  <2> SUFFICES ASSUME NEW r \in 1 .. n + 1, \A i \in 1 .. m + 1 : stack'[i] # r
               PROVE  DoneWith(r)'
    BY <1>8, <1>11 DEF DoneInv
  <2>1. r \in 1 .. n
    <3>1. m + 1 \in 1 .. m + 1
      BY <1>3
    <3> QED
      BY <1>3, <1>11, <3>1
  <2>2. \A i \in 1 .. Len(stack) : stack[i] # r
    BY <1>3, <1>11
  <2> QED
    BY <1>16, <2>1, <2>2, AroundKept
<1>27. ArgumentInv'
  BY <1>17 DEF ArgumentInv
<1> QED
  BY <1>18, <1>19, <1>22, <1>25, <1>26, <1>27, <1>21 DEF IInv
--------------------------------------------------------------------------------
(* The theorems.                                                                 *)
(* Every step keeps the invariant, ... *)
LEMMA NextIInv == IInv /\ [Next]_vars => IInv'
<1> SUFFICES ASSUME IInv, [Next]_vars PROVE IInv'
  OBVIOUS
<1>1. CASE UNCHANGED vars
  <2>1. /\ document' = document /\ walk' = walk /\ type' = type /\ selections' = selections
        /\ below' = below /\ stack' = stack /\ argument' = argument /\ read' = read
    BY <1>1 DEF vars, query
  <2>2. MessageInv' /\ WalkInv'
    BY <2>1 DEF IInv, MessageInv, WalkInv, Places, RuleAt, InArgument
  <2>3. StackInv' /\ DoneInv' /\ \A s : ReadBelow(s)' = ReadBelow(s)
    BY <2>1, Quiet DEF ReadBelow
  <2>4. DocumentInv' /\ DefinitionInv'
    <3>1. Entered' = Entered /\ \A t, n : TypeIs(t, n)' = TypeIs(t, n)
      BY <2>1 DEF Entered, TypeIs
    <3> QED
      BY <2>1, <2>3, <3>1 DEF IInv, DocumentInv, DefinitionInv, InDocument, InDefinition
  <2>5. SelectionInv'
    <3>1. ASSUME NEW i \in 2 .. Len(stack) PROVE SelectionAt(i)'
      <4>1. SelectionAt(i)
        BY DEF IInv, SelectionInv
      <4>2. OpenIn(stack[i])' = OpenIn(stack[i]) /\ ReadBelow(stack[i])' = ReadBelow(stack[i])
        BY <2>1 DEF OpenIn, ReadBelow
      <4> QED
        BY <2>1, <4>1, <4>2 DEF SelectionAt
    <3> QED
      BY <2>1, <3>1 DEF SelectionInv
  <2>6. ArgumentInv'
    BY <2>1 DEF IInv, ArgumentInv, InArgument, Inner, Top
  <2> QED
    BY <2>2, <2>3, <2>4, <2>5, <2>6 DEF IInv
<1>2. CASE Done
  BY <1>1, <1>2 DEF Done
<1>3. CASE Next /\ ~Done
  BY <1>3, EnterDefinitionIInv, ExitDefinitionIInv, EnterTypeIInv, EnterSelectionIInv, ExitSelectionIInv,
     EnterArgumentIInv, ExitArgumentIInv, EnterComparatorIInv, EnterValueIInv, EnterNameIInv
     DEF Next
<1> QED
  BY <1>1, <1>2, <1>3

(* ... so that it always holds, in every document. *)
THEOREM Inductive == Spec => []IInv
<1>1. Init => IInv
  BY InitIInv
<1>2. IInv /\ [Next]_vars => IInv'
  BY NextIInv
<1> QED
  BY <1>1, <1>2, PTL DEF Spec

(* The message is made of selections and arguments that there are. *)
THEOREM AlwaysTypeOK == Spec => []TypeOK
<1>1. IInv => TypeOK
  <2> SUFFICES ASSUME IInv PROVE TypeOK
    OBVIOUS
  <2>1. /\ type \in Type /\ below \in [0 .. Len(selections) -> Seq(1 .. Len(selections))]
        /\ stack \in Seq(Places) /\ stack # <<>> /\ selections \in Seq(Made)
    <3>1. Len(stack) # 0
      BY EndsAre
    <3> QED
      BY <3>1, EmptySeq DEF IInv, MessageInv, Places
  <2>2. ToSet(stack) \subseteq 0 .. Len(selections)
    BY EndsAre, LenProperties, SMTT(30) DEF ToSet, Places, IInv, MessageInv
  <2>3. ASSUME InArgument
        PROVE  argument.of \in DOMAIN selections /\ argument.at \in DOMAIN selections[argument.of].args
    <3>1. AtArgument
      BY <2>3, Where DEF AtDocument, AtDefinition, AtSelection
    <3>2. /\ Top \in 1 .. Len(selections) /\ argument.of = Top
          /\ argument.at = Len(selections[Top].args) /\ argument.at \in Nat \ {0}
      BY <3>1 DEF AtArgument
    <3>3. selections[Top] \in Made
      BY <2>1, <3>2, ElementOfSeq
    <3>4. DOMAIN selections = 1 .. Len(selections)
          /\ DOMAIN selections[Top].args = 1 .. Len(selections[Top].args)
      BY <2>1, <3>3, LenProperties DEF Made
    <3> QED
      BY <3>2, <3>4
  <2> QED
    BY <2>1, <2>2, <2>3 DEF TypeOK
<1> QED
  BY <1>1, Inductive, PTL

(* No handler meets a nullptr or an empty stack where it does not look for one,  *)
(* as the stack is the way from the query to the selection that is read.         *)
THEOREM AlwaysNoNullPointer == Spec => []NoNullPointer
<1>1. IInv => NoNullPointer
  <2> SUFFICES ASSUME IInv PROVE NoNullPointer
    OBVIOUS
  <2>1. ASSUME On("argument") PROVE Top # 0 /\ ~InArgument
    <3>1. Inner.left.argument # <<>>
      BY <2>1 DEF On
    <3>2. AtSelection
      BY <3>1, Where DEF AtDocument, AtDefinition, AtArgument, InDocument, InDefinition, InArgumentOf
    <3> QED
      BY <3>2 DEF AtSelection
  <2>2. ASSUME On("value") PROVE InArgument \/ Top # 0
    <3>1. Inner.left.value # <<>>
      BY <2>2 DEF On
    <3>2. AtSelection \/ AtArgument
      BY <3>1, Where DEF AtDocument, AtDefinition, InDocument, InDefinition
    <3> QED
      BY <3>2 DEF AtSelection, AtArgument
  <2>3. ASSUME On("comparator"), Given("comparator") \in Other PROVE InArgument
    <3>1. Inner.left.comparator # <<>>
      BY <2>3 DEF On
    <3>2. AtSelection \/ AtArgument
      BY <3>1, Where DEF AtDocument, AtDefinition, InDocument, InDefinition
    <3>3. Inner.left.comparator \in Seq({"EQUAL"} \cup Other)
      BY EndsAre DEF Frames, Left
    <3>4. Given("comparator") = Inner.left.comparator[1] /\ 1 \in 1 .. Len(Inner.left.comparator)
      BY <3>1, <3>3, TailIs DEF Given
    <3>5. ~AtSelection
      BY <2>3, <3>4, OtherAssumption DEF AtSelection, InSelection
    <3> QED
      BY <3>2, <3>5 DEF AtArgument
  <2>4. ASSUME Inner = Frame("selection", Nothing) PROVE Top # 0
    <3>1. AtSelection
      BY <2>4, Where DEF AtDocument, AtDefinition, AtArgument, Frame
    <3> QED
      BY <3>1 DEF AtSelection
  <2>5. (InArgument => argument.of = Top) /\ stack[1] = 0
    BY DEF IInv, StackInv
  <2>6. ASSUME NEW i \in 2 .. Len(stack)
        PROVE  below[stack[i - 1]] # <<>> /\ stack[i] = Last(below[stack[i - 1]])
    <3>1. i - 1 \in 1 .. Len(stack) - 1 /\ (i - 1) + 1 = i
      BY EndsAre
    <3>2. /\ below[stack[i - 1]] # <<>>
          /\ stack[(i - 1) + 1] = below[stack[i - 1]][Len(below[stack[i - 1]])]
      BY <3>1 DEF IInv, StackInv
    <3> QED
      BY <3>1, <3>2 DEF Last
  <2> QED
    BY <2>1, <2>2, <2>3, <2>4, <2>5, <2>6 DEF NoNullPointer
<1> QED
  BY <1>1, Inductive, PTL

(* The message that is sent is the document. *)
THEOREM AlwaysBuiltIsMeant == Spec => []BuiltIsMeant
<1>1. IInv => BuiltIsMeant
  <2> SUFFICES ASSUME IInv, Over
               PROVE  /\ stack = <<0>> /\ ~InArgument
                      /\ \A s \in DOMAIN selections :
                           selections[s] = Meant(read[s]) /\ ReadBelow(s) = read[s].subs
                      /\ ReadBelow(0) = Joined(document)[Len(document)]
                      /\ TypeIs(type, Len(document))
    BY DEF BuiltIsMeant
  <2>1. walk[1] = [rule |-> "document", left |-> Nothing] /\ Len(walk) = 1
    BY DEF Over, Frame
  <2>2. AtDocument /\ Len(stack) = 1
    BY <2>1, Where DEF AtDocument, AtDefinition, AtSelection, AtArgument
  <2>3. stack = <<0>> /\ ~InArgument
    <3>1. stack \in Seq(Places) /\ stack[1] = 0
      BY DEF IInv, MessageInv, StackInv
    <3> QED
      BY <2>2, <3>1 DEF AtDocument
  <2>4. ASSUME NEW s \in DOMAIN selections
        PROVE  selections[s] = Meant(read[s]) /\ ReadBelow(s) = read[s].subs
    <3>1. s \in 1 .. Len(selections)
      BY LenProperties DEF IInv, MessageInv
    <3>2. \A i \in 1 .. Len(stack) : stack[i] # s
      BY <2>2, <2>3, <3>1
    <3> QED
      BY <3>1, <3>2 DEF IInv, DoneInv, DoneWith
  <2>5. Entered = Len(document) /\ Len(document) \in Nat
    <3>1. Len(document) \in Nat
      BY LenProperties DEF IInv, MessageInv
    <3>2. walk[1].left.definition = <<>>
      BY <2>1 DEF Nothing
    <3> QED
      BY <3>1, <3>2 DEF Entered
  <2>6. TypeIs(type, Len(document)) /\ ReadBelow(0) = Joined(document)[Len(document)]
    BY <2>1, <2>5 DEF IInv, DocumentInv, InDocument
  <2> QED
    BY <2>3, <2>4, <2>6
<1> QED
  BY <1>1, Inductive, PTL
--------------------------------------------------------------------------------
(* What a step may change in the message: nothing that has been left. *)
LeftIn ==
  /\ \A s \in DOMAIN selections \ ToSet(stack) :
       selections'[s] = selections[s] /\ below'[s] = below[s]
  /\ \A s \in DOMAIN selections : \A a \in DOMAIN selections[s].args :
       argument # [of |-> s, at |-> a] => selections'[s].args[a] = selections[s].args[a]

(* A step that writes the top only, and in it no argument but the open one. *)
LEMMA TopWritten ==
  ASSUME IInv,
         \A s \in 1 .. Len(selections) : s # Top => selections'[s] = selections[s],
         \A s \in 1 .. Len(selections) : s # Top => below'[s] = below[s],
         \A a \in DOMAIN selections[Top].args :
           argument # [of |-> Top, at |-> a] => selections'[Top].args[a] = selections[Top].args[a]
  PROVE  LeftIn
<1>1. DOMAIN selections = 1 .. Len(selections)
  BY LenProperties DEF IInv, MessageInv
<1>2. Top \in ToSet(stack)
  <2>1. stack \in Seq(Places) /\ Len(stack) \in 1 .. Len(stack) /\ Top = stack[Len(stack)]
    BY EndsAre DEF IInv, MessageInv
  <2> QED
    BY <2>1, LenProperties DEF ToSet
<1> QED
  BY <1>1, <1>2 DEF LeftIn

(* Every step of the walk writes the top only. *)
LEMMA LeftInStep == IInv /\ Next => LeftIn
<1> SUFFICES ASSUME IInv, Next PROVE LeftIn
  OBVIOUS
<1>1. CASE UNCHANGED <<selections, below>>
  BY <1>1 DEF LeftIn
<1>2. CASE EnterSelection
  <2>1. /\ selections' = Append(selections, NewSelection)
        /\ below' = [q \in 0 .. Len(selections) + 1 |->
                       IF q = Len(selections) + 1 THEN <<>>
                       ELSE IF q = Top THEN Append(below[q], Len(selections) + 1) ELSE below[q]]
    BY <1>2 DEF EnterSelection, AddBelow
  <2>2. ASSUME NEW s \in 1 .. Len(selections) PROVE selections'[s] = selections[s]
    BY <2>1 DEF IInv, MessageInv
  <2>3. ASSUME NEW s \in 1 .. Len(selections), s # Top PROVE below'[s] = below[s]
    <3>1. s \in 0 .. Len(selections) + 1 /\ s # Len(selections) + 1
      BY EndsAre
    <3> QED
      BY <2>1, <2>3, <3>1
  <2>4. Top \in 1 .. Len(selections) \/ Top = 0
    BY EndsAre DEF Places
  <2>5. CASE Top = 0
    <3>1. DOMAIN selections = 1 .. Len(selections)
      BY LenProperties DEF IInv, MessageInv
    <3>2. \A s \in 1 .. Len(selections) : s # 0
      OBVIOUS
    <3> QED
      BY <2>2, <2>3, <2>5, <3>1, <3>2 DEF LeftIn
  <2>6. CASE Top \in 1 .. Len(selections)
    BY <2>2, <2>3, <2>6, TopWritten
  <2> QED
    BY <2>4, <2>5, <2>6
<1>3. CASE EnterArgument
  <2>1. Inner.left.argument # <<>> /\ selections' = [selections EXCEPT ![Top].args = Append(@, NewArgument)]
        /\ below' = below
    BY <1>3 DEF EnterArgument, Enter, On
  <2>2. AtSelection
    BY <2>1, Where DEF AtDocument, AtDefinition, AtArgument, InDocument, InDefinition, InArgumentOf
  <2>3. Top \in 1 .. Len(selections)
    BY <2>2 DEF AtSelection
  <2> DEFINE made == selections[Top]
             args == Append(made.args, NewArgument)
  <2>4. selections \in Seq(Made) /\ made \in Made
    BY <2>3, ElementOfSeq DEF IInv, MessageInv
  <2>5. /\ \A s \in 1 .. Len(selections) : s # Top => selections'[s] = selections[s]
        /\ selections'[Top] = [made EXCEPT !.args = args]
    BY <2>1, <2>3, <2>4, LenProperties
  <2>6. selections'[Top].args = args
    BY <2>4, <2>5 DEF Made
  <2>7. \A a \in DOMAIN made.args : args[a] = made.args[a]
    <3>1. made.args \in Seq(MadeArgument)
      BY <2>4 DEF Made
    <3> QED
      BY <3>1, LenProperties, AppendProperties
  <2> QED
    BY <2>1, <2>5, <2>6, <2>7, TopWritten
<1>4. ASSUME NEW kind \in {"name", "comparator", "value"}, SetArgument(kind), AtArgument, below' = below
      PROVE  LeftIn
  <2>1. Top \in 1 .. Len(selections) /\ argument = [of |-> Top, at |-> argument.at]
    BY <1>4 DEF AtArgument
  <2> DEFINE made == selections[Top]
             at == argument.at
             arg == [made.args[at] EXCEPT ![kind] = Given(kind)]
             args == [made.args EXCEPT ![at] = arg]
  <2>2. selections \in Seq(Made) /\ made \in Made
    BY <2>1, ElementOfSeq DEF IInv, MessageInv
  <2>3. selections' = [selections EXCEPT ![Top] = [made EXCEPT !.args = args]]
    <3> DEFINE g == Given(kind)
    <3> HIDE DEF g
    <3>1. argument.of = Top
      BY <2>1
    <3> HIDE DEF at
    <3>2. selections' = [selections EXCEPT ![Top].args[at][kind] = g]
      BY <1>4, <3>1 DEF SetArgument, g, at
    <3>3. [selections EXCEPT ![Top].args[at][kind] = g]
            = [selections EXCEPT ![Top] = [made EXCEPT !.args =
                 [made.args EXCEPT ![at] = [made.args[at] EXCEPT ![kind] = g]]]]
      OBVIOUS
    <3> QED
      BY <3>2, <3>3 DEF g
  <2> HIDE DEF arg
  <2>4. /\ \A s \in 1 .. Len(selections) : s # Top => selections'[s] = selections[s]
        /\ selections'[Top] = [made EXCEPT !.args = args]
    BY <2>1, <2>2, <2>3, LenProperties
  <2>5. selections'[Top].args = args
    BY <2>2, <2>4 DEF Made
  <2>6. \A a \in DOMAIN made.args : a # at => args[a] = made.args[a]
    BY <2>2, LenProperties DEF Made
  <2> QED
    BY <1>4, <2>1, <2>4, <2>5, <2>6, TopWritten
<1>5. ASSUME NEW kind \in {"name", "value"}, below' = below,
             selections' = [selections EXCEPT ![Top][kind] = Given(kind)]
      PROVE  LeftIn
  <2> DEFINE made == selections[Top]
             new == [made EXCEPT ![kind] = Given(kind)]
  <2>1. selections' = [selections EXCEPT ![Top] = new]
    BY <1>5
  <2>2. DOMAIN selections = 1 .. Len(selections) /\ selections \in Seq(Made)
    BY LenProperties DEF IInv, MessageInv
  <2>3. CASE Top \in 1 .. Len(selections)
    <3>1. made \in Made
      BY <2>2, <2>3, ElementOfSeq
    <3>2. new.args = made.args
      BY <3>1 DEF Made
    <3>3. \A s \in 1 .. Len(selections) : s # Top => selections'[s] = selections[s]
      BY <2>1, <2>2
    <3>4. selections'[Top].args = made.args
      BY <2>1, <2>2, <2>3, <3>2
    <3> QED
      BY <1>5, <3>3, <3>4, TopWritten
  <2>4. CASE Top \notin 1 .. Len(selections)
    BY <1>5, <2>1, <2>2, <2>4 DEF LeftIn
  <2> QED
    BY <2>3, <2>4
<1>6. ~AtArgument => ~InArgument
  BY Where DEF AtDocument, AtDefinition, AtSelection
<1>7. CASE EnterComparator
  BY <1>1, <1>4, <1>6, <1>7 DEF EnterComparator
<1>8. CASE EnterValue
  <2>1. CASE InArgument
    BY <1>4, <1>6, <1>8, <2>1 DEF EnterValue
  <2>2. CASE ~InArgument
    BY <1>5, <1>8, <2>2 DEF EnterValue
  <2> QED
    BY <2>1, <2>2
<1>9. CASE EnterName
  <2>1. CASE InArgument
    BY <1>4, <1>6, <1>9, <2>1 DEF EnterName
  <2>2. CASE ~InArgument /\ Top = 0
    BY <1>1, <1>9, <2>2 DEF EnterName
  <2>3. CASE ~InArgument /\ Top # 0
    BY <1>5, <1>9, <2>3 DEF EnterName
  <2> QED
    BY <2>1, <2>2, <2>3
<1> QED
  BY <1>1, <1>2, <1>3, <1>7, <1>8, <1>9
     DEF Next, EnterDefinition, ExitDefinition, EnterType, ExitSelection, ExitArgument, Done, vars, query

(* What has been left is not written any more. *)
THEOREM AlwaysLeftAlone == Spec => LeftAlone
<1>1. IInv /\ [Next]_vars => [LeftIn]_vars
  BY LeftInStep
<1> QED
  BY <1>1, Inductive, PTL DEF Spec, LeftAlone, LeftIn
================================================================================
