--------------------------- MODULE BlockStoreProofs ----------------------------
(* Theorems about BlockStore, for every set of size classes and every file size. *)
EXTENDS BlockStore, TLAPS

(* The inductive invariant.  FreeListsSound speaks of the file, HeadsAgree ties  *)
(* file_.metadata to it, and BlocksAccounted is what keeps a block that is being *)
(* handed out, or linked, off the lists.                                         *)
IInv == TypeOK /\ FreeListsSound /\ BlocksAccounted /\ HeadsAgree

--------------------------------------------------------------------------------
(* Popping the last element of a sequence of blocks. *)
LEMMA PopSeq ==
  ASSUME NEW s \in Seq(Block), s # <<>>
  PROVE  LET t == SubSeq(s, 1, Len(s) - 1)
         IN  /\ t \in Seq(Block)
             /\ Len(t) = Len(s) - 1
             /\ \A i \in 1 .. Len(t) : t[i] = s[i]
             /\ Len(s) \in Nat /\ Len(s) > 0 /\ s[Len(s)] \in Block
<1>1. Len(s) \in Nat /\ Len(s) > 0 /\ s \in [1 .. Len(s) -> Block]
  OBVIOUS
<1> QED
  BY <1>1

(* Pushing a block on a sequence of blocks. *)
LEMMA PushSeq ==
  ASSUME NEW s \in Seq(Block), NEW b \in Block
  PROVE  LET t == Append(s, b)
         IN  /\ t \in Seq(Block)
             /\ Len(s) \in Nat
             /\ Len(t) = Len(s) + 1
             /\ \A i \in 1 .. Len(s) : t[i] = s[i]
             /\ t[Len(s) + 1] = b
             /\ t # <<>>
  OBVIOUS

(* Popping takes exactly the last block away when no block is there twice. *)
LEMMA PopElements ==
  ASSUME NEW s \in Seq(Block), s # <<>>,
         \A i, j \in 1 .. Len(s) : s[i] = s[j] => i = j
  PROVE  /\ Elements(SubSeq(s, 1, Len(s) - 1)) = Elements(s) \ {s[Len(s)]}
         /\ s[Len(s)] \in Elements(s)
<1> DEFINE n == Len(s)
           t == SubSeq(s, 1, n - 1)
<1>1. n \in Nat /\ n > 0 /\ Len(t) = n - 1 /\ \A i \in 1 .. n - 1 : t[i] = s[i]
  BY PopSeq
<1>2. Elements(s) = {s[i] : i \in 1 .. n} /\ Elements(t) = {t[i] : i \in 1 .. n - 1}
  BY <1>1 DEF Elements
<1>3. \A i, j \in 1 .. n : s[i] = s[j] => i = j
  OBVIOUS
<1> HIDE DEF n, t
<1>4. n \in 1 .. n /\ 1 .. n = (1 .. n - 1) \cup {n} /\ n \notin 1 .. n - 1
  BY <1>1
<1>5. Elements(t) = Elements(s) \ {s[n]}
  <2>1. ASSUME NEW x \in Elements(t) PROVE x \in Elements(s) \ {s[n]}
    <3>1. PICK i \in 1 .. n - 1 : x = t[i]
      BY <1>2
    <3>2. x = s[i] /\ i \in 1 .. n /\ i # n
      BY <3>1, <1>1, <1>4
    <3> QED
      BY <3>2, <1>2, <1>3, <1>4
  <2>2. ASSUME NEW x \in Elements(s) \ {s[n]} PROVE x \in Elements(t)
    <3>1. PICK i \in 1 .. n : x = s[i]
      BY <1>2
    <3>2. i \in 1 .. n - 1
      BY <3>1, <1>4
    <3> QED
      BY <3>1, <3>2, <1>1, <1>2
  <2> QED
    BY <2>1, <2>2
<1>6. s[n] \in Elements(s)
  BY <1>2, <1>4
<1> QED
  BY <1>5, <1>6 DEF n, t

(* Pushing adds exactly the block pushed. *)
LEMMA PushElements ==
  ASSUME NEW s \in Seq(Block), NEW b \in Block
  PROVE  Elements(Append(s, b)) = Elements(s) \cup {b}
<1> DEFINE n == Len(s)
           t == Append(s, b)
<1>1. n \in Nat /\ Len(t) = n + 1 /\ t[n + 1] = b /\ \A i \in 1 .. n : t[i] = s[i]
  BY PushSeq
<1>2. Elements(s) = {s[i] : i \in 1 .. n} /\ Elements(t) = {t[i] : i \in 1 .. n + 1}
  BY <1>1 DEF Elements
<1> HIDE DEF n, t
<1>3. 1 .. n + 1 = (1 .. n) \cup {n + 1}
  BY <1>1
<1> QED
  BY <1>1, <1>2, <1>3 DEF t

(* What an operation may assume of the list it works on. *)
LEMMA ListFacts ==
  ASSUME IInv, NEW c \in Class
  PROVE  /\ free[c] \in Seq(Block)
         /\ Len(free[c]) \in Nat
         /\ dhead[c] # 0 <=> free[c] # <<>>
         /\ free[c] # <<>> => /\ Len(free[c]) > 0
                              /\ dhead[c] = free[c][Len(free[c])]
         /\ \A i \in 1 .. Len(free[c]) : /\ free[c][i] \in 1 .. size
                                         /\ free[c][i] \in Block
                                         /\ free[c][i] \in OnLists
<1>1. free[c] \in Seq(Block) /\ Len(free[c]) \in Nat
  BY DEF IInv, TypeOK
<1>2. dhead[c] = Top(free[c])
  BY DEF IInv, FreeListsSound
<1>3. \A i \in 1 .. Len(free[c]) : free[c][i] \in Block /\ free[c][i] \in OnLists
  BY <1>1 DEF OnLists, Elements
<1>4. free[c] # <<>> => Len(free[c]) > 0 /\ dhead[c] = free[c][Len(free[c])]
  BY <1>1, <1>2 DEF Top
<1>5. OnLists \subseteq 1 .. size
  BY DEF IInv, BlocksAccounted
<1>6. dhead[c] # 0 <=> free[c] # <<>>
  BY <1>1, <1>2, <1>3 DEF Top, Block
<1> QED
  BY <1>1, <1>3, <1>4, <1>5, <1>6

(* The empty file: every list is empty, and so is every place a block can be in. *)
LEMMA InitIInv == Init => IInv
<1> SUFFICES ASSUME Init PROVE IInv
  OBVIOUS
<1> USE ClassAssumption, MaxBlocksAssumption DEF Init, Idle
<1>1. TypeOK
  <2>1. (CHOOSE c \in Class : TRUE) \in Class
    OBVIOUS
  <2>2. class \in [Block -> Class]
    BY <2>1
  <2>3. free \in [Class -> Seq(Block)]
    OBVIOUS
  <2>4. /\ size \in Addr /\ next \in [Block -> Addr \cup {Data}]
        /\ head \in [Class -> Addr] /\ dhead \in [Class -> Addr]
        /\ op \in [kind : {"idle", "write", "link"}, at : Addr]
    BY DEF Addr
  <2> QED
    BY <2>2, <2>3, <2>4 DEF TypeOK
<1>2. FreeListsSound
  <2>1. \A c \in Class : free[c] = <<>> /\ dhead[c] = 0
    OBVIOUS
  <2>2. ASSUME NEW c \in Class
        PROVE  dhead[c] = Top(free[c]) /\ 1 .. Len(free[c]) = {}
    BY <2>1 DEF Top
  <2> QED
    BY <2>2 DEF FreeListsSound
<1>3. BlocksAccounted
  <2>1. OnLists = {}
    BY DEF OnLists, Elements
  <2>2. InTransit = {}
    BY DEF InTransit
  <2> QED
    BY <2>1, <2>2 DEF BlocksAccounted
<1>4. HeadsAgree
  BY DEF HeadsAgree
<1> QED
  BY <1>1, <1>2, <1>3, <1>4 DEF IInv

(* A new block at the end of the file is on no list. *)
LEMMA ExtendIInv ==
  ASSUME IInv, NEW c \in Class, Extend(c)
  PROVE  IInv'
<1> USE MaxBlocksAssumption
<1>1. size \in Nat /\ size + 1 \in Block /\ size' = size + 1 /\ size + 1 \notin 1 .. size
  BY DEF IInv, TypeOK, Extend, Addr, Block
<1>2. TypeOK'
  <2>1. size' \in Addr
    BY <1>1 DEF Addr, Block
  <2>2. next' \in [Block -> Addr \cup {Data}] /\ class' \in [Block -> Class]
    BY DEF IInv, TypeOK, Extend
  <2>3. held' \in SUBSET Block
    BY <1>1 DEF IInv, TypeOK, Extend
  <2> QED
    BY <2>1, <2>2, <2>3 DEF IInv, TypeOK, Extend
<1>3. OnLists' = OnLists /\ InTransit' = InTransit
  BY DEF Extend, OnLists, Elements, InTransit
<1>4. \A d \in Class : \A i \in 1 .. Len(free[d]) : free[d][i] # size + 1
  BY <1>1, ListFacts
<1>5. FreeListsSound'
  BY <1>1, <1>4, ListFacts DEF IInv, FreeListsSound, TypeOK, Extend, Top
<1>6. BlocksAccounted'
  <2>1. held' = held \cup {size + 1} /\ lost' = lost /\ free' = free
    BY DEF Extend
  <2>2. size + 1 \notin lost /\ size + 1 \notin OnLists /\ size + 1 \notin InTransit
    BY <1>1 DEF IInv, BlocksAccounted
  <2>3. 1 .. size' = (1 .. size) \cup {size + 1}
    BY <1>1
  <2> QED
    BY <1>3, <2>1, <2>2, <2>3 DEF IInv, BlocksAccounted
<1>7. HeadsAgree'
  BY DEF IInv, HeadsAgree, Extend, Idle
<1> QED
  BY <1>2, <1>5, <1>6, <1>7 DEF IInv

(* Popping: the head that is saved is the block below the top of the list. *)
LEMMA PopIInv ==
  ASSUME IInv, NEW c \in Class, Pop(c)
  PROVE  IInv'
<1> USE MaxBlocksAssumption
<1> DEFINE s == free[c]
           n == Len(s)
           t == SubSeq(s, 1, n - 1)
<1>1. head = dhead /\ op.at = 0
  BY DEF IInv, HeadsAgree, Pop, Idle
<1>seq. s \in Seq(Block) /\ s # <<>>
  BY <1>1, ListFacts DEF Pop
<1>2. n \in Nat /\ n > 0 /\ head[c] = s[n] /\ s[n] \in Block
  BY <1>1, ListFacts DEF Pop
<1>3. Len(t) = n - 1 /\ \A i \in 1 .. n - 1 : t[i] = s[i]
  BY <1>seq, PopSeq
<1>all. \A i \in 1 .. n : s[i] \in Block
  BY ListFacts
<1>tseq. t \in Seq(Block)
  BY <1>seq, PopSeq
<1>4. /\ free' = [free EXCEPT ![c] = t] /\ free'[c] = t
      /\ \A d \in Class \ {c} : free'[d] = free[d]
  BY DEF Pop, IInv, TypeOK
<1>5. next[s[n]] = IF n = 1 THEN 0 ELSE s[n - 1]
  <2>1. \A i \in 1 .. n : next[s[i]] = IF i = 1 THEN 0 ELSE s[i - 1]
    BY DEF IInv, FreeListsSound
  <2> HIDE DEF n, s
  <2> QED
    BY <1>2, <2>1
<1>6. next[s[n]] \in Addr
  <2> HIDE DEF n, s
  <2>1. CASE n = 1
    BY <2>1, <1>5 DEF Addr
  <2>2. CASE n # 1
    <3>1. n - 1 \in 1 .. n
      BY <2>2, <1>2
    <3> QED
      BY <2>2, <3>1, <1>all, <1>5 DEF Addr, Block
  <2> QED
    BY <2>1, <2>2
<1>7. head' = [dhead EXCEPT ![c] = next[s[n]]] /\ dhead' = head' /\ op' = [kind |-> "write", at |-> s[n]]
  BY <1>1, <1>2 DEF Pop
<1>8. TypeOK'
  <2>1. free' \in [Class -> Seq(Block)]
    BY <1>tseq, <1>4 DEF IInv, TypeOK
  <2>2. op' \in [kind : {"idle", "write", "link"}, at : Addr]
    BY <1>2, <1>7 DEF Addr, Block
  <2>3. head' \in [Class -> Addr] /\ dhead' \in [Class -> Addr]
    BY <1>6, <1>7 DEF IInv, TypeOK
  <2> QED
    BY <2>1, <2>2, <2>3 DEF IInv, TypeOK, Pop
<1>9. FreeListsSound'
  <2>1. ASSUME NEW d \in Class, d # c
        PROVE  /\ dhead'[d] = Top(free'[d])
               /\ \A i \in 1 .. Len(free'[d]) :
                    /\ next'[free'[d][i]] = IF i = 1 THEN 0 ELSE free'[d][i - 1]
                    /\ class'[free'[d][i]] = d
    BY <2>1, <1>4, <1>7 DEF IInv, FreeListsSound, TypeOK, Pop
  <2>2. dhead'[c] = Top(free'[c])
    <3>1. CASE n = 1
      <4>1. t = <<>>
        BY <3>1, <1>3, <1>tseq
      <4> QED
        BY <3>1, <4>1, <1>4, <1>5, <1>7 DEF Top, IInv, TypeOK
    <3>2. CASE n > 1
      <4>1. t # <<>> /\ t[Len(t)] = s[n - 1]
        BY <3>2, <1>2, <1>3, <1>tseq
      <4> QED
        BY <3>2, <4>1, <1>4, <1>5, <1>7 DEF Top, IInv, TypeOK
    <3>3. n = 1 \/ n > 1
      <4>1. n \in Nat /\ n > 0
        BY <1>2
      <4> HIDE DEF n
      <4> QED
        BY <4>1
    <3> HIDE DEF n
    <3> QED
      BY <3>1, <3>2, <3>3
  <2>3. ASSUME NEW i \in 1 .. Len(free'[c])
        PROVE  /\ next'[free'[c][i]] = IF i = 1 THEN 0 ELSE free'[c][i - 1]
               /\ class'[free'[c][i]] = c
    <3>1. next' = next /\ class' = class
      BY DEF Pop
    <3>2. i \in 1 .. n - 1 /\ i \in 1 .. n /\ free'[c][i] = s[i]
      BY <1>2, <1>3, <1>4
    <3>3. next[s[i]] = (IF i = 1 THEN 0 ELSE s[i - 1]) /\ class[s[i]] = c
      BY <3>2 DEF IInv, FreeListsSound
    <3>4. i # 1 => free'[c][i - 1] = s[i - 1]
      BY <3>2, <1>2, <1>3, <1>4
    <3> QED
      BY <3>1, <3>2, <3>3, <3>4
  <2> QED
    BY <2>1, <2>2, <2>3 DEF FreeListsSound
<1>10. BlocksAccounted'
  <2>1. /\ \A i, j \in 1 .. n : s[i] = s[j] => i = j
        /\ \A d \in Class, i \in 1 .. n : \A j \in 1 .. Len(free[d]) :
             s[i] = free[d][j] => d = c /\ i = j
    BY DEF IInv, BlocksAccounted
  <2>2. ASSUME NEW d \in Class \ {c}, s[n] \in Elements(free[d])
        PROVE  FALSE
    <3>1. PICK j \in 1 .. Len(free[d]) : free[d][j] = s[n]
      BY <2>2 DEF Elements
    <3>2. n \in 1 .. n
      BY <1>2
    <3> QED
      BY <3>1, <3>2, <2>1
  <2>3. Elements(t) = Elements(s) \ {s[n]}
    BY <1>seq, <2>1, PopElements
  <2>4. OnLists' = OnLists \ {s[n]}
    <3> DEFINE E(d) == Elements(free[d])
               F(d) == Elements(free'[d])
    <3>1. ASSUME NEW d \in Class PROVE F(d) = E(d) \ {s[n]}
      <4>1. CASE d = c
        BY <4>1, <1>4, <2>3
      <4>2. CASE d # c
        BY <4>2, <1>4, <2>2
      <4> QED
        BY <4>1, <4>2
    <3>2. OnLists' = UNION {F(d) : d \in Class}
      BY DEF OnLists, Elements
    <3>3. OnLists = UNION {E(d) : d \in Class}
      BY DEF OnLists
    <3> HIDE DEF E, F
    <3> QED
      BY <3>1, <3>2, <3>3
  <2>5. InTransit = {} /\ InTransit' = {s[n]}
    BY <1>1, <1>2, <1>7 DEF InTransit, Block
  <2>6. s[n] \in OnLists
    BY <1>2, ListFacts
  <2>7. held' = held /\ lost' = lost /\ size' = size
    BY DEF Pop
  <2>8. \A d, e \in Class : \A i \in 1 .. Len(free'[d]), j \in 1 .. Len(free'[e]) :
          free'[d][i] = free'[e][j] => d = e /\ i = j
    <3>1. \A d \in Class : /\ Len(free'[d]) <= Len(free[d]) /\ Len(free'[d]) \in Nat
                           /\ Len(free[d]) \in Nat
                           /\ \A i \in 1 .. Len(free'[d]) : free'[d][i] = free[d][i]
      <4> TAKE d \in Class
      <4>1. CASE d = c
        BY <4>1, <1>2, <1>3, <1>4
      <4>2. CASE d # c
        BY <4>2, <1>4, ListFacts
      <4> QED
        BY <4>1, <4>2
    <3> QED
      BY <3>1 DEF IInv, BlocksAccounted
  <2> QED
    BY <2>4, <2>5, <2>6, <2>7, <2>8 DEF IInv, BlocksAccounted
<1>11. HeadsAgree'
  BY <1>2, <1>7 DEF HeadsAgree, Block
<1> QED
  BY <1>8, <1>9, <1>10, <1>11 DEF IInv

(* A block in transit is on no list. *)
LEMMA TransitFacts ==
  ASSUME IInv, op.kind # "idle"
  PROVE  /\ op.at \in Block /\ op.at \in 1 .. size
         /\ InTransit = {op.at}
         /\ op.at \notin held /\ op.at \notin lost /\ op.at \notin OnLists
         /\ \A c \in Class : \A i \in 1 .. Len(free[c]) : free[c][i] # op.at
<1>1. op.at # 0
  BY DEF IInv, HeadsAgree
<1>2. op.at \in Block
  BY <1>1 DEF IInv, TypeOK, Addr, Block
<1>3. InTransit = {op.at}
  BY <1>1 DEF InTransit
<1>4. /\ op.at \notin held /\ op.at \notin lost /\ op.at \notin OnLists
      /\ op.at \in 1 .. size
  BY <1>3 DEF IInv, BlocksAccounted
<1> QED
  BY <1>2, <1>3, <1>4, ListFacts

(* Writing the popped block: it is on no list, so no list changes. *)
LEMMA WriteBlockIInv ==
  ASSUME IInv, WriteBlock
  PROVE  IInv'
<1> DEFINE b == op.at
<1>1. /\ b \in Block /\ InTransit = {b} /\ b \notin OnLists
      /\ \A c \in Class : \A i \in 1 .. Len(free[c]) : free[c][i] # b
  BY TransitFacts DEF WriteBlock
<1>2. TypeOK'
  <2>1. next' \in [Block -> Addr \cup {Data}]
    BY DEF IInv, TypeOK, WriteBlock
  <2>2. op' \in [kind : {"idle", "write", "link"}, at : Addr]
    BY MaxBlocksAssumption DEF WriteBlock, Idle, Addr
  <2> QED
    BY <1>1, <2>1, <2>2 DEF IInv, TypeOK, WriteBlock
<1>3. FreeListsSound'
  <2>1. \A c \in Class : \A i \in 1 .. Len(free[c]) : next'[free[c][i]] = next[free[c][i]]
    BY <1>1, ListFacts DEF WriteBlock, IInv, TypeOK
  <2>2. dhead' = dhead /\ free' = free /\ class' = class
    BY DEF WriteBlock
  <2> HIDE DEF b
  <2> QED
    BY <2>1, <2>2 DEF IInv, FreeListsSound, Top
<1>4. BlocksAccounted'
  <2>1. OnLists' = OnLists /\ free' = free /\ size' = size /\ lost' = lost
    BY DEF WriteBlock, OnLists, Elements
  <2>2. InTransit' = {} /\ held' = held \cup {b}
    BY DEF WriteBlock, InTransit, Idle
  <2> QED
    BY <1>1, <2>1, <2>2 DEF IInv, BlocksAccounted
<1>5. HeadsAgree'
  BY DEF IInv, HeadsAgree, WriteBlock, Idle
<1> QED
  BY <1>2, <1>3, <1>4, <1>5 DEF IInv

(* Linking: the record is outside every list of the file until the head is saved. *)
LEMMA LinkFreeIInv ==
  ASSUME IInv, NEW b \in held, LinkFree(b)
  PROVE  IInv'
<1> DEFINE k == class[b]
<1>1. b \in Block /\ b # 0 /\ b \notin OnLists /\ b \notin lost /\ k \in Class
  BY DEF IInv, TypeOK, BlocksAccounted, Block
<1>2. \A c \in Class : \A i \in 1 .. Len(free[c]) : free[c][i] # b
  BY <1>1, ListFacts
<1>3. head = dhead /\ op.at = 0
  BY DEF IInv, HeadsAgree, LinkFree, Idle
<1>4. op' = [kind |-> "link", at |-> b]
  BY DEF LinkFree
<1>5. TypeOK'
  <2>1. b \in Addr
    BY <1>1 DEF Addr, Block
  <2>2. next' \in [Block -> Addr \cup {Data}]
    BY <1>1 DEF IInv, TypeOK, LinkFree
  <2>3. head' \in [Class -> Addr]
    BY <1>1, <2>1 DEF IInv, TypeOK, LinkFree
  <2>4. op' \in [kind : {"idle", "write", "link"}, at : Addr]
    BY <1>4, <2>1
  <2> QED
    BY <2>2, <2>3, <2>4 DEF IInv, TypeOK, LinkFree
<1>6. FreeListsSound'
  <2>1. \A c \in Class : \A i \in 1 .. Len(free[c]) : next'[free[c][i]] = next[free[c][i]]
    BY <1>2, ListFacts DEF LinkFree, IInv, TypeOK
  <2>2. dhead' = dhead /\ free' = free /\ class' = class
    BY DEF LinkFree
  <2> QED
    BY <2>1, <2>2 DEF IInv, FreeListsSound, Top
<1>7. BlocksAccounted'
  <2>1. OnLists' = OnLists /\ free' = free /\ size' = size /\ lost' = lost
    BY DEF LinkFree, OnLists, Elements
  <2>2. InTransit = {} /\ InTransit' = {b} /\ held' = held \ {b}
    BY <1>1, <1>3, <1>4 DEF LinkFree, InTransit
  <2> QED
    BY <1>1, <2>1, <2>2 DEF IInv, BlocksAccounted
<1>8. HeadsAgree'
  <2>1. head' = [dhead EXCEPT ![k] = b] /\ class' = class /\ dhead' = dhead
    BY <1>3 DEF LinkFree
  <2>2. next'[b] = dhead[k]
    BY <1>1, <1>3 DEF LinkFree, IInv, TypeOK
  <2> QED
    BY <1>1, <1>4, <2>1, <2>2 DEF HeadsAgree
<1> QED
  BY <1>5, <1>6, <1>7, <1>8 DEF IInv

(* A crash forgets the head in memory; the lists of the file are unchanged. *)
LEMMA CrashIInv ==
  ASSUME IInv, Crash
  PROVE  IInv'
<1>1. op' = Idle /\ InTransit' = {}
  BY DEF Crash, Idle, InTransit
<1>2. InTransit \subseteq Block
  BY DEF IInv, TypeOK, InTransit, Addr, Block
<1>3. TypeOK'
  <2>1. op' \in [kind : {"idle", "write", "link"}, at : Addr]
    BY MaxBlocksAssumption, <1>1 DEF Idle, Addr
  <2> QED
    BY <1>2, <2>1 DEF IInv, TypeOK, Crash
<1>4. FreeListsSound'
  BY DEF IInv, FreeListsSound, Crash, Top
<1>5. BlocksAccounted'
  <2>1. /\ OnLists' = OnLists /\ free' = free /\ size' = size /\ held' = held
        /\ lost' = lost \cup InTransit
    BY DEF Crash, OnLists, Elements, InTransit
  <2> QED
    BY <1>1, <2>1 DEF IInv, BlocksAccounted
<1>6. HeadsAgree'
  BY <1>1 DEF HeadsAgree, Crash, Idle
<1> QED
  BY <1>3, <1>4, <1>5, <1>6 DEF IInv

(* Saving the head puts the linked block on top of the list of its class. *)
LEMMA SaveHeadIInv ==
  ASSUME IInv, SaveHead
  PROVE  IInv'
<1> DEFINE b == op.at
           k == class[b]
           s == free[k]
           n == Len(s)
           t == Append(s, b)
<1>1. /\ b \in Block /\ b \in 1 .. size /\ InTransit = {b}
      /\ b \notin held /\ b \notin lost /\ b \notin OnLists
      /\ \A c \in Class : \A i \in 1 .. Len(free[c]) : free[c][i] # b
  BY TransitFacts DEF SaveHead
<1>2. k \in Class
  BY <1>1 DEF IInv, TypeOK
<1>seq. s \in Seq(Block)
  BY <1>2, ListFacts
<1>3. n \in Nat
  BY <1>2, ListFacts
<1>4. Len(t) = n + 1 /\ t[n + 1] = b /\ \A i \in 1 .. n : t[i] = s[i]
  BY <1>1, <1>seq, PushSeq
<1>tseq. t \in Seq(Block) /\ t # <<>>
  BY <1>1, <1>seq, PushSeq
<1>5. /\ free' = [free EXCEPT ![k] = t] /\ free'[k] = t
      /\ \A d \in Class \ {k} : free'[d] = free[d]
  BY <1>2 DEF SaveHead, IInv, TypeOK
<1>6. head = [dhead EXCEPT ![k] = b] /\ next[b] = dhead[k]
  BY DEF SaveHead, IInv, HeadsAgree
<1>7. dhead' = head /\ head' = head /\ op' = Idle /\ next' = next /\ class' = class
  BY DEF SaveHead
<1>8. TypeOK'
  <2>1. free' \in [Class -> Seq(Block)]
    BY <1>tseq, <1>5 DEF IInv, TypeOK
  <2>2. op' \in [kind : {"idle", "write", "link"}, at : Addr]
    BY <1>7, MaxBlocksAssumption DEF Idle, Addr
  <2> QED
    BY <2>1, <2>2 DEF IInv, TypeOK, SaveHead
<1>9. FreeListsSound'
  <2>1. ASSUME NEW d \in Class, d # k
        PROVE  /\ dhead'[d] = Top(free'[d])
               /\ \A i \in 1 .. Len(free'[d]) :
                    /\ next'[free'[d][i]] = IF i = 1 THEN 0 ELSE free'[d][i - 1]
                    /\ class'[free'[d][i]] = d
    <3>1. free'[d] = free[d] /\ dhead'[d] = dhead[d]
      BY <2>1, <1>5, <1>6, <1>7 DEF IInv, TypeOK
    <3> HIDE DEF b, k, s, n, t
    <3> QED
      BY <3>1, <1>7 DEF IInv, FreeListsSound
  <2>2. dhead'[k] = Top(free'[k])
    <3>1. dhead'[k] = b
      BY <1>2, <1>6, <1>7 DEF IInv, TypeOK
    <3> HIDE DEF b, k, s, n, t
    <3> QED
      BY <3>1, <1>4, <1>5, <1>tseq DEF Top
  <2>3. ASSUME NEW i \in 1 .. Len(free'[k])
        PROVE  /\ next'[free'[k][i]] = IF i = 1 THEN 0 ELSE free'[k][i - 1]
               /\ class'[free'[k][i]] = k
    <3>1. dhead[k] = IF n = 0 THEN 0 ELSE s[n]
      <4>1. dhead[k] = Top(s)
        BY <1>2 DEF IInv, FreeListsSound
      <4>2. n = 0 <=> s = <<>>
        BY <1>seq
      <4> HIDE DEF s
      <4> QED
        BY <4>1, <4>2 DEF Top
    <3>2. \A j \in 1 .. n : /\ next[s[j]] = IF j = 1 THEN 0 ELSE s[j - 1]
                            /\ class[s[j]] = k
      BY <1>2 DEF IInv, FreeListsSound
    <3>3. class[b] = k
      OBVIOUS
    <3> HIDE DEF b, k, s, n, t
    <3>4. i \in 1 .. n + 1 /\ free'[k] = t
      BY <1>4, <1>5
    <3>5. CASE i \in 1 .. n
      <4>1. t[i] = s[i] /\ (i # 1 => t[i - 1] = s[i - 1])
        BY <3>5, <1>3, <1>4
      <4> QED
        BY <3>2, <3>4, <3>5, <4>1, <1>7
    <3>6. CASE i = n + 1
      <4>1. t[i] = b /\ (i # 1 => t[i - 1] = s[n] /\ n # 0) /\ (i = 1 => n = 0)
        BY <3>6, <1>3, <1>4
      <4> QED
        BY <3>1, <3>3, <3>4, <4>1, <1>6, <1>7
    <3> QED
      BY <3>4, <3>5, <3>6, <1>3
  <2> QED
    BY <2>1, <2>2, <2>3 DEF FreeListsSound
<1>10. BlocksAccounted'
  <2>1. Elements(t) = Elements(s) \cup {b}
    BY <1>1, <1>seq, PushElements
  <2>2. OnLists' = OnLists \cup {b}
    <3> DEFINE E(d) == Elements(free[d])
               F(d) == Elements(free'[d])
    <3>1. F(k) = E(k) \cup {b}
      BY <1>5, <2>1
    <3>2. ASSUME NEW d \in Class \ {k} PROVE F(d) = E(d)
      BY <1>5
    <3>3. OnLists' = UNION {F(d) : d \in Class}
      BY DEF OnLists, Elements
    <3>4. OnLists = UNION {E(d) : d \in Class}
      BY DEF OnLists
    <3> HIDE DEF E, F, b, k
    <3> QED
      BY <3>1, <3>2, <3>3, <3>4, <1>2
  <2>3. InTransit' = {}
    BY <1>7 DEF InTransit, Idle
  <2>4. held' = held /\ lost' = lost /\ size' = size
    BY DEF SaveHead
  <2>5. ASSUME NEW d \in Class, NEW e \in Class,
               NEW i \in 1 .. Len(free'[d]), NEW j \in 1 .. Len(free'[e]),
               free'[d][i] = free'[e][j]
        PROVE  d = e /\ i = j
    <3>1. ASSUME NEW f \in Class, NEW m \in 1 .. Len(free'[f])
          PROVE  \/ m \in 1 .. Len(free[f]) /\ free'[f][m] = free[f][m]
                 \/ f = k /\ m = n + 1 /\ free'[f][m] = b
      <4>1. CASE f = k
        BY <4>1, <1>3, <1>4, <1>5
      <4>2. CASE f # k
        BY <4>2, <1>5
      <4> QED
        BY <4>1, <4>2
    <3>2. \/ i \in 1 .. Len(free[d]) /\ free'[d][i] = free[d][i]
          \/ d = k /\ i = n + 1 /\ free'[d][i] = b
      BY <3>1
    <3>3. \/ j \in 1 .. Len(free[e]) /\ free'[e][j] = free[e][j]
          \/ e = k /\ j = n + 1 /\ free'[e][j] = b
      BY <3>1
    <3>4. \A x, y \in Class : \A p \in 1 .. Len(free[x]), q \in 1 .. Len(free[y]) :
            free[x][p] = free[y][q] => x = y /\ p = q
      BY DEF IInv, BlocksAccounted
    <3> HIDE DEF b, k, s, n, t
    <3> QED
      BY SMTT(30), <3>2, <3>3, <3>4, <2>5, <1>1
  <2> QED
    BY <2>2, <2>3, <2>4, <2>5, <1>1 DEF IInv, BlocksAccounted
<1>11. HeadsAgree'
  BY <1>7 DEF HeadsAgree, Idle
<1> QED
  BY <1>8, <1>9, <1>10, <1>11 DEF IInv

(* The invariant speaks of the variables only. *)
LEMMA StutterIInv ==
  ASSUME IInv, UNCHANGED vars
  PROVE  IInv'
<1> USE DEF vars, IInv
<1>1. TypeOK'
  BY DEF TypeOK
<1>2. FreeListsSound'
  BY DEF FreeListsSound, Top
<1>3. BlocksAccounted'
  BY DEF BlocksAccounted, OnLists, Elements, InTransit
<1>4. HeadsAgree'
  BY DEF HeadsAgree
<1> QED
  BY <1>1, <1>2, <1>3, <1>4

(* Every step preserves the invariant. *)
LEMMA NextIInv == IInv /\ [Next]_vars => IInv'
<1> SUFFICES ASSUME IInv, [Next]_vars PROVE IInv'
  OBVIOUS
<1>1. ASSUME NEW c \in Class, Extend(c) PROVE IInv'
  BY <1>1, ExtendIInv
<1>2. ASSUME NEW c \in Class, Pop(c) PROVE IInv'
  BY <1>2, PopIInv
<1>3. ASSUME NEW b \in held, LinkFree(b) PROVE IInv'
  BY <1>3, LinkFreeIInv
<1>4. CASE WriteBlock
  BY <1>4, WriteBlockIInv
<1>5. CASE SaveHead
  BY <1>5, SaveHeadIInv
<1>6. CASE Crash
  BY <1>6, CrashIInv
<1>7. CASE UNCHANGED vars
  BY <1>7, StutterIInv
<1> QED
  BY <1>1, <1>2, <1>3, <1>4, <1>5, <1>6, <1>7 DEF Next

(* The inductive invariant holds of every reachable state. *)
THEOREM Inductive == Spec => []IInv
BY InitIInv, NextIInv, PTL DEF Spec

(* The addresses file_.metadata and the free_space records hold are always those *)
(* of blocks of the file, in memory and on disk, through every crash.            *)
THEOREM TypeCorrect == Spec => []TypeOK
<1>1. IInv => TypeOK
  BY DEF IInv
<1> QED
  BY <1>1, Inductive, PTL

(* Whatever the callers allocate and release, and wherever the process stops,    *)
(* the lists in the file are the released blocks of each class, latest first.    *)
THEOREM FreeListsAlwaysSound == Spec => []FreeListsSound
<1>1. IInv => FreeListsSound
  BY DEF IInv
<1> QED
  BY <1>1, Inductive, PTL

(* No block is handed out while in use, put on a list twice or on two lists, or  *)
(* lost without a crash.                                                         *)
THEOREM BlocksAlwaysAccounted == Spec => []BlocksAccounted
<1>1. IInv => BlocksAccounted
  BY DEF IInv
<1> QED
  BY <1>1, Inductive, PTL

(* The metadata in memory is never more than one saved write ahead of the file.  *)
THEOREM HeadsAlwaysAgree == Spec => []HeadsAgree
<1>1. IInv => HeadsAgree
  BY DEF IInv
<1> QED
  BY <1>1, Inductive, PTL

--------------------------------------------------------------------------------
(* The refinement: each write of BlockStore is one action of BlockPool.  The     *)
(* invariant is needed to know that a list head is 0 just when no block of the   *)
(* class is released, and that popping the list removes one block from the set.  *)
avail == [c \in Class |-> Elements(free[c])]

(* Each step of BlockStore is one of the pool: the initial states correspond, ...  *)
LEMMA InitPool == Init => Pool!Init
BY DEF Init, Pool!Init, Idle, Elements

(* ... Extend is Grow, the empty list being an empty set of blocks, ... *)
LEMMA ExtendGrow ==
  ASSUME IInv, NEW c \in Class, Extend(c)
  PROVE  Pool!Grow(c)
<1>1. head[c] = dhead[c] /\ op.at = 0 /\ op' = op
  BY DEF IInv, HeadsAgree, Extend, Idle
<1>2. free[c] = <<>>
  BY <1>1, ListFacts DEF Extend
<1>3. Elements(free[c]) = {}
  BY <1>2 DEF Elements
<1>4. avail' = avail
  BY DEF Extend, avail, Elements
<1> QED
  BY <1>1, <1>3, <1>4 DEF Extend, Pool!Grow, avail

(* ... Pop is Reuse of the block on top, ... *)
LEMMA PopReuse ==
  ASSUME IInv, NEW c \in Class, Pop(c)
  PROVE  Pool!Reuse(c)
<1> DEFINE s == free[c]
           b == s[Len(s)]
<1>1. head = dhead /\ op.at = 0
  BY DEF IInv, HeadsAgree, Pop, Idle
<1>2. s \in Seq(Block) /\ s # <<>> /\ head[c] = b
  BY <1>1, ListFacts DEF Pop
<1>3. \A i, j \in 1 .. Len(s) : s[i] = s[j] => i = j
  BY DEF IInv, BlocksAccounted
<1>4. b \in Elements(s) /\ Elements(SubSeq(s, 1, Len(s) - 1)) = Elements(s) \ {b}
  BY <1>2, <1>3, PopElements
<1>5. \A d \in Class : Elements(free'[d]) = IF d = c THEN Elements(s) \ {b} ELSE Elements(free[d])
  BY <1>4 DEF Pop, IInv, TypeOK
<1>6. avail' = [avail EXCEPT ![c] = @ \ {b}]
  <2>1. avail' = [d \in Class |-> Elements(free'[d])]
    BY DEF avail, Elements
  <2> HIDE DEF s, b
  <2>2. Elements(s) = avail[c]
    BY DEF avail, s
  <2> QED
    BY <2>1, <2>2, <1>5 DEF avail
<1>7. op'.at = b /\ size' = size /\ held' = held
  BY <1>2 DEF Pop
<1>8. b \in avail[c]
  BY <1>4 DEF avail
<1> HIDE DEF b
<1> QED
  BY <1>1, <1>6, <1>7, <1>8 DEF Pool!Reuse, avail

(* ... LinkFree is Release, ... *)
LEMMA LinkFreeRelease ==
  ASSUME IInv, NEW b \in held, LinkFree(b)
  PROVE  Pool!Release(b)
<1>1. avail' = avail
  BY DEF LinkFree, avail, Elements
<1> QED
  BY <1>1 DEF LinkFree, Idle, Pool!Release, avail

(* ... SaveHead is Retire, ... *)
LEMMA SaveHeadRetire ==
  ASSUME IInv, SaveHead
  PROVE  \E c \in Class : Pool!Retire(c)
<1> DEFINE b == op.at
           k == class[b]
<1>1. b \in Block /\ b # 0 /\ k \in Class
  BY TransitFacts DEF SaveHead, IInv, TypeOK, Block
<1>2. Elements(Append(free[k], b)) = Elements(free[k]) \cup {b}
  BY <1>1, ListFacts, PushElements
<1>3. \A d \in Class : Elements(free'[d]) = IF d = k THEN Elements(free[k]) \cup {b} ELSE Elements(free[d])
  BY <1>1, <1>2 DEF SaveHead, IInv, TypeOK
<1>4. avail' = [avail EXCEPT ![k] = @ \cup {b}]
  <2>1. avail' = [d \in Class |-> Elements(free'[d])]
    BY DEF avail, Elements
  <2>2. Elements(free[k]) = avail[k]
    BY <1>1 DEF avail
  <2> HIDE DEF b, k
  <2> QED
    BY <2>1, <2>2, <1>3 DEF avail
<1>5. op'.at = 0 /\ size' = size /\ held' = held
  BY DEF SaveHead, Idle
<1>6. Pool!Retire(k)
  BY <1>1, <1>4, <1>5 DEF Pool!Retire, avail
<1> QED
  BY <1>1, <1>6

(* ... WriteBlock is Fill, ... *)
LEMMA WriteBlockFill ==
  ASSUME IInv, WriteBlock
  PROVE  Pool!Fill
<1>1. op.at # 0
  BY DEF IInv, HeadsAgree, WriteBlock
<1>2. avail' = avail
  BY DEF WriteBlock, avail, Elements
<1> QED
  BY <1>1, <1>2 DEF WriteBlock, Idle, Pool!Fill, avail

(* ... and Crash is Lose. *)
LEMMA CrashLose ==
  ASSUME IInv, Crash
  PROVE  Pool!Lose
<1>1. avail' = avail
  BY DEF Crash, avail, Elements
<1> QED
  BY <1>1 DEF Crash, Idle, Pool!Lose, avail

(* So is every step. *)
LEMMA NextPool == IInv /\ [Next]_vars => [Pool!Next]_(Pool!vars)
<1> SUFFICES ASSUME IInv, [Next]_vars PROVE [Pool!Next]_(Pool!vars)
  OBVIOUS
<1>1. ASSUME NEW c \in Class, Extend(c) PROVE Pool!Next
  BY <1>1, ExtendGrow DEF Pool!Next
<1>2. ASSUME NEW c \in Class, Pop(c) PROVE Pool!Next
  BY <1>2, PopReuse DEF Pool!Next
<1>3. ASSUME NEW b \in held, LinkFree(b) PROVE Pool!Next
  BY <1>3, LinkFreeRelease DEF Pool!Next
<1>4. CASE WriteBlock
  BY <1>4, WriteBlockFill DEF Pool!Next
<1>5. CASE SaveHead
  BY <1>5, SaveHeadRetire DEF Pool!Next
<1>6. CASE Crash
  BY <1>6, CrashLose DEF Pool!Next
<1>7. CASE UNCHANGED vars
  <2>1. avail' = avail
    BY <1>7 DEF vars, avail, Elements
  <2> QED
    BY <1>7, <2>1 DEF vars, Pool!vars, avail
<1> QED
  BY <1>1, <1>2, <1>3, <1>4, <1>5, <1>6, <1>7 DEF Next

(* The free lists of the file, their heads cached in memory, the two-write       *)
(* release and the two-write reuse implement a pool of blocks from which a crash *)
(* can only drop the single block in transit.                                    *)
THEOREM Implements == Spec => ImplementsPool
BY InitPool, NextPool, Inductive, PTL DEF Spec, ImplementsPool, Pool!Spec
================================================================================
