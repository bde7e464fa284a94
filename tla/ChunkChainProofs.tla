---------------------------- MODULE ChunkChainProofs ----------------------------
(* Theorems about ChunkChain, for every length of a chunk, set of strings and    *)
(* width of the index.                                                           *)
EXTENDS ChunkChain, ChainTheorems

(* The blocks of the file. *)
Block ==
  [kind : {"chunk"}, next : Nat, bytes : Seq(Nat)] \cup [kind : {"free"}, next : Nat]

(* A block leads to a block of the file, or nowhere, and a chunk is not empty.   *)
Sound(d, b) ==
  /\ d[b].next \in 0 .. Len(d)
  /\ d[b].kind = "chunk" => Len(d[b].bytes) \in 1 .. D

(* In the loop the index is that of a byte of the string, or it has wrapped: it  *)
(* is never the length.                                                          *)
InString == ind \in 0 .. Len(data) - 1
IndexInv ==
  /\ ind \in 0 .. Wrap - 1
  /\ pc \in {"loop", "write"} => data \in Strings
  /\ pc = "loop" => InString \/ ind > Len(data)
  /\ pc = "write" => InString

(* Where the addresses of a call may lead. *)
AddressInv ==
  /\ {head, dhead, addr} \cup held \subseteq 0 .. Len(disk)
  /\ at \in 0 .. Len(disk) + 1
  /\ pc = "write" => at # 0
  /\ pc = "save" => at # Len(disk) + 1

(* The inductive invariant. *)
IInv ==
  /\ disk \in Seq(Block) /\ \A b \in 1 .. Len(disk) : Sound(disk, b)
  /\ pc \in {"idle", "loop", "write", "remove", "save"}
  /\ IndexInv
  /\ AddressInv
--------------------------------------------------------------------------------
(* The arithmetic of the index.                                                  *)
(* A number below the modulus is its own remainder, ... *)
LEMMA ModSmall ==
  ASSUME NEW w \in Nat, NEW x \in Nat, x < w PROVE x % w = x
BY SMTT(30)

(* ... also when it has gone round once, ... *)
LEMMA ModRound ==
  ASSUME NEW w \in Nat, NEW x \in Nat, x < w PROVE (x + w) % w = x
BY SMTT(30)

(* ... and a remainder is at most the number. *)
LEMMA ModBounds ==
  ASSUME NEW w \in Nat \ {0}, NEW x \in Nat PROVE x % w \in 0 .. x
<1>1. x % w \in 0 .. w - 1
  BY SMTT(30)
<1>2. CASE x < w
  BY <1>2, ModSmall
<1> QED
  BY <1>1, <1>2

(* The loop starts at a byte of the string. *)
LEMMA StartInString ==
  ASSUME NEW length \in Nat \ {0} PROVE Start(length) \in 0 .. length - 1
<1>1. (length - 1) % D \in 0 .. length - 1
  BY ChunkAssumption, ModBounds
<1> QED
  BY <1>1 DEF Start

(* From a byte of the string the loop comes to an earlier one, or wraps to an    *)
(* index above the length: the strings leave the room for that.                  *)
LEMMA BeforeInString ==
  ASSUME NEW s \in Strings, NEW i \in 0 .. Len(s) - 1
  PROVE  /\ Before(i) \in 0 .. Wrap - 1
         /\ Before(i) < i \/ Before(i) > Len(s)
<1>1. /\ D \in Nat \ {0} /\ Wrap \in Nat /\ Wrap > 2 * D
      /\ Len(s) \in Nat /\ Len(s) < Wrap - D
  BY ChunkAssumption, WrapAssumption, StringsAssumption
<1>2. CASE i >= D
  <2>1. i - D \in Nat /\ i - D < Wrap
    BY <1>1, <1>2
  <2>2. ((i - D) + Wrap) % Wrap = i - D
    BY <1>1, <2>1, ModRound
  <2> QED
    BY <1>1, <1>2, <2>1, <2>2 DEF Before
<1>3. CASE i < D
  <2>1. (i - D) + Wrap \in Nat /\ (i - D) + Wrap < Wrap /\ (i - D) + Wrap > Len(s)
    BY <1>1, <1>3
  <2>2. ((i - D) + Wrap) % Wrap = (i - D) + Wrap
    BY <1>1, <2>1, ModSmall
  <2> QED
    BY <1>1, <2>1, <2>2 DEF Before
<1> QED
  BY <1>1, <1>2, <1>3

(* A chunk is cut out of the string: it is neither empty nor too long. *)
LEMMA BytesFit ==
  ASSUME NEW s \in Strings, NEW i \in 0 .. Len(s) - 1
  PROVE  Bytes(s, i) \in Seq(Nat) /\ Len(Bytes(s, i)) \in 1 .. D
<1> DEFINE m == IF D < Len(s) - i THEN i + D ELSE Len(s)
<1>1. s \in Seq(Nat) /\ Len(s) \in Nat /\ D \in Nat \ {0}
  BY ChunkAssumption, StringsAssumption
<1>2. i + 1 \in 1 .. Len(s) /\ m \in i + 1 .. Len(s) /\ m - i \in 1 .. D
  BY <1>1
<1> HIDE DEF m
<1>3. SubSeq(s, i + 1, m) \in Seq(Nat) /\ Len(SubSeq(s, i + 1, m)) = m - i
  BY <1>1, <1>2
<1> QED
  BY <1>2, <1>3 DEF Bytes, m
--------------------------------------------------------------------------------
(* The file.                                                                     *)
(* A sound block written over another, or at the end, leaves a file sound. *)
LEMMA PutSound ==
  ASSUME NEW d \in Seq(Block), \A b \in 1 .. Len(d) : Sound(d, b),
         NEW a \in 1 .. Len(d) + 1, NEW rec \in Block, rec.next \in 0 .. Len(d),
         rec.kind = "chunk" => Len(rec.bytes) \in 1 .. D
  PROVE  LET e == PutAt(d, a, rec)
         IN  /\ e \in Seq(Block) /\ \A b \in 1 .. Len(e) : Sound(e, b)
             /\ Len(e) \in Nat /\ Len(e) >= Len(d) /\ a \in 1 .. Len(e)
             /\ a <= Len(d) => Len(e) = Len(d)
<1> DEFINE e == PutAt(d, a, rec)
           n == Len(d)
<1>1. n \in Nat
  OBVIOUS
<1>2. CASE a = n + 1
  <2>1. e = Append(d, rec)
    BY <1>2 DEF PutAt
  <2>2. e \in Seq(Block) /\ Len(e) = n + 1 /\ e[n + 1] = rec /\ \A b \in 1 .. n : e[b] = d[b]
    BY <2>1
  <2> HIDE DEF e
  <2>3. \A b \in 1 .. n + 1 : Sound(e, b)
    BY <1>1, <2>2 DEF Sound
  <2> QED
    BY <1>1, <1>2, <2>2, <2>3 DEF e
<1>3. CASE a # n + 1
  <2>1. e = [d EXCEPT ![a] = rec] /\ a \in 1 .. n
    BY <1>1, <1>3 DEF PutAt
  <2>2. e \in Seq(Block) /\ Len(e) = n /\ \A b \in 1 .. n : e[b] = IF b = a THEN rec ELSE d[b]
    BY <2>1
  <2> HIDE DEF e
  <2>3. \A b \in 1 .. n : Sound(e, b)
    BY <1>1, <2>2 DEF Sound
  <2>4. Len(e) \in Nat /\ Len(e) >= n /\ a \in 1 .. Len(e) /\ Len(e) = n
    BY <1>1, <2>1, <2>2
  <2>5. \A b \in 1 .. Len(e) : Sound(e, b)
    BY <2>3, <2>4
  <2> QED
    BY <2>2, <2>4, <2>5 DEF e
<1> QED
  BY <1>2, <1>3
--------------------------------------------------------------------------------
(* Initially the file is empty. *)
LEMMA InitIInv == Init => IInv
<1> SUFFICES ASSUME Init PROVE IInv
  OBVIOUS
<1> USE DEF Init
<1>1. disk \in Seq(Block) /\ Len(disk) = 0
  OBVIOUS
<1>2. IndexInv
  BY ChunkAssumption, WrapAssumption DEF IndexInv
<1>3. AddressInv
  BY <1>1 DEF AddressInv
<1> QED
  BY <1>1, <1>2, <1>3 DEF IInv

(* What the steps that end a call, or write no block, leave behind. *)
LEMMA EndIInv ==
  ASSUME IInv, EndCall, UNCHANGED disk, {head', dhead'} \cup held' \subseteq 0 .. Len(disk)
  PROVE  IInv'
<1>1. IndexInv'
  BY ChunkAssumption, WrapAssumption DEF EndCall, IndexInv
<1>2. Len(disk) \in Nat
  BY DEF IInv
<1>3. AddressInv'
  BY <1>2 DEF EndCall, AddressInv
<1> QED
  BY <1>1, <1>3 DEF IInv, EndCall, Sound

(* A call that stores a string starts its loop. *)
LEMMA BeginIInv ==
  ASSUME IInv, NEW s \in Strings, Begin(s)
  PROVE  IInv'
<1>1. Len(s) \in Nat \ {0} /\ Len(s) < Wrap /\ Wrap \in Nat
  BY ChunkAssumption, WrapAssumption, StringsAssumption
<1>2. Start(Len(s)) \in 0 .. Len(s) - 1
  BY <1>1, StartInString
<1>3. IndexInv'
  BY <1>1, <1>2 DEF Begin, IndexInv, InString
<1>4. AddressInv'
  BY DEF IInv, AddressInv, Begin, file
<1> QED
  BY <1>3, <1>4 DEF IInv, Begin, file, Sound

(* A block is found for a chunk: the first free one is a block of the file. *)
LEMMA GetSpaceIInv ==
  ASSUME IInv, GetSpace
  PROVE  IInv'
<1>1. Len(disk) \in Nat /\ head \in 0 .. Len(disk) /\ \A b \in 1 .. Len(disk) : Sound(disk, b)
  BY DEF IInv, AddressInv
<1>2. head # 0 => disk[head].next \in 0 .. Len(disk)
  BY <1>1 DEF Sound
<1>3. IndexInv'
  <2>1. data \in Strings /\ Len(data) \in Nat /\ ind \in 0 .. Wrap - 1 /\ Wrap \in Nat
    BY StringsAssumption, WrapAssumption DEF IInv, IndexInv, GetSpace
  <2>2. InString
    BY <2>1 DEF IInv, IndexInv, GetSpace, More
  <2> QED
    BY <2>1, <2>2 DEF GetSpace, IndexInv, InString
<1>4. AddressInv'
  BY <1>1, <1>2 DEF IInv, AddressInv, GetSpace
<1> QED
  BY <1>3, <1>4 DEF IInv, GetSpace, Sound

(* A chunk is written, and the index goes on. *)
LEMMA WriteChunkIInv ==
  ASSUME IInv, WriteChunk
  PROVE  IInv'
<1> DEFINE rec == Chunk(addr, Bytes(data, ind))
<1>1. data \in Strings /\ ind \in 0 .. Len(data) - 1
  BY DEF IInv, IndexInv, InString, WriteChunk
<1>2. Len(disk) \in Nat /\ addr \in 0 .. Len(disk) /\ at \in 1 .. Len(disk) + 1
  BY DEF IInv, AddressInv, WriteChunk
<1>3. rec \in Block /\ rec.next \in 0 .. Len(disk) /\ Len(rec.bytes) \in 1 .. D
  BY <1>1, <1>2, BytesFit DEF Chunk, Block
<1> HIDE DEF rec
<1>4. /\ disk' \in Seq(Block) /\ \A b \in 1 .. Len(disk') : Sound(disk', b)
      /\ Len(disk') \in Nat /\ Len(disk') >= Len(disk) /\ at \in 1 .. Len(disk')
  BY <1>2, <1>3, PutSound DEF IInv, WriteChunk, rec
<1>5. IndexInv'
  <2>1. Len(data) \in Nat /\ Before(ind) \in 0 .. Wrap - 1 /\ (Before(ind) < ind \/ Before(ind) > Len(data))
    BY <1>1, BeforeInString, StringsAssumption
  <2>2. Before(ind) \in 0 .. Len(data) - 1 \/ Before(ind) > Len(data)
    BY <1>1, <2>1
  <2> QED
    BY <1>1, <2>1, <2>2 DEF WriteChunk, IndexInv, InString
<1>6. AddressInv'
  BY <1>2, <1>4 DEF IInv, AddressInv, WriteChunk
<1> QED
  BY <1>4, <1>5, <1>6 DEF IInv, WriteChunk

(* A string, or what was written of it, is about to be released. *)
LEMMA RemoveIInv ==
  ASSUME IInv, FailChunk \/ \E a \in held : RemoveString(a)
  PROVE  IInv'
<1>1. /\ pc' = "remove" /\ UNCHANGED file
      /\ addr' \in 0 .. Len(disk) /\ held' \subseteq held
      /\ ind' \in {0, ind} /\ at' \in {0, at}
  BY DEF FailChunk, RemoveString, IInv, AddressInv
<1>2. Len(disk) \in Nat
  BY DEF IInv
<1>3. IndexInv'
  BY <1>1, ChunkAssumption, WrapAssumption DEF IInv, IndexInv
<1>4. AddressInv'
  BY <1>1, <1>2 DEF IInv, AddressInv, file
<1> QED
  BY <1>1, <1>3, <1>4 DEF IInv, file, Sound

(* A block becomes the head of the free list, and keeps what followed it. *)
LEMMA ReleaseIInv ==
  ASSUME IInv, Release
  PROVE  IInv'
<1> DEFINE rec == FreeSpace(head)
<1>1. Len(disk) \in Nat /\ addr \in 1 .. Len(disk) /\ head \in 0 .. Len(disk)
  BY DEF IInv, AddressInv, Release
<1>2. rec \in Block /\ rec.next \in 0 .. Len(disk) /\ rec.kind # "chunk"
  BY <1>1 DEF FreeSpace, Block
<1>3. disk' = PutAt(disk, addr, rec)
  BY <1>1 DEF Release, PutAt
<1> HIDE DEF rec
<1>4. /\ disk' \in Seq(Block) /\ \A b \in 1 .. Len(disk') : Sound(disk', b)
      /\ Len(disk') = Len(disk)
  BY <1>1, <1>2, <1>3, PutSound DEF IInv
<1>5. disk[addr].next \in 0 .. Len(disk)
  BY <1>1 DEF IInv, Sound
<1>6. IndexInv'
  BY DEF IInv, IndexInv, Release
<1>7. AddressInv'
  BY <1>1, <1>4, <1>5 DEF IInv, AddressInv, Release
<1> QED
  BY <1>4, <1>6, <1>7 DEF IInv, Release

(* The head is saved, and the removal goes on with what followed. *)
LEMMA SaveHeadIInv ==
  ASSUME IInv, SaveHead
  PROVE  IInv'
<1>1. Len(disk) \in Nat /\ at \in 0 .. Len(disk)
  BY DEF IInv, AddressInv, SaveHead
<1>2. IndexInv'
  BY DEF IInv, IndexInv, SaveHead
<1>3. AddressInv'
  BY <1>1 DEF IInv, AddressInv, SaveHead
<1> QED
  BY <1>2, <1>3 DEF IInv, SaveHead, Sound

(* Every step preserves the invariant. *)
LEMMA NextIInv == IInv /\ [Next]_vars => IInv'
<1> SUFFICES ASSUME IInv, [Next]_vars PROVE IInv'
  OBVIOUS
<1>1. CASE \E s \in Strings : Begin(s)
  BY <1>1, BeginIInv
<1>2. CASE FailChunk \/ \E a \in held : RemoveString(a)
  BY <1>2, RemoveIInv
<1>3. CASE GetSpace \/ WriteChunk \/ Release \/ SaveHead
  BY <1>3, GetSpaceIInv, WriteChunkIInv, ReleaseIInv, SaveHeadIInv
<1>4. CASE Return \/ RemoveEnds \/ Crash
  BY <1>4, EndIInv DEF Return, RemoveEnds, Crash, file, IInv, AddressInv
<1>5. CASE UNCHANGED vars
  BY <1>5 DEF vars, file, call, IInv, IndexInv, InString, AddressInv, Sound
<1> QED
  BY <1>1, <1>2, <1>3, <1>4, <1>5 DEF Next, Step
--------------------------------------------------------------------------------
(* The inductive invariant holds of every reachable state. *)
THEOREM Inductive == Spec => []IInv
BY InitIInv, NextIInv, PTL DEF Spec

(* For every length of a string and of a chunk: the loop that counts down in     *)
(* uint64_t never cuts outside the string, no chunk is empty or too long, and    *)
(* every address of the free list, of a chain or of a call is one of the file,   *)
(* whatever write fails and wherever the process stops.                          *)
THEOREM AlwaysTypeOK == Spec => []TypeOK
<1>1. ASSUME IInv PROVE TypeOK
  <2>1. DOMAIN disk = 1 .. Len(disk) /\ \A b \in 1 .. Len(disk) : disk[b] \in Block /\ Sound(disk, b)
    BY <1>1 DEF IInv
  <2>2. \A b \in DOMAIN disk : disk[b].kind \in {"chunk", "free"}
    BY <2>1 DEF Block
  <2> QED
    BY <1>1, <2>1, <2>2 DEF IInv, TypeOK, IndexInv, AddressInv, Sound
<1> QED
  BY <1>1, Inductive, PTL

--------------------------------------------------------------------------------
(* Chains of blocks.                                                             *)
File(d) == d \in Seq(Block) /\ \A b \in 1 .. Len(d) : Sound(d, b)

(* The blocks of the chain from a, which ends and has blocks of one kind only. *)
On(d, a) == ToSet(Blocks(d, a))
Owned(d, a, kind) ==
  /\ Leads(NextAddr(d), a, Blocks(d, a))
  /\ \A b \in On(d, a) : d[b].kind = kind

(* In a file a walk finds a next address and bytes in every block. *)
LEMMA FileLinked ==
  ASSUME NEW d, File(d)
  PROVE  /\ Closed(NextAddr(d)) /\ Items(Content(d), NextAddr(d), Nat)
         /\ Len(d) \in Nat /\ DOMAIN NextAddr(d) = 0 .. Len(d)
         /\ \A b \in 1 .. Len(d) : NextAddr(d)[b] = d[b].next
         /\ \A b \in 1 .. Len(d) :
              Content(d)[b] = IF d[b].kind = "chunk" THEN d[b].bytes ELSE <<>>
<1> DEFINE next == NextAddr(d)
           n == Len(d)
           bytes(b) == IF b # 0 /\ d[b].kind = "chunk" THEN d[b].bytes ELSE <<>>
<1>1. n \in Nat /\ DOMAIN next = 0 .. n
  BY DEF File, NextAddr
<1>2. \A b \in 1 .. n : d[b] \in Block /\ d[b].next \in 0 .. n
  BY DEF File, Sound
<1>3. \A b \in 0 .. n : next[b] \in 0 .. n
  BY <1>1, <1>2 DEF NextAddr
<1>4. next \in [0 .. n -> 0 .. n]
  BY <1>3 DEF NextAddr
<1>5. IsFiniteSet(0 .. n)
  BY <1>1, FS_Interval
<1>6. Closed(next)
  BY <1>1, <1>4, <1>5 DEF Closed
<1>7. ASSUME NEW b \in 0 .. n PROVE bytes(b) \in Seq(Nat)
  <2>1. CASE b # 0 /\ d[b].kind = "chunk"
    BY <1>1, <1>2, <2>1 DEF Block
  <2>2. CASE ~(b # 0 /\ d[b].kind = "chunk")
    BY <2>2
  <2> QED
    BY <2>1, <2>2
<1>8. Content(d) = [b \in 0 .. n |-> bytes(b)]
  BY DEF Content
<1>9. Items(Content(d), next, Nat)
  <2> HIDE DEF bytes
  <2> QED
    BY <1>1, <1>7, <1>8 DEF Items
<1>10. \A b \in 1 .. n : b \in 0 .. n /\ b # 0
  BY <1>1
<1> QED
  BY <1>1, <1>6, <1>8, <1>9, <1>10 DEF NextAddr

(* No block is met from the address 0, and nothing is read. *)
LEMMA OwnedNowhere ==
  ASSUME NEW d, File(d), NEW kind
  PROVE  /\ Owned(d, 0, kind) /\ On(d, 0) = {}
         /\ Len(Blocks(d, 0)) = 0 /\ ReadChain(d, 0) = <<>>
<1>1. Closed(NextAddr(d)) /\ Items(Content(d), NextAddr(d), Nat)
  BY FileLinked
<1>2. Leads(NextAddr(d), 0, <<>>)
  BY LeadsNowhere
<1>3. Blocks(d, 0) = <<>>
  BY <1>1, <1>2, ChainIs DEF Blocks
<1>4. On(d, 0) = {}
  BY <1>3 DEF On, ToSet
<1>5. ReadChain(d, 0) = <<>>
  BY <1>1, GatherNowhere DEF ReadChain
<1> QED
  BY <1>2, <1>3, <1>4, <1>5 DEF Owned

(* The blocks of a chain are blocks of the file, the first of them at its        *)
(* address.                                                                      *)
LEMMA OwnedOn ==
  ASSUME NEW d, File(d), NEW a, NEW kind, Owned(d, a, kind)
  PROVE  /\ On(d, a) \subseteq 1 .. Len(d) /\ Len(Blocks(d, a)) \in Nat
         /\ \A b \in On(d, a) : d[b].kind = kind
         /\ a # 0 => a \in On(d, a)
         /\ IsInjective(Blocks(d, a))
<1>1. Leads(NextAddr(d), a, Blocks(d, a))
  BY DEF Owned
<1>2. Len(d) \in Nat /\ DOMAIN NextAddr(d) = 0 .. Len(d)
  BY FileLinked
<1>3. On(d, a) \subseteq (0 .. Len(d)) \ {0} /\ Len(Blocks(d, a)) \in Nat /\ (a # 0 => a \in On(d, a))
  BY <1>1, <1>2, LeadsOn DEF On
<1>4. On(d, a) \subseteq 1 .. Len(d)
  BY <1>2, <1>3
<1>5. IsInjective(Blocks(d, a))
  BY <1>1 DEF Leads, IsInjective
<1> QED
  BY <1>3, <1>4, <1>5 DEF Owned

(* A chain is its first block and the chain that follows it. *)
LEMMA OwnedPop ==
  ASSUME NEW d, File(d), NEW a, NEW kind, Owned(d, a, kind), a # 0
  PROVE  /\ a \in 1 .. Len(d) /\ d[a].kind = kind /\ Owned(d, d[a].next, kind)
         /\ \A b : b \in On(d, a) <=> b = a \/ b \in On(d, d[a].next)
         /\ a \notin On(d, d[a].next)
         /\ Len(Blocks(d, a)) = Len(Blocks(d, d[a].next)) + 1
<1> DEFINE s == Blocks(d, a)
           link == NextAddr(d)
           n == d[a].next
<1>1. Leads(link, a, s) /\ Closed(link)
  BY FileLinked DEF Owned
<1>2. a \in On(d, a) /\ a \in 1 .. Len(d) /\ d[a].kind = kind
  BY OwnedOn
<1>3. link[a] = n
  BY <1>2, FileLinked
<1> HIDE DEF s, link, n
<1>4. /\ Leads(link, n, Tail(s)) /\ a \notin ToSet(Tail(s))
      /\ Len(s) \in Nat /\ Len(Tail(s)) = Len(s) - 1
  BY <1>1, <1>3, LeadsPop
<1>5. \A b : b \in ToSet(s) <=> b = a \/ b \in ToSet(Tail(s))
  BY <1>1, LeadsPop
<1>6. Blocks(d, n) = Tail(s)
  BY <1>1, <1>4, ChainIs DEF Blocks, link
<1>7. On(d, n) = ToSet(Tail(s)) /\ On(d, a) = ToSet(s)
  BY <1>6 DEF On, s
<1>8. Leads(NextAddr(d), n, Blocks(d, n))
  BY <1>4, <1>6 DEF link
<1>9. \A b \in On(d, n) : d[b].kind = kind
  BY <1>5, <1>7 DEF Owned
<1>10. Owned(d, n, kind)
  BY <1>8, <1>9 DEF Owned
<1>11. Len(Blocks(d, a)) = Len(Blocks(d, n)) + 1
  BY <1>4, <1>6 DEF s
<1> QED
  BY <1>2, <1>4, <1>5, <1>7, <1>10, <1>11 DEF n

(* A write to a block that is not on a chain changes neither the chain nor what  *)
(* is read from it.                                                              *)
LEMMA OwnedKept ==
  ASSUME NEW d, File(d), NEW a, NEW kind, Owned(d, a, kind),
         NEW x \in 1 .. Len(d) + 1, x \notin On(d, a), NEW rec, File(PutAt(d, x, rec))
  PROVE  LET e == PutAt(d, x, rec)
         IN  Owned(e, a, kind) /\ Blocks(e, a) = Blocks(d, a) /\ ReadChain(e, a) = ReadChain(d, a)
<1> DEFINE e == PutAt(d, x, rec)
           s == Blocks(d, a)
<1>1. Leads(NextAddr(d), a, s) /\ ToSet(s) \subseteq 1 .. Len(d) /\ x \notin ToSet(s)
  BY OwnedOn DEF Owned, On
<1>2. \A b \in ToSet(s) : b \in 1 .. Len(e) /\ e[b] = d[b]
  BY <1>1 DEF PutAt, File
<1> HIDE DEF e
<1>3. File(e)
  BY DEF e
<1>4. \A b \in ToSet(s) : /\ b \in DOMAIN NextAddr(e) /\ NextAddr(e)[b] = NextAddr(d)[b]
                          /\ Content(e)[b] = Content(d)[b]
  <2> TAKE b \in ToSet(s)
  <2>1. b \in 1 .. Len(e) /\ b \in 1 .. Len(d) /\ e[b] = d[b]
    BY <1>1, <1>2
  <2>2. NextAddr(e)[b] = e[b].next /\ NextAddr(d)[b] = d[b].next
    BY <1>3, <2>1, FileLinked
  <2>3. /\ Content(e)[b] = IF e[b].kind = "chunk" THEN e[b].bytes ELSE <<>>
        /\ Content(d)[b] = IF d[b].kind = "chunk" THEN d[b].bytes ELSE <<>>
    BY <1>3, <2>1, FileLinked
  <2>4. b \in DOMAIN NextAddr(e)
    BY <2>1 DEF NextAddr
  <2> QED
    BY <2>1, <2>2, <2>3, <2>4
<1>5. Leads(NextAddr(e), a, s)
  BY <1>1, <1>4, LeadsFrame
<1>6. Closed(NextAddr(e)) /\ Items(Content(e), NextAddr(e), Nat)
  BY <1>3, FileLinked
<1>7. Blocks(e, a) = s
  <2> HIDE DEF s
  <2> QED
    BY <1>5, <1>6, ChainIs DEF Blocks
<1>8. ReadChain(e, a) = ReadChain(d, a)
  <2>1. Closed(NextAddr(d)) /\ Items(Content(d), NextAddr(d), Nat)
    BY FileLinked
  <2> HIDE DEF s
  <2> QED
    BY <1>1, <1>4, <1>6, <2>1, GatherFrame DEF ReadChain
<1>9. Owned(e, a, kind)
  BY <1>2, <1>5, <1>7 DEF Owned, On
<1> QED
  BY <1>7, <1>8, <1>9 DEF e

(* What is read from a chain is what its first block holds and what is read from *)
(* the next one on.                                                              *)
LEMMA ReadStep ==
  ASSUME NEW d, File(d), NEW a, NEW t, Leads(NextAddr(d), a, t), a # 0
  PROVE  ReadChain(d, a) = Content(d)[a] \o ReadChain(d, NextAddr(d)[a])
<1> DEFINE link == NextAddr(d)
           item == Content(d)
           bytes == Nat
<1>1. Closed(link) /\ Items(item, link, bytes) /\ Leads(link, a, t)
  BY FileLinked
<1> HIDE DEF link, item, bytes
<1>2. Gather(link, item, a) = item[a] \o Gather(link, item, link[a])
  BY <1>1, GatherStep
<1> QED
  BY <1>2 DEF ReadChain, link, item

(* A block written in front of a chain makes it longer. *)
LEMMA OwnedPush ==
  ASSUME NEW d, File(d), NEW x \in 1 .. Len(d) + 1, NEW rec, File(PutAt(d, x, rec)),
         Owned(d, rec.next, rec.kind), x \notin On(d, rec.next)
  PROVE  LET e == PutAt(d, x, rec)
         IN  /\ Owned(e, x, rec.kind)
             /\ \A b : b \in On(e, x) <=> b = x \/ b \in On(d, rec.next)
             /\ Len(Blocks(e, x)) = Len(Blocks(d, rec.next)) + 1
             /\ ReadChain(e, x) = (IF rec.kind = "chunk" THEN rec.bytes ELSE <<>>)
                                  \o ReadChain(d, rec.next)
<1> DEFINE e == PutAt(d, x, rec)
           n == rec.next
           s == Blocks(d, n)
           t == <<x>> \o s
<1>1. /\ Owned(e, n, rec.kind) /\ Blocks(e, n) = s /\ ReadChain(e, n) = ReadChain(d, n)
  BY OwnedKept
<1>2. x \in 1 .. Len(e) /\ e[x] = rec
  BY DEF PutAt, File
<1> HIDE DEF e
<1>3. File(e)
  BY DEF e
<1>4. /\ Closed(NextAddr(e)) /\ Items(Content(e), NextAddr(e), Nat)
      /\ NextAddr(e)[x] = n /\ Content(e)[x] = IF rec.kind = "chunk" THEN rec.bytes ELSE <<>>
      /\ x \in DOMAIN NextAddr(e) \ {0}
  <2>1. Closed(NextAddr(e)) /\ Items(Content(e), NextAddr(e), Nat)
    BY <1>3, FileLinked
  <2>2. NextAddr(e)[x] = n /\ Content(e)[x] = IF rec.kind = "chunk" THEN rec.bytes ELSE <<>>
    BY <1>2, <1>3, FileLinked
  <2>3. x \in DOMAIN NextAddr(e) \ {0}
    BY <1>2 DEF NextAddr
  <2> QED
    BY <2>1, <2>2, <2>3
<1>5. Leads(NextAddr(e), n, s) /\ x \notin ToSet(s)
  BY <1>1 DEF Owned, On
<1> HIDE DEF n, s
<1>6. Leads(NextAddr(e), x, t)
  BY <1>4, <1>5, LeadsPush
<1> HIDE DEF t
<1>7. Blocks(e, x) = t
  BY <1>4, <1>6, ChainIs DEF Blocks
<1>8. x # 0 /\ Tail(t) = s /\ Len(t) \in Nat /\ Len(s) = Len(t) - 1
  <2>1. x # 0
    BY <1>4
  <2>2. s \in Seq(DOMAIN NextAddr(e)) /\ <<x>> \in Seq(DOMAIN NextAddr(e))
    BY <1>4, <1>5, LeadsOn
  <2>3. Tail(t) = s
    BY <2>2 DEF t
  <2>4. Len(t) \in Nat /\ Len(Tail(t)) = Len(t) - 1
    BY <1>6, <2>1, LeadsPop
  <2> QED
    BY <2>1, <2>3, <2>4
<1>9. \A b : b \in ToSet(t) <=> b = x \/ b \in ToSet(s)
  BY <1>6, <1>8, LeadsPop
<1>10. On(e, x) = ToSet(t) /\ On(d, n) = ToSet(s)
  BY <1>7 DEF On, s
<1>11. \A b \in On(e, x) : e[b].kind = rec.kind
  <2>1. \A b \in ToSet(s) : e[b].kind = rec.kind
    BY <1>1 DEF Owned, On
  <2> QED
    BY <1>2, <1>9, <1>10, <2>1
<1>12. Owned(e, x, rec.kind)
  BY <1>6, <1>7, <1>11 DEF Owned
<1>13. Len(Blocks(e, x)) = Len(Blocks(d, n)) + 1
  BY <1>7, <1>8 DEF s
<1>14. ReadChain(e, x) = Content(e)[x] \o ReadChain(e, n)
  <2>1. ReadChain(e, x) = Content(e)[x] \o ReadChain(e, NextAddr(e)[x])
    BY <1>3, <1>6, <1>8, ReadStep
  <2> QED
    BY <1>4, <2>1
<1> QED
  BY <1>1, <1>4, <1>9, <1>10, <1>12, <1>13, <1>14 DEF e, n

--------------------------------------------------------------------------------
(* The chains of the file.                                                       *)
(* The chunks of the call under way: written so far, or left to release.         *)
Part == IF pc = "save" THEN at ELSE addr

(* The free list has free blocks only, the chain of every string held and of the *)
(* call under way has chunks only, and no chunk is in two of them.               *)
ListsInv ==
  /\ Owned(disk, head, "free")
  /\ \A a \in held \cup {Part} : Owned(disk, a, "chunk")
  /\ 0 \notin held
  /\ \A a \in held : On(disk, a) \cap On(disk, Part) = {}
  /\ \A a \in held : \A other \in held \ {a} : On(disk, a) \cap On(disk, other) = {}

(* Between two steps of a call: the block a chunk is about to be written to is   *)
(* on no chain, and the header in the file is one removal behind.                *)
PhaseInv ==
  /\ pc = "idle" => addr = 0
  /\ pc = "write" /\ at <= Len(disk) => disk[at].kind = "free" /\ at \notin On(disk, head)
  /\ pc = "write" /\ at > Len(disk) => head = 0
  /\ pc = "save" => head = addr /\ head # 0 /\ dhead = disk[head].next
  /\ pc # "save" => dhead = head

(* A chunk is written to a block that is on no chain. *)
LEMMA AtIsNowhere ==
  ASSUME IInv, ListsInv, PhaseInv, pc = "write"
  PROVE  /\ File(disk) /\ Len(disk) \in Nat /\ at \in 1 .. Len(disk) + 1
         /\ \A a \in held \cup {head, addr} : at \notin On(disk, a)
<1>1. File(disk) /\ Len(disk) \in Nat /\ at \in 1 .. Len(disk) + 1
  BY DEF IInv, AddressInv, File
<1>2. ASSUME NEW a \in held \cup {addr}, at \in On(disk, a) PROVE FALSE
  <2>1. Owned(disk, a, "chunk")
    BY DEF ListsInv, Part
  <2>2. at \in 1 .. Len(disk) /\ disk[at].kind = "chunk"
    BY <1>1, <1>2, <2>1, OwnedOn
  <2> QED
    BY <1>1, <2>2 DEF PhaseInv
<1>3. at \notin On(disk, head)
  <2>1. CASE at <= Len(disk)
    BY <2>1 DEF PhaseInv
  <2>2. CASE at > Len(disk)
    BY <1>1, <2>2, OwnedNowhere DEF PhaseInv
  <2> QED
    BY <1>1, <2>1, <2>2
<1> QED
  BY <1>1, <1>2, <1>3

(* What the write of a chunk does to the chains of the file. *)
LEMMA WriteChunkChains ==
  ASSUME IInv, ListsInv, PhaseInv, WriteChunk
  PROVE  /\ File(disk) /\ File(disk')
         /\ Owned(disk', head, "free") /\ \A a \in held : Owned(disk', a, "chunk")
         /\ \A a \in held \cup {head} : Blocks(disk', a) = Blocks(disk, a)
         /\ \A a \in held \cup {head} : On(disk', a) = On(disk, a)
         /\ \A a \in held : ReadChain(disk', a) = ReadChain(disk, a)
         /\ Owned(disk', at, "chunk")
         /\ \A b : b \in On(disk', at) <=> b = at \/ b \in On(disk, addr)
         /\ ReadChain(disk', at) = Bytes(data, ind) \o ReadChain(disk, addr)
<1> DEFINE rec == Chunk(addr, Bytes(data, ind))
<1>1. /\ pc = "write" /\ disk' = PutAt(disk, at, rec)
      /\ rec.next = addr /\ rec.kind = "chunk" /\ rec.bytes = Bytes(data, ind)
  BY DEF WriteChunk, Chunk
<1> HIDE DEF rec
<1>2. File(disk) /\ at \in 1 .. Len(disk) + 1
  BY <1>1, AtIsNowhere
<1>3. \A a \in held \cup {head, addr} : at \notin On(disk, a)
  BY <1>1, AtIsNowhere
<1>4. File(disk')
  BY WriteChunkIInv DEF IInv, File
<1>5. Owned(disk, head, "free") /\ \A a \in held \cup {addr} : Owned(disk, a, "chunk")
  BY <1>1 DEF ListsInv, Part
<1>6. ASSUME NEW a \in held
      PROVE  /\ Owned(disk', a, "chunk") /\ Blocks(disk', a) = Blocks(disk, a)
             /\ ReadChain(disk', a) = ReadChain(disk, a)
  BY <1>1, <1>2, <1>3, <1>4, <1>5, OwnedKept
<1>7. Owned(disk', head, "free") /\ Blocks(disk', head) = Blocks(disk, head)
  BY <1>1, <1>2, <1>3, <1>4, <1>5, OwnedKept
<1>8. /\ Owned(disk', at, "chunk")
      /\ \A b : b \in On(disk', at) <=> b = at \/ b \in On(disk, addr)
      /\ ReadChain(disk', at) = Bytes(data, ind) \o ReadChain(disk, addr)
  <2>1. Owned(disk, rec.next, rec.kind) /\ at \notin On(disk, rec.next) /\ File(PutAt(disk, at, rec))
    BY <1>1, <1>3, <1>4, <1>5
  <2>2. Owned(disk', at, rec.kind)
    BY <1>1, <1>2, <2>1, OwnedPush
  <2>3. \A b : b \in On(disk', at) <=> b = at \/ b \in On(disk, rec.next)
    BY <1>1, <1>2, <2>1, OwnedPush
  <2>4. ReadChain(disk', at) = (IF rec.kind = "chunk" THEN rec.bytes ELSE <<>>)
                               \o ReadChain(disk, rec.next)
    BY <1>1, <1>2, <2>1, OwnedPush
  <2> QED
    BY <1>1, <2>2, <2>3, <2>4
<1> QED
  BY <1>2, <1>4, <1>6, <1>7, <1>8 DEF On

(* What the release of a block does to the chains of the file. *)
LEMMA ReleaseChains ==
  ASSUME IInv, ListsInv, PhaseInv, Release
  PROVE  /\ File(disk) /\ File(disk') /\ Len(disk') = Len(disk)
         /\ \A a \in held \cup {at'} : Owned(disk', a, "chunk")
         /\ \A a \in held \cup {at'} : On(disk', a) = On(disk, a)
         /\ \A a \in held : ReadChain(disk', a) = ReadChain(disk, a)
         /\ Owned(disk', addr, "free") /\ disk'[addr].next = head
         /\ \A b : b \in On(disk', addr) <=> b = addr \/ b \in On(disk, head)
         /\ \A b : b \in On(disk, addr) <=> b = addr \/ b \in On(disk, at')
<1> DEFINE rec == FreeSpace(head)
           n == disk[addr].next
<1>1. pc = "remove" /\ addr # 0 /\ at' = n /\ rec.next = head /\ rec.kind = "free"
  BY DEF Release, FreeSpace
<1>2. File(disk) /\ File(disk')
  BY ReleaseIInv DEF IInv, File
<1>3. Owned(disk, head, "free") /\ \A a \in held \cup {addr} : Owned(disk, a, "chunk")
  BY <1>1 DEF ListsInv, Part
<1>4. Len(disk) \in Nat /\ addr \in 1 .. Len(disk) /\ disk[addr].kind = "chunk"
  BY <1>1, <1>2, <1>3, OwnedPop, FileLinked
<1>5. /\ Owned(disk, n, "chunk") /\ addr \notin On(disk, n)
      /\ \A b : b \in On(disk, addr) <=> b = addr \/ b \in On(disk, n)
  BY <1>1, <1>2, <1>3, OwnedPop
<1>6. disk' = PutAt(disk, addr, rec) /\ addr \in 1 .. Len(disk) + 1
  BY <1>4 DEF Release, PutAt
<1>7. Len(disk') = Len(disk) /\ disk'[addr] = rec
  BY <1>4, <1>6 DEF PutAt, File
<1> HIDE DEF rec, n
<1>8. addr \notin On(disk, head)
  BY <1>2, <1>3, <1>4, OwnedOn
<1>9. \A a \in held : addr \notin On(disk, a)
  BY <1>1, <1>2, <1>3, OwnedOn DEF ListsInv, Part
<1>10. ASSUME NEW a \in held \cup {n}
       PROVE  /\ Owned(disk', a, "chunk") /\ Blocks(disk', a) = Blocks(disk, a)
              /\ ReadChain(disk', a) = ReadChain(disk, a)
  BY <1>2, <1>3, <1>5, <1>6, <1>9, OwnedKept
<1>11. /\ Owned(disk', addr, "free")
       /\ \A b : b \in On(disk', addr) <=> b = addr \/ b \in On(disk, head)
  BY <1>1, <1>2, <1>3, <1>6, <1>8, OwnedPush, ZenonT(30)
<1> QED
  BY <1>1, <1>2, <1>5, <1>7, <1>10, <1>11 DEF On

(* Initially there are no chains. *)
LEMMA InitLists == Init => ListsInv /\ PhaseInv
<1> SUFFICES ASSUME Init PROVE ListsInv /\ PhaseInv
  OBVIOUS
<1>1. File(disk)
  BY InitIInv DEF IInv, File
<1>2. head = 0 /\ Part = 0 /\ held = {} /\ pc = "idle" /\ addr = 0 /\ dhead = 0
  BY DEF Init, Part
<1>3. Owned(disk, head, "free") /\ Owned(disk, Part, "chunk")
  BY <1>1, <1>2, OwnedNowhere
<1> QED
  BY <1>2, <1>3 DEF ListsInv, PhaseInv

(* A call begins, fails or is given up without a write: no chain changes, and    *)
(* the chunks of the call are those it had, those of a string, or none.          *)
LEMMA QuietLists ==
  ASSUME IInv, ListsInv, PhaseInv, UNCHANGED <<disk, dhead>>,
         head' = dhead, pc' \notin {"write", "save"}, pc' = "idle" => addr' = 0,
         \/ addr' \in {0, Part} /\ held' = held
         \/ addr' \in held /\ held' = held \ {addr'} /\ Part = 0
         \/ addr' = 0 /\ held' = held \cup {addr} /\ addr = Part /\ addr # 0
  PROVE  ListsInv' /\ PhaseInv'
<1>1. File(disk)
  BY DEF IInv, File
<1>2. Owned(disk, 0, "chunk") /\ On(disk, 0) = {}
  BY <1>1, OwnedNowhere
<1>3. Part' = addr'
  BY DEF Part
<1>4. Owned(disk, dhead, "free")
  <2>1. CASE pc = "save"
    <3>1. Owned(disk, head, "free") /\ head # 0 /\ dhead = disk[head].next
      BY <2>1 DEF PhaseInv, ListsInv
    <3> QED
      BY <1>1, <3>1, OwnedPop
  <2>2. CASE pc # "save"
    BY <2>2 DEF PhaseInv, ListsInv
  <2> QED
    BY <2>1, <2>2
<1>5. PhaseInv'
  BY DEF PhaseInv
<1>6. \A a \in held' \cup {addr'} : Owned(disk, a, "chunk")
  BY <1>2 DEF ListsInv
<1>7. /\ 0 \notin held'
      /\ \A a \in held' : On(disk, a) \cap On(disk, addr') = {}
      /\ \A a \in held' : \A other \in held' \ {a} : On(disk, a) \cap On(disk, other) = {}
  BY <1>2 DEF ListsInv
<1>8. ListsInv'
  BY <1>3, <1>4, <1>6, <1>7 DEF ListsInv, Owned, On
<1> QED
  BY <1>5, <1>8

(* A free block leaves its list. *)
LEMMA GetSpaceLists ==
  ASSUME IInv, ListsInv, PhaseInv, GetSpace
  PROVE  ListsInv' /\ PhaseInv'
<1>1. File(disk) /\ Len(disk) \in Nat /\ Owned(disk, head, "free")
  BY FileLinked DEF IInv, File, ListsInv
<1>2. pc = "loop" /\ pc' = "write" /\ dhead = head /\ UNCHANGED <<disk, addr, held>>
  BY DEF GetSpace, PhaseInv
<1>3. Part' = Part
  BY <1>2 DEF Part
<1>4. CASE head = 0
  <2>1. head' = 0 /\ dhead' = 0 /\ at' = Len(disk) + 1
    BY <1>2, <1>4 DEF GetSpace
  <2>2. PhaseInv'
    BY <1>1, <1>2, <2>1 DEF PhaseInv
  <2> QED
    BY <1>2, <1>3, <1>4, <2>1, <2>2 DEF ListsInv, Owned, On
<1>5. CASE head # 0
  <2>1. at' = head /\ head' = disk[head].next /\ dhead' = head'
    BY <1>5 DEF GetSpace
  <2>2. /\ head \in 1 .. Len(disk) /\ disk[head].kind = "free"
        /\ Owned(disk, disk[head].next, "free") /\ head \notin On(disk, disk[head].next)
    BY <1>1, <1>5, OwnedPop
  <2>3. PhaseInv'
    BY <1>1, <1>2, <2>1, <2>2 DEF PhaseInv, On
  <2>4. ListsInv'
    BY <1>2, <1>3, <2>1, <2>2 DEF ListsInv, Owned, On
  <2> QED
    BY <2>3, <2>4
<1> QED
  BY <1>4, <1>5

(* The chunk is put in front of those written before. *)
LEMMA WriteChunkLists ==
  ASSUME IInv, ListsInv, PhaseInv, WriteChunk
  PROVE  ListsInv' /\ PhaseInv'
<1>1. /\ pc = "write" /\ pc' = "loop" /\ addr' = at
      /\ UNCHANGED <<head, dhead, held, at>>
  BY DEF WriteChunk
<1>2. Part = addr /\ Part' = at
  BY <1>1 DEF Part
<1>3. /\ Owned(disk', head, "free") /\ \A a \in held : Owned(disk', a, "chunk")
      /\ \A a \in held : On(disk', a) = On(disk, a)
      /\ Owned(disk', at, "chunk")
      /\ \A b : b \in On(disk', at) <=> b = at \/ b \in On(disk, addr)
  BY WriteChunkChains
<1>4. \A a \in held : at \notin On(disk, a)
  BY <1>1, AtIsNowhere
<1>5. PhaseInv'
  BY <1>1 DEF PhaseInv
<1>6. \A a \in held : On(disk', a) \cap On(disk', at) = {}
  BY <1>2, <1>3, <1>4 DEF ListsInv
<1>7. \A a \in held : \A other \in held \ {a} : On(disk', a) \cap On(disk', other) = {}
  BY <1>3 DEF ListsInv
<1>8. 0 \notin held'
  BY <1>1 DEF ListsInv
<1>9. ListsInv'
  BY <1>1, <1>2, <1>3, <1>6, <1>7, <1>8 DEF ListsInv, On, Owned
<1> QED
  BY <1>5, <1>9

(* A chunk goes over to the free list. *)
LEMMA ReleaseLists ==
  ASSUME IInv, ListsInv, PhaseInv, Release
  PROVE  ListsInv' /\ PhaseInv'
<1>1. /\ pc = "remove" /\ pc' = "save" /\ addr # 0 /\ head' = addr
      /\ UNCHANGED <<dhead, addr, held>>
  BY DEF Release
<1>2. Part = addr /\ Part' = at' /\ dhead = head
  BY <1>1 DEF Part, PhaseInv
<1>3. /\ \A a \in held \cup {at'} : Owned(disk', a, "chunk")
      /\ \A a \in held \cup {at'} : On(disk', a) = On(disk, a)
      /\ Owned(disk', addr, "free") /\ disk'[addr].next = head
      /\ \A b : b \in On(disk, addr) <=> b = addr \/ b \in On(disk, at')
  BY ReleaseChains
<1>4. PhaseInv'
  BY <1>1, <1>2, <1>3 DEF PhaseInv
<1>5. \A a \in held : On(disk', a) \cap On(disk', at') = {}
  BY <1>2, <1>3 DEF ListsInv
<1>6. \A a \in held : \A other \in held \ {a} : On(disk', a) \cap On(disk', other) = {}
  BY <1>3 DEF ListsInv
<1>7. ListsInv'
  BY <1>1, <1>2, <1>3, <1>5, <1>6 DEF ListsInv, On, Owned
<1> QED
  BY <1>4, <1>7

(* The header is saved, and the removal goes on with the chunks that are left. *)
LEMMA SaveHeadLists ==
  ASSUME IInv, ListsInv, PhaseInv, SaveHead
  PROVE  ListsInv' /\ PhaseInv'
<1>1. /\ pc = "save" /\ pc' = "remove" /\ dhead' = head /\ addr' = at
      /\ UNCHANGED <<disk, head, held>>
  BY DEF SaveHead
<1>2. Part' = Part
  BY <1>1 DEF Part
<1>3. PhaseInv'
  BY <1>1 DEF PhaseInv
<1>4. ListsInv'
  BY <1>1, <1>2 DEF ListsInv, On, Owned
<1> QED
  BY <1>3, <1>4

(* A string is returned at the address of its first chunk: it has one. *)
HasChunk == pc = "loop" /\ ~InString => addr # 0

(* Every step keeps the chains apart. *)
LEMMA NextLists ==
  ASSUME IInv, ListsInv, PhaseInv, HasChunk, [Next]_vars
  PROVE  ListsInv' /\ PhaseInv'
<1>1. CASE \E s \in Strings : Begin(s)
  BY <1>1, QuietLists DEF Begin, file, PhaseInv
<1>2. CASE \E a \in held : RemoveString(a)
  <2>1. PICK a \in held : RemoveString(a)
    BY <1>2
  <2>2. /\ UNCHANGED <<disk, dhead>> /\ head' = dhead /\ pc' = "remove"
        /\ addr' \in held /\ held' = held \ {addr'} /\ Part = 0
    BY <2>1 DEF RemoveString, file, PhaseInv, Part
  <2> QED
    BY <2>2, QuietLists
<1>3. CASE FailChunk
  BY <1>3, QuietLists DEF FailChunk, file, PhaseInv, Part
<1>4. CASE Return
  <2>1. /\ UNCHANGED <<disk, dhead>> /\ head' = dhead /\ pc' = "idle"
        /\ addr' = 0 /\ held' = held \cup {addr} /\ Part = addr
    BY <1>4 DEF Return, EndCall, file, PhaseInv, Part
  <2>2. addr # 0
    <3>1. pc = "loop" /\ ~More /\ Len(data) \in Nat /\ ind \in Nat
      BY <1>4, StringsAssumption, WrapAssumption DEF Return, IInv, IndexInv
    <3> QED
      BY <3>1 DEF HasChunk, InString, More
  <2> QED
    BY <2>1, <2>2, QuietLists
<1>5. CASE RemoveEnds
  BY <1>5, QuietLists DEF RemoveEnds, EndCall, file, PhaseInv
<1>6. CASE Crash
  BY <1>6, QuietLists DEF Crash, EndCall
<1>7. CASE GetSpace \/ WriteChunk \/ Release \/ SaveHead
  BY <1>7, GetSpaceLists, WriteChunkLists, ReleaseLists, SaveHeadLists
<1>8. CASE UNCHANGED vars
  BY <1>8 DEF vars, file, call, ListsInv, PhaseInv, Owned, On, Part
<1> QED
  BY <1>1, <1>2, <1>3, <1>4, <1>5, <1>6, <1>7, <1>8 DEF Next, Step
--------------------------------------------------------------------------------
(* What is written.                                                              *)
(* q chunks are left to write before the one at ind; what follows that one has   *)
(* been written, and the file has room within the bound for what has not.        *)
Left(q) ==
  /\ ind = q * D
  /\ ReadChain(disk, addr) = SubSeq(data, ind + D + 1, Len(data))
  /\ Len(disk) + q + 1 <= MaxBlocks + Len(Blocks(disk, head))
                          + (IF pc = "write" /\ at <= Len(disk) THEN 1 ELSE 0)

WriteInv ==
  /\ Len(disk) <= MaxBlocks
  /\ pc \in {"loop", "write"} /\ InString => \E q \in Nat : Left(q)
  /\ pc = "loop" /\ ~InString => ReadChain(disk, addr) = data

(* A string of chunks has been written when its first byte has. *)
LEMMA WrittenHasChunk ==
  ASSUME IInv, WriteInv
  PROVE  HasChunk
<1> SUFFICES ASSUME pc = "loop", ~InString, addr = 0 PROVE FALSE
  BY DEF HasChunk
<1>1. data \in Seq(Nat) /\ Len(data) # 0
  BY StringsAssumption DEF IInv, IndexInv
<1>2. ReadChain(disk, 0) = <<>>
  BY OwnedNowhere DEF IInv, File
<1>3. ReadChain(disk, 0) = data
  BY DEF WriteInv
<1> QED
  BY <1>1, <1>2, <1>3

(* The index of the loop is that of the first byte of a chunk, ... *)
LEMMA Multiples ==
  ASSUME NEW q \in Nat
  PROVE  /\ q * D \in Nat
         /\ q = 0 => q * D = 0
         /\ q # 0 => q * D >= D /\ q * D - D = (q - 1) * D
<1>1. D \in Nat \ {0}
  BY ChunkAssumption
<1> QED
  BY <1>1

(* ... the first time that of the last chunk, ... *)
LEMMA StartIsMultiple ==
  ASSUME NEW s \in Strings
  PROVE  /\ (Len(s) - 1) \div D \in Nat
         /\ Start(Len(s)) = ((Len(s) - 1) \div D) * D
         /\ Start(Len(s)) + D >= Len(s)
<1> DEFINE n == Len(s) - 1
<1>1. n \in Nat /\ D \in Nat \ {0}
  BY ChunkAssumption, StringsAssumption, WrapAssumption
<1>2. n \div D \in Nat /\ n % D \in 0 .. D - 1 /\ n = D * (n \div D) + (n % D)
  BY <1>1, SMTT(30)
<1>3. D * (n \div D) = (n \div D) * D
  BY <1>1, <1>2
<1>4. Start(Len(s)) = n - (n % D)
  BY DEF Start
<1> HIDE DEF n
<1>5. Len(s) = n + 1
  BY StringsAssumption DEF n
<1> QED
  BY <1>1, <1>2, <1>3, <1>4, <1>5

(* ... and it goes down by a chunk until it wraps. *)
LEMMA BeforeIs ==
  ASSUME NEW s \in Strings, NEW i \in 0 .. Len(s) - 1
  PROVE  /\ i >= D => Before(i) = i - D
         /\ i < D => Before(i) > Len(s)
<1>1. /\ D \in Nat \ {0} /\ Wrap \in Nat /\ Wrap > 2 * D
      /\ Len(s) \in Nat /\ Len(s) < Wrap - D
  BY ChunkAssumption, WrapAssumption, StringsAssumption
<1>2. CASE i >= D
  <2>1. i - D \in Nat /\ i - D < Wrap
    BY <1>1, <1>2
  <2>2. ((i - D) + Wrap) % Wrap = i - D
    BY <1>1, <2>1, ModRound
  <2> QED
    BY <1>1, <1>2, <2>2 DEF Before
<1>3. CASE i < D
  <2>1. Before(i) < i \/ Before(i) > Len(s)
    BY BeforeInString
  <2>2. (i - D) + Wrap \in Nat /\ (i - D) + Wrap < Wrap /\ (i - D) + Wrap > Len(s)
    BY <1>1, <1>3
  <2>3. Before(i) = (i - D) + Wrap
    BY <1>1, <2>2, ModSmall DEF Before
  <2> QED
    BY <1>1, <1>3, <2>2, <2>3
<1> QED
  BY <1>1, <1>2, <1>3

(* A chunk and what follows it are what begins with it. *)
LEMMA BytesAndRest ==
  ASSUME NEW s \in Strings, NEW i \in 0 .. Len(s) - 1
  PROVE  /\ Bytes(s, i) \o SubSeq(s, i + D + 1, Len(s)) = SubSeq(s, i + 1, Len(s))
         /\ SubSeq(s, 1, Len(s)) = s
<1>1. s \in Seq(Nat) /\ Len(s) \in Nat /\ D \in Nat \ {0}
  BY ChunkAssumption, StringsAssumption
<1>2. CASE D < Len(s) - i
  <2> DEFINE m == i + 1
             k == i + D
             n == Len(s)
  <2>1. Bytes(s, i) = SubSeq(s, m, k)
    BY <1>2 DEF Bytes
  <2>2. m \in 1 .. Len(s) + 1 /\ k \in m - 1 .. Len(s) /\ n \in k .. Len(s)
    BY <1>1, <1>2
  <2>3. SubSeq(s, 1, n) = s
    BY <1>1
  <2> HIDE DEF m, k, n
  <2>4. SubSeq(s, m, k) \o SubSeq(s, k + 1, n) = SubSeq(s, m, n)
    BY <1>1, <2>2, ConcatAdjacentSubSeq
  <2> QED
    BY <2>1, <2>3, <2>4 DEF m, k, n
<1>3. CASE ~(D < Len(s) - i)
  <2>1. Bytes(s, i) = SubSeq(s, i + 1, Len(s))
    BY <1>3 DEF Bytes
  <2>2. SubSeq(s, i + D + 1, Len(s)) = <<>>
    BY <1>1, <1>3
  <2>3. SubSeq(s, i + 1, Len(s)) \in Seq(Nat) /\ SubSeq(s, 1, Len(s)) = s
    BY <1>1
  <2>4. \A r \in Seq(Nat) : r \o <<>> = r
    OBVIOUS
  <2> QED
    BY <2>1, <2>2, <2>3, <2>4
<1> QED
  BY <1>1, <1>2, <1>3

(* A step that is not in the loop, or leaves it, and writes no new block. *)
LEMMA QuietWrite ==
  ASSUME IInv, WriteInv, Len(disk') = Len(disk), pc' \notin {"loop", "write"}
  PROVE  WriteInv'
BY DEF WriteInv

(* The loop starts with nothing written. *)
LEMMA BeginWrite ==
  ASSUME IInv, ListsInv, WriteInv, NEW s \in Strings, Begin(s)
  PROVE  WriteInv'
<1> DEFINE q == (Len(s) - 1) \div D
<1>1. /\ pc' = "loop" /\ data' = s /\ ind' = Start(Len(s)) /\ addr' = 0
      /\ UNCHANGED <<disk, head>> /\ Len(disk) + ChunksOf(s) <= MaxBlocks + Len(Blocks(disk, head))
  BY DEF Begin, file
<1>2. q \in Nat /\ ind' = q * D /\ ind' + D >= Len(s)
  BY <1>1, StartIsMultiple
<1>3. s \in Seq(Nat) /\ Len(s) \in Nat \ {0} /\ D \in Nat
  BY ChunkAssumption, StringsAssumption, WrapAssumption
<1>4. ind' \in 0 .. Len(s) - 1
  BY <1>1, <1>3, StartInString
<1>5. ReadChain(disk, 0) = <<>>
  BY OwnedNowhere DEF IInv, File
<1>6. SubSeq(s, ind' + D + 1, Len(s)) = <<>>
  BY <1>2, <1>3, <1>4
<1> HIDE DEF q
<1>7. Len(disk) + q + 1 <= MaxBlocks + Len(Blocks(disk, head))
  <2>1. Len(disk) \in Nat /\ q \in Nat
    BY <1>2 DEF IInv
  <2>2. ChunksOf(s) = q + 1
    BY DEF ChunksOf, q
  <2> QED
    BY <1>1, <2>1, <2>2
<1>8. Len(Blocks(disk, head)) \in Nat /\ Len(disk) \in Nat /\ MaxBlocks \in Nat
  BY OwnedOn, BoundsAssumption DEF IInv, File, ListsInv
<1>9. Left(q)'
  <2>1. ReadChain(disk', addr') = SubSeq(data', ind' + D + 1, Len(data'))
    BY <1>1, <1>5, <1>6
  <2>2. Len(disk') + q + 1 <= MaxBlocks + Len(Blocks(disk', head'))
                              + (IF pc' = "write" /\ at' <= Len(disk') THEN 1 ELSE 0)
    BY <1>1, <1>7, <1>8
  <2> QED
    BY <1>2, <2>1, <2>2 DEF Left
<1>10. InString'
  BY <1>1, <1>4 DEF InString
<1> QED
  BY <1>1, <1>2, <1>9, <1>10 DEF WriteInv

(* The chunk gets a block of the free list, or one at the end of the file. *)
LEMMA GetSpaceWrite ==
  ASSUME IInv, ListsInv, WriteInv, GetSpace
  PROVE  WriteInv'
<1>1. /\ pc = "loop" /\ More /\ pc' = "write" /\ UNCHANGED <<disk, data, ind, addr>>
  BY DEF GetSpace
<1>2. InString
  BY <1>1, StringsAssumption DEF IInv, IndexInv, More
<1>3. PICK q \in Nat : Left(q)
  BY <1>1, <1>2 DEF WriteInv
<1>4. File(disk) /\ Len(disk) \in Nat /\ Owned(disk, head, "free")
  BY DEF IInv, File, ListsInv
<1>5. Len(Blocks(disk, head)) \in Nat /\ MaxBlocks \in Nat
  BY <1>4, OwnedOn, BoundsAssumption
<1>6. Len(disk) + q + 1 <= MaxBlocks + Len(Blocks(disk, head))
  BY <1>1, <1>3, <1>4, <1>5 DEF Left
<1>7. Len(disk) + q + 1 <= MaxBlocks + Len(Blocks(disk, head'))
                           + (IF at' <= Len(disk) THEN 1 ELSE 0)
  <2>1. CASE head = 0
    <3>1. head' = head /\ at' = Len(disk) + 1
      BY <2>1 DEF GetSpace
    <3> QED
      BY <1>4, <1>5, <1>6, <3>1
  <2>2. CASE head # 0
    <3>1. head' = disk[head].next /\ at' = head
      BY <2>2 DEF GetSpace
    <3>2. head \in 1 .. Len(disk) /\ Len(Blocks(disk, head)) = Len(Blocks(disk, head')) + 1
          /\ Owned(disk, head', "free")
      BY <1>4, <2>2, <3>1, OwnedPop
    <3>3. Len(Blocks(disk, head')) \in Nat
      BY <1>4, <3>2, OwnedOn
    <3> QED
      BY <1>4, <1>5, <1>6, <3>1, <3>2, <3>3
  <2> QED
    BY <2>1, <2>2
<1>8. Left(q)'
  BY <1>1, <1>3, <1>7 DEF Left
<1> QED
  BY <1>1, <1>2, <1>8 DEF WriteInv, InString

(* The chunk is written in front of those after it. *)
LEMMA WriteChunkWrite ==
  ASSUME IInv, ListsInv, PhaseInv, WriteInv, WriteChunk
  PROVE  WriteInv'
<1>1. /\ pc = "write" /\ pc' = "loop" /\ addr' = at /\ ind' = Before(ind)
      /\ UNCHANGED <<head, data, at>>
  BY DEF WriteChunk
<1>2. InString /\ data \in Strings /\ ind \in 0 .. Len(data) - 1
  BY <1>1 DEF IInv, IndexInv, InString
<1>3. PICK q \in Nat : Left(q)
  BY <1>1, <1>2 DEF WriteInv
<1>4. ReadChain(disk', at) = SubSeq(data, ind + 1, Len(data)) /\ SubSeq(data, 1, Len(data)) = data
  <2>1. ReadChain(disk', at) = Bytes(data, ind) \o SubSeq(data, ind + D + 1, Len(data))
    BY <1>3, WriteChunkChains DEF Left
  <2> QED
    BY <1>2, <2>1, BytesAndRest
<1>5. /\ Len(disk) \in Nat /\ at \in 1 .. Len(disk) + 1 /\ File(disk)
      /\ Owned(disk, head, "free") /\ Len(data) \in Nat /\ MaxBlocks \in Nat
  BY <1>1, <1>2, AtIsNowhere, StringsAssumption, BoundsAssumption DEF ListsInv
<1>6. Len(Blocks(disk, head)) \in Nat /\ Len(Blocks(disk', head)) = Len(Blocks(disk, head))
  BY <1>5, OwnedOn, WriteChunkChains
<1>7. Len(disk') + q <= MaxBlocks + Len(Blocks(disk, head)) /\ Len(disk') <= MaxBlocks
      /\ Len(disk') \in Nat
  <2>1. Len(disk) + q + 1 <= MaxBlocks + Len(Blocks(disk, head))
                             + (IF at <= Len(disk) THEN 1 ELSE 0)
    BY <1>1, <1>3 DEF Left
  <2>2. CASE at <= Len(disk)
    <3>1. Len(disk') = Len(disk)
      BY <1>5, <2>2 DEF WriteChunk, PutAt, File
    <3> QED
      BY <1>5, <1>6, <2>1, <2>2, <3>1 DEF WriteInv
  <2>3. CASE at > Len(disk)
    <3>1. at = Len(disk) + 1
      BY <1>5, <2>3
    <3>2. Len(disk') = Len(disk) + 1
      BY <1>5, <3>1 DEF WriteChunk, PutAt, File
    <3>3. Len(Blocks(disk, head)) = 0
      BY <1>1, <1>5, <2>3, OwnedNowhere DEF PhaseInv
    <3> QED
      BY <1>5, <2>1, <2>3, <3>2, <3>3
  <2> QED
    BY <1>5, <2>2, <2>3
<1>8. D \in Nat \ {0} /\ ind \in Nat /\ ind = q * D
  BY <1>2, <1>3, ChunkAssumption DEF Left
<1>9. CASE q = 0
  <2>1. ind = 0
    BY <1>8, <1>9, Multiples
  <2>2. Before(ind) > Len(data)
    BY <1>2, <1>8, <2>1, BeforeIs
  <2>3. ~InString'
    BY <1>1, <1>5, <2>2 DEF InString
  <2> QED
    BY <1>1, <1>4, <1>7, <2>1, <2>3 DEF WriteInv
<1>10. CASE q # 0
  <2>1. ind >= D /\ ind - D = (q - 1) * D /\ q - 1 \in Nat
    BY <1>8, <1>10, Multiples
  <2>2. ind' = ind - D
    BY <1>1, <1>2, <2>1, BeforeIs
  <2>3. ind' + D = ind
    BY <1>8, <2>2
  <2>4. ReadChain(disk', at) = SubSeq(data, ind' + D + 1, Len(data))
    BY <1>4, <2>3
  <2>5. Len(disk') + (q - 1) + 1 <= MaxBlocks + Len(Blocks(disk', head)) + 0
    BY <1>5, <1>6, <1>7
  <2>6. Left(q - 1)'
    BY <1>1, <2>1, <2>2, <2>4, <2>5 DEF Left
  <2>7. InString'
    BY <1>1, <1>2, <1>5, <1>8, <2>1, <2>2 DEF InString
  <2> QED
    BY <1>1, <1>7, <2>1, <2>6, <2>7 DEF WriteInv
<1> QED
  BY <1>9, <1>10

(* Every step keeps what has been written. *)
LEMMA NextWrite ==
  ASSUME IInv, ListsInv, PhaseInv, WriteInv, [Next]_vars
  PROVE  WriteInv'
<1>1. CASE \E s \in Strings : Begin(s)
  BY <1>1, BeginWrite
<1>2. CASE GetSpace \/ WriteChunk
  BY <1>2, GetSpaceWrite, WriteChunkWrite
<1>3. CASE Release
  BY <1>3, QuietWrite, ReleaseChains DEF Release
<1>4. CASE (\E a \in held : RemoveString(a)) \/ FailChunk \/ SaveHead
  BY <1>4, QuietWrite DEF RemoveString, FailChunk, SaveHead, file
<1>5. CASE Return \/ RemoveEnds \/ Crash
  BY <1>5, QuietWrite DEF Return, RemoveEnds, Crash, EndCall, file
<1>6. CASE UNCHANGED vars
  BY <1>6 DEF vars, file, call, WriteInv, Left, InString
<1> QED
  BY <1>1, <1>2, <1>3, <1>4, <1>5, <1>6 DEF Next, Step
--------------------------------------------------------------------------------
(* What is lost.                                                                 *)
(* The blocks of the file that are neither free, nor in a string, nor in the     *)
(* hands of the call under way.                                                  *)
Lost ==
  {b \in 1 .. Len(disk) : /\ \A a \in held \cup {head, Part} : b \notin On(disk, a)
                          /\ ~(pc = "write" /\ b = at)}

LossInv ==
  /\ failures \in Nat /\ crashes \in Nat
  /\ crashes = 0 => Cardinality(Lost) <= failures

(* There are finitely many. *)
LEMMA LostFinite ==
  ASSUME NEW n \in Nat, NEW S, S \subseteq 1 .. n
  PROVE  IsFiniteSet(S)
<1>1. IsFiniteSet(1 .. n)
  BY FS_Interval
<1> QED
  BY <1>1, FS_Subset

(* A step that loses no block keeps the bound, ... *)
LEMMA NothingLost ==
  ASSUME IInv, LossInv, crashes' \in Nat, crashes' = 0 => crashes = 0,
         crashes' = 0 => Lost' \subseteq Lost, failures' = failures
  PROVE  LossInv'
<1>1. IsFiniteSet(Lost)
  <2>1. Len(disk) \in Nat /\ Lost \subseteq 1 .. Len(disk)
    BY DEF IInv, Lost
  <2> QED
    BY <2>1, LostFinite
<1>2. ASSUME crashes' = 0 PROVE Cardinality(Lost') <= Cardinality(Lost)
  BY <1>1, <1>2, FS_Subset
<1>3. ASSUME crashes' = 0 PROVE Cardinality(Lost') \in Nat /\ Cardinality(Lost) \in Nat
  BY <1>1, <1>3, FS_Subset, FS_CardinalityType
<1> QED
  BY <1>2, <1>3 DEF LossInv

(* ... and so does one that loses a block when a write fails. *)
LEMMA OneLost ==
  ASSUME IInv, LossInv, NEW b, Lost' \subseteq Lost \cup {b},
         failures' = failures + 1, crashes' = crashes
  PROVE  LossInv'
<1>1. IsFiniteSet(Lost)
  <2>1. Len(disk) \in Nat /\ Lost \subseteq 1 .. Len(disk)
    BY DEF IInv, Lost
  <2> QED
    BY <2>1, LostFinite
<1>2. /\ IsFiniteSet(Lost \cup {b}) /\ Cardinality(Lost) \in Nat
      /\ Cardinality(Lost \cup {b}) \in {Cardinality(Lost), Cardinality(Lost) + 1}
  BY <1>1, FS_AddElement, FS_CardinalityType
<1>3. Cardinality(Lost') \in Nat /\ Cardinality(Lost') <= Cardinality(Lost \cup {b})
  BY <1>2, FS_Subset, FS_CardinalityType
<1> QED
  BY <1>2, <1>3 DEF LossInv

(* No step of a call, and no failed write but for its own block, loses a block. *)
LEMMA NextLoss ==
  ASSUME IInv, ListsInv, PhaseInv, LossInv, [Next]_vars
  PROVE  LossInv'
<1>1. CASE (\E s \in Strings : Begin(s)) \/ (\E a \in held : RemoveString(a)) \/ Return
           \/ SaveHead \/ RemoveEnds
  <2>1. /\ disk' = disk /\ pc # "write" /\ pc' # "write" /\ UNCHANGED <<head, failures, crashes>>
    BY <1>1 DEF Begin, RemoveString, Return, SaveHead, RemoveEnds, EndCall, file
  <2>2. On(disk, 0) = {}
    BY OwnedNowhere DEF IInv, File
  <2>3. held \cup {Part} \subseteq held' \cup {Part', 0}
    BY <1>1 DEF Begin, RemoveString, Return, SaveHead, RemoveEnds, EndCall, file, Part, PhaseInv
  <2>4. Lost' \subseteq Lost
    BY <2>1, <2>2, <2>3 DEF Lost, On
  <2> QED
    BY <2>1, <2>4, NothingLost DEF LossInv
<1>2. CASE GetSpace
  <2>1. /\ UNCHANGED <<disk, held, failures, crashes>> /\ Part' = Part /\ pc = "loop" /\ pc' = "write"
    BY <1>2 DEF GetSpace, Part
  <2>2. \A b : b \in On(disk, head) => b = at' \/ b \in On(disk, head')
    <3>1. File(disk) /\ Owned(disk, head, "free")
      BY DEF IInv, File, ListsInv
    <3> QED
      BY <1>2, <3>1, OwnedPop DEF GetSpace
  <2>3. Lost' \subseteq Lost
    BY <2>1, <2>2 DEF Lost, On
  <2> QED
    BY <2>1, <2>3, NothingLost DEF LossInv
<1>3. CASE WriteChunk
  <2>1. /\ UNCHANGED <<head, held, failures, crashes>> /\ Part = addr /\ Part' = at
        /\ pc = "write" /\ pc' = "loop"
    BY <1>3 DEF WriteChunk, Part
  <2>2. /\ \A a \in held \cup {head} : On(disk', a) = On(disk, a)
        /\ \A b : b \in On(disk', at) <=> b = at \/ b \in On(disk, addr)
    BY <1>3, WriteChunkChains
  <2>3. \A b \in 1 .. Len(disk') : b = at \/ b \in 1 .. Len(disk)
    <3>1. at \in 1 .. Len(disk) + 1 /\ Len(disk) \in Nat
      BY <2>1, AtIsNowhere
    <3>2. Len(disk') = Len(disk) \/ (Len(disk') = Len(disk) + 1 /\ at = Len(disk) + 1)
      BY <1>3, <3>1 DEF WriteChunk, PutAt, IInv
    <3> QED
      BY <3>1, <3>2
  <2>4. Lost' \subseteq Lost
    BY <2>1, <2>2, <2>3 DEF Lost, On
  <2> QED
    BY <2>1, <2>4, NothingLost DEF LossInv
<1>4. CASE Release
  <2>1. /\ UNCHANGED <<held, failures, crashes>> /\ Part = addr /\ Part' = at' /\ head' = addr
        /\ pc = "remove" /\ pc' = "save"
    BY <1>4 DEF Release, Part
  <2>2. /\ \A a \in held \cup {at'} : On(disk', a) = On(disk, a)
        /\ \A b : b \in On(disk', addr) <=> b = addr \/ b \in On(disk, head)
        /\ \A b : b \in On(disk, addr) <=> b = addr \/ b \in On(disk, at')
        /\ Len(disk') = Len(disk)
    BY <1>4, ReleaseChains
  <2>3. Lost' \subseteq Lost
    BY <2>1, <2>2 DEF Lost, On
  <2> QED
    BY <2>1, <2>3, NothingLost DEF LossInv
<1>5. CASE FailChunk
  <2>1. /\ UNCHANGED <<disk, head, held, crashes>> /\ Part' = Part /\ failures' = failures + 1
    BY <1>5 DEF FailChunk, Part, file
  <2>2. Lost' \subseteq Lost \cup {at}
    BY <2>1 DEF Lost, On
  <2> QED
    BY <2>1, <2>2, OneLost
<1>6. CASE Crash
  BY <1>6, NothingLost DEF Crash, LossInv
<1>7. CASE UNCHANGED vars
  <2>1. Lost' = Lost
    BY <1>7 DEF vars, file, call, Lost, On, Part
  <2> QED
    BY <1>7, <2>1, NothingLost DEF vars, LossInv
<1> QED
  BY <1>1, <1>2, <1>3, <1>4, <1>5, <1>6, <1>7 DEF Next, Step

--------------------------------------------------------------------------------
(* The inductive invariant about the chains. *)
ChainInv == IInv /\ ListsInv /\ PhaseInv /\ WriteInv /\ LossInv

(* It holds initially, ... *)
LEMMA InitChainInv == Init => ChainInv
<1> SUFFICES ASSUME Init PROVE ChainInv
  OBVIOUS
<1>1. IInv /\ ListsInv /\ PhaseInv
  BY InitIInv, InitLists
<1>2. WriteInv
  BY BoundsAssumption DEF Init, WriteInv
<1>3. LossInv
  <2>1. failures = 0 /\ crashes = 0 /\ 1 .. Len(disk) = {}
    BY DEF Init
  <2>2. Lost = {}
    BY <2>1 DEF Lost
  <2> QED
    BY <2>1, <2>2, FS_EmptySet DEF LossInv
<1> QED
  BY <1>1, <1>2, <1>3 DEF ChainInv

(* ... and every step preserves it. *)
LEMMA NextChainInv == ChainInv /\ [Next]_vars => ChainInv'
<1> SUFFICES ASSUME ChainInv, [Next]_vars PROVE ChainInv'
  OBVIOUS
<1>1. IInv /\ ListsInv /\ PhaseInv /\ WriteInv /\ LossInv
  BY DEF ChainInv
<1>2. IInv'
  BY <1>1, NextIInv
<1>3. ListsInv' /\ PhaseInv'
  BY <1>1, WrittenHasChunk, NextLists
<1>4. WriteInv'
  BY <1>1, NextWrite
<1>5. LossInv'
  BY <1>1, NextLoss
<1> QED
  BY <1>2, <1>3, <1>4, <1>5 DEF ChainInv

(* The invariant holds. *)
THEOREM ChainInductive == Spec => []ChainInv
BY InitChainInv, NextChainInv, PTL DEF Spec

(* Whatever strings callers store and remove, whichever writes fail and wherever *)
(* the process stops: no chunk is ever in two strings, or in a string and on the *)
(* free list of the file.                                                        *)
THEOREM AlwaysOwnedOnce == Spec => []ChunksOwnedOnce
<1>1. ASSUME ChainInv PROVE ChunksOwnedOnce
  <2>1. File(disk) /\ IInv /\ ListsInv /\ PhaseInv
    BY <1>1 DEF ChainInv, IInv, File
  <2>2. Owned(disk, head, "free")
    BY <2>1 DEF ListsInv
  <2>3. Owned(disk, dhead, "free")
    BY <2>1, <2>2, OwnedPop DEF PhaseInv
  <2>4. IsInjective(Blocks(disk, dhead)) /\ \A b \in On(disk, dhead) : disk[b].kind = "free"
    BY <2>1, <2>3, OwnedOn
  <2>5. ASSUME NEW a \in held
        PROVE  /\ IsInjective(Blocks(disk, a)) /\ On(disk, a) \cap On(disk, dhead) = {}
               /\ \A b \in On(disk, a) : disk[b].kind = "chunk"
               /\ \A other \in held \ {a} : On(disk, a) \cap On(disk, other) = {}
    <3>1. Owned(disk, a, "chunk")
      BY <2>1 DEF ListsInv
    <3>2. IsInjective(Blocks(disk, a)) /\ \A b \in On(disk, a) : disk[b].kind = "chunk"
      BY <2>1, <3>1, OwnedOn
    <3> QED
      BY <2>1, <2>4, <3>2 DEF ListsInv
  <2> QED
    BY <2>4, <2>5 DEF ChunksOwnedOnce, On
<1> QED
  BY <1>1, ChainInductive, PTL

(* Until the process stops, the file loses at most one block for each write that *)
(* fails: whatever the length of the string, what was written of it is free      *)
(* again.                                                                        *)
THEOREM AlwaysLossBounded == Spec => []LossBounded
<1>1. ASSUME ChainInv PROVE LossBounded
  <2> SUFFICES ASSUME pc = "idle", crashes = 0
               PROVE  Cardinality(DOMAIN disk \ UNION {ToSet(Blocks(disk, a)) : a \in held \cup {head}})
                      <= failures
    BY DEF LossBounded
  <2>1. Part = 0 /\ On(disk, 0) = {}
    BY <1>1, OwnedNowhere DEF ChainInv, PhaseInv, Part, IInv, File
  <2>2. DOMAIN disk = 1 .. Len(disk)
    BY <1>1 DEF ChainInv, IInv
  <2>3. Lost = DOMAIN disk \ UNION {ToSet(Blocks(disk, a)) : a \in held \cup {head}}
    BY <2>1, <2>2 DEF Lost, On
  <2> QED
    BY <1>1, <2>3 DEF ChainInv, LossInv
<1> QED
  BY <1>1, ChainInductive, PTL
--------------------------------------------------------------------------------
(* The strings that are there.                                                   *)
(* A step by which no string comes or goes changes none.                         *)
LEMMA StoredKept ==
  ASSUME held' = held, \A a \in held : ReadChain(disk', a) = ReadChain(disk, a)
  PROVE  Stored' = Stored
BY DEF Stored

(* Every step is one of the abstract module, or changes no string. *)
LEMMA StepImplements ==
  ASSUME ChainInv, [Next]_vars
  PROVE  [Promise!Next]_Stored
<1>1. IInv /\ ListsInv /\ PhaseInv /\ WriteInv /\ File(disk)
  BY DEF ChainInv, IInv, File
<1>2. CASE Return
  <2>1. /\ held' = held \cup {addr} /\ disk' = disk /\ pc = "loop" /\ ~More
    BY <1>2 DEF Return, file
  <2>2. ~InString /\ addr # 0
    <3>1. data \in Strings /\ Len(data) \in Nat /\ ind \in Nat
      BY <1>1, <2>1, StringsAssumption, WrapAssumption DEF IInv, IndexInv
    <3>2. ~InString
      BY <2>1, <3>1 DEF InString, More
    <3> QED
      BY <1>1, <2>1, <3>2, WrittenHasChunk DEF HasChunk
  <2>3. ReadChain(disk, addr) = data /\ data \in Strings
    BY <1>1, <2>1, <2>2 DEF WriteInv, IInv, IndexInv
  <2>4. addr \notin held
    <3>1. Part = addr /\ Owned(disk, addr, "chunk")
      BY <1>1, <2>1 DEF ListsInv, Part
    <3>2. addr \in On(disk, addr)
      BY <1>1, <2>2, <3>1, OwnedOn
    <3> QED
      BY <1>1, <3>1, <3>2 DEF ListsInv
  <2>5. addr \in 1 .. MaxBlocks
    <3>1. Len(disk) \in Nat /\ MaxBlocks \in Nat
      BY <1>1, BoundsAssumption DEF IInv
    <3>2. addr \in 0 .. Len(disk) /\ Len(disk) <= MaxBlocks
      BY <1>1 DEF IInv, AddressInv, WriteInv
    <3> QED
      BY <2>2, <3>1, <3>2
  <2>6. Stored' = [x \in held \cup {addr} |-> IF x = addr THEN data ELSE Stored[x]]
    BY <2>1, <2>3, <2>4 DEF Stored
  <2>7. Promise!Put(addr, data)
    BY <2>4, <2>6 DEF Promise!Put, Stored
  <2> QED
    BY <2>3, <2>5, <2>7 DEF Promise!Next
<1>3. CASE \E a \in held : RemoveString(a)
  <2>1. PICK a \in held : RemoveString(a)
    BY <1>3
  <2>2. held' = held \ {a} /\ disk' = disk
    BY <2>1 DEF RemoveString, file
  <2>3. Promise!Drop(a)
    BY <2>2 DEF Promise!Drop, Stored
  <2>4. a \in 1 .. MaxBlocks
    BY <1>1, BoundsAssumption DEF IInv, AddressInv, WriteInv, ListsInv
  <2> QED
    BY <2>3, <2>4 DEF Promise!Next
<1>4. CASE WriteChunk
  BY <1>1, <1>4, WriteChunkChains, StoredKept DEF WriteChunk
<1>5. CASE Release
  BY <1>1, <1>5, ReleaseChains, StoredKept DEF Release
<1>6. CASE \/ \E s \in Strings : Begin(s)
           \/ GetSpace \/ FailChunk \/ SaveHead \/ RemoveEnds \/ Crash
           \/ UNCHANGED vars
  BY <1>6, StoredKept DEF Begin, GetSpace, FailChunk, SaveHead, RemoveEnds, Crash, vars, file
<1> QED
  BY <1>2, <1>3, <1>4, <1>5, <1>6 DEF Next, Step

(* What is read at the address of a string is what was written there, as long as *)
(* its caller holds it: at every write of every other call, when writes fail and *)
(* when the process stops, for strings of every length.                          *)
THEOREM StringsImplemented == Spec => ImplementsStrings
<1>1. Init => Promise!Init
  BY DEF Init, Promise!Init, Stored
<1>2. ChainInv /\ [Next]_vars => [Promise!Next]_Stored
  BY StepImplements
<1> QED
  BY <1>1, <1>2, ChainInductive, PTL DEF Spec, ImplementsStrings, Promise!Spec
================================================================================
