--------------------------- MODULE QueryServerProofs ---------------------------
(* Theorems about QueryServer, for every number of clients and length of the     *)
(* queue of listen.                                                              *)
EXTENDS QueryServer, TLAPS

(* The number of connections the server has accepted. *)
Accepted == Len(arrived) - Len(queue)

(* The queue is what remains of the arrivals, and the connection served is the   *)
(* one accepted last.                                                            *)
QueueIsRest ==
  /\ Accepted \in Nat
  /\ \A i \in 1 .. Len(queue) : queue[i] = arrived[Accepted + i]
  /\ conn # None => Accepted > 0 /\ arrived[Accepted] = conn

(* A query is unsent, in the socket, being executed or executed: in one place.   *)
QueryInOnePlace ==
  /\ \A c \in Client : client[c] \in {"start", "connected"} =>
       c \notin sent /\ c \notin ToSet(executed) /\ ~(pc = "execute" /\ conn = c)
  /\ sent \cap ToSet(executed) = {}
  /\ pc = "execute" => conn \notin sent /\ conn \notin ToSet(executed)

(* Only queries of accepted connections have been executed. *)
ExecutedAccepted ==
  \A i \in 1 .. Len(executed) : \E k \in 1 .. Accepted : arrived[k] = executed[i]

(* A result about to be written is that of the query executed last. *)
ResultOfConn ==
  pc = "write" => /\ conn \in ToSet(executed)
                  /\ chains => asks[conn] = "select"

(* The inductive invariant. *)
IInv ==
  /\ TypeOK
  /\ QueueIsRest
  /\ QueryInOnePlace
  /\ ExecutedAccepted
  /\ ResultOfConn
  /\ ExecutedInOrder
  /\ NobodyAbandoned
  /\ AnswerIsOwn
--------------------------------------------------------------------------------
(* Sequences.                                                                    *)
(* What Append does to a sequence of clients. *)
LEMMA AppendFacts ==
  ASSUME NEW s \in Seq(Client), NEW c \in Client
  PROVE  LET t == Append(s, c)
         IN  /\ t \in Seq(Client)
             /\ Len(s) \in Nat /\ Len(t) = Len(s) + 1
             /\ DOMAIN s = 1 .. Len(s) /\ DOMAIN t = 1 .. Len(s) + 1
             /\ \A i \in 1 .. Len(s) : t[i] = s[i]
             /\ t[Len(s) + 1] = c
             /\ ToSet(t) = ToSet(s) \cup {c}
<1> DEFINE t == Append(s, c)
           n == Len(s)
<1>1. /\ t \in Seq(Client)
      /\ n \in Nat /\ Len(t) = n + 1
      /\ DOMAIN s = 1 .. n /\ DOMAIN t = 1 .. n + 1
      /\ \A i \in 1 .. n : t[i] = s[i]
      /\ t[n + 1] = c
  OBVIOUS
<1>2. ToSet(t) = {t[i] : i \in 1 .. n + 1} /\ ToSet(s) = {s[i] : i \in 1 .. n}
  BY <1>1 DEF ToSet
<1> HIDE DEF t, n
<1>3. 1 .. n + 1 = (1 .. n) \cup {n + 1}
  BY <1>1
<1>4. ToSet(t) = ToSet(s) \cup {c}
  BY <1>1, <1>2, <1>3
<1> QED
  BY <1>1, <1>4 DEF t, n

(* What taking the head off a sequence of clients does. *)
LEMMA TailFacts ==
  ASSUME NEW s \in Seq(Client), s # <<>>
  PROVE  /\ Tail(s) \in Seq(Client)
         /\ Len(s) \in Nat /\ Len(s) > 0 /\ Len(Tail(s)) = Len(s) - 1
         /\ \A i \in 1 .. Len(s) - 1 : Tail(s)[i] = s[i + 1]
         /\ Head(s) = s[1] /\ Head(s) \in Client
         /\ ToSet(s) = ToSet(Tail(s)) \cup {Head(s)}
<1> DEFINE t == Tail(s)
           n == Len(s)
<1>1. /\ t \in Seq(Client)
      /\ n \in Nat /\ n > 0 /\ Len(t) = n - 1
      /\ DOMAIN s = 1 .. n /\ DOMAIN t = 1 .. n - 1
      /\ \A i \in 1 .. n - 1 : t[i] = s[i + 1]
      /\ Head(s) = s[1] /\ Head(s) \in Client
  OBVIOUS
<1>2. ToSet(t) = {t[i] : i \in 1 .. n - 1} /\ ToSet(s) = {s[i] : i \in 1 .. n}
  BY <1>1 DEF ToSet
<1> DEFINE h == Head(s)
<1> HIDE DEF t, n, h
<1>3. ToSet(s) = ToSet(t) \cup {h}
  <2>1. ASSUME NEW x \in ToSet(s) PROVE x \in ToSet(t) \cup {h}
    <3>1. PICK i \in 1 .. n : x = s[i]
      BY <1>2
    <3>2. CASE i = 1
      BY <3>1, <3>2, <1>1 DEF h
    <3>3. CASE i # 1
      <4>1. i - 1 \in 1 .. n - 1 /\ t[i - 1] = s[(i - 1) + 1] /\ (i - 1) + 1 = i
        BY <3>3, <1>1
      <4> QED
        BY <4>1, <3>1, <1>2
    <3> QED
      BY <3>2, <3>3
  <2>2. ASSUME NEW x \in ToSet(t) PROVE x \in ToSet(s)
    <3>1. PICK i \in 1 .. n - 1 : x = t[i]
      BY <1>2
    <3>2. i + 1 \in 1 .. n
      BY <1>1
    <3> QED
      BY <3>1, <3>2, <1>1, <1>2
  <2>3. h \in ToSet(s)
    BY <1>1, <1>2 DEF h
  <2> QED
    BY <2>1, <2>2, <2>3
<1> QED
  BY <1>1, <1>3 DEF t, n, h
--------------------------------------------------------------------------------
(* What the invariant says of the sequences, in one place. *)
LEMMA SequenceFacts ==
  ASSUME IInv
  PROVE  /\ queue \in Seq(Client) /\ arrived \in Seq(Client) /\ executed \in Seq(Client)
         /\ Len(queue) \in Nat /\ Len(arrived) \in Nat /\ Len(executed) \in Nat
         /\ Accepted \in Nat /\ Accepted \in 0 .. Len(arrived)
         /\ DOMAIN arrived = 1 .. Len(arrived) /\ DOMAIN executed = 1 .. Len(executed)
         /\ ToSet(arrived) = {arrived[i] : i \in 1 .. Len(arrived)}
         /\ ToSet(queue) = {queue[i] : i \in 1 .. Len(queue)}
         /\ ToSet(executed) = {executed[i] : i \in 1 .. Len(executed)}
<1>1. queue \in Seq(Client) /\ arrived \in Seq(Client) /\ executed \in Seq(Client)
  BY DEF IInv, TypeOK
<1>2. Accepted \in Nat
  BY DEF IInv, QueueIsRest
<1>3. Len(queue) \in Nat /\ Len(arrived) \in Nat /\ Accepted \in 0 .. Len(arrived)
  BY <1>1, <1>2 DEF Accepted
<1>4. /\ DOMAIN arrived = 1 .. Len(arrived) /\ DOMAIN executed = 1 .. Len(executed)
      /\ DOMAIN queue = 1 .. Len(queue) /\ Len(executed) \in Nat
  BY <1>1
<1> QED
  BY <1>1, <1>2, <1>3, <1>4 DEF ToSet

(* Initially nobody has arrived. *)
LEMMA InitIInv == Init => IInv
<1> SUFFICES ASSUME Init PROVE IInv
  OBVIOUS
<1> USE DEF Init
<1>1. /\ Len(queue) = 0 /\ Len(arrived) = 0 /\ Len(executed) = 0 /\ Accepted = 0
      /\ ToSet(queue) = {} /\ ToSet(arrived) = {} /\ ToSet(executed) = {}
      /\ <<>> \in Seq(Client) /\ DOMAIN executed = {}
  BY DEF ToSet, Accepted
<1>2. TypeOK
  <2>1. chains \in BOOLEAN
    OBVIOUS
  <2>2. pc = "accept" /\ conn = None
    OBVIOUS
  <2>3. /\ client \in [Client -> {"start", "connected", "waiting", "done", "stopped", "lost"}]
        /\ closed \in [Client -> {"open", "ended", "reset"}]
        /\ asks \in [Client -> {"select", "change"}]
        /\ sent \subseteq Client /\ replied \subseteq Client
    OBVIOUS
  <2>4. queue \in Seq(Client) /\ arrived \in Seq(Client) /\ executed \in Seq(Client)
    BY <1>1
  <2> QED
    BY <2>1, <2>2, <2>3, <2>4 DEF TypeOK
<1>3. QueueIsRest /\ QueryInOnePlace /\ ExecutedAccepted /\ ResultOfConn
  BY <1>1 DEF QueueIsRest, QueryInOnePlace, ExecutedAccepted, ResultOfConn
<1>4. ExecutedInOrder /\ NobodyAbandoned /\ AnswerIsOwn
  BY <1>1 DEF ExecutedInOrder, NobodyAbandoned, AnswerIsOwn
<1> QED
  BY <1>2, <1>3, <1>4 DEF IInv

(* A step that leaves the sequences alone leaves alone what is said of them only. *)
LEMMA OrderUnchanged ==
  ASSUME IInv, UNCHANGED <<arrived, queue, executed>>, conn' \in {conn, None}
  PROVE  QueueIsRest' /\ ExecutedAccepted' /\ ExecutedInOrder'
<1> USE DEF IInv
<1>1. QueueIsRest'
  BY DEF QueueIsRest, Accepted
<1>2. ExecutedAccepted'
  BY DEF ExecutedAccepted, Accepted
<1>3. ExecutedInOrder'
  BY DEF ExecutedInOrder
<1> QED
  BY <1>1, <1>2, <1>3

(* A connection goes to the end of the arrivals and of the queue. *)
LEMMA ConnectIInv ==
  ASSUME IInv, NEW c \in Client, Connect(c)
  PROVE  IInv'
<1> DEFINE n == Len(arrived)
           q == Len(queue)
<1>1. /\ n \in Nat /\ q \in Nat /\ Accepted \in 0 .. n /\ Accepted = n - q
      /\ Len(arrived') = n + 1 /\ Len(queue') = q + 1
      /\ arrived' \in Seq(Client) /\ queue' \in Seq(Client)
      /\ DOMAIN arrived = 1 .. n /\ DOMAIN arrived' = 1 .. n + 1
      /\ \A i \in 1 .. n : arrived'[i] = arrived[i]
      /\ \A i \in 1 .. q : queue'[i] = queue[i]
      /\ arrived'[n + 1] = c /\ queue'[q + 1] = c
      /\ ToSet(arrived') = ToSet(arrived) \cup {c}
      /\ ToSet(queue') = ToSet(queue) \cup {c}
  BY SequenceFacts, AppendFacts DEF Connect, Accepted
<1>2. Accepted' = Accepted
  BY <1>1 DEF Accepted
<1>3. /\ client[c] = "start" /\ client' = [client EXCEPT ![c] = "connected"]
      /\ UNCHANGED <<pc, conn, chains, executed, asks, sent, replied, closed>>
  BY DEF Connect, server
<1> HIDE DEF n, q
<1>4. TypeOK'
  <2>1. TypeOK
    BY DEF IInv
  <2>2. client' \in [Client -> {"start", "connected", "waiting", "done", "stopped", "lost"}]
    BY <2>1, <1>3 DEF TypeOK
  <2> QED
    BY <2>1, <2>2, <1>1, <1>3 DEF TypeOK
<1>5. QueueIsRest'
  <2>1. ASSUME NEW i \in 1 .. q + 1 PROVE queue'[i] = arrived'[Accepted + i]
    <3>1. CASE i \in 1 .. q
      <4>1. Accepted + i \in 1 .. n
        BY <3>1, <1>1
      <4>2. queue[i] = arrived[Accepted + i]
        BY <3>1 DEF IInv, QueueIsRest, q
      <4> QED
        BY <4>1, <4>2, <3>1, <1>1
    <3>2. CASE i = q + 1
      <4>1. Accepted + i = n + 1
        BY <3>2, <1>1
      <4> QED
        BY <4>1, <3>2, <1>1
    <3> QED
      BY <3>1, <3>2, <1>1
  <2>2. conn # None => Accepted > 0 /\ Accepted \in 1 .. n /\ arrived[Accepted] = conn
    BY <1>1 DEF IInv, QueueIsRest
  <2> QED
    BY <2>1, <2>2, <1>1, <1>2, <1>3 DEF QueueIsRest
<1>6. QueryInOnePlace'
  <2>1. \A d \in Client : client'[d] \in {"start", "connected"} => client[d] \in {"start", "connected"}
    BY <1>3 DEF IInv, TypeOK
  <2> QED
    BY <2>1, <1>3 DEF IInv, QueryInOnePlace
<1>7. ExecutedAccepted'
  BY <1>1, <1>2, <1>3 DEF IInv, ExecutedAccepted
<1>8. ResultOfConn'
  BY <1>3 DEF IInv, ResultOfConn
<1>9. ExecutedInOrder'
  <2>1. DOMAIN arrived \subseteq DOMAIN arrived' /\ \A i \in DOMAIN arrived : arrived'[i] = arrived[i]
    BY <1>1
  <2> QED
    BY <2>1, <1>3 DEF IInv, ExecutedInOrder
<1>10. NobodyAbandoned'
  BY <1>1, <1>3 DEF IInv, NobodyAbandoned
<1>11. AnswerIsOwn'
  <2>1. \A d \in Client : client'[d] = "done" => client[d] = "done"
    BY <1>3 DEF IInv, TypeOK
  <2> QED
    BY <2>1, <1>3 DEF IInv, AnswerIsOwn
<1> QED
  BY <1>4, <1>5, <1>6, <1>7, <1>8, <1>9, <1>10, <1>11 DEF IInv

(* The query goes into the socket, where and nowhere else it is from now on. *)
LEMMA SendIInv ==
  ASSUME IInv, NEW c \in Client, Send(c)
  PROVE  IInv'
<1>1. /\ client[c] = "connected" /\ client' = [client EXCEPT ![c] = "waiting"]
      /\ sent' = sent \cup {c}
      /\ UNCHANGED <<pc, conn, chains, executed, asks, queue, replied, closed, arrived>>
  BY DEF Send, server
<1>2. TypeOK'
  <2>1. client' \in [Client -> {"start", "connected", "waiting", "done", "stopped", "lost"}]
    BY <1>1 DEF IInv, TypeOK
  <2> QED
    BY <2>1, <1>1 DEF IInv, TypeOK
<1>3. QueueIsRest' /\ ExecutedAccepted' /\ ExecutedInOrder'
  BY <1>1, OrderUnchanged
<1>4. QueryInOnePlace'
  <2>1. \A d \in Client : client'[d] \in {"start", "connected"} => client[d] \in {"start", "connected"} /\ d # c
    BY <1>1 DEF IInv, TypeOK
  <2>2. c \notin ToSet(executed) /\ ~(pc = "execute" /\ conn = c)
    BY <1>1 DEF IInv, QueryInOnePlace
  <2> QED
    BY <2>1, <2>2, <1>1 DEF IInv, QueryInOnePlace
<1>5. ResultOfConn'
  BY <1>1 DEF IInv, ResultOfConn
<1>6. NobodyAbandoned'
  BY <1>1 DEF IInv, NobodyAbandoned
<1>7. AnswerIsOwn'
  <2>1. \A d \in Client : client'[d] = "done" => client[d] = "done"
    BY <1>1 DEF IInv, TypeOK
  <2> QED
    BY <2>1, <1>1 DEF IInv, AnswerIsOwn
<1> QED
  BY <1>2, <1>3, <1>4, <1>5, <1>6, <1>7 DEF IInv

(* A client that ends had an answer, and that answer was its own. *)
LEMMA ReceiveIInv ==
  ASSUME IInv, NEW c \in Client, Receive(c)
  PROVE  IInv'
<1>1. /\ client[c] = "waiting" /\ c \in replied
      /\ client' = [client EXCEPT ![c] = "done"]
      /\ replied' = replied \ {c}
      /\ closed' = [closed EXCEPT ![c] = "ended"]
      /\ UNCHANGED <<pc, conn, chains, executed, asks, queue, sent, arrived>>
  BY DEF Receive, server
<1>2. TypeOK'
  <2>1. /\ client' \in [Client -> {"start", "connected", "waiting", "done", "stopped", "lost"}]
        /\ closed' \in [Client -> {"open", "ended", "reset"}]
    BY <1>1 DEF IInv, TypeOK
  <2> QED
    BY <2>1, <1>1 DEF IInv, TypeOK
<1>3. QueueIsRest' /\ ExecutedAccepted' /\ ExecutedInOrder'
  BY <1>1, OrderUnchanged
<1>4. QueryInOnePlace'
  <2>1. \A d \in Client : client'[d] \in {"start", "connected"} => client[d] \in {"start", "connected"}
    BY <1>1 DEF IInv, TypeOK
  <2> QED
    BY <2>1, <1>1 DEF IInv, QueryInOnePlace
<1>5. ResultOfConn'
  BY <1>1 DEF IInv, ResultOfConn
<1>6. NobodyAbandoned'
  <2>1. ToSet(arrived) \subseteq Client
    BY SequenceFacts DEF ToSet
  <2>2. \A d \in Client : closed'[d] = "open" => closed[d] = "open"
    BY <1>1 DEF IInv, TypeOK
  <2> QED
    BY <2>1, <2>2, <1>1 DEF IInv, NobodyAbandoned
<1>7. AnswerIsOwn'
  <2>1. \A d \in Client : client'[d] = "done" => client[d] = "done" \/ d \in replied
    BY <1>1 DEF IInv, TypeOK
  <2> QED
    BY <2>1, <1>1 DEF IInv, AnswerIsOwn
<1> QED
  BY <1>2, <1>3, <1>4, <1>5, <1>6, <1>7 DEF IInv

(* A client that is stopped stays where it is, in the queue or at conn_fd. *)
LEMMA InterruptIInv ==
  ASSUME IInv, NEW c \in Client, Interrupt(c)
  PROVE  IInv'
<1>1. /\ client' = [client EXCEPT ![c] = "stopped"]
      /\ closed' = [closed EXCEPT ![c] = IF c \in replied THEN "reset" ELSE "ended"]
      /\ UNCHANGED <<pc, conn, chains, executed, asks, queue, sent, replied, arrived>>
  BY DEF Interrupt, server
<1>2. TypeOK'
  <2>1. /\ client' \in [Client -> {"start", "connected", "waiting", "done", "stopped", "lost"}]
        /\ closed' \in [Client -> {"open", "ended", "reset"}]
    BY <1>1 DEF IInv, TypeOK
  <2> QED
    BY <2>1, <1>1 DEF IInv, TypeOK
<1>3. QueueIsRest' /\ ExecutedAccepted' /\ ExecutedInOrder'
  BY <1>1, OrderUnchanged
<1>4. QueryInOnePlace'
  <2>1. \A d \in Client : client'[d] \in {"start", "connected"} => client[d] \in {"start", "connected"}
    BY <1>1 DEF IInv, TypeOK
  <2> QED
    BY <2>1, <1>1 DEF IInv, QueryInOnePlace
<1>5. ResultOfConn'
  BY <1>1 DEF IInv, ResultOfConn
<1>6. NobodyAbandoned'
  <2>1. ToSet(arrived) \subseteq Client
    BY SequenceFacts DEF ToSet
  <2>2. \A d \in Client : closed'[d] = "open" => closed[d] = "open"
    BY <1>1 DEF IInv, TypeOK
  <2> QED
    BY <2>1, <2>2, <1>1 DEF IInv, NobodyAbandoned
<1>7. AnswerIsOwn'
  <2>1. \A d \in Client : client'[d] = "done" => client[d] = "done"
    BY <1>1 DEF IInv, TypeOK
  <2> QED
    BY <2>1, <1>1 DEF IInv, AnswerIsOwn
<1> QED
  BY <1>2, <1>3, <1>4, <1>5, <1>6, <1>7 DEF IInv

(* A client that loses the server closes its end. *)
LEMMA LoseIInv ==
  ASSUME IInv, NEW c \in Client, Lose(c)
  PROVE  IInv'
<1>1. /\ client' = [client EXCEPT ![c] = "lost"]
      /\ closed' = [closed EXCEPT ![c] = "ended"]
      /\ UNCHANGED <<pc, conn, chains, executed, asks, queue, sent, replied, arrived>>
  BY DEF Lose, server
<1>2. TypeOK'
  <2>1. /\ client' \in [Client -> {"start", "connected", "waiting", "done", "stopped", "lost"}]
        /\ closed' \in [Client -> {"open", "ended", "reset"}]
    BY <1>1 DEF IInv, TypeOK
  <2> QED
    BY <2>1, <1>1 DEF IInv, TypeOK
<1>3. QueueIsRest' /\ ExecutedAccepted' /\ ExecutedInOrder'
  BY <1>1, OrderUnchanged
<1>4. QueryInOnePlace'
  <2>1. \A d \in Client : client'[d] \in {"start", "connected"} => client[d] \in {"start", "connected"}
    BY <1>1 DEF IInv, TypeOK
  <2> QED
    BY <2>1, <1>1 DEF IInv, QueryInOnePlace
<1>5. ResultOfConn'
  BY <1>1 DEF IInv, ResultOfConn
<1>6. NobodyAbandoned'
  <2>1. ToSet(arrived) \subseteq Client
    BY SequenceFacts DEF ToSet
  <2>2. \A d \in Client : closed'[d] = "open" => closed[d] = "open"
    BY <1>1 DEF IInv, TypeOK
  <2> QED
    BY <2>1, <2>2, <1>1 DEF IInv, NobodyAbandoned
<1>7. AnswerIsOwn'
  <2>1. \A d \in Client : client'[d] = "done" => client[d] = "done"
    BY <1>1 DEF IInv, TypeOK
  <2> QED
    BY <2>1, <1>1 DEF IInv, AnswerIsOwn
<1> QED
  BY <1>2, <1>3, <1>4, <1>5, <1>6, <1>7 DEF IInv

(* The oldest of the queue is the next arrival. *)
LEMMA AcceptIInv ==
  ASSUME IInv, Accept
  PROVE  IInv'
<1> DEFINE n == Len(arrived)
           q == Len(queue)
           c == Head(queue)
<1>1. /\ pc = "accept" /\ queue # <<>>
      /\ conn' = c /\ queue' = Tail(queue) /\ pc' = "read"
      /\ UNCHANGED <<chains, executed, client, asks, sent, replied, closed, arrived>>
  BY DEF Accept
<1>2. /\ queue' \in Seq(Client) /\ q \in Nat /\ q > 0 /\ Len(queue') = q - 1
      /\ \A i \in 1 .. q - 1 : queue'[i] = queue[i + 1]
      /\ c = queue[1] /\ c \in Client
      /\ ToSet(queue) = ToSet(queue') \cup {c}
  BY <1>1, SequenceFacts, TailFacts
<1>3. n \in Nat /\ Accepted \in Nat /\ Accepted = n - q /\ Accepted' = Accepted + 1
  BY <1>1, <1>2, SequenceFacts DEF Accepted
<1> HIDE DEF n, q, c
<1>4. c # None
  BY <1>2, NoneAssumption
<1>5. TypeOK'
  BY <1>1, <1>2, <1>4 DEF IInv, TypeOK
<1>6. QueueIsRest'
  <2>1. ASSUME NEW i \in 1 .. q - 1 PROVE queue'[i] = arrived[(Accepted + 1) + i]
    <3>1. i + 1 \in 1 .. q /\ Accepted + (i + 1) = (Accepted + 1) + i
      BY <1>2, <1>3
    <3>2. queue[i + 1] = arrived[Accepted + (i + 1)]
      BY <3>1 DEF IInv, QueueIsRest, q
    <3> QED
      BY <3>1, <3>2, <1>2
  <2>2. arrived[Accepted + 1] = c
    BY <1>2 DEF IInv, QueueIsRest, q
  <2> QED
    BY <2>1, <2>2, <1>1, <1>2, <1>3 DEF QueueIsRest
<1>7. QueryInOnePlace'
  BY <1>1 DEF IInv, QueryInOnePlace
<1>8. ExecutedAccepted'
  <2>1. 1 .. Accepted \subseteq 1 .. Accepted'
    BY <1>3
  <2> QED
    BY <2>1, <1>1 DEF IInv, ExecutedAccepted
<1>9. ResultOfConn'
  BY <1>1 DEF ResultOfConn
<1>10. ExecutedInOrder'
  BY <1>1 DEF IInv, ExecutedInOrder
<1>11. NobodyAbandoned'
  <2>1. conn = None
    BY <1>1 DEF IInv, TypeOK
  <2>2. None \notin ToSet(arrived)
    BY SequenceFacts, NoneAssumption DEF ToSet
  <2> QED
    BY <2>1, <2>2, <1>1, <1>2 DEF IInv, NobodyAbandoned
<1>12. AnswerIsOwn'
  BY <1>1 DEF IInv, AnswerIsOwn
<1> QED
  BY <1>5, <1>6, <1>7, <1>8, <1>9, <1>10, <1>11, <1>12 DEF IInv

(* The query leaves the socket: it is nowhere else. *)
LEMMA ReadQueryIInv ==
  ASSUME IInv, ReadQuery
  PROVE  IInv'
<1>1. /\ pc = "read" /\ conn \in sent /\ sent' = sent \ {conn} /\ pc' = "execute"
      /\ UNCHANGED <<conn, chains, executed, client, asks, queue, replied, closed, arrived>>
  BY DEF ReadQuery
<1>2. TypeOK'
  BY <1>1 DEF IInv, TypeOK
<1>3. QueueIsRest' /\ ExecutedAccepted' /\ ExecutedInOrder'
  BY <1>1, OrderUnchanged
<1>4. QueryInOnePlace'
  BY <1>1 DEF IInv, QueryInOnePlace
<1>5. ResultOfConn'
  BY <1>1 DEF ResultOfConn
<1>6. NobodyAbandoned'
  BY <1>1 DEF IInv, NobodyAbandoned
<1>7. AnswerIsOwn'
  BY <1>1 DEF IInv, AnswerIsOwn
<1> QED
  BY <1>2, <1>3, <1>4, <1>5, <1>6, <1>7 DEF IInv

(* The server leaves a connection its client has closed. *)
LEMMA ReadEndIInv ==
  ASSUME IInv, ReadEnd
  PROVE  IInv'
<1>1. /\ pc = "read" /\ closed[conn] = "ended" /\ conn' = None /\ pc' = "accept"
      /\ UNCHANGED <<chains, executed, queue, sent, replied, closed, arrived, client, asks>>
  BY DEF ReadEnd, sockets
<1>2. TypeOK'
  BY <1>1 DEF IInv, TypeOK
<1>3. QueueIsRest' /\ ExecutedAccepted' /\ ExecutedInOrder'
  BY <1>1, OrderUnchanged
<1>4. QueryInOnePlace'
  BY <1>1 DEF IInv, QueryInOnePlace
<1>5. ResultOfConn'
  BY <1>1 DEF ResultOfConn
<1>6. NobodyAbandoned'
  BY <1>1 DEF IInv, NobodyAbandoned
<1>7. AnswerIsOwn'
  BY <1>1 DEF IInv, AnswerIsOwn
<1> QED
  BY <1>2, <1>3, <1>4, <1>5, <1>6, <1>7 DEF IInv

(* The model follows the server no further after an error of read, a query that  *)
(* never ends, or an exit.                                                       *)
LEMMA EndIInv ==
  ASSUME IInv, ReadError \/ ExecuteForever \/ ExecuteExits
  PROVE  IInv'
<1>1. /\ pc \in {"read", "execute"} /\ pc' \in {"astray", "looping", "down"}
      /\ UNCHANGED <<conn, chains, executed, queue, sent, replied, closed, arrived, client, asks>>
  BY DEF ReadError, ExecuteForever, ExecuteExits, sockets
<1>2. TypeOK'
  BY <1>1 DEF IInv, TypeOK
<1>3. QueueIsRest' /\ ExecutedAccepted' /\ ExecutedInOrder'
  BY <1>1, OrderUnchanged
<1>4. QueryInOnePlace'
  BY <1>1 DEF IInv, QueryInOnePlace
<1>5. ResultOfConn'
  BY <1>1 DEF ResultOfConn
<1>6. NobodyAbandoned' /\ AnswerIsOwn'
  BY <1>1 DEF IInv, NobodyAbandoned, AnswerIsOwn
<1> QED
  BY <1>2, <1>3, <1>4, <1>5, <1>6 DEF IInv

(* The query executed is of the connection accepted last, and was not executed   *)
(* before: those executed arrived earlier.                                       *)
LEMMA ExecuteIInv ==
  ASSUME IInv, Execute
  PROVE  IInv'
<1> DEFINE n == Len(executed)
<1>1. /\ pc = "execute" /\ pc' = "write"
      /\ executed' = Append(executed, conn)
      /\ UNCHANGED <<conn, queue, sent, replied, closed, arrived, client, asks>>
      /\ chains' \in BOOLEAN
  BY DEF Execute, sockets
<1>2. chains' => asks[conn] = "select"
  BY DEF Execute
<1>3. conn \in Client /\ conn # None
  BY <1>1, NoneAssumption DEF IInv, TypeOK
<1>4. /\ executed' \in Seq(Client)
      /\ n \in Nat /\ Len(executed') = n + 1
      /\ DOMAIN executed = 1 .. n /\ DOMAIN executed' = 1 .. n + 1
      /\ \A i \in 1 .. n : executed'[i] = executed[i]
      /\ executed'[n + 1] = conn
      /\ ToSet(executed') = ToSet(executed) \cup {conn}
  BY <1>1, <1>3, SequenceFacts, AppendFacts
<1>5. Accepted' = Accepted /\ Accepted \in 0 .. Len(arrived) /\ DOMAIN arrived = 1 .. Len(arrived)
  BY <1>1, SequenceFacts DEF Accepted
<1>6. Accepted > 0 /\ arrived[Accepted] = conn
  BY <1>3 DEF IInv, QueueIsRest
<1>7. conn \notin ToSet(executed) /\ conn \notin sent
  BY <1>1 DEF IInv, QueryInOnePlace
<1>8. Len(arrived) \in Nat /\ ToSet(executed) = {executed[i] : i \in 1 .. n}
  BY SequenceFacts
<1> HIDE DEF n
<1>9. TypeOK'
  BY <1>1, <1>3, <1>4 DEF IInv, TypeOK
<1>10. QueueIsRest'
  BY <1>1, <1>5 DEF IInv, QueueIsRest
<1>11. QueryInOnePlace'
  BY <1>1, <1>4, <1>7 DEF IInv, QueryInOnePlace
<1>12. ExecutedAccepted'
  <2>1. ASSUME NEW i \in 1 .. n + 1 PROVE \E k \in 1 .. Accepted : arrived[k] = executed'[i]
    <3>1. CASE i \in 1 .. n
      BY <3>1, <1>4 DEF IInv, ExecutedAccepted, n
    <3>2. CASE i = n + 1
      <4>1. Accepted \in 1 .. Accepted
        BY <1>5, <1>6, <1>8
      <4> QED
        BY <4>1, <3>2, <1>4, <1>6
    <3> QED
      BY <3>1, <3>2, <1>4
  <2> QED
    BY <2>1, <1>1, <1>4, <1>5 DEF ExecutedAccepted
<1>13. ResultOfConn'
  BY <1>1, <1>2, <1>4 DEF ResultOfConn
<1>14. ExecutedInOrder'
  <2>1. ASSUME NEW i \in 1 .. n + 1, NEW j \in 1 .. n + 1, i < j
        PROVE  /\ executed'[i] # executed'[j]
               /\ \E k, l \in DOMAIN arrived :
                    k < l /\ arrived[k] = executed'[i] /\ arrived[l] = executed'[j]
    <3>1. i \in 1 .. n
      BY <2>1, <1>4
    <3>2. CASE j \in 1 .. n
      BY <3>1, <3>2, <2>1, <1>4 DEF IInv, ExecutedInOrder
    <3>3. CASE j = n + 1
      <4>1. PICK k \in 1 .. Accepted : arrived[k] = executed[i]
        BY <3>1 DEF IInv, ExecutedAccepted, n
      <4>2. executed[i] \in ToSet(executed)
        BY <3>1, <1>8
      <4>3. executed[i] # conn
        BY <4>2, <1>7
      <4>4. k # Accepted
        BY <4>1, <4>3, <1>6
      <4>5. k < Accepted /\ k \in DOMAIN arrived /\ Accepted \in DOMAIN arrived
        BY <4>4, <1>5, <1>6, <1>8
      <4> QED
        BY <4>1, <4>3, <4>5, <3>1, <3>3, <1>4, <1>6
    <3> QED
      BY <3>2, <3>3, <1>4
  <2> QED
    BY <2>1, <1>1, <1>4 DEF ExecutedInOrder
<1>15. NobodyAbandoned'
  BY <1>1 DEF IInv, NobodyAbandoned
<1>16. AnswerIsOwn'
  BY <1>1, <1>4 DEF IInv, AnswerIsOwn
<1> QED
  BY <1>9, <1>10, <1>11, <1>12, <1>13, <1>14, <1>15, <1>16 DEF IInv

(* An answer with chains is one to a SELECT, and its query was just executed. *)
LEMMA WriteIInv ==
  ASSUME IInv, Write
  PROVE  IInv'
<1>1. /\ pc = "write" /\ pc' = "read"
      /\ UNCHANGED <<conn, chains, executed, client, asks, queue, sent, closed, arrived>>
  BY DEF Write
<1>2. \A c \in replied' : c \in replied \/ (c = conn /\ chains)
  BY DEF Write
<1>3. conn \in Client
  BY <1>1 DEF IInv, TypeOK
<1>4. replied \subseteq Client
  BY DEF IInv, TypeOK
<1>5. replied' \subseteq Client
  BY <1>2, <1>3, <1>4
<1>6. TypeOK'
  BY <1>1, <1>5 DEF IInv, TypeOK
<1>7. QueueIsRest' /\ ExecutedAccepted' /\ ExecutedInOrder'
  BY <1>1, OrderUnchanged
<1>8. QueryInOnePlace'
  BY <1>1 DEF IInv, QueryInOnePlace
<1>9. ResultOfConn'
  BY <1>1 DEF ResultOfConn
<1>10. NobodyAbandoned'
  BY <1>1 DEF IInv, NobodyAbandoned
<1>11. AnswerIsOwn'
  <2>1. conn \in ToSet(executed) /\ (chains => asks[conn] = "select")
    BY <1>1 DEF IInv, ResultOfConn
  <2> QED
    BY <2>1, <1>1, <1>2 DEF IInv, AnswerIsOwn
<1> QED
  BY <1>6, <1>7, <1>8, <1>9, <1>10, <1>11 DEF IInv

(* The invariant speaks of the variables only. *)
LEMMA StutterIInv ==
  ASSUME IInv, UNCHANGED vars
  PROVE  IInv'
<1> USE DEF vars, IInv
<1>1. TypeOK'
  BY DEF TypeOK
<1>2. QueueIsRest' /\ ExecutedAccepted' /\ ExecutedInOrder'
  BY OrderUnchanged
<1>3. QueryInOnePlace' /\ ResultOfConn'
  BY DEF QueryInOnePlace, ResultOfConn
<1>4. NobodyAbandoned' /\ AnswerIsOwn'
  BY DEF NobodyAbandoned, AnswerIsOwn
<1> QED
  BY <1>1, <1>2, <1>3, <1>4

(* Every step preserves the invariant. *)
LEMMA NextIInv == IInv /\ [Next]_vars => IInv'
<1> SUFFICES ASSUME IInv, [Next]_vars PROVE IInv'
  OBVIOUS
<1>1. ASSUME NEW c \in Client, Connect(c) \/ Send(c) \/ Receive(c) \/ Lose(c) \/ Interrupt(c)
      PROVE  IInv'
  BY <1>1, ConnectIInv, SendIInv, ReceiveIInv, LoseIInv, InterruptIInv
<1>2. CASE Serve
  BY <1>2, AcceptIInv, ReadQueryIInv, ReadEndIInv, EndIInv, ExecuteIInv, WriteIInv
     DEF Serve
<1>3. CASE UNCHANGED vars
  BY <1>3, StutterIInv
<1> QED
  BY <1>1, <1>2, <1>3 DEF Next
--------------------------------------------------------------------------------
(* The inductive invariant holds of every reachable state. *)
THEOREM Inductive == Spec => []IInv
BY InitIInv, NextIInv, PTL DEF Spec

(* The fields of the state stay in their ranges: there is a connection exactly   *)
(* while the server works on one, and never more waiting than listen allows.     *)
THEOREM AlwaysTypeOK == Spec => []TypeOK
<1>1. IInv => TypeOK
  BY DEF IInv
<1> QED
  BY <1>1, Inductive, PTL

(* However many clients there are and whenever they connect, send and stop, the  *)
(* server executes their queries once each, in the order of connect.             *)
THEOREM AlwaysExecutedInOrder == Spec => []ExecutedInOrder
<1>1. IInv => ExecutedInOrder
  BY DEF IInv
<1> QED
  BY <1>1, Inductive, PTL

(* The server never turns away from a client that is still connected.            *)
THEOREM NobodyEverAbandoned == Spec => []NobodyAbandoned
<1>1. IInv => NobodyAbandoned
  BY DEF IInv
<1> QED
  BY <1>1, Inductive, PTL

(* No client is ever answered with the result of another query, or before its    *)
(* own was executed.                                                             *)
THEOREM AnswerAlwaysOwn == Spec => []AnswerIsOwn
<1>1. IInv => AnswerIsOwn
  BY DEF IInv
<1> QED
  BY <1>1, Inductive, PTL

--------------------------------------------------------------------------------
(* The service.  Where a client is, in its program and seen from the server: a   *)
(* query that has not been sent is nowhere, whatever the server does.            *)
ClientsInv ==
  \A c \in Client :
    /\ client[c] \in {"start", "connected", "waiting"} <=> closed[c] = "open"
    /\ client[c] = "start" => c \notin ToSet(arrived)
    /\ client[c] \in {"connected", "waiting"} => c \in ToSet(arrived)
    /\ client[c] \in {"start", "connected"} => c \notin Asked

(* A query is asked once, and stays asked. *)
LEMMA AskedBy ==
  ASSUME IInv, [Next]_vars
  PROVE  /\ \A c \in Client : Send(c) => Asked' = Asked \cup {c}
         /\ (\A c \in Client : ~Send(c)) => Asked' = Asked
<1>1. pc = "accept" <=> conn = None
  BY DEF IInv, TypeOK
<1>2. executed \in Seq(Client) /\ (conn # None => conn \in Client)
  BY DEF IInv, TypeOK
<1>3. ASSUME NEW c \in Client, Send(c) PROVE Asked' = Asked \cup {c}
  BY <1>3 DEF Send, server, Asked
<1>4. ASSUME NEW c \in Client, Connect(c) \/ Receive(c) \/ Lose(c) \/ Interrupt(c)
      PROVE  Asked' = Asked
  BY <1>4 DEF Connect, Receive, Lose, Interrupt, server, Asked
<1>5. ASSUME Accept PROVE Asked' = Asked
  BY <1>5 DEF Accept, Asked
<1>6. ASSUME ReadQuery PROVE Asked' = Asked
  BY <1>1, <1>2, <1>6 DEF ReadQuery, Asked
<1>7. ASSUME ReadEnd \/ ReadError PROVE Asked' = Asked
  BY <1>7 DEF ReadEnd, ReadError, sockets, Asked
<1>8. ASSUME Execute PROVE Asked' = Asked
  <2>1. ToSet(executed') = ToSet(executed) \cup {conn}
    BY <1>1, <1>2, <1>8, AppendFacts DEF Execute
  <2> QED
    BY <1>1, <1>2, <1>8, <2>1 DEF Execute, sockets, Asked
<1>9. ASSUME ExecuteForever \/ ExecuteExits PROVE Asked' = Asked
  BY <1>9 DEF ExecuteForever, ExecuteExits, sockets, Asked
<1>10. ASSUME Write PROVE Asked' = Asked
  BY <1>10 DEF Write, Asked
<1>11. ASSUME UNCHANGED vars PROVE Asked' = Asked
  BY <1>11 DEF vars, Asked
<1> QED
  BY <1>3, <1>4, <1>5, <1>6, <1>7, <1>8, <1>9, <1>10, <1>11 DEF Next, Serve

LEMMA InitClients == Init => ClientsInv
<1> SUFFICES ASSUME Init PROVE ClientsInv
  OBVIOUS
<1>1. ToSet(arrived) = {} /\ ToSet(executed) = {}
  BY DEF Init, ToSet
<1> QED
  BY <1>1 DEF Init, ClientsInv, Asked

LEMMA NextClients == IInv /\ ClientsInv /\ [Next]_vars => ClientsInv'
<1> SUFFICES ASSUME IInv, ClientsInv, [Next]_vars PROVE ClientsInv'
  OBVIOUS
<1>1. /\ client \in [Client -> {"start", "connected", "waiting", "done", "stopped", "lost"}]
      /\ closed \in [Client -> {"open", "ended", "reset"}] /\ arrived \in Seq(Client)
  BY DEF IInv, TypeOK
<1>2. ASSUME NEW c \in Client, Connect(c) PROVE ClientsInv'
  <2>1. ToSet(arrived') = ToSet(arrived) \cup {c}
    BY <1>1, <1>2, AppendFacts DEF Connect
  <2>2. Asked' = Asked /\ closed' = closed
    BY <1>2, AskedBy DEF Connect, Send
  <2> QED
    BY <1>1, <1>2, <2>1, <2>2 DEF Connect, ClientsInv
<1>3. ASSUME NEW c \in Client, Send(c) PROVE ClientsInv'
  <2>1. Asked' = Asked \cup {c}
    BY <1>3, AskedBy
  <2> QED
    BY <1>1, <1>3, <2>1 DEF Send, ClientsInv
<1>4. ASSUME NEW c \in Client, Receive(c) \/ Lose(c) \/ Interrupt(c) PROVE ClientsInv'
  <2>1. Asked' = Asked
    BY <1>4 DEF Receive, Lose, Interrupt, server, Asked
  <2> QED
    BY <1>1, <1>4, <2>1 DEF Receive, Lose, Interrupt, ClientsInv
<1>5. CASE Serve \/ UNCHANGED vars
  <2>1. client' = client /\ closed' = closed /\ arrived' = arrived
    BY <1>5 DEF Serve, Accept, ReadQuery, ReadEnd, ReadError, Execute, ExecuteForever, ExecuteExits,
       Write, sockets, vars
  <2>2. \A c \in Client : ~Send(c)
    BY <1>1, <2>1 DEF Send
  <2> QED
    BY <2>1, <2>2, AskedBy DEF ClientsInv
<1> QED
  BY <1>2, <1>3, <1>4, <1>5 DEF Next

(* Who is in the line. *)
LEMMA LineFacts ==
  ASSUME IInv
  PROVE  /\ conn = None => Line = queue
         /\ conn # None => Line # <<>> /\ Head(Line) = conn /\ Tail(Line) = queue
         /\ ToSet(Line) \subseteq ToSet(arrived)
         /\ \A c \in Client : c = conn \/ c \in ToSet(queue) => c \in ToSet(Line)
<1>1. queue \in Seq(Client) /\ (conn # None => conn \in Client) /\ None \notin Client
  BY NoneAssumption DEF IInv, TypeOK
<1>2. ToSet(queue) \subseteq ToSet(arrived) /\ (conn # None => conn \in ToSet(arrived))
  <2>1. /\ Accepted \in 0 .. Len(arrived) /\ Len(queue) \in Nat /\ Len(arrived) \in Nat
        /\ ToSet(arrived) = {arrived[i] : i \in 1 .. Len(arrived)}
        /\ ToSet(queue) = {queue[i] : i \in 1 .. Len(queue)}
        /\ Accepted = Len(arrived) - Len(queue)
    BY SequenceFacts DEF Accepted
  <2> HIDE DEF Accepted
  <2>2. \A i \in 1 .. Len(queue) : Accepted + i \in 1 .. Len(arrived)
    BY <2>1
  <2>3. ToSet(queue) \subseteq ToSet(arrived)
    BY <2>1, <2>2 DEF IInv, QueueIsRest
  <2>4. conn # None => Accepted > 0 /\ arrived[Accepted] = conn
    BY DEF IInv, QueueIsRest
  <2>5. conn # None => conn \in ToSet(arrived)
    <3> SUFFICES ASSUME conn # None PROVE conn \in ToSet(arrived)
      OBVIOUS
    <3>1. Accepted \in 1 .. Len(arrived) /\ arrived[Accepted] = conn
      BY <2>1, <2>4
    <3> QED
      BY <2>1, <3>1
  <2> QED
    BY <2>3, <2>5
<1>3. CASE conn = None
  BY <1>1, <1>2, <1>3 DEF Line
<1>4. CASE conn # None
  <2> DEFINE u == <<conn>>
             s == u \o queue
  <2>1. /\ u \in Seq(Client) /\ Len(u) = 1 /\ s \in Seq(Client) /\ Len(s) = Len(queue) + 1
        /\ s[1] = conn /\ Head(s) = conn /\ Tail(s) = queue /\ s # <<>>
    BY <1>1, <1>4
  <2>2. Line = s
    BY <1>4 DEF Line
  <2> HIDE DEF u, s
  <2>3. ToSet(s) = ToSet(queue) \cup {conn}
    BY <2>1, TailFacts
  <2> QED
    BY <1>2, <1>4, <2>1, <2>2, <2>3
<1> QED
  BY <1>3, <1>4

(* Every step of the program is one of the service, or none.                     *)
LEMMA ServiceInit == Init => Service!Init
<1> SUFFICES ASSUME Init PROVE Service!Init
  OBVIOUS
<1>1. Line = <<>> /\ Asked = {} /\ executed = <<>>
  BY DEF Init, ToSet, Asked, Line
<1>2. Answered = {} /\ Gone = {}
  BY DEF Init, Answered, Gone
<1> QED
  BY <1>1, <1>2 DEF Service!Init

LEMMA ServiceNext ==
  IInv /\ IInv' /\ ClientsInv /\ [Next]_vars => [Service!Next]_Service!vars
<1> SUFFICES ASSUME IInv, IInv', ClientsInv, [Next]_vars
             PROVE  [Service!Next]_<<Line, Asked, executed, Answered, Gone>>
  BY DEF Service!vars
<1>0. /\ client \in [Client -> {"start", "connected", "waiting", "done", "stopped", "lost"}]
      /\ closed \in [Client -> {"open", "ended", "reset"}] /\ queue \in Seq(Client)
      /\ conn \in Client \cup {None} /\ (conn = None <=> pc = "accept") /\ None \notin Client
      /\ replied \subseteq Client
  BY NoneAssumption DEF IInv, TypeOK
<1>sets. \A s : Service!ToSet(s) = ToSet(s)
  BY DEF ToSet, Service!ToSet
<1>1. UNCHANGED <<conn, queue>> => Line' = Line
  BY DEF Line
<1>2. UNCHANGED <<client, replied, closed>> => Answered' = Answered /\ Gone' = Gone
  BY DEF Answered, Gone
<1>3. (\A c \in Client : ~Send(c)) => Asked' = Asked
  BY AskedBy
<1>4. ASSUME NEW c \in Client, Connect(c) PROVE Service!Come(c)
  <2>1. /\ client[c] = "start" /\ queue' = Append(queue, c)
        /\ UNCHANGED <<conn, executed, closed, replied>>
        /\ client' = [client EXCEPT ![c] = "connected"]
    BY <1>4 DEF Connect, server
  <2>2. Asked' = Asked
    BY <1>4, AskedBy DEF Connect, Send
  <2>3. Answered' = Answered /\ Gone' = Gone
    BY <1>0, <2>1 DEF Answered, Gone
  <2>4. Line' = Append(Line, c)
    BY <1>0, <2>1 DEF Line
  <2>5. c \notin ToSet(Line) /\ c \notin Asked /\ c \notin Gone
    BY <2>1, LineFacts DEF ClientsInv, Gone
  <2> QED
    BY <1>sets, <2>1, <2>2, <2>3, <2>4, <2>5 DEF Service!Come
<1>5. ASSUME NEW c \in Client, Send(c) PROVE Service!Ask(c)
  <2>1. /\ client[c] = "connected" /\ UNCHANGED <<conn, queue, executed, closed, replied>>
        /\ client' = [client EXCEPT ![c] = "waiting"]
    BY <1>5 DEF Send, server
  <2>2. Asked' = Asked \cup {c} /\ Line' = Line
    BY <1>1, <1>5, <2>1, AskedBy
  <2>3. Answered' = Answered /\ Gone' = Gone
    BY <1>0, <2>1 DEF Answered, Gone
  <2>4. c \in ToSet(Line) /\ c \notin Asked /\ c \notin Gone
    BY <2>1, LineFacts DEF ClientsInv, Gone, IInv, NobodyAbandoned
  <2> QED
    BY <1>sets, <2>1, <2>2, <2>3, <2>4 DEF Service!Ask
<1>6. ASSUME NEW c \in Client, Receive(c) \/ Lose(c) \/ Interrupt(c) PROVE Service!Go(c)
  <2>1. /\ client[c] \in {"start", "connected", "waiting"} /\ UNCHANGED <<server, queue, executed>>
        /\ Gone' = Gone \cup {c}
    BY <1>0, <1>6 DEF Receive, Lose, Interrupt, server, Gone
  <2>2. Asked' = Asked /\ Line' = Line
    BY <1>6 DEF Receive, Lose, Interrupt, server, Asked, Line
  <2>3. Answered' = Answered
    BY <1>0, <1>6 DEF Receive, Lose, Interrupt, Answered
  <2>4. c \notin Gone
    BY <2>1 DEF ClientsInv, Gone
  <2> QED
    BY <2>1, <2>2, <2>3, <2>4 DEF Service!Go
<1>7. CASE Serve
  <2>1. client' = client /\ closed' = closed /\ Gone' = Gone
    BY <1>7 DEF Serve, Accept, ReadQuery, ReadEnd, ReadError, Execute, ExecuteForever, ExecuteExits,
       Write, sockets, Gone
  <2>2. Asked' = Asked
    BY <1>0, <1>3, <2>1 DEF Send
  <2>3. CASE Accept
    <3>1. queue # <<>> /\ conn = None /\ conn' = Head(queue) /\ queue' = Tail(queue)
      BY <1>0, <2>3 DEF Accept
    <3>2. Head(queue) \in Client /\ <<Head(queue)>> \o Tail(queue) = queue
      BY <1>0, <3>1
    <3>3. Line' = Line
      BY <1>0, <3>1, <3>2 DEF Line
    <3> QED
      BY <1>2, <2>1, <2>2, <2>3, <3>3 DEF Accept
  <2>4. CASE ReadQuery \/ ReadError \/ ExecuteForever \/ ExecuteExits
    BY <1>1, <1>2, <2>1, <2>2, <2>4 DEF ReadQuery, ReadError, ExecuteForever, ExecuteExits, sockets
  <2>5. CASE ReadEnd
    <3>1. /\ conn # None /\ conn \notin sent /\ closed[conn] = "ended" /\ pc = "read"
          /\ conn' = None /\ UNCHANGED <<executed, queue, replied>>
      BY <1>0, <2>5 DEF ReadEnd, sockets
    <3>2. Line # <<>> /\ Head(Line) = conn /\ Line' = Tail(Line)
      BY <3>1, LineFacts DEF Line
    <3>3. conn \in Gone /\ (conn \in Asked => conn \in ToSet(executed))
      BY <1>0, <3>1 DEF Gone, Asked
    <3>4. Service!Turn
      BY <1>sets, <1>2, <2>1, <2>2, <3>1, <3>2, <3>3 DEF Service!Turn
    <3> QED
      BY <3>4 DEF Service!Next
  <2>6. CASE Execute
    <3>1. /\ conn # None /\ pc = "execute" /\ executed' = Append(executed, conn)
          /\ UNCHANGED <<conn, queue, replied>>
      BY <1>0, <2>6 DEF Execute, sockets
    <3>2. Line # <<>> /\ Head(Line) = conn /\ Line' = Line
      BY <1>1, <3>1, LineFacts
    <3>3. conn \in Asked /\ conn \notin ToSet(executed)
      BY <1>0, <3>1 DEF Asked, IInv, QueryInOnePlace
    <3>4. Service!Do
      BY <1>sets, <1>2, <2>1, <2>2, <3>1, <3>2, <3>3 DEF Service!Do
    <3> QED
      BY <3>4 DEF Service!Next
  <2>7. CASE Write
    <3>1. /\ conn # None /\ pc = "write" /\ UNCHANGED <<conn, queue, executed>>
          /\ replied' = IF chains /\ closed[conn] = "open" THEN replied \cup {conn} ELSE replied
      BY <1>0, <2>7 DEF Write
    <3>2. Line # <<>> /\ Head(Line) = conn /\ Line' = Line
      BY <1>1, <3>1, LineFacts
    <3>3. conn \in ToSet(executed)
      BY <3>1 DEF IInv, ResultOfConn
    <3>4. CASE Answered' = Answered
      BY <2>1, <2>2, <3>1, <3>2, <3>4
    <3>5. CASE Answered' # Answered
      <4>1. /\ closed[conn] = "open" /\ replied' = replied \cup {conn}
            /\ Answered' = Answered \cup {conn} /\ conn \notin Answered
        BY <2>1, <3>1, <3>5 DEF Answered
      <4>2. conn \notin Gone
        BY <4>1 DEF Gone
      <4>3. Service!Answer
        BY <1>sets, <2>1, <2>2, <3>1, <3>2, <3>3, <4>1, <4>2 DEF Service!Answer
      <4> QED
        BY <4>3 DEF Service!Next
    <3> QED
      BY <3>4, <3>5
  <2> QED
    BY <1>7, <2>3, <2>4, <2>5, <2>6, <2>7 DEF Serve
<1>8. CASE UNCHANGED vars
  <2>1. Asked' = Asked
    BY <1>8 DEF vars, Asked
  <2> QED
    BY <1>1, <1>2, <1>8, <2>1 DEF vars
<1> QED
  BY <1>4, <1>5, <1>6, <1>7, <1>8 DEF Next, Service!Next

(* However many clients there are, and whatever they do at whatever point of the *)
(* loop: the server is the line of QueryService.  A query that was sent is done  *)
(* once, in its turn, before the server turns away, and answered after that.     *)
THEOREM AlwaysImplementsService == Spec => ImplementsService
<1>1. Init => ClientsInv
  BY InitClients
<1>2. Spec => []ClientsInv
  BY <1>1, NextClients, Inductive, PTL DEF Spec
<1> QED
  BY <1>2, Inductive, ServiceInit, ServiceNext, PTL DEF Spec, ImplementsService, Service!Spec
================================================================================
