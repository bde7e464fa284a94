------------------------------ MODULE QueryServer ------------------------------
(* The connection loop of Lab3/server/main.c and the clients of                  *)
(* Lab3/client/main.cpp.  The server is one thread: it talks to one connection   *)
(* until the client closes it, and only then accepts the next one.  A client     *)
(* sends one query, waits in one recv for the answer, and exits.                 *)
(*                                                                               *)
(* The sockets are external: a connection is accepted from the queue of listen   *)
(* in the order of connect, a query and an answer arrive whole and in order, and *)
(* closing with an unread answer resets the connection.  Messages fit the        *)
(* buffers of BUFFER_SIZE bytes on both sides.  What executing a query does is   *)
(* in QueryEval: here it ends, never ends, or ends the server.                   *)
EXTENDS Naturals, Sequences, SequencesExt

CONSTANTS Client,   \* the runs of the client program
          Backlog,  \* the length of the queue of listen
          None      \* no client

ASSUME BacklogAssumption == Backlog \in Nat \ {0}
ASSUME NoneAssumption == None \notin Client

VARIABLES
  pc,        \* what the server does next
  conn,      \* the client at the other end of conn_fd
  chains,    \* result.n_chains # 0: the packed result has at least one byte
  queue,     \* the connections established and not accepted
  client,    \* client[c]: where the client program is
  asks,      \* asks[c]: "select", or "change" for INSERT, DELETE and MODIFY
  sent,      \* the clients whose query is in the socket, not read by the server
  replied,   \* the clients whose answer is in the socket, not read by the client
  closed,    \* closed[c]: how the client's end was closed, "open" if it was not
  (* The following are auxiliary. *)
  arrived,   \* the clients in the order of their connect
  executed   \* the clients in the order in which the server executed their queries

vars == <<pc, conn, chains, queue, client, asks, sent, replied, closed, arrived, executed>>

server == <<pc, conn, chains, executed>>
sockets == <<queue, sent, replied, closed, arrived>>

Init ==
  /\ pc = "accept" /\ conn = None /\ chains = FALSE
  /\ queue = <<>>
  /\ client = [c \in Client |-> "start"]
  /\ asks \in [Client -> {"select", "change"}]
  /\ sent = {} /\ replied = {}
  /\ closed = [c \in Client |-> "open"]
  /\ arrived = <<>> /\ executed = <<>>
--------------------------------------------------------------------------------
(* connect waits while the queue of listen is full. *)
Connect(c) ==
  /\ client[c] = "start" /\ pc # "down" /\ Len(queue) < Backlog
  /\ client' = [client EXCEPT ![c] = "connected"]
  /\ queue' = Append(queue, c)
  /\ arrived' = Append(arrived, c)
  /\ UNCHANGED <<server, asks, sent, replied, closed>>

(* send does not wait for the server to accept the connection. *)
Send(c) ==
  /\ client[c] = "connected" /\ pc # "down"
  /\ client' = [client EXCEPT ![c] = "waiting"]
  /\ sent' = sent \cup {c}
  /\ UNCHANGED <<server, asks, queue, replied, closed, arrived>>

(* recv returns once there is at least one byte; then the client closes. *)
Receive(c) ==
  /\ client[c] = "waiting" /\ c \in replied
  /\ client' = [client EXCEPT ![c] = "done"]
  /\ replied' = replied \ {c}
  /\ closed' = [closed EXCEPT ![c] = "ended"]
  /\ UNCHANGED <<server, asks, queue, sent, arrived>>

(* After the server's exit: connect and send fail, recv returns 0 or fails. *)
Lose(c) ==
  /\ pc = "down" /\ client[c] \in {"start", "connected", "waiting"} /\ c \notin replied
  /\ client' = [client EXCEPT ![c] = "lost"]
  /\ closed' = [closed EXCEPT ![c] = "ended"]
  /\ UNCHANGED <<server, asks, queue, sent, replied, arrived>>

(* The user stops a client that is connected. *)
Interrupt(c) ==
  /\ client[c] \in {"connected", "waiting"}
  /\ client' = [client EXCEPT ![c] = "stopped"]
  /\ closed' = [closed EXCEPT ![c] = IF c \in replied THEN "reset" ELSE "ended"]
  /\ UNCHANGED <<server, asks, queue, sent, replied, arrived>>
--------------------------------------------------------------------------------
Accept ==
  /\ pc = "accept" /\ queue # <<>>
  /\ conn' = Head(queue)
  /\ queue' = Tail(queue)
  /\ pc' = "read"
  /\ UNCHANGED <<chains, executed, client, asks, sent, replied, closed, arrived>>

(* Mutant of ReadQuery: the query stays in the socket. *)
ReadQueryAgain ==
  /\ pc = "read" /\ conn \in sent
  /\ pc' = "execute"
  /\ UNCHANGED <<conn, chains, executed, sockets, client, asks>>

(* read: a query, also one its client no longer waits for, ... *)
ReadQuery ==
  /\ pc = "read" /\ conn \in sent
  /\ sent' = sent \ {conn}
  /\ pc' = "execute"
  /\ UNCHANGED <<conn, chains, executed, client, asks, queue, replied, closed, arrived>>

(* Mutant of ReadEnd: what was sent before the end is not read. *)
ReadEndEarly ==
  /\ pc = "read" /\ closed[conn] = "ended"
  /\ conn' = None
  /\ pc' = "accept"
  /\ UNCHANGED <<chains, executed, sockets, client, asks>>

(* Mutant of ReadEnd: the server goes to accept with the old connection at hand. *)
ReadEndKeeps ==
  /\ pc = "read" /\ conn \notin sent /\ closed[conn] = "ended"
  /\ pc' = "accept"
  /\ UNCHANGED <<conn, chains, executed, sockets, client, asks>>

(* ... 0 at the end of the connection, also of one an answer was written to after *)
(* its client had closed, ...                                                    *)
ReadEnd ==
  /\ pc = "read" /\ conn \notin sent /\ closed[conn] = "ended"
  /\ conn' = None
  /\ pc' = "accept"
  /\ UNCHANGED <<chains, executed, sockets, client, asks>>

(* ... or -1 after a reset, which passes for the length of a query: what the     *)
(* server does with the buffer is not defined.                                   *)
ReadError ==
  /\ pc = "read" /\ conn \notin sent /\ closed[conn] = "reset"
  /\ pc' = "astray"
  /\ UNCHANGED <<conn, chains, executed, sockets, client, asks>>

(* Mutant of Execute: the result of the query before is not cleared. *)
ExecuteStale ==
  /\ pc = "execute"
  /\ chains' \in IF asks[conn] = "select" THEN BOOLEAN ELSE {chains}
  /\ executed' = Append(executed, conn)
  /\ pc' = "write"
  /\ UNCHANGED <<conn, sockets, client, asks>>

(* parse_query or update_query; dump_relationships adds chains for SELECT only.  *)
Execute ==
  /\ pc = "execute"
  /\ chains' \in IF asks[conn] = "select" THEN BOOLEAN ELSE {FALSE}
  /\ executed' = Append(executed, conn)
  /\ pc' = "write"
  /\ UNCHANGED <<conn, sockets, client, asks>>

(* dump_relationships may go round for ever, with a SELECT (QueryEval.DumpLoops),*)
(* ...                                                                           *)
ExecuteForever ==
  /\ pc = "execute" /\ asks[conn] = "select"
  /\ pc' = "looping"
  /\ UNCHANGED <<conn, chains, executed, sockets, client, asks>>

(* ... and exit_with_error ends the process at a null value (QueryEval.Exit).     *)
ExecuteExits ==
  /\ pc = "execute"
  /\ pc' = "down"
  /\ UNCHANGED <<conn, chains, executed, sockets, client, asks>>

(* Mutant of Write: the server takes the next connection after one answer. *)
WriteAndAccept ==
  /\ pc = "write"
  /\ replied' = IF chains /\ closed[conn] = "open" THEN replied \cup {conn} ELSE replied
  /\ pc' = "accept"
  /\ conn' = None
  /\ UNCHANGED <<chains, executed, client, asks, queue, sent, closed, arrived>>

(* Mutant of Write: nothing is written. *)
WriteNothing ==
  /\ pc = "write"
  /\ pc' = "read"
  /\ UNCHANGED <<conn, chains, executed, sockets, client, asks>>

(* write: a result without chains packs to 0 bytes, and a write of 0 bytes sends *)
(* nothing.                                                                      *)
Write ==
  /\ pc = "write"
  /\ replied' = IF chains /\ closed[conn] = "open" THEN replied \cup {conn} ELSE replied
  /\ pc' = "read"
  /\ UNCHANGED <<conn, chains, executed, client, asks, queue, sent, closed, arrived>>

Serve ==
  Accept \/ ReadQuery \/ ReadEnd \/ ReadError
    \/ Execute \/ ExecuteForever \/ ExecuteExits \/ Write

Next ==
  \/ Serve
  \/ \E c \in Client : Connect(c) \/ Send(c) \/ Receive(c) \/ Lose(c) \/ Interrupt(c)

(* Both programs take the steps that do not block. *)
Fairness ==
  /\ WF_vars(Serve)
  /\ \A c \in Client : WF_vars(Connect(c) \/ Send(c) \/ Receive(c) \/ Lose(c))

(* A user stops a client that is served and hangs, its query having no result.   *)
Patience ==
  \A c \in Client :
    WF_vars(Interrupt(c) /\ conn = c /\ pc = "read" /\ c \in ToSet(executed) /\ ~chains)

Spec == Init /\ [][Next]_vars /\ Fairness
AttendedSpec == Spec /\ Patience
--------------------------------------------------------------------------------
(* Types.  A connection is at hand exactly while the server is not in accept.    *)
TypeOK ==
  /\ pc \in {"accept", "read", "execute", "write", "astray", "looping", "down"}
  /\ conn \in Client \cup {None} /\ (conn = None <=> pc = "accept")
  /\ chains \in BOOLEAN
  /\ queue \in Seq(Client)
  /\ client \in [Client -> {"start", "connected", "waiting", "done", "stopped", "lost"}]
  /\ asks \in [Client -> {"select", "change"}]
  /\ sent \subseteq Client /\ replied \subseteq Client
  /\ closed \in [Client -> {"open", "ended", "reset"}]
  /\ arrived \in Seq(Client) /\ executed \in Seq(Client)

(* The queries are executed in the order in which their clients connected, each  *)
(* once, though clients send and stop in any order, before or after their        *)
(* connection is accepted.                                                       *)
ExecutedInOrder ==
  \A i, j \in DOMAIN executed :
    i < j => /\ executed[i] # executed[j]
             /\ \E k, l \in DOMAIN arrived :
                  k < l /\ arrived[k] = executed[i] /\ arrived[l] = executed[j]

(* As long as it runs, the server leaves a connection only after its client      *)
(* closed it: a client that is still there is being served or in the queue.      *)
NobodyAbandoned ==
  \A c \in ToSet(arrived) : closed[c] = "open" => c = conn \/ c \in ToSet(queue)

(* A client is answered only with a result the server computed for its query.    *)
AnswerIsOwn ==
  \A c \in Client :
    c \in replied \/ client[c] = "done" => asks[c] = "select" /\ c \in ToSet(executed)

(* A result with chains that was computed while the client waits reaches it.     *)
AnswerArrives ==
  \A c \in Client :
    (conn = c /\ pc = "write" /\ chains) ~> client[c] \in {"done", "stopped"}

(* As long as users stop the clients that hang, every query that was sent is     *)
(* executed, also after its client has stopped, unless the query before it (or   *)
(* itself) never ended or ended the server, or the server took the error of read *)
(* for a query: nothing else keeps a query from being executed.                  *)
SentIsExecuted ==
  \A c \in Client :
    c \in sent ~> (c \in ToSet(executed) \/ pc \in {"astray", "looping", "down"})

(* test.py:33, "output.wait()": the test waits for the end of each client it     *)
(* starts, so a client whose query was executed ends without being stopped.      *)
ClientEnds ==
  \A c \in Client :
    client[c] = "waiting" /\ c \in ToSet(executed) ~> client[c] \in {"done", "stopped", "lost"}

--------------------------------------------------------------------------------
(* The connection the server works on, and those in the queue of listen. *)
Line == IF conn = None THEN queue ELSE <<conn>> \o queue

(* The clients whose query has left them, wherever it is. *)
Asked ==
  sent \cup ToSet(executed)
    \cup {c \in Client : conn = c /\ pc \in {"execute", "looping", "down"}}

Answered == replied \cup {c \in Client : client[c] = "done"}

Gone == {c \in Client : closed[c] # "open"}

Service == INSTANCE QueryService WITH
  line <- Line, asked <- Asked, done <- executed, answered <- Answered, gone <- Gone

(* Whatever clients do at whatever point of the loop, the server is the line of  *)
(* QueryService: first come, first served; a query that was sent is executed once*)
(* before the server turns away, and an answer comes after that, to a client     *)
(* that is still there.                                                          *)
ImplementsService == Service!Spec
================================================================================
