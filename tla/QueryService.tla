------------------------------ MODULE QueryService ------------------------------
(* What Lab3/server/main.c offers the clients that connect to it, without the    *)
(* sockets and the loop: a line in which every client has one query.  The server *)
(* turns to the next client only when the first has gone, and not before a query *)
(* that was asked is done.  QueryServer is shown to implement this module.       *)
EXTENDS Sequences, SequencesExt

CONSTANT Client

VARIABLES
  line,      \* the clients that have come and are not done with, in their order
  asked,     \* the clients that have asked
  done,      \* those whose queries are done, in the order they were
  answered,  \* those with an answer
  gone       \* those that are not there any more

vars == <<line, asked, done, answered, gone>>

Init == line = <<>> /\ asked = {} /\ done = <<>> /\ answered = {} /\ gone = {}

Come(c) ==
  /\ c \notin ToSet(line) \cup asked \cup gone
  /\ line' = Append(line, c)
  /\ UNCHANGED <<asked, done, answered, gone>>

(* A client asks once, and need not wait for its turn. *)
Ask(c) ==
  /\ c \in ToSet(line) \ (asked \cup gone)
  /\ asked' = asked \cup {c}
  /\ UNCHANGED <<line, done, answered, gone>>

(* The query of the first in the line is done once, also if its client has gone. *)
Do ==
  /\ line # <<>> /\ Head(line) \in asked \ ToSet(done)
  /\ done' = Append(done, Head(line))
  /\ UNCHANGED <<line, asked, answered, gone>>

(* Only then is it answered, if its client is still there. *)
Answer ==
  /\ line # <<>> /\ Head(line) \in ToSet(done) \ (answered \cup gone)
  /\ answered' = answered \cup {Head(line)}
  /\ UNCHANGED <<line, asked, done, gone>>

Go(c) ==
  /\ c \notin gone
  /\ gone' = gone \cup {c}
  /\ UNCHANGED <<line, asked, done, answered>>

Turn ==
  /\ line # <<>> /\ Head(line) \in gone
  /\ Head(line) \in asked => Head(line) \in ToSet(done)
  /\ line' = Tail(line)
  /\ UNCHANGED <<asked, done, answered, gone>>

Next == Do \/ Answer \/ Turn \/ \E c \in Client : Come(c) \/ Ask(c) \/ Go(c)

Spec == Init /\ [][Next]_vars
================================================================================
