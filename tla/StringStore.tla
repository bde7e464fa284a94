------------------------------ MODULE StringStore ------------------------------
(* What dynamic_store_write_chain, dynamic_store_read_chain and dynamic_store_-  *)
(* remove of backend.h promise: a string is there, under an address of its own   *)
(* and with the bytes it was written with, until it is removed, whatever other   *)
(* calls do or fail to do.  ChunkChain is shown to implement this module.        *)
EXTENDS FiniteSets

CONSTANTS Strings, Addresses

VARIABLE strings  \* the strings that are there: a function on their addresses

Init == strings = [a \in {} |-> <<>>]

Put(a, s) ==
  /\ a \notin DOMAIN strings
  /\ strings' = [x \in DOMAIN strings \cup {a} |-> IF x = a THEN s ELSE strings[x]]

Drop(a) ==
  /\ a \in DOMAIN strings
  /\ strings' = [x \in DOMAIN strings \ {a} |-> strings[x]]

Next == \E a \in Addresses : Drop(a) \/ \E s \in Strings : Put(a, s)

Spec == Init /\ [][Next]_strings
================================================================================
