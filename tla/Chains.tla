--------------------------------- MODULE Chains ---------------------------------
(* The loops of Lab1/solution/src that follow a list from record to record until *)
(* the address is 0.  link gives for each address the one that is read from the  *)
(* record there, item what the loop takes from the record.  The length of a loop *)
(* is not known before it has run, so that a walk is cut after as many steps as  *)
(* there are addresses: only a walk on a cycle gets that far.                    *)
EXTENDS Integers, Sequences, FiniteSets

(* Walk(link, item)[left][x]: what a loop takes from x on, in left steps.        *)
Walk(link, item) ==
  LET walk[left \in Nat] ==
        [x \in DOMAIN link |->
           IF x = 0 \/ left = 0 THEN <<>> ELSE item[x] \o walk[left - 1][link[x]]]
  IN  walk

(* What is taken from the records from a on, joined. *)
Gather(link, item, a) == Walk(link, item)[Cardinality(DOMAIN link)][a]

(* The addresses met from a on, in order. *)
Chain(link, a) == Gather(link, [x \in DOMAIN link |-> <<x>>], a)
================================================================================
