------------------------------- MODULE BlockPool -------------------------------
(* What the block allocator of Lab1/solution/src/backend.c promises the layer   *)
(* above it, with the free lists abstracted to sets.  A block is, at any time,  *)
(* in use, available for reuse by its own size class, in transit between the    *)
(* two, or lost for good.  BlockStore is shown to implement this module.        *)
EXTENDS Naturals

CONSTANTS Class,      \* the size classes of enum free_space_type
          MaxBlocks   \* bound: the largest number of blocks in the file

VARIABLES size,   \* blocks 1..size exist
          avail,  \* avail[c]: the blocks of class c that may be handed out again
          used,   \* the blocks the callers hold
          busy    \* the block being handed out or taken back, 0 if there is none

vars == <<size, avail, used, busy>>

Init ==
  /\ size = 0
  /\ avail = [c \in Class |-> {}]
  /\ used = {}
  /\ busy = 0

(* The file grows only when the class has nothing to reuse. *)
Grow(c) ==
  /\ busy = 0 /\ avail[c] = {} /\ size < MaxBlocks
  /\ size' = size + 1
  /\ used' = used \cup {size + 1}
  /\ UNCHANGED <<avail, busy>>

(* Some available block of the class is handed out; its contents come next. *)
Reuse(c) ==
  /\ busy = 0
  /\ \E b \in avail[c] :
       /\ avail' = [avail EXCEPT ![c] = @ \ {b}]
       /\ busy' = b
  /\ UNCHANGED <<size, used>>

Fill ==
  /\ busy # 0
  /\ used' = used \cup {busy}
  /\ busy' = 0
  /\ UNCHANGED <<size, avail>>

Release(b) ==
  /\ busy = 0 /\ b \in used
  /\ used' = used \ {b}
  /\ busy' = b
  /\ UNCHANGED <<size, avail>>

Retire(c) ==
  /\ busy # 0
  /\ avail' = [avail EXCEPT ![c] = @ \cup {busy}]
  /\ busy' = 0
  /\ UNCHANGED <<size, used>>

(* A crash loses at most the one block in transit. *)
Lose ==
  /\ busy' = 0
  /\ UNCHANGED <<size, avail, used>>

Next ==
  \/ \E c \in Class : Grow(c) \/ Reuse(c) \/ Retire(c)
  \/ \E b \in used : Release(b)
  \/ Fill
  \/ Lose

Spec == Init /\ [][Next]_vars
================================================================================
