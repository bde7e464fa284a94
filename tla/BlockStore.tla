------------------------------ MODULE BlockStore -------------------------------
(* The block allocator of Lab1/solution/src/backend.c: get_available_space,      *)
(* remove_data and free_space_write, over the free lists threaded through the    *)
(* released blocks of the data file.                                             *)
(*                                                                               *)
(* A block is named by its ordinal in the file: blocks are only ever appended,   *)
(* never moved, split or merged, so the ordinal stands for the byte address and  *)
(* 0, the address of the file header, stays the null address.  A step is one     *)
(* write to the file together with the changes of file_.metadata made since the  *)
(* write before it.  Each such write is flushed (file.c, static_store_write), so *)
(* what is written survives a crash of the process and file_.metadata does not.  *)
EXTENDS Naturals, Sequences

CONSTANTS Class,      \* the size classes of enum free_space_type
          MaxBlocks,  \* bound: the largest number of blocks in the file
          Data        \* what a block holds when it is not a free_space record

ASSUME ClassAssumption == Class # {}
ASSUME MaxBlocksAssumption == MaxBlocks \in Nat
ASSUME DataAssumption == Data \notin Nat

Block == 1 .. MaxBlocks
Addr  == 0 .. MaxBlocks

VARIABLES
  size,   \* the number of blocks in the file
  next,   \* next[b]: next_addr of the free_space record in block b, else Data
  head,   \* file_.metadata.first_free_*_addr, one for each class
  dhead,  \* the same two fields in the header of the file
  op,     \* the operation under way: a block popped and not yet written
          \* ("write"), or a block whose free_space record is written and whose
          \* list head is not yet saved ("link")
  (* The following are auxiliary: the code stores them nowhere. *)
  class,  \* class[b]: the size class block b was made for
  free,   \* free[c]: the released blocks of class c, the latest one last
  held,   \* the blocks callers got and have not passed to remove_data
  lost    \* the blocks a crash left neither held nor on a list

vars == <<size, next, head, dhead, op, class, free, held, lost>>

Idle == [kind |-> "idle", at |-> 0]

(* The block the operation under way works on. *)
InTransit == {op.at} \ {0}

(* backend_start on an empty file. *)
Init ==
  /\ size = 0
  /\ next = [b \in Block |-> Data]
  /\ head = [c \in Class |-> 0]
  /\ dhead = [c \in Class |-> 0]
  /\ op = Idle
  /\ class = [b \in Block |-> CHOOSE c \in Class : TRUE]
  /\ free = [c \in Class |-> <<>>]
  /\ held = {}
  /\ lost = {}

(* Mutant of Extend: the test of the list head is dropped. *)
ExtendAlways(c) ==
  /\ op = Idle /\ size < MaxBlocks
  /\ size' = size + 1
  /\ next' = [next EXCEPT ![size + 1] = Data]
  /\ class' = [class EXCEPT ![size + 1] = c]
  /\ held' = held \cup {size + 1}
  /\ UNCHANGED <<head, dhead, op, free, lost>>

(* get_available_space with an empty list: the address is the end of the file,   *)
(* nothing is reserved, and the caller's write of the block extends the file.    *)
Extend(c) ==
  /\ op = Idle /\ head[c] = 0 /\ size < MaxBlocks
  /\ size' = size + 1
  /\ next' = [next EXCEPT ![size + 1] = Data]
  /\ class' = [class EXCEPT ![size + 1] = c]
  /\ held' = held \cup {size + 1}
  /\ UNCHANGED <<head, dhead, op, free, lost>>

(* Mutant of Pop: the metadata is saved before the list head moves. *)
PopSavesFirst(c) ==
  /\ op = Idle /\ head[c] # 0
  /\ head' = [head EXCEPT ![c] = next[head[c]]]
  /\ dhead' = head
  /\ op' = [kind |-> "write", at |-> head[c]]
  /\ free' = [free EXCEPT ![c] = SubSeq(@, 1, Len(@) - 1)]
  /\ UNCHANGED <<size, next, class, held, lost>>

(* get_available_space with a free block: unlink the first one and save the      *)
(* metadata; the caller has not written the block yet.                           *)
Pop(c) ==
  /\ op = Idle /\ head[c] # 0
  /\ head' = [head EXCEPT ![c] = next[head[c]]]
  /\ dhead' = head'
  /\ op' = [kind |-> "write", at |-> head[c]]
  /\ free' = [free EXCEPT ![c] = SubSeq(@, 1, Len(@) - 1)]
  /\ UNCHANGED <<size, next, class, held, lost>>

(* The caller's write of the block it was given: node_write, property_write,     *)
(* relationship_write or dynamic_store_write_.                                   *)
WriteBlock ==
  /\ op.kind = "write"
  /\ next' = [next EXCEPT ![op.at] = Data]
  /\ held' = held \cup {op.at}
  /\ op' = Idle
  /\ UNCHANGED <<size, head, dhead, class, free, lost>>

(* Mutant of LinkFree: the head moves before the old head is stored. *)
LinkFreeSwapped(b) ==
  /\ op = Idle /\ b \in held
  /\ head' = [head EXCEPT ![class[b]] = b]
  /\ next' = [next EXCEPT ![b] = head'[class[b]]]
  /\ held' = held \ {b}
  /\ op' = [kind |-> "link", at |-> b]
  /\ UNCHANGED <<size, dhead, class, free, lost>>

(* Mutant of LinkFree: the free_space record is not written. *)
LinkFreeUnwritten(b) ==
  /\ op = Idle /\ b \in held
  /\ head' = [head EXCEPT ![class[b]] = b]
  /\ held' = held \ {b}
  /\ op' = [kind |-> "link", at |-> b]
  /\ UNCHANGED <<size, next, dhead, class, free, lost>>

(* remove_data, first write: the record that links the block in front of the     *)
(* list.  The size passed is the one the block was made with.                    *)
LinkFree(b) ==
  /\ op = Idle /\ b \in held
  /\ next' = [next EXCEPT ![b] = head[class[b]]]
  /\ head' = [head EXCEPT ![class[b]] = b]
  /\ held' = held \ {b}
  /\ op' = [kind |-> "link", at |-> b]
  /\ UNCHANGED <<size, dhead, class, free, lost>>

(* Mutant of SaveHead: update_metadata_ is not called. *)
SaveHeadSkipped ==
  /\ op.kind = "link"
  /\ free' = [free EXCEPT ![class[op.at]] = Append(@, op.at)]
  /\ op' = Idle
  /\ UNCHANGED <<size, next, head, dhead, class, held, lost>>

(* remove_data, second write: update_metadata_. *)
SaveHead ==
  /\ op.kind = "link"
  /\ dhead' = head
  /\ free' = [free EXCEPT ![class[op.at]] = Append(@, op.at)]
  /\ op' = Idle
  /\ UNCHANGED <<size, next, head, class, held, lost>>

(* The process stops, between two writes or while idle, and backend_start reads  *)
(* the file again.                                                               *)
Crash ==
  /\ head' = dhead
  /\ lost' = lost \cup InTransit
  /\ op' = Idle
  /\ UNCHANGED <<size, next, dhead, class, free, held>>

Next ==
  \/ \E c \in Class : Extend(c) \/ Pop(c)
  \/ \E b \in held : LinkFree(b)
  \/ WriteBlock
  \/ SaveHead
  \/ Crash

Spec == Init /\ [][Next]_vars
--------------------------------------------------------------------------------
(* Types.  In particular a list head and the next_addr of a record on a list are *)
(* addresses of blocks, never the bytes of something else.                       *)
TypeOK ==
  /\ size \in Addr
  /\ next \in [Block -> Addr \cup {Data}]
  /\ head \in [Class -> Addr]
  /\ dhead \in [Class -> Addr]
  /\ op \in [kind : {"idle", "write", "link"}, at : Addr]
  /\ class \in [Block -> Class]
  /\ free \in [Class -> Seq(Block)]
  /\ held \in SUBSET Block
  /\ lost \in SUBSET Block

Top(s) == IF s = <<>> THEN 0 ELSE s[Len(s)]

Elements(s) == {s[i] : i \in 1 .. Len(s)}

OnLists == UNION {Elements(free[c]) : c \in Class}

(* At every write boundary, hence after a restart at any point, following        *)
(* next_addr from the head in the file visits exactly the released blocks of the *)
(* class, latest first, and ends: the list is never cut, crossed or cyclic.      *)
FreeListsSound ==
  \A c \in Class :
    /\ dhead[c] = Top(free[c])
    /\ \A i \in 1 .. Len(free[c]) :
         /\ next[free[c][i]] = IF i = 1 THEN 0 ELSE free[c][i - 1]
         /\ class[free[c][i]] = c

(* Every block of the file is in exactly one place: held by a caller, on one     *)
(* list once, in transit, or lost by a crash.  So get_available_space never      *)
(* gives out a block that is in use, and only a crash leaks one.                 *)
BlocksAccounted ==
  /\ 1 .. size = held \cup lost \cup OnLists \cup InTransit
  /\ held \cap lost = {} /\ held \cap OnLists = {} /\ lost \cap OnLists = {}
  /\ InTransit \cap (held \cup lost \cup OnLists) = {}
  /\ \A c, d \in Class : \A i \in 1 .. Len(free[c]), j \in 1 .. Len(free[d]) :
       free[c][i] = free[d][j] => c = d /\ i = j

(* file_.metadata and the header agree but for the one list head remove_data has *)
(* moved and not saved yet, and the block it moved to already links to the saved *)
(* head: saving it, or forgetting it in a crash, both leave a sound list.        *)
HeadsAgree ==
  /\ op.kind # "link" => head = dhead
  /\ op.kind = "link" => /\ head = [dhead EXCEPT ![class[op.at]] = op.at]
                         /\ next[op.at] = dhead[class[op.at]]
  /\ op.kind = "idle" <=> op.at = 0

(* The lists implement the pool of blocks their callers rely on.                 *)
Pool == INSTANCE BlockPool WITH
          avail <- [c \in Class |-> Elements(free[c])],
          used <- held,
          busy <- op.at

ImplementsPool == Pool!Spec
================================================================================
