------------------------------- MODULE ChunkChain -------------------------------
(* Strings of any length in Lab1/solution/src/backend.c: dynamic_store_write_-   *)
(* chain cuts a string into chunks and writes them from the last to the first,   *)
(* dynamic_store_remove releases them.  One step makes at most one write to the  *)
(* file; the process may stop between any two steps, and the write of a chunk    *)
(* may fail.  Every caller passes the address 0, and a length of at least 1.     *)
EXTENDS Chains, SequencesExt

CONSTANTS
  Strings,     \* what callers store: sequences of bytes
  D,           \* DYNAMIC_STORE_DATA_LENGTH, the bytes of a chunk
  Wrap,        \* one more than the largest uint64_t
  MaxBlocks,   \* bound: the size of the file
  MaxFailures, \* bound: how many writes fail
  MaxCrashes   \* bound: how often the process stops

ASSUME ChunkAssumption == D \in Nat \ {0}
ASSUME WrapAssumption == Wrap \in Nat /\ Wrap > 2 * D
ASSUME BoundsAssumption == {MaxBlocks, MaxFailures, MaxCrashes} \subseteq Nat
ASSUME StringsAssumption == \A s \in Strings : s \in Seq(Nat) /\ Len(s) \in 1 .. Wrap - D - 1

VARIABLES
  disk,     \* the blocks of the file: chunks and free_space records
  head,     \* first_free_dynamic_addr in file_.metadata
  dhead,    \* first_free_dynamic_addr in the header of the file
  pc,       \* where the call under way is, "idle" if there is none
  data,     \* the string being written
  ind,      \* the index of the loop over it
  addr,     \* the local addr: the chunk written last, or the one being released
  at,       \* the block the next chunk goes to, or the chunk after the released one
  held,     \* auxiliary: the addresses returned to callers and not yet removed
  failures, \* how many writes have failed
  crashes   \* how often the process has stopped

file == <<disk, head, dhead>>
call == <<pc, data, ind, addr, at>>  \* the locals of a call
vars == <<file, call, held, failures, crashes>>

Init ==
  /\ disk = <<>> /\ head = 0 /\ dhead = 0
  /\ pc = "idle" /\ data = <<>> /\ ind = 0 /\ addr = 0 /\ at = 0
  /\ held = {} /\ failures = 0 /\ crashes = 0
--------------------------------------------------------------------------------
Chunk(next, bytes) == [kind |-> "chunk", next |-> next, bytes |-> bytes]
FreeSpace(next) == [kind |-> "free", next |-> next]

PutAt(d, a, rec) == IF a = Len(d) + 1 THEN Append(d, rec) ELSE [d EXCEPT ![a] = rec]

(* The loops of dynamic_store_remove and dynamic_store_read_chain: where they go  *)
(* from a block, and what the second takes from a chunk.                         *)
NextAddr(d) == [b \in 0 .. Len(d) |-> IF b = 0 THEN 0 ELSE d[b].next]
Content(d) ==
  [b \in 0 .. Len(d) |-> IF b # 0 /\ d[b].kind = "chunk" THEN d[b].bytes ELSE <<>>]

(* The blocks of a chain, in order, and dynamic_store_read_chain. *)
Blocks(d, a) == Chain(NextAddr(d), a)
ReadChain(d, a) == Gather(NextAddr(d), Content(d), a)

(* Mutant of Start: the index of the last byte is not rounded down. *)
StartUnrounded(length) == length - 1

(* The loop of dynamic_store_write_chain, in the arithmetic of uint64_t: the     *)
(* index of the last chunk, ...                                                  *)
Start(length) == (length - 1) - ((length - 1) % D)

(* Mutant of Before: the index is signed. *)
BeforeSigned(i) == i - D

(* ... the index before it, which goes above the length below zero, ...          *)
Before(i) == (i - D + Wrap) % Wrap

(* ... and the bytes of a chunk.                                                 *)
Bytes(s, i) == SubSeq(s, i + 1, IF D < Len(s) - i THEN i + D ELSE Len(s))

More == ind <= Len(data)

ChunksOf(s) == (Len(s) - 1) \div D + 1
--------------------------------------------------------------------------------
(* The locals of a call that has ended are gone. *)
EndCall == pc' = "idle" /\ data' = <<>> /\ ind' = 0 /\ addr' = 0 /\ at' = 0

(* A caller stores a string (the file has room for it within the bound).         *)
Begin(s) ==
  /\ pc = "idle"
  /\ Len(disk) + ChunksOf(s) <= MaxBlocks + Len(Blocks(disk, head))
  /\ data' = s /\ ind' = Start(Len(s)) /\ addr' = 0
  /\ pc' = "loop"
  /\ UNCHANGED <<file, at, held, failures, crashes>>

(* get_available_space: the end of the file, or the first free block, which      *)
(* leaves the list, in the file too.                                             *)
GetSpace ==
  /\ pc = "loop" /\ More
  /\ at' = IF head = 0 THEN Len(disk) + 1 ELSE head
  /\ head' = IF head = 0 THEN 0 ELSE disk[head].next
  /\ dhead' = IF head = 0 THEN dhead ELSE head'
  /\ pc' = "write"
  /\ UNCHANGED <<disk, data, ind, addr, held, failures, crashes>>

(* dynamic_store_write_: the chunk, in front of those written before. *)
WriteChunk ==
  /\ pc = "write"
  /\ disk' = PutAt(disk, at, Chunk(addr, Bytes(data, ind)))
  /\ addr' = at /\ ind' = Before(ind)
  /\ pc' = "loop"
  /\ UNCHANGED <<head, dhead, data, at, held, failures, crashes>>

(* Mutant of FailChunk: the chunks written so far are left alone. *)
FailChunkOnly ==
  /\ pc = "write" /\ failures < MaxFailures
  /\ failures' = failures + 1
  /\ EndCall
  /\ UNCHANGED <<file, held, crashes>>

(* The write of a chunk fails: the chunks after it are removed and the call      *)
(* returns an error.  A block taken from the free list for it is lost.           *)
FailChunk ==
  /\ pc = "write" /\ failures < MaxFailures
  /\ failures' = failures + 1
  /\ pc' = "remove" /\ data' = <<>> /\ ind' = 0 /\ at' = 0
  /\ UNCHANGED <<file, addr, held, crashes>>

(* The loop ends and the caller gets the address of the first chunk. *)
Return ==
  /\ pc = "loop" /\ ~More
  /\ held' = held \cup {addr}
  /\ EndCall
  /\ UNCHANGED <<file, failures, crashes>>

(* A caller removes a string. *)
RemoveString(a) ==
  /\ pc = "idle" /\ a \in held
  /\ held' = held \ {a}
  /\ addr' = a
  /\ pc' = "remove"
  /\ UNCHANGED <<file, data, ind, at, failures, crashes>>

(* Mutant of Release: the chunk is read after it has been overwritten. *)
ReleaseThenRead ==
  /\ pc = "remove" /\ addr # 0
  /\ disk' = [disk EXCEPT ![addr] = FreeSpace(head)]
  /\ head' = addr
  /\ at' = head
  /\ pc' = "save"
  /\ UNCHANGED <<dhead, data, ind, addr, held, failures, crashes>>

(* dynamic_store_remove, one turn of the loop: the chunk is read, remove_data    *)
(* makes it the head of the free list, ...                                       *)
Release ==
  /\ pc = "remove" /\ addr # 0
  /\ disk' = [disk EXCEPT ![addr] = FreeSpace(head)]
  /\ head' = addr
  /\ at' = disk[addr].next
  /\ pc' = "save"
  /\ UNCHANGED <<dhead, data, ind, addr, held, failures, crashes>>

(* Mutant of SaveHead: the loop does not go on to the next chunk. *)
SaveHeadStays ==
  /\ pc = "save"
  /\ dhead' = head
  /\ pc' = "remove"
  /\ UNCHANGED <<disk, head, data, ind, addr, at, held, failures, crashes>>

(* ... and saves the header.                                                     *)
SaveHead ==
  /\ pc = "save"
  /\ dhead' = head
  /\ addr' = at
  /\ pc' = "remove"
  /\ UNCHANGED <<disk, head, data, ind, at, held, failures, crashes>>

RemoveEnds ==
  /\ pc = "remove" /\ addr = 0
  /\ EndCall
  /\ UNCHANGED <<file, held, failures, crashes>>

(* The process stops and starts again: backend_start reads the header. *)
Crash ==
  /\ crashes < MaxCrashes
  /\ crashes' = crashes + 1
  /\ head' = dhead
  /\ EndCall
  /\ UNCHANGED <<disk, dhead, held, failures>>

(* What the code does next in a call, by itself. *)
Step == GetSpace \/ WriteChunk \/ Return \/ Release \/ SaveHead \/ RemoveEnds

Next ==
  \/ \E s \in Strings : Begin(s)
  \/ \E a \in held : RemoveString(a)
  \/ Step
  \/ FailChunk
  \/ Crash

(* A thread that is running takes its next step. *)
Spec == Init /\ [][Next]_vars /\ WF_vars(Step)
--------------------------------------------------------------------------------
TypeOK ==
  LET Addr == 0 .. Len(disk)
  IN  /\ \A b \in DOMAIN disk :
           /\ disk[b].kind \in {"chunk", "free"} /\ disk[b].next \in Addr
           /\ disk[b].kind = "chunk" => Len(disk[b].bytes) \in 1 .. D
      /\ {head, dhead, addr} \cup held \subseteq Addr /\ at \in 0 .. Len(disk) + 1
      /\ pc \in {"idle", "loop", "write", "remove", "save"}
      /\ ind \in 0 .. Wrap - 1

(* At every write boundary, so after a stop or a failure at any point: the       *)
(* chunks of the strings callers hold and the blocks of the free list in the     *)
(* file are all different, and none is in the list and in a string at once.      *)
ChunksOwnedOnce ==
  LET of(a) == Blocks(disk, a)
      free == of(dhead)
  IN  /\ IsInjective(free)
      /\ \A a \in held :
           /\ IsInjective(of(a)) /\ ToSet(of(a)) \cap ToSet(free) = {}
           /\ \A b \in ToSet(of(a)) : disk[b].kind = "chunk"
           /\ \A other \in held \ {a} : ToSet(of(a)) \cap ToSet(of(other)) = {}

(* A failed write loses the one block it was to go to and no other: the chunks   *)
(* written before it for the same string are available again.                    *)
LossBounded ==
  pc = "idle" /\ crashes = 0 =>
    LET own == UNION {ToSet(Blocks(disk, a)) : a \in held \cup {head}}
    IN  Cardinality(DOMAIN disk \ own) <= failures

(* Every call ends: the index, which never is negative, leaves the loop by       *)
(* wrapping, and a removal meets the end of the chain it releases.               *)
CallEnds == pc # "idle" ~> pc = "idle"

(* The strings callers can read. *)
Stored == [a \in held |-> ReadChain(disk, a)]

(* dynamic_store_read_write.c:28-29 reads back what it has written.  What is     *)
(* read at the address of a string is what was written there, as long as its     *)
(* caller holds it, at every write another call makes.                           *)
Promise == INSTANCE StringStore WITH strings <- Stored, Addresses <- 1 .. MaxBlocks

ImplementsStrings == Promise!Spec
================================================================================
