# A formal model of LLP

LLP keeps a property graph in one file (`Lab1`), and lets clients query it over
TCP (`Lab3`) in a small query language (`Lab2`). This directory holds TLA+
modules that model the store and the server, TLC configurations that check them
on small instances, and theorems checked by TLAPS. All paths below are relative
to `src/`.

## 1. The system

| component | source | state | operations |
|---|---|---|---|
| data file | `Lab1/solution/src/file.c`, `include/file.h` | the bytes of the file; a header with `first_node_addr`, `last_node_addr` and the heads of two free lists | `file_init`, `static_store_read/write`, `dynamic_store_read_/write_`, `fsizeo`, `file_close` |
| block allocator | `Lab1/solution/src/backend.c:47-97, 159-200, 320-337` | `file_.metadata` in memory, `free_space` records threaded through released blocks | `get_available_space`, `remove_data`, `free_space_write`, `update_metadata` |
| record layer | `backend.c:99-157, 202-318` | nodes in a doubly linked list, chains of `dynamic_store` chunks | `node_write`, `relationship_write`, `property_write`, `dynamic_store_write_chain`, `dynamic_store_read_chain`, `dynamic_store_remove`, the reads |
| graph operations | `Lab1/solution/src/graph.c` | property chains and relationship chains of the nodes | `add_node`, `add_property`, `add_relationship`, `remove_node`, `remove_property`, `remove_relationship`, `find_node`, `find_relationship`, the comparisons |
| query evaluation | `Lab3/server/main.c:21-307` | the query tree, the result | `parse_selections`, `parse_query`, `update_query`, `dump_relationships`, `dump_node` |
| connection loop | `Lab3/server/main.c:310-428` | one listening and one connected socket | accept, read, execute, write |
| client | `Lab3/client/main.cpp` | a parse stack, one socket | `MyListener`, `send_to_server` |
| query language | `Lab2/GraphQL.g4`, `Lab2/main.cpp` | none | generated parser, tree printer |
| messages | `Lab3/protobufs/query.proto` | none | generated packing |
| printing, tests | `graph.c:16-83`, `utils.c`, `Lab1/tester` | a string buffer | printing a graph; drivers of the above |

How they interact. A client parses its file, packs one query, connects, sends it
and waits in one `recv`. The server is one thread: it accepts a connection,
reads, evaluates the query by calls into `graph.c`, writes the packed result and
reads again, until the client closes. `graph.c` reads and writes records through
`backend.c`, and every call of it makes several writes to the file; each write is
flushed, so the process may stop between any two of them. `file_.metadata` is the
only state in memory that outlives a call, and `backend_start` reads it from the
header.

What is hard here:

* one operation is many writes, in an order that decides what a stop leaves
  behind (`node_write`, `remove_node`, `free_space_write`);
* blocks are reused, so one pointer left to a released block is a pointer to
  somebody else's record some operations later;
* every relationship record is on two chains at once, and the side of the record
  to follow depends on the node the walk came from;
* a string is a chain of chunks, written by a loop that ends by wrapping an
  unsigned index below zero, and undone by a second loop when a write fails;
* a query is a sequence of calls whose results nobody looks at, and which find
  the nodes again by what they were described with;
* the client's listener knows where it is in a document only by a stack and one
  pointer;
* the server and a client wait for each other, and other clients for both.

What makes each component correct:

* allocator: a block is never given out twice or while in use; the lists in the
  file are sound at every write; only a stop loses a block;
* record layer and graph: pointers lead to records of their type; nothing is
  shared, nothing leaks; the node list can be walked both ways; an operation
  takes effect at once or not at all; the file means the graph `graph.h` offers;
* strings: what is read back is what was written, whatever other calls do or fail
  to do;
* matching: a node is taken if it has what is asked for, and is found by its own
  description;
* query evaluation: an answered INSERT has connected what it describes; a SELECT
  gives each relationship once, and ends; queries never lead the store to a block
  that holds something else;
* listener: the message sent is the document;
* connection loop: queries are executed once, in order, whatever clients do; an
  answer is of the client's own query; a client gets its answer and ends.

## 2. Modules

| module | models | role |
|---|---|---|
| `BlockPool` | what the allocator promises | abstract: sets of blocks in use, available, in transit |
| `BlockStore` | the allocator, one file write a step | detailed; implements `BlockPool` |
| `BlockStoreProofs` | | theorems about `BlockStore` |
| `StringStore` | what `backend.h` promises of strings | abstract: a function from addresses to strings |
| `ChunkChain` | strings of several chunks, one file write a step | detailed; implements `StringStore` |
| `ChunkChainProofs` | | theorems about `ChunkChain` |
| `Chains` | the loops that follow a list from record to record until the address is 0 | used by `GraphFile` and `ChunkChain` |
| `ChainTheorems` | | what such a loop meets, and what a write changes of it |
| `Matching` | `compare`, `property_equal`, `nodes_equal` as operators | used by the modules below |
| `NodeMatching` | a node and a description that grow | when matching is exact |
| `MatchingProofs` | | theorems about `NodeMatching` |
| `GraphFile` | the file and `backend.c` as functions on a value | used by `GraphStore` |
| `GraphModel` | what `graph.h` offers for nodes and properties | abstract: a sequence of sequences of properties |
| `GraphStore` | `graph.c` | detailed; implements `GraphModel` |
| `GraphStoreProofs` | | theorems about the header, for every call of `GraphStore`; what a file in order is, and how `add_property` and `add_node` lead from one to the next |
| `GraphLinkProofs` | | the other calls; theorems about the file for careful programs, and for the queries of the server |
| `QueryEval` | how the server executes a query, given its calls | extends `GraphStore` |
| `QueryCalls` | which calls a query makes | extends `QueryEval`; holds what is recursive |
| `QueryListener` | how the client builds a query | |
| `QueryListenerProofs` | | theorems about `QueryListener` |
| `QueryService` | what the connection loop offers its clients | abstract: a line, each with one query |
| `QueryServer` | the connection loop and its clients | detailed; implements `QueryService` |
| `QueryServerProofs` | | theorems about `QueryServer` |
| `MC...` | | instances for TLC |

### BlockStore

A block is its ordinal in the file. Blocks are only appended and never moved, so
the ordinal stands for the byte address, and 0, where the header is, stays the
null address.

| definition | code |
|---|---|
| `head`, `dhead` | `first_free_*_addr` in `file_.metadata` and in the header of the file |
| `next[b]` | `next_addr` of the `free_space` record in block `b` |
| `Extend` | `get_available_space`, list empty: the end of the file, which the caller's write extends |
| `Pop`, then `WriteBlock` | `get_available_space`, list not empty: unlink, `update_metadata_`; then the caller's write |
| `LinkFree`, then `SaveHead` | `remove_data`: the record, then the header |
| `Crash` | a stop anywhere and `backend_start` |

`free`, `held`, `lost` and `class` are auxiliary: the code stores them nowhere.
`LinkFree` is only enabled for a block a caller holds, and with the size it was
made with. That is the caller's obligation; `GraphStore` checks it of `graph.c`
(`BlocksOwnedOnce`, `ReachableNotFree`), and finds where it is broken (section 6).

### ChunkChain

| definition | code |
|---|---|
| `Start`, `Before`, `More`, `Bytes` | the loop of `dynamic_store_write_chain` (`backend.c:220-225`); `Wrap` is 2^64, small in a run |
| `GetSpace`, `WriteChunk`, `Return` | a turn of that loop, and its end |
| `FailChunk` | `dynamic_store_write_` fails: the chunks after it are removed (`backend.c:233-237`) |
| `RemoveString`, `Release`, `SaveHead`, `RemoveEnds` | `dynamic_store_remove`, one write a step |
| `ReadChain` | `dynamic_store_read_chain` |
| `Crash` | a stop anywhere and `backend_start` |

`held` is auxiliary: the addresses callers have. The refinement maps them to the
strings a reader finds there. A string has at least one byte: every caller passes
`strlen(...) + 1`. No caller passes an address to write over.

### Matching and NodeMatching

An `INT` is itself, a `DOUBLE` a number of units (`Precision` of them are
`DOUBLE_EQUALITY_PRECISION`), a string its place in the order of `strcmp`.
`Matches` counts as `nodes_equal` does: the stored properties that equal some
property of the description, against the length of the description. The
relationships in a description never decide: `nodes_equal` returns `... || 1`
(`graph.c:178`). `NodeMatching` builds a node and a description one property at a
time and asks when that count is what a reader expects.

### GraphFile and GraphStore

`GraphFile` describes each call of `backend.c` as a function on
`[disk, meta, log]`. `log` lists the writes in order. `GraphStore` has one action
per operation of `graph.c`; `Call` is a call of `graph.h` with its arguments. An
operation computes its writes from the file as it is, as the single thread does,
and leaves them in `pend`; `Flush` makes one write at a time. So an invariant
sees the file at every write boundary, and `Crash`, which drops `pend` and takes
`meta` from the header, may fall between any two.

`graph` is auxiliary: the graph a reader finds in the file once the operation has
made all its writes. `torn` is auxiliary: a restart found the node list half
linked.

The refinement of `GraphModel` maps its `nodes` to `graph`, and its `saved` to
the graph read from the file as it is. `AddNode`, `AddProperty`, `RemoveNode` and
`RemoveProperty` of the model change `nodes` at once; exactly one `Flush` of the
operation is the model's `Save`, all others are stutters, and `Crash` is its
`Stop`. So every operation takes effect with one single write.

What is abstracted: a string is one chunk holding one value (`ChunkChain` is
where chunks are), and the direction is `BIDIRECTIONAL`, the only one the server
uses. Comparisons read one chunk only (`graph.c:236`, `284`), so for them a
string is what its first chunk holds.

Where the models stop. The removals use the -1 of a failed search as an address
(`graph.c:477-480, 552-555, 607-609`), and any operation that meets a pointer to
a block that holds something else goes on with whatever bytes are there. What
follows is decided by left-over bytes, so `GoAstray` sets `astray` and no
operation follows: `Ready` requires a file whose reachable pointers lead to
records of their types. Nothing is claimed of the states behind that horizon.
That such states are reached is what the violation runs show.

### QueryEval and QueryCalls

`parse_selections` looks at no result of a call, so a query is a fixed sequence
of calls of `graph.h`. `QueryCalls!AllCalls` computes it: the node of a selection
first (`add_node` or `remove_node`), then for each nested selection that node's
calls and the relationship to it. A MODIFY is the calls of a DELETE and those of an
INSERT (`update_query`). Queries are trees, so `AllCalls` is recursive, and kept
apart: `QueryEval` takes the calls of a query as the constant `CallsOf`, of which
it assumes what they are, and of their order only that an INSERT adds both nodes
before it connects them, unless it exits before (`CallsOfAssumption`,
`NodesFirst`); the run gives `CallsOf` the value `AllCalls`, and TLC evaluates the
assumption of it. `InsertConnects` speaks of calls; `ConnectionsCalled`, evaluated
too, says that those of an INSERT connect what its tree of selections describes.

| definition | code |
|---|---|
| `Begin` | a query is read; `result` starts empty |
| `MakeCall`, `MakeWrite` | the next call, by `GraphStore!Call`; a write of it, by `Flush` |
| `StartDump`, `DumpNode`, `EndDump` | `dump_relationships`, one node a step |
| `DumpLoops` | its `continue` that does not advance (`main.c:124`): `pc` stays `"loops"` |
| `Exit` | `exit_with_error("got corrupted data")` at a null value, and a restart |
| `Answer` | the end of `parse_query` or `update_query` |

### QueryListener

The walk over the parse tree is external. `walk` is the stack of the rules it is
in; each frame holds the parts of its rule that are left, by kind, and the kinds
come in the order `GraphQL.g4` gives them in every rule (`Kinds`). `Enter`, `Pass`
and `Exit` are the calls the walk makes next; they look at the innermost frame
only. So there is no recursion over the document, and the handlers can be proved
about for documents of any size and depth.

| definition | code |
|---|---|
| `type`, `selections`, `below` | the message: `query.type`, every selection in the order it was added, and what is below each, or below the query (0) |
| `stack`, `argument` | `qs_stack`, `current_argument` |
| `EnterType` | `enterSelectQuery`, `enterInsertQuery`, `enterRemoveQuery`, `enterUpdateQuery` |
| `EnterSelection`, `ExitSelection` | a selection is added below the top and pushed; it is popped |
| `EnterArgument`, `ExitArgument` | an argument is added to the top and is the current one; there is none |
| `EnterName`, `EnterComparator`, `EnterValue` | the handlers that write to the current argument, or to the top |

`read` is auxiliary: what each selection of the message was made for. A part of a
document may be absent, as the grammar allows, or as the parser goes on after a
syntax error, which the client does not test (`main.cpp:175-176`).

### QueryServer

| definition | code |
|---|---|
| `pc`, `conn`, `chains` | where `main` of the server is, `conn_fd`, whether the packed result has a byte |
| `Connect`, `Send`, `Receive` | `send_to_server` of the client |
| `Interrupt` | a user stops a client (external) |
| `Lose` | a client whose server has exited |
| `Accept` | `main.c:354` and `373` |
| `ReadQuery`, `ReadEnd`, `ReadError` | `read`: a query; 0; -1, which the code takes for a length |
| `Execute`, `ExecuteForever`, `ExecuteExits` | `main.c:386-398`: what `QueryEval` shows a query may do, in one step: `Answer`, `DumpLoops`, `Exit` |
| `Write` | `main.c:412-417` |

The sockets are external: connections are accepted in the order of `connect`,
`connect` waits while the queue of `listen` is full, and closing with an unread
answer resets the connection.

`QueryService` says what all this promises, with neither `read`, `accept` nor
sockets: clients come, ask once and go; the query of the first in the line is
done once, answered after that if its client is still there; the server turns to
the next when the first has gone, and not before a query that was asked is done.
The line is the connection at hand in front of the queue of `listen` (`Line`); a
query has been asked once it has left its client, wherever it is then (`Asked`).
`Accept` and `ReadQuery` change nothing of it, `ReadEnd` is its `Turn`.

## 3. Checks

Runs that pass:

| run | what it asks | bounds, and why they are enough |
|---|---|---|
| `block_store` | `FreeListsSound`, `BlocksAccounted`, `HeadsAgree` at every write boundary and after any number of stops; `ImplementsPool` | both size classes, 5 blocks: lists of up to five, of both classes at once, popped and pushed in every order. The theorems remove the bound |
| `chunk_chain` | `ChunksOwnedOnce` at every write boundary; `LossBounded` after a failed write; `ImplementsStrings`; `CallEnds` | chunks of 2 bytes, strings of 1, 2, 4 and 5 (less than a chunk, one, two, a little more), 4 blocks, one failed write, one stop: the longest string is written over blocks of another, and fails or stops at each of its chunks. An index of 16 values wraps as one of 2^64 does |
| `node_matching` | `MatchExact`, `FoundByItself` | nodes of up to 3 properties of every type, repeated ones included, descriptions of up to 2 with every comparator: the least in which one property can make up for another. Two values of an `INT` and of a `STRING`, and three of a `DOUBLE`, of which neighbours are near enough to be equal and the outer two are not. The theorems remove the bound |
| `graph_nodes` | careful programs of `add_node`, `add_property`, `remove_node`, and a stop between any two writes: `NodeListLinked`, `BlocksOwnedOnce`, `ReachableNotFree`, `ImplementsModel` | 6 operations and one stop: three nodes, removal of the first, the middle and the last one, insertion into their blocks, and operations before and after the stop |
| `graph_chains` | careful programs of `add_node`, `add_property`, `remove_property`, `remove_node`, `add_relationship`, with a stop: `ReachableNotFree`, `PropertyPointersTyped`, `RelationshipPointersTyped`, `RelationshipChainsExact`, `BlocksOwnedOnce`, `ImplementsModel` | 5 operations: two nodes, up to three relationships between them both ways and of one with itself, so that chains switch sides, with released property blocks reused, and removals that are careful on one file and not on another |
| `query_eval` | every kind of query and a stop between any two writes: `MetaSaved`, `FreeListsInFile`, `StaysOnFile`, `InsertConnects`, `SelectExact`, `SelectEnds` | 3 queries of 9, nested to depth 2, with and without arguments, with a null value, one stop: an INSERT before and after a DELETE, a MODIFY, or a stop inside either, with a SELECT of what they left. The run that takes every operation the server calls |
| `query_listener` | `NoNullPointer`, `BuiltIsMeant`, `LeftAlone` | 6,318 documents of one or two definitions, selections to depth 3, up to two arguments each: every handler follows every handler it can follow |
| `query_server` | `ExecutedInOrder`, `NobodyAbandoned`, `AnswerIsOwn`, `AnswerArrives`, `SentIsExecuted`, `ImplementsService` | three clients, a queue of two: one is served, one waits, one cannot connect. The theorems remove the bound for the first three and for `ImplementsService` |

`MaxOps`, `MaxCrashes` and `MaxQueries` bound `GraphStore` and `QueryEval`,
`MaxBlocks`, `MaxFailures` and `MaxCrashes` the allocator and `ChunkChain`,
`MaxStored` and `MaxWanted` `NodeMatching`. `graph_nodes` and `graph_chains` run
`CarefulSpec`, the programs that never remove a relationship, a node that has one
(`Unconnected`), or the first property of a node: the calls that leave a pointer
to a released block behind. `Careful` is what such a program tells of the file
before it calls, not a guard of the code: `query_eval` and the violation runs run
every call.

Each property of a passing run has a mutant: a definition of the code, changed
the way a bug would change it (the definitions commented "Mutant of"), under
which the same run violates the property.

What the conditions in the properties mean:

* `MatchExact` is claimed while no key of a type is stored twice. `add_property`
  never looks whether the key is there, and then the count of `nodes_equal` may
  take a node that lacks what is asked for. Both sides of it compare two properties
  as the code does, so it says how the count relates to the comparisons, and
  nothing of what a comparator should mean.
* `StaysOnFile` leaves out, by the auxiliary `risky`, the removal of a
  relationship, of a node that has one, and of a node that is not there. Each of
  them leaves a bad pointer or an unfollowable address: `RemoveRelationship` does
  not move the heads of the two nodes' chains (`graph.c:661`), so the node always
  leads to a released block afterwards; for the others see section 6.
* `SelectExact` is claimed while no node is the first of one relationship and the
  second of another: otherwise the walk along `first_next` leaves the chain
  (section 6, `later_relationship`). A SELECT with several nested selections
  answers the last one only, because each starts the result again (`main.c:114`).
* `SelectEnds` is claimed if every node matches the outer selection, as in
  `Lab3/README.md`, where it has no arguments: a node that does not match is met
  again and again (`main.c:124`).
* `LESS` is the negation of `GREATER`, so `zip < 90000` finds 90000 too. Nothing in
  the repository says that it should not, so no property claims it.
* `ReachableNotFree` is about every block a pointer from the header leads to:
  nodes, records of properties and relationships, keys, strings of values, types.

Fairness. The store is a single thread that only does what it is called for: no
liveness is stated of it. `ChunkChain` and `QueryEval` assume that a running
thread takes its next step (`Step`, `ReadStep`), and no more: a failure, a stop
and a new call are never forced; `QueryEval` needs it only for the part of a
query that writes nothing. `QueryServer!Fairness` says that the server and the
clients take the steps that do not block, as running processes do. `Patience`
says that users stop a client that is being served and hangs because its query
had an empty result, and no other. It is assumed in `query_server` for
`SentIsExecuted` only because without it one hanging client keeps all others
waiting; `client_ends` is checked without it. Deadlock is checked in
`query_listener`; elsewhere the system really may stop: the store when nobody
calls, the server in accept when every client has ended.

## 4. What is proved

`BlockStoreProofs`, for every set of size classes and every file size, from the
assumptions named in `BlockStore` (there is a class, and what a block holds is
told from an address):

* `Inductive`, and from it `TypeCorrect`, `FreeListsAlwaysSound`,
  `BlocksAlwaysAccounted`, `HeadsAlwaysAgree`. None of the invariants is
  inductive alone. `FreeListsSound` speaks of the lists in the file. Popping reads
  the head in memory, so `HeadsAgree` is needed to know it is the head in the
  file, and that the block being linked already leads to the saved head.
  `BlocksAccounted` is needed to know that the block written by `WriteBlock` or
  `LinkFree` is on no list, so no list changes under it. The sequences `free[c]`
  carry the induction: a push and a pop change one end of one of them;
* `Implements`: each write is one step of `BlockPool`. `Pop` is `Reuse` because
  no block is twice on a list, so dropping the last one removes it from the set.

`ChainTheorems` is about the loops alone, for lists of any length. `Walk` is a
recursive function of a number, the steps that are left. The library's induction
theorems take an operator, which the provers cannot instantiate; the same for a
set, that a set of numbers with 0 and every successor has them all (`Induct`), is
proved from the least element of a well-founded order, and carries every induction
over a list in this project. With it: what a recursive function of a number
computes (`WalkIs`); a sequence in which each address leads to the next one,
without repetition, and the last one to 0, is what the loop meets (`ChainIs`); a
write to a block that is not in it changes nothing of it.

`ChunkChainProofs`, for every set of strings, chunk size and width of the index,
from the assumptions of `ChunkChain` (a string has a byte, and is so short that
an index that wrapped is above its length; the bounds of the run are numbers):

* `Inductive`, and from it `AlwaysTypeOK`: no chunk is empty or longer than its
  block, and every address leads into the file. The strengthening ties the index
  to the string: in the loop it is either inside it, or it has wrapped and is above
  the length, so `WriteChunk` never reads outside the string (`StartInString`, `BeforeInString`, `BytesFit`);
* `ChainInductive`, and from it `AlwaysOwnedOnce`, `AlwaysLossBounded` and
  `StringsImplemented`. The free list, the strings held and the chunks of the call
  under way are chains that end, apart from each other (`ListsInv`); a block about
  to be written is on none of them, and the header in the file is behind by the
  removal under way at most (`PhaseInv`); what has been written is the end of the
  string, with q chunks left for an index of q times the chunk size (`WriteInv`),
  so that the string is whole when its address is returned; the blocks on no chain
  are at most one per failed write (`LossInv`).
  None of these is inductive alone: a write leaves the other chains as they are
  only because they do not share the block.

`MatchingProofs`, for every property, every comparator, every precision, and
nodes and descriptions of any length:

* `MatchAlwaysExact`: if every property of a description without repeated keys is
  satisfied, the places that satisfy them differ, so there are enough of them
  (`SatisfiedIsMatched`). The other way, in a node without repeated keys no two
  properties satisfy the same one of the description; so if there are enough, the
  map between them is onto, and every property asked for is satisfied
  (`MatchedIsSatisfied`);
* `AlwaysFoundByItself`: every property equals its own description, so the count
  is the length.

`QueryServerProofs`, for every number of clients and length of the queue:

* `AlwaysExecutedInOrder`, `NobodyEverAbandoned`, `AnswerAlwaysOwn`. The
  strengthening: the queue is the part of the arrivals not accepted, and the
  connection served the one accepted last (`QueueIsRest`); a query is in one place,
  unsent, in the socket, being executed or executed (`QueryInOnePlace`); what was
  executed had been accepted (`ExecutedAccepted`). So what was executed before
  arrived before. A query that never ends or ends the server leaves these as they
  are: nothing is executed after it.
* `AlwaysImplementsService`: every step maps to one of `QueryService`, or to none.
  The invariant it adds (`ClientsInv`) relates where a client is in its own
  program to what the server has seen of it: `Connect` is a `Come` of somebody
  not in the line, `Send` an `Ask` of somebody who has not asked, though they and
  the server act at any time.

`QueryListenerProofs`, for every document, of any size and depth (about six
minutes):

* `Inductive`, and from it `AlwaysTypeOK`, `AlwaysNoNullPointer`,
  `AlwaysBuiltIsMeant` and `AlwaysLeftAlone`. `BuiltIsMeant` speaks of the end of
  the walk only. The invariant speaks of each frame of it: what the handlers have
  set and what the parts that are left will set are together what the document
  means (`InDocument`, `InDefinition`, `InSelection`, `InArgumentOf`, and
  `DoneInv` for the selections that have been left). That each handler writes to
  the right place needs `StackInv`, the stack is the way of last selections from
  the query, and `WalkInv`, the frames are the document, a definition, the
  selections of the stack and the open argument.

`GraphStoreProofs`, for all six operations, those that leave dangling pointers
included, and any number of calls and stops:

* `SavedInductive`, and from it `AlwaysMetaSaved`. `MetaSaved` speaks of a file
  on which no call is under way; the invariant says of the writes to come that the
  last header among them is the one in memory, or that there is none and the one
  in the file is. Each function on the file preserves that (`WriteKeeps` to
  `StorePropertiesKeep`), so every call does.

`GraphLinkProofs`, for any number of nodes, properties, relationships, calls and
stops, in any order, for careful programs (`CarefulSpec`):

* `PathInductive`. `NodeListLinked` says that the file is in order between calls,
  and is no invariant of the writes. `Whole` says what in order is: the nodes are
  a list linked both ways; the properties of each are a list, of their own, with
  keys and values that are chunks, of their own; the relationships of each are a
  list that follows, in every record, the side of that node, and each record has two
  nodes of the list and a type of its own; the free blocks are two lists, apart from
  all that. `Sound` says what holds at every write: the header points into
  the file, the free lists are lists, nothing that is reached is on one, and if the
  node list happens to be linked both ways, the file is `Whole`: that is what a
  restart needs. The invariant `PathInv` is that, unless a restart has found the
  list torn, the writes to come lead from the file through `Sound` ones to a `Whole`
  one, under the header in memory. `Flush` takes the first step of that way; `Crash`
  finds a `Sound` file. A call has to lay out a way: one lemma for each step of a
  call says that it is sound (`PlaceGood`, `StorePropertyGood`, `UnlinkGood`,
  `FreePropertyGood`, `SetPreviousGood`, `JoinGood`, ...), with the blocks the call
  has in hand, those no node has yet or any more, as part of what is claimed;
* from it, `AlwaysNodeListLinked` and `AlwaysReachableNotFree`. A reachable block is
  a node, or a record or a string of one (`ReachableParts`), and what the loops over
  the properties and the relationships of a node meet are records of those kinds
  only (`RelatedChain`, from `ChainWithin`), so none is a free record
  (`OwnersNotFree`). And, as those two, unless a restart has found the list torn, `AlwaysFreeListsInFile`, `AlwaysTypeOK`,
  `AlwaysPropertyPointersTyped` and `AlwaysRelationshipPointersTyped`; the former
  also says that between careful calls the file is always one that the next can
  follow: `Ready` never stands in the way of one of them;
* `AlwaysRelationshipChainsExact` and `AlwaysBlocksOwnedOnce`. As long as no stop
  has lost a block, the way ends in a `Clean` file: the chain of a node has *every*
  record the node is in, and a block that is in no part of the file is filled with
  junk. `add_relationship` is where this is hard: on an empty chain it reads the
  header for a record and writes it back as junk (`graph.c:455`), and with one
  record on two chains each write alters one side and must leave the walk along the
  other as it was (`SameSides`, `ChainsFrame`);
* `AlwaysImplementsModel`: every way has exactly one write that changes the graph
  read from the file, to what the call promised; all others are stutters of
  `GraphModel`, and a stop leaves the graph before or after that write.

Then for the queries of the server, any queries, of any depth:

* `EvalInductive`: a removal that is not `Risky` is careful, so as long as there
  was none, `PathInv` holds of the store under the server, though its queries look
  at no result; and `Ready` holds at every call, so none goes astray. From it
  `QueriesStayOnFile`, `QueriesSaveMeta`, and `QueriesKeepLists`, the invariants
  of the store;
* `SelectsAreExact`, until a stop. `dump_relationships` stands, after k nodes of the
  list, with a result that has each matching relationship once whose first node is
  one of those k (`SelectInv`). That a turn adds the others of its node, once each,
  needs that the walk along `first_next` from a node meets exactly the records of
  its chain (`RelationshipChainsExact`, and that no node is on both sides), and that
  nothing is written during a SELECT (`CallsInv`);
* `InsertsConnect`, until a stop. `add_relationship` finds its nodes by their
  descriptions, so what an earlier call left must be found again, and as the same
  record. `InsertInv` says that the file the writes to come lead to has what each
  of the calls so far is for (`Holds`): the node that is found by the description,
  or a relationship of the two that are found. A node matches the values it was
  added with (`FindsItself`); the first match of a description stays the first when
  nodes are added behind it (`SpotAppend`), and stays the same record, since a call
  only appends to the list of nodes (`Extends`); and no write of any call alters
  the nodes or the type of a relationship (`Stays`, a part of `Good`). So
  `add_relationship` is never refused in an INSERT, and nothing it made is lost by
  those after it, which write to the same records to link their own.

Why careful programs, and queries that are not risky. `remove_property` of a first
property, `remove_node` of a node with a relationship and `remove_relationship`
leave pointers to released blocks (section 6), so the conclusions are false for
all calls together. They are not assumed away by a guard: the theorems are for
programs that do not make these calls, and `query_eval` and the violation runs make
them.

Proving `GraphStoreProofs` and `GraphLinkProofs` takes about ten and about seventeen
minutes, the other modules less.

Model-checked only:

* of `GraphStore`: `FreeListsInFile` after a restart that found the list torn;
* of `QueryEval`: `SelectExact` and `InsertConnects` after a stop or a risky removal;
* what is assumed of `CallsOf`, for `AllCalls`, and `ConnectionsCalled`: these walk the
  trees of a query, by recursive operators, which the prover does not take;
* every liveness property: liveness under fairness is out of the prover's reach.

## 5. What a stop does to the node list

Inserting a node is three writes (link the last node, write the node, save the
header), removing one up to three. A stop between them leaves a list that is half
linked: forwards and backwards differ, or `last_node_addr` is not the last node.
The code promises nothing about stops and repairs nothing at start. `torn` marks
those runs: `NodeListLinked`, `ReachableNotFree`, `ImplementsModel`, `StaysOnFile`
and `InsertConnects` are claimed of the others, that is, of a stop at any other
point. So `NodeListLinked` shows what careful calls and the other stops do to the
list, and nothing of a stop between the writes that link or unlink a node. Without
the condition they fail: after a stop inside an insertion, later
insertions hang their nodes on a node that is not in the list, and after a stop
inside a removal, removing the neighbour releases a block that can still be
reached. `FreeListsInFile` and `ChunksOwnedOnce` are claimed of every stop.

## 6. Where code and comments disagree

Each is a run that ends in a violation.

| run | what happens |
|---|---|
| `remove_first_property` | `remove_property` of the first property of a node leaves `next_property_addr` (`node.h:10`, "property") at a released block (`graph.c:583`) |
| `remove_connected_node` | `remove_node` releases relationships that are still on the chain of the other node (`node.h:9`, "relationship"; `graph.c:530`) |
| `later_relationship` | `find_relationship` follows `first_next` only, so an older relationship is hidden by a later one in which the node is second (`graph.c:293-294`; `graph.c:324`) |
| `client_ends` | an empty result is written as 0 bytes, and client and server wait for each other (`Lab3/test/test.py:33`, `output.wait()`; `server/main.c:417`) |

## 7. Not modelled

* failing reads, failing writes other than that of a chunk, and a write cut
  inside a block. A failing write of a node, a property or a free record leaves
  `file_.metadata` changed and the blocks before it unreachable, and the callers
  go on: what the next calls read there are left-over bytes again;
* `dynamic_store_write_chain` with an address, which nobody passes; the
  deprecated `dynamic_store_write`; the directions other than `BIDIRECTIONAL`;
* strings longer than one chunk in `GraphStore`: their comparison reads the first
  chunk only;
* the arrays of 100 chains and 100 fields in a result (`main.c:114`, `26`), which
  no instance that TLC can enumerate fills;
* the Windows branch of `file.c`, `DEBUG` in `remove_data`, printing and the
  string buffer, the test drivers;
* the generated parser and the generated packing: no state of the program's own;
* messages longer than the buffers, and a message that arrives in parts: `unpack`
  then returns NULL, which the server dereferences.

## 8. Open ends

1. `SelectExact`, `InsertConnects` and `RelationshipChainsExact` after a stop: a stop
   inside `add_relationship` leaves a record on one of its two chains.
2. `FreeListsInFile` without its condition: after a stop has torn the list of
   nodes the free lists are still lists, as only typed records are released.
3. Failing writes of `node_write` and `free_space_write`.
