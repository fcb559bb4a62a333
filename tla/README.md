# EasyDB, its ORM and the RPC library in TLA+

The repository holds four assignments that build two systems:

* a small **object database**: a server in Rust (`src/asst3`), a Python client for its wire
  protocol (`src/asst1/easydb`), and an object-relational mapper on top of the client
  (`src/asst2/orm`);
* an **RPC library** in C++ (`src/asst4`): an event-loop server, a client that pipelines calls,
  and templates that encode arguments and results.

This directory models them in TLA+, checks the models with TLC and proves theorems about them
with TLAPS. Everything is translated from the source. `PROJECT.json` maps every definition to
its lines, and lists the hazards the properties are for.

## Inventory

| Component | Where | State | Operations | Modules | Status |
|---|---|---|---|---|---|
| Database | `asst3/database.rs` | per table a map from id to (version, values), and the last id given out | insert, update, drop (recursive), get, query | `EasyDBTables`, `EasyDB`, `AtomicDB`, `EasyDBRefinement` | modelled, proved |
| Server | `asst3/server.rs` | listener, one thread per client, an `Arc<Mutex<Database>>` whose clones are counted | accept, refuse, serve a request, end | `EasyDBServer` | modelled but for `single_threaded`; proved |
| Packet codec | `asst3/packet.rs` | the buffer of a `receive` | `receive`, `respond` | `EasyDBPackets`, `EasyDBClient` | modelled, proved |
| Schema reader | `asst3/schema.rs` | token and parser position | tokenize, parse, resolve references | `SchemaParser` | modelled, proved |
| Server program | `asst3/main.rs` | none | arguments, printing | | not modelled |
| Client | `asst1/easydb` | one global socket, the schema | connect, close, insert, update, drop, get, scan | `EasyDBRequests`, `EasyDBPackets`, `EasyDBClient` | modelled, proved |
| ORM | `asst2/orm` | per object a cached row: id, version, values, references | the metaclass, export, save, delete, get, filter, count | `ORM`, `SchemaParser` | modelled but for field conversions; proved |
| RPC server | `asst4/rpc.cc` | per connection two sliding buffers, an error flag, an event mask | accept, read, execute, write, close | `RpcServer`, `RpcSystem` | modelled, proved |
| RPC connections | `asst4/rpc.cc` | a doubly linked list by recency | construct, mark active, delete, `~Server` | `RpcConnections`, `RpcRecency` | modelled, proved |
| RPC client | `asst4/rpc.cc` | request buffer, pending results, reply buffer | connect, send, flush | `RpcClient`, `RpcSystem` | modelled, proved |
| RPC types | `asst4/rpcxx.h` | none | encode, decode, call, export, execute | `RpcProtocol` | modelled, proved |
| Test programs | `asst4/test-simple.cc`, googletest | | | | not modelled |

**How they interact.** A program uses the ORM, the ORM calls the client, the client sends one
packet over TCP and waits for one back. The server gives each connection a thread; the thread
locks the database for the whole of a request, the writing of the response included. The schema
travels as text: the classes of the program are exported, and the server parses the file. In the
RPC library a client collects up to eight requests, writes them in one go, and reads replies
until each request has one, in order. One thread of the server serves all connections from
`epoll_wait`.

**What is hard.** In the database: a recursive drop that can stop half way, with a list of rows
computed before the rows disappear. In the server: threads that free their place late, a mutex
held across a write to a client that may be gone. Between client and server: one `read` is taken
for one packet, on both sides, and all objects of a program share a socket. In the ORM:
operations that are several requests, with the requests of others in between, and local copies
whose version decides what a save may overwrite. In the RPC library: streams cut anywhere,
buffers that fill up, requests left in a buffer for which no event will come, errors in the
middle of a pipeline, clients and servers that vanish, `SIGPIPE`. Each is a hazard in
`PROJECT.json`, at its line, with the properties that cover it or the reason why none does.

**What makes each correct.** Database: references are always live, a drop takes a row with all
that depends on it and nothing else, ids and versions are never used twice. Server: it is one
database that serves one request at a time, it serves at most four clients, answers go to those
who asked, and everybody is answered. Client: the server does what the method meant, and the
method returns what the server answered. Schema: both sides go by the same tables, and
references go back. ORM: an atomic save overwrites nothing its object did not see. RPC: each
call is executed at most once and in order, each result is that of its own call, a failed flush
marks exactly the calls without a result, buffers stay within bounds, every flush returns, and
every connection is closed.

## The object database

### `EasyDBTables`, `EasyDB`: the handlers

`EasyDBTables` has the state `content` and `row_count` (the `HashMap` and the counter of each
table), `call` (the request served last, with its response) and the handlers that are one step:
`handle_insert`, `handle_update`, `handle_get`, `handle_query`, and `check_row` as `ValidRow`
and `RowErrors`. The set of possible errors replaces the order in which a `HashMap` would meet
the first one. Values are records of a type and a number; numbers stand for ordered integers,
floats and strings.

`EasyDB` adds `handle_drop`. The recursion is an explicit stack, `frames`: a frame is a call of
`handle_drop` with the fields it has found to refer to its object and not dealt with yet. One
step makes the next recursive call (`DropReferrer`), or finds its row gone and returns
`NOT_FOUND` through the whole stack (`AbortDrop`), or removes the object and returns
(`RemoveObject`). The order of fields is that of the loops of the code: tables, and all fields
of a row together, in the arbitrary order of the maps.

### `AtomicDB`, `EasyDBRefinement`: what the handlers promise

`AtomicDB` states a drop as one step: the object goes with its *family*, the rows that refer to
it directly or not. There is one exception, which the code has and the specification states: if
a row of the family refers to two of its members, the drop may give up with `NOT_FOUND`, leaving
the object and no dangling reference. `EasyDBRefinement` shows the tables as they were when a
handler last returned, which is what a client can see behind the mutex: each handler, a drop with
the whole of its recursion, must be one step of `AtomicDB`. The modules of the client and of the
ORM use `AtomicDB` for the database, which this refinement and that of the server justify.

### `EasyDBServer`: threads around the database

It extends `EasyDB`. Its variables are the clients, both directions of each connection, the
backlog of the listener, the accept loop, the program counter of each thread, who holds the
mutex, and the clones of the `Arc`, which are what the limit counts. `Handle` takes *one* step of
a handler, so other threads run in the middle of a cascade unless the mutex stops them. A client
may vanish at any point; a later write to it makes its kernel reset the connection. `receive` of
nothing parses what was in the buffer, so the server may serve a request nobody sent (`ghosts`
counts them). `shutdown(..).unwrap()` may panic and end the accept loop, and the program with it.
Packets are whole here; their words are the subject of the next module.

### `EasyDBRequests`, `EasyDBPackets`, `EasyDBClient`: a call from Python to Rust and back

`EasyDBRequests` is what the methods of `Database` check and turn into a request, and how an
error code becomes an exception. `EasyDBPackets` is the four packings and unpackings: a packet is
a sequence of words of four bytes, an `i64` or `f64` is two of them, a string its length and its
padded words. `EasyDBClient` puts them around the socket. Its state is the words on their way in
both directions, what was asked, what the thread read and answered, and what the call returned.
A read takes what has arrived up to the size of the buffer, so a packet may be read in pieces
(`Cuts`), and what the buffer held before stands behind what was read (`Junk`). The socket is
global, as in the code: `ConnectAgain` is a second `connect`, which fails and sends `EXIT` on the
connection of the first.

The properties are stated for connections where no read has left a part of what was sent behind
(`torn`): after that the two sides are out of step for good. `CallsReturn` is about torn
connections too.

### `SchemaParser`: from classes to tables

The metaclass checks the classes, `createSchema` and `export` write them as text, `Database`
checks them again for its own use, and `schema.rs` reads the text. The parser is an automaton
over tokens, `at` says what it expects; it runs on what a program exports and on every text. In
the second case the next token is chosen when the parser asks for it.

### `ORM`: objects over rows

A *session* is a program with its objects, `heap`, and a stack of the calls of `save`, `get` and
`filter` that are in progress. Each request to the database is a step, so requests of the other
session come in between. `save` calls itself for the objects referred to, `get` for the rows
referred to, `filter` scans and then gets row by row. `seen`, the row an object was last read
from or written to, is only there for the properties.

## The RPC library

`RpcMessages` has what both sides share: calls with the sizes of their arguments and result, and
a connection as two streams of bytes whose ends are open, closed in order or reset. A byte is
represented by the message it belongs to, so a stream can be cut anywhere and a reader that is
one byte off sees it.

`RpcServer` is the event loop. `srv` says where it is between two system calls: `epoll_wait`,
write, read, the loop over pipelined requests, the write after each, the computation of the new
mask. `inbuf` and `outbuf` are `SlidingBuffer`s with their `start`; `Slide` is the code's.
A write takes what the kernel has room for (`SendBuffer`), a read any part of what has arrived.
A write to a connection that was reset fails or, as nothing handles `SIGPIPE`, ends the process.

`RpcClient` is `Send` and `Flush`. `Flush` is a sequence of steps (write, read, parse one reply,
fail, finish) between which the server runs. `results` records what each `Result` holds.

`RpcSystem` composes them and states the properties. The server's `UNCHANGED` and the client's
meet only in the four variables of the network.

`RpcProtocol` is what `RpcSystem` abstracts to sizes: the layout of each type in bytes, the ten
overloads of `Client::Call` and `Service::Export`, the header check and the lookup of the
procedure, decoding that finds half a string, a result that does not fit, and the way back into
the `Result`. Here bytes have values. The server closes the connection after an error reply
(`CloseConnection`): if requests are unread then it is a reset, `poll` says `POLLERR`, and `Flush`
fails without reading the replies that have come (`FlushReadFails`). How much room `outbuf` has
left for a result is any of `Rooms`: it depends on the replies not yet written, which `RpcServer`
counts, and here each call may meet each room. Who was refused is in `executed` (`fits`). `Power(n)` is how many values `n`
bytes have, `Fits` what a C++ variable of a type can hold, and `WellTyped` what the compiler has
checked of a call. A call that `Send` refuses leaves no trace: `Call` returns `nullptr`.
`Number`, `DecodeArgs` and the like are recursive functions, so that they can be proved about.

`RpcConnections` models the pointers `next_lru`, `next_mru`, `lru` and `mru` through
construction, `MarkActive`, deletion, memory that is used again, a connection whose socket the
event poll refuses, and the walk of `~Server`. `RpcRecency` is what they promise: the sequence
of live connections, the most recent first. `Walk` follows the links and is the refinement mapping.

## What TLC checks

| Run | Properties | Shows | Instance |
|---|---|---|---|
| `refinement` | `ImplementsAtomicDB`, `ReferentialIntegrity`, `RecursionBounded`, `GoneForever`, `VersionIdentifiesValues`, `DropTerminates`, `RowsFitSchema`, `QueriesPartition` | each handler, a drop with its recursion, is one step of `AtomicDB`; references are live in the middle of a cascade; rows fit their tables; the queries of a column agree with each other | three tables where a row is reached in two ways, a column of each type, right and wrong rows |
| `two_refs` (violation) | `NotFoundMeansAbsent` | a row that refers twice to an object makes its drop answer `NOT_FOUND` | two tables |
| `server` | `ServedBound`, `MutexHeld`, `AnswersMatch`, `Serialised`, `ClientsAnswered`, `PlacesFreed` | places, mutex, answers, and one request at a time (`Serialised` is `EasyDB!Spec`); every request and every connect is answered, every place becomes free | 3 connections, 2 places, two requests of three kinds, one connection may vanish, one ghost |
| `client` | `RequestUnderstood`, `ResultMeansAnswer`, `LostOnlyByExit`, `CallsReturn` | what the server reads is what was meant; what a method returns or raises is what was answered, by what `exception.py` says of a code and by each field that is not NULL; who loses the connection and who waits forever | 4 calls of every method, right and wrong, NULLs, empty strings, a packet and a response longer than their buffers |
| `client_errors` (violation) | `ErrorsAsDocumented` | `BAD_QUERY` raises `InvalidReference`, not the documented `PacketError` | as `client` |
| `client_scans` (violation) | `ScansAnswered` | a scan on `id`, or for a float equal to a value, as in the recorded runs is refused | as `client`, without NULLs stored |
| `schema` | `ReferencesGoBack`, `NothingLost`, `SidesAgree` | the parser reads what is written, references go back, both sides have the same schema | every text of up to 18 tokens, programs of one and two classes |
| `orm` | `WritersUpToDate`, `FilterMissesNothing`, `NoLostUpdate`, `SaveChangesOneRow`, `GetFailsOnConflict` | no atomic save overwrites what its object did not see, whoever writes stays up to date, and `get` and `filter` miss only what changed meanwhile | 2 sessions of two and three operations, two tables |
| `rpc_safety` | `BuffersInRange`, `ResultsMatch`, `SettledByFlush`, `RepliesWritten` | buffers stay in range, results match their calls, execution once and in order, a flush settles every result, no reply is dropped | 2 clients, 3 calls of five kinds in and out of the limits, a small kernel buffer, a vanishing client, a server that ends |
| `rpc_liveness` | `NoSpuriousFailure`, `FlushReturns`, `ConnectionsClosed` | calls within the limits do not fail, every flush returns, every connection is closed | 2 clients, 4 calls, pipeline of 2 |
| `rpc_connections` | `LinksMatch`, `DestructorEnds`, `ImplementsRecency` | no deleted memory is reached, `~Server` deletes everything and ends, the list is the recency list | 4 connections |
| `rpc_protocol` | `CallsMatch`, `FlushNeverStuck`, `FailsOnlyWhenRefused` | arguments and results arrive as they were, whatever the reads return; a flush fails for the two reasons named only, and after a reset too the values are those of the first calls | 3 calls of ten kinds, pipeline of 2, one procedure not exported, one result that fits or not |

**Why the bounds are enough.** *Database:* a cascade is interesting when it is three tables deep
and when a row is reached twice; `refinement` has both. Two ids per table let a row be dropped
while its sibling stays and an id be missing. `MaxId` and `MaxVersion` refuse the insert or update
that would pass them. A row of the first table is queried by values that are equal and, once
updated, different or NULL. *Server:* with two places (`BusyThreshold` 3) and three connections one
waits, one is refused or one takes the place of another, and the limit is reached while a clone is
still held. A client that vanishes before, between and after its request meets every way `receive`
and `respond` can fail. A thread reads a second time for the EXIT; two requests and the ghost are a
user, an account that refers to it and a drop of both. *Client:* packets of the calls are up to 14
words and `PacketWords` is 16, so all of them fit but one insert, which was made too long; a scan
of five rows is longer than `RecvWords`, 11; `Cuts` at 1 and 5 words tear a packet in its header
and in its body; `Junk` 0 and 1 are a buffer that ends what was read and one that goes on with it.
Four calls are one that tears, one out of step, and a `connect` and a `close` besides; `MaxId` 5
and `MaxVersion` 3 leave room for what these can write. *Schema:* 18 tokens are two tables with
three columns in all (a table is three tokens and four for each column); names are two and a native
one, so that every clash can happen. *ORM:* the conflicts need one write of each session around a
read of the other, so one of them has three operations of which two can write; `MaxId` 4 lets each
insert two rows into the first table. *RPC:* sizes are scaled to a header of one byte and a maximum
of two, with the proportions of `rpc.h` (buffers are two maxima, a mismatch reply is longer than a
header), so that every buffer is filled to its end, slid, overrun by the largest call and cut at
every byte. In `rpc_safety` a pipeline of three makes a request larger than `inbuf` possible. In
`rpc_liveness` four calls wrap each buffer more than once. *RPC types:* `ByteValues` 16 makes an
`int` of two bytes overflow into its second, negative ones included; `LengthSize` 2 can be cut in
half; `RequestRoom` 17 is passed by one argument; of the `Rooms` 5 and 7 one result just fits into
the first and another only into the second; three calls with a pipeline of two make two flushes,
and a refused call with another behind it, so that the reset happens. *Connections:* four are a
list with two ends and a middle of two.

**Deadlock.** It is checked where the system never stops (`refinement`, `two_refs`). In
the others a bounded number of calls is made, then clients leave, the text ends or the server
does, and nothing happens, rightly; so `CHECK_DEADLOCK FALSE`. What must not stop there is said by
the liveness properties, and by `CallsReturn` and `FlushNeverStuck`, which exclude that both sides
wait for each other.

**Fairness.** *Database:* `WF` of a cascade's steps: a thread in `handle_drop` runs it to its
end. *Server:* `WF` of the accept loop and of each thread (the scheduler runs them), and of
delivery; `WF` of a thread that waits for the mutex is enough only because each connection sends
a bounded number of requests, since `std::sync::Mutex` is not fair. Clients need not send or leave.
*RPC:* `SF` of the event of one connection: `epoll_wait` is level-triggered and the loop handles
every event it returned before it waits again, so a connection that is ready again and again is
served. `WF` of the loop's work and of a client inside `Flush`, neither of which waits for
anything else. Nothing is assumed of clients between flushes. *Destructor:* its loop runs.

**Findings.**

* `two_refs`: a drop answers `NOT_FOUND` ("id not found") about an object that is
  there, because the list of fields that refer to it names a row twice when it refers to it twice,
  and the second recursive call does not find the row any more.
* `client_errors`: `exception.py:24` says `PacketError` is for `BAD_QUERY` and `BAD_REQUEST`;
  `errorCheck` raises `InvalidReference` and `IndexError` (`easydb.py:438-441`).
  `ResultMeansAnswer` takes the meaning of every code from `exception.py` (`Documented`), and of
  `BAD_QUERY` only that the method raises something.
* `client_scans`: `=` on a float column is `BAD_QUERY`, although `asst2/tester.log:288` and
  `:290` show it answered; the client lets it pass. So is a scan on `id`, whose value the client
  packs as a foreign key, although `asst2/tester.log:237` and `:243` and `asst1/tester.log:296`
  show such scans answered. TLC reports one of the two.

**Seen while modelling, in the models as the code has it.**

* A place is counted as taken until the thread has dropped its clone, so `SERVER_BUSY` can be the
  answer although a connection has just ended (`server.rs:64`).
* A packet with an empty string, the value of a scan included, never gets an answer: the loop that
  strips the padding does not end (`packet.rs:336`). `CallsReturn` names it (`HasEmptyText`).
* `get` has no case for a NULL, which the server lets into any column: it says "Shold not be here"
  (`easydb.py:332`) and returns the value before it, or raises `UnboundLocalError` when there is
  none. `ResultMeansAnswer` says nothing of what is shown for a NULL.
* A NULL in a column makes every query of that column `BAD_QUERY` (`database.rs:401`).
* `filter` with several conditions keeps the rows of the last one (`table.py:101`).
* The server resets the connection when it closes it after an error with requests unread, and a
  flush then loses the replies that had come (`rpc.cc:600`): a Result may have an error although
  its call came before the refused one and was executed (`FailsOnlyWhenRefused`).
* `FlushReturns` needs a kernel that takes the replies to a whole pipeline. In the program these
  are eight times 128 bytes, so it does. With a smaller send buffer the server leaves whole
  requests in `inbuf` (only input makes the loop look at it) and a flush never returns.

## What TLAPS proves

For every schema, every set of requests, any number of clients and connections, and any sizes:

* `EasyDBProofs`: `TypeOK`, `RowsFitSchema`, `ReferentialIntegrity`, `RecursionBounded`,
  `GoneForever`, `VersionIdentifiesValues`. `ReferentialIntegrity` is not inductive by itself:
  when `RemoveObject` takes a row away, why does nothing refer to it? Because its frame's list was
  complete when it was made, every row on it has been dropped since, and no new reference can
  appear while a drop is in progress. This is `Covered` (`CascadeIsCovered`): each row that refers
  to the object of a frame is still on the frame's list or is the object of the next frame.
  `Covered` in turn needs frames to be of ever later tables (`RecursionBounded`), so that the
  object of one frame never refers to that of a frame further from it by way of a row just
  removed, and rows as wide as their schema (`RowsFitSchema`). The five with `TypeOK` are the
  inductive invariant `Inv`; there is a lemma per handler and per step of the cascade.
  `QueriesPartition` follows from `Inv`: rows that fit the schema make every arm of the comparison
  meet numbers, and numbers are ordered.
  `DropIsAtomic` says that `EasyDB` with the recursion of `handle_drop`
  implements `AtomicDB` (`ImplementsAtomicDB`). The invariant compares the tables in the middle of
  a cascade with those the client saw last: the rows that are left are as they were (`Kept`), the
  rows that are gone are of the family, and so are the objects of the calls in progress, each of a
  later table than the one before (`CallsOK`). When the last call returns, the object and what is
  gone are a closed set, by `Covered` and `ReferentialIntegrity`, and the family is the least one.
  When a call gives up instead, its row is gone although the field it was made for was still on a
  list; the row must have been dropped for another field, and `CalledFor` remembers that there is
  one and that it has left its list. The two fields are the two ways into the family that
  `AtomicDB` asks for.
* Of the server, in the same module: `MutexIsHeld`, from `SectionInv` (the threads in the critical section are
  the holders, one at most, and a cascade is in progress exactly when one of them is dropping);
  from it `ServerIsSerial`, that the server implements `EasyDB`, and with that
  `ServedReferencesAreLive`, `ReferentialIntegrity` behind any number of threads; and
  `ServedIsBounded`, from `PlacesInv`, which counts the clones.
  `AnswersGoToWhoAsked` has an invariant that follows one request: while a client waits, its request is in exactly one place, the stream to the server, the thread, the database
  call of the thread that holds the mutex, or the stream back as part of the answer. That `call`
  of the database is the thread's own between `Handle` and `Answer` needs the mutex.
* `RpcConnectionsProofs`: `LinksMatchTheorem`, `LinksAreAcyclic`, `ConnectionsTypeCorrect`. One
  lemma says that `DeleteFromLRU` keeps a well-linked list well linked without the connection, one
  that `MarkActive` does with it; the steps follow. That links match pairwise would allow a
  connection that is linked to itself, so acyclicity is part of the invariant: there is a strict
  order of the live connections that every link follows.
  `ListIsRecency` is the refinement of `RpcRecency` (`ImplementsRecency`). That the walk along the
  links meets every live connection once would need induction over the walk in each step; instead
  the invariant (`Ordered`) says that there *is* a sequence of the live connections, each once, of
  which `mru` is the first and `next_mru` leads from each to the next (`InOrder`), and the operations
  keep one: `LinkFirst` puts its connection in front (`LinkPutsInFront`), `DeleteFromLRU` joins the
  neighbours, which `Neighbours` finds in the sequence (`DeleteTakesOut`). Only `WalkIs`, that the
  walk is this sequence, is by induction (`Upwards`), and as the sequence lists the live
  connections once each, their number is its length.
* `RpcProtocolProofs`: `CallsAlwaysMatch`, `FlushesHearMore`, `FailuresAreRefusals`, from
  `StreamsAgree`, for any service, any calls, any sizes of the types, any number of values of a byte,
  any rooms and any cuts. Half of it is about bytes. `NumberOfBytes` says that the bytes of a number
  make the number again, modulo what they can hold, and `NumberFits` that this is the number itself,
  or its complement when it is negative. `ValueReadsBack` says of every type that a stream which begins
  with the bytes of a value, or with a part of them, is read as that value exactly when it has as
  many bytes as were written. `ArgumentsRead` takes that through the parameters of a procedure
  (`DecodeNext`), `FirstRequest` and `FirstReply` through a request and a reply. The other half
  is where the messages are. Until the server gives up the connection, its bytes (`inbuf`, those on
  their way and those the client has not written) are one stream, the requests of the calls that
  are not executed (`RequestsOK`). The client's bytes are the replies to its pending calls, in order, up to
  the last one the server has handled, which alone may be a refusal (`RepliesOK`). Neither side knows
  where a message ends but by reading it. So a request is decoded as its own arguments or not at
  all, a reply is taken for its own call, and when a Flush waits and nothing is on its way back,
  the server has a request still to read or to handle. `Short` is the call whose result had no
  room: the room of one moment decides which replies there are (`Replies`) and who gets a result
  (`Goods`), so both change in the step that executes a call, and there for this call only
  (`NextExecuted`). A Flush that fails has read the refusal, or the connection was reset: in both
  cases the call that was handled last is the refused one, and the values are those of a first part of the calls
  before it (`FailPreserves`).
* `RpcSystemProofs`: `BuffersStayInRange`, `FlushSettles`, `NoReplyDropped`. The invariant has a
  part for the kernel (a stream to a client is no longer than what it takes, without which the
  number of bytes a write takes would be no number), one for the server's buffers (`Slide` and the
  reserve of one reply) and one for the pipeline of a client: its requests have xids of their own,
  and the Results without an outcome are those of the requests after `nr_replied`.
  `NoReplyDropped` needs besides that the server knows no client that has not connected yet.
  Its second half, about the streams: `RepliesMatchCalls`, from `StreamsInv`. A stream of messages is a sequence of
  bytes in which each message that starts goes on for its size and is followed by one that may
  follow it; said of every place, that needs no induction, and it stays true of what is left
  when the first message is taken, of what is cut off, and when a message is appended. What the
  server has not consumed (`inbuf` and the kernel together) is such a stream, of whole requests
  that start with the first call not executed; what the client has not parsed (Flush's buffer,
  the kernel and `outbuf`) is one of replies that starts with the first call without a Result, of
  which only the last may be an error, and then nothing more is executed. That connects the
  *place* of a reply, which is all the client looks at, to its xid.
  `CallsSucceed` needs `HealthInv` besides, which counts: while a client flushes, the bytes of
  replies it has read in this Flush and those on their way are at most `MaxResponseSize` for each
  call executed, so that they fit into its buffer and into the kernel, every write of the server
  writes everything, and what is left in `inbuf` is less than a request. Its hypothesis, that the
  kernel takes the replies to a pipeline, is 8 times 128 bytes in the program; without it the
  property is false (see `FlushReturns` above).
* `EasyDBClientProofs`: `RequestIsUnderstood`, `LostByExit`, `NoDeadlock`, `ResultsMeanAnswers`, for every schema,
  program and value, any contents of the buffers and any cuts. Half of it is about packets:
  `RequestRead` says that a packet of the client, wherever it ends and whatever follows it in the
  buffer, is read as the request that was packed, or as `Endless` if one of its texts is empty.
  `Lies` says that some words are in the buffer from a place on; a value that lies there is read and
  leaves the reader at the next (`ReadValue`), so by `Upwards` the whole row is. The other half is
  about who waits for whom: `ClientInv`. While the connection is not torn, the words on their way to
  the thread are none, or begin with an `EXIT`, or are the packet of the call that waits, with
  nothing on its way back (`Outgoing`); nothing comes back that no call waits for (`Quiet`); and a
  thread that is lost has read the request of the call that waits (`Stuck`). That a call which waits
  on a *torn* connection finds words on their way or a connection that has ended needs that every
  response has a word at least (`ResponseTyped`), and so that what the database stores of requests
  out of step still consists of values.
  `ResultsMeanAnswers` rests on a second invariant, `AnswerInv`, proved on top of
  `ClientInv`. What is stored must be values the server can write (`WritableData`), which only
  requests that were read as they were meant keep true, so it is said of connections that are not torn; and an
  answer must fit its request (`AnswerFits`): a response to `Insert` is a number and a version or a
  refusal that `errorCheck` knows. Then it is the packets again, in the other direction. `get`
  reads one field after another and remembers the value before (`NextField`), so `Shows` says what
  it has after a part of the row (nothing of a field that is NULL), and `Upwards` takes that to the
  end; a scan reads ids until they are all read.
* `SchemaParserProofs`: all three properties of the schema. `ReferencesAlwaysGoBack`, for every text
  of every length, the tables being read included; `SchemaInv` says of each state of the parser what
  the column at hand may be. `NothingIsLost`, from `ReadOK`: the tables, written again, and what is
  begun of the next (`Begun`) are the tokens that were taken. A table that is closed must stay
  written the same when there are more tables, which is so because its references go back.
  `SidesAlwaysAgree`, from `Follows`: of a schema that `Database` accepts, what has been read is a
  part from its beginning, so where the parser is in the schema says what the next token is
  (`Given`, `IsGiven`), that it is the one the parser wants, and that a name is found (names are
  unique, `ReferenceFound`).
* `SequenceFacts`: what these rest on. `FlattenSeq` is a recursive function, and the induction
  theorems of the library are out of reach; but a set of numbers has a least element (`Least`,
  from the library's theorem that inclusion of finite sets is well founded), so that what holds of
  1 and with a number of the next holds of all (`Upwards`), and with that `Flatten` says what
  `FlattenSeq` is of every sequence.
* `ORMProofs`: all five properties of the ORM (`WritersStayUpToDate`, `FilterFindsAll`,
  `AtomicSavesLoseNothing`, `SavesChangeOneRow`, `GetsFailOnConflictOnly`) for any number of
  sessions, over any schema whose references go back, from `ORMInv`. It has four parts. The rows fit the
  schema and their references are live (`TablesOK`). An object or a call that has read a row under
  a version *knows* it: as long as the row keeps this version, it is the row that was read
  (`Known`), which needs that versions only grow and ids are never given out again
  (`OnlyForward`). Each stack of calls is in order (`SessionOK`): a `save` is for an object of an
  earlier table than the one it was called for, a `get` has the references it has got so far, and a
  `filter` of all rows accounts for each of them: it is newer than the scan, still on the list,
  being got, or has its object (`Listed`). And every row a session was the last to write is
  remembered by an object that stays (`WritersKeep`): an exception takes away only the objects above
  `Base`, which a `get` or `filter` made and nobody has written. `WritersUpToDate` alone is not
  inductive for this reason: without `Base`, the object that remembers could be one that goes. `OtherSession` says
  what a request of one session leaves of the others; there is a lemma per request, and one per
  action for what it does to its own session.

They rest on the named assumptions of the modules: about the schema (a reference is to an
*earlier* table, which `ReferencesAlwaysGoBack` proves of what `schema.rs` reads), about the order of sizes in
`rpc.h`, about bounds, about what C++ checks of a call (`ProtocolAssumption`: arguments
and results fit their types, strings are shorter than `size_t` can say, and a word of the header has more
values than there are procedures), about the names in a program (`ModulesAssumption`: they are identifiers, and a field
that refers to no table is stored as a native type), that the rows the ORM starts with fit the schema and refer to each other, about the arguments of the
client's methods and the rows stored before it starts (`ClientAssumption`: they are values, and the
rows fit their tables), that the first words of a packet fit the server's buffer (`WordsAssumption`), and
that names such as `NULL` are not members of what they stand beside.

**Only model-checked.** Liveness: `DropTerminates`, `ClientsAnswered`, `PlacesFreed`,
`FlushReturns`, `ConnectionsClosed` and `DestructorEnds`. TLAPS 1.4.5 does not do fairness or
`ENABLED`. Every safety invariant, action property and refinement that a run expects to hold has
a theorem.

## What is not modelled

* *Database:* NaN, negative column numbers (the client cannot send one), the width of integers.
* *Server:* `single_threaded` (never called), errors of `bind` and `accept`, a mutex that is
  poisoned (no handler panics while rows fit their schema, which is proved).
* *Packets:* characters within a word; encodings other than ASCII.
* *ORM:* conversions of `datetime` and coordinates to and from columns, defaults and choices of
  fields: pure functions on one value, and a `DateTime` or `Coordinate` field counts as the
  columns it becomes.
* *RPC:* services added while the loop runs, descriptors that are closed twice, `Call` before
  `Connect`, requests with credentials (no client makes one), a client that is killed in the
  middle of its `write`. That `write` is one step: the largest pipeline is 32 KB. `CheckTimeout`
  is compiled out.
* `main.rs`, the test programs and makefiles: no state of their own.
* `src/asst4/googletest` is a vendored copy of googletest and googlemock, about 39 000 of the
  43 000 lines of implementation in the repository. It is not this project's code and none of it
  is modelled, so the map covers a small share of the whole tree: about 2 840 of the 3 900 lines
  that are the repository's own. What the map leaves out of these is printing, `main`, the parts
  listed above and lines of declarations.

## What could come next

1. Cut packets in `EasyDBServer`, so that `ClientsAnswered` is about torn connections as well.
2. The descriptor that a failed `Flush` closes and `~BaseClient` closes again, with the other
   files of the program as state.
3. `RpcSystem` as a refinement of `RpcProtocol`: both are proved to match calls and results, one
   for sizes and connections that break, one for bytes.
