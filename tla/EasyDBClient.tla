---------------------------- MODULE EasyDBClient ----------------------------
(***************************************************************************)
(* A Python program with its Database objects (asst1/easydb/easydb.py),    *)
(* the TCP connection they share, and the thread of the server for it      *)
(* (handle_connection, asst3/server.rs) with the packets of EasyDBPackets. *)
(* The thread handles a request in one step, as EasyDBServer shows; what   *)
(* the threads of other connections do is a step of AtomicDB.              *)
(*                                                                         *)
(* The socket is a global of the module: all Database objects use it, and  *)
(* nothing closes it.  A read takes what has arrived, up to the size of    *)
(* its buffer, which may be a part of a packet.                            *)
(***************************************************************************)
EXTENDS AtomicDB, EasyDBPackets

CONSTANTS
  Stored,      \* table -> the rows that are there when the program starts
  Calls,       \* the calls of methods that the program makes
  Cuts,        \* bound: where the network cuts a packet (words from its start)
  Junk,        \* bound: words that the buffer of receive may hold before it reads
  MaxCalls     \* bound: calls, connects and closes of the program

\* What a program passes for a field: None, a number or a text
Argument == {v \in Writable : v.type # FOREIGN}

\* Only rows that fit were ever stored, and the other clients pack values too
Fits(t, values) ==
  /\ values \in Seq(Value)
  /\ Len(values) = Len(Schema[t])
  /\ \A i \in DOMAIN values : values[i].type \in {NULL, Schema[t][i].c_type}

ASSUME ClientAssumption ==
  /\ Stored \in [TableIds -> Seq(Seq(Writable))]
  /\ \A t \in TableIds : \A o \in DOMAIN Stored[t] : Fits(t, Stored[t][o])
  /\ \A r \in Requests : r.command \in {"Insert", "Update"} => r.values \in Seq(Writable)
  /\ Calls \subseteq
            [method : {"insert"}, table : Int, values : Seq(Argument)]
       \cup [method : {"update"}, table : Int, pk : Int, version : Int,
             values : Seq(Argument)]
       \cup [method : {"drop", "get"}, table : Int, pk : Int]
       \cup [method : {"scan"}, table : Int, op : Int, column : Int, value : Argument]
  /\ Cuts \subseteq Nat /\ Junk \subseteq Int /\ MaxCalls \in Nat

VARIABLES
  link,        \* the socket: "new", "up", "refused" (the server was busy), or "ended"
  toServer, toClient,   \* words on their way
  asked,       \* the request of the call that waits for its response, or NoRequest
  answer,      \* the request that the thread read for it, and its response
  outcome,     \* what the last call raised or returned
  thread,      \* "serving", or "endless" in the loop of from_raw
  exits,       \* EXITs sent
  torn,        \* a read has left a part of what was sent behind
  calls        \* calls so far

net == <<link, toServer, toClient, thread, torn>>
clientVars == <<content, row_count, call, link, toServer, toClient, asked, answer,
                outcome, thread, exits, torn, calls>>
database == <<content, row_count, call>>

Connecting == [command |-> "Connect"]
NoAnswer   == [request |-> NoRequest, response |-> Pending]

ClientInit ==
  /\ content = [t \in TableIds |->
       [o \in DOMAIN Stored[t] |-> [version |-> 1, row_values |-> Stored[t][o]]]]
  /\ row_count = [t \in TableIds |-> Len(Stored[t])]
  /\ call = NoAnswer
  /\ link = "new" /\ toServer = <<>> /\ toClient = <<>>
  /\ asked = NoRequest /\ answer = NoAnswer /\ outcome = Nothing
  /\ thread = "serving" /\ exits = 0 /\ torn = FALSE /\ calls = 0

-----------------------------------------------------------------------------
Begin ==
  /\ asked = NoRequest
  /\ calls < MaxCalls
  /\ calls' = calls + 1
  /\ answer' = NoAnswer
  /\ UNCHANGED database

\* s.send: an error when there is no connection, and maybe when it has ended
SendWorks(packet) ==
  \/ link = "up" /\ toServer' = toServer \o packet
  \/ link \in {"refused", "ended"} /\ UNCHANGED toServer
SendRaises == link # "up" /\ UNCHANGED toServer

\* close: an EXIT, in connect too when it fails; the socket stays open
close(result) ==
  \/ SendWorks(Request_packet(ExitRequest)) /\ exits' = exits + 1 /\ outcome' = result
  \/ SendRaises /\ UNCHANGED exits /\ outcome' = Raised("OSError")

Close ==
  /\ Begin
  /\ close(Nothing)
  /\ UNCHANGED <<link, toClient, asked, thread, torn>>

\* connect on a socket that is not connected yet: a thread greets the program, or
\* the server refuses it and closes, or there is no server
Connect ==
  /\ Begin
  /\ link = "new"
  /\ \/ /\ \/ link' = "up" /\ toClient' = <<OK>>
           \/ link' = "refused" /\ toClient' = <<SERVER_BUSY>>
        /\ asked' = Connecting
        /\ UNCHANGED <<outcome, exits, toServer>>
     \/ close(Whether(FALSE)) /\ UNCHANGED <<link, toClient, asked>>
  /\ UNCHANGED <<thread, torn>>

\* s.connect raises on a socket that is connected, whichever object connected it
ConnectAgain ==
  /\ Begin
  /\ link # "new"
  /\ close(Whether(FALSE))
  /\ UNCHANGED <<link, toClient, asked, thread, torn>>

-----------------------------------------------------------------------------
\* What a method refuses with a PacketError, and what it asks for
Accepted(c) ==
  CASE c.method \in {"insert", "update"} -> check_values(c.table, c.values)
    [] c.method \in {"drop", "get"}      -> c.table \in TableIds
    [] c.method = "scan" -> check_scan(c.table, c.op, c.column, c.value)

RequestOf(c) ==
  CASE c.method = "insert" -> InsertRequest(c.table, c.values)
    [] c.method = "update" -> UpdateRequest(c.table, c.pk, c.values, c.version)
    [] c.method = "drop"   -> KeyRequest("Drop", c.table, c.pk)
    [] c.method = "get"    -> KeyRequest("Get", c.table, c.pk)
    [] c.method = "scan"   -> ScanRequest(c.table, c.op, c.column, c.value)

Call ==
  /\ Begin
  /\ \E c \in Calls :
       \/ /\ ~Accepted(c)
          /\ outcome' = Raised("PacketError")
          /\ UNCHANGED <<toServer, asked>>
       \/ /\ Accepted(c)
          /\ SendWorks(Request_packet(RequestOf(c)))
          /\ asked' = RequestOf(c)
          /\ UNCHANGED outcome
       \/ /\ Accepted(c)
          /\ SendRaises
          /\ outcome' = Raised("OSError")
          /\ UNCHANGED asked
  /\ UNCHANGED <<link, toClient, thread, exits, torn>>

-----------------------------------------------------------------------------
\* How many of the words that were sent a read may return.  The network cuts one
\* packet only.
Taken(stream, size) ==
  {n \in {size, Len(stream)} \cup (IF torn THEN {} ELSE Cuts) :
     n <= size /\ n <= Len(stream) /\ n > 0}

After(stream, n) == SubSeq(stream, n + 1, Len(stream))

\* What recv returned of the greeting, or of a response
connect_result(r) ==
  IF r[1] = SERVER_BUSY THEN close(Whether(FALSE))
  ELSE UNCHANGED <<toServer, exits>> /\ outcome' = Whether(TRUE)

\* The buffer of recv holds less than the response: the rest stays for the next call
Receive ==
  /\ asked # NoRequest
  /\ \E n \in Taken(toClient, RecvWords) :
       /\ toClient' = After(toClient, n)
       /\ torn' = (torn \/ n < Len(toClient))
       /\ IF asked = Connecting THEN connect_result(SubSeq(toClient, 1, n))
          ELSE /\ outcome' = unpack(asked.command, SubSeq(toClient, 1, n))
               /\ UNCHANGED <<toServer, exits>>
  /\ asked' = NoRequest
  /\ UNCHANGED <<database, link, answer, thread, calls>>

\* recv on a connection that has ended: nothing is received, or it raises
ReceiveNothing ==
  /\ asked \notin {NoRequest, Connecting}
  /\ link \in {"refused", "ended"} /\ toClient = <<>>
  /\ outcome' \in {unpack(asked.command, <<>>), Raised("OSError")}
  /\ asked' = NoRequest
  /\ UNCHANGED <<database, net, answer, exits, calls>>

-----------------------------------------------------------------------------
\* The buffer of receive: what was read, and after it what the stack held
Buffer(n, junk) ==
  [i \in 1..PacketWords |-> IF i <= n THEN toServer[i] ELSE junk]

\* Mutant: the thread returns, and the connection is left open
LeftOpen(packet) ==
  /\ thread' = "endless"
  /\ toClient' = toClient \o packet
  /\ UNCHANGED <<database, answer, link>>

\* The thread closes the connection: with words it has not read, that is a reset,
\* which may overtake what it wrote
End(packet) ==
  /\ link' = "ended"
  /\ \/ toClient' = toClient \o packet
     \/ toServer' # <<>> /\ toClient' = <<>>
  /\ UNCHANGED <<database, answer, thread>>

Serve ==
  /\ link = "up" /\ thread = "serving"
  /\ \E n \in Taken(toServer, PacketWords), junk \in Junk :
       LET read == receive(Buffer(n, junk)) IN
       /\ toServer' = After(toServer, n)
       /\ torn' = (torn \/ n < Len(toServer))
       /\ \/ /\ read.status = "bad"
             /\ End(<<BAD_REQUEST>>)
          \/ /\ read.status = "endless"
             /\ thread' = "endless"
             /\ UNCHANGED <<database, link, toClient, answer>>
          \/ /\ read.status = "read" /\ read.request.command = "Exit"
             /\ End(<<>>)
          \/ /\ read.status = "read" /\ read.request.command # "Exit"
             /\ handle_request(read.request)
             /\ toClient' = toClient \o Response_packet(call'.response)
             /\ answer' = call'
             /\ UNCHANGED <<link, thread>>
  /\ UNCHANGED <<asked, outcome, exits, calls>>

\* The requests of other clients
Others ==
  /\ Next
  /\ UNCHANGED <<net, asked, answer, outcome, exits, calls>>

ClientNext ==
  \/ Connect \/ ConnectAgain \/ Close \/ Call
  \/ Receive \/ ReceiveNothing \/ Serve \/ Others

ClientSpec == ClientInit /\ [][ClientNext]_clientVars

-----------------------------------------------------------------------------
(***************************************************************************)
(* Properties.  They are about connections where no read has left a part   *)
(* of what was sent behind (torn): after that, requests and responses are  *)
(* out of step for good.  A response longer than the buffer of recv is     *)
(* such a part, whatever the network does.                                 *)
(***************************************************************************)
Answered == ~torn /\ answer.response # Pending

\* The server handles the request that the method meant: what the client packs is
\* what the server unpacks, value by value.
RequestUnderstood == Answered /\ asked # NoRequest => answer.request = asked

\* What exception.py says that each exception is for
Documented(code) ==
  CASE code = BAD_FOREIGN -> "InvalidReference"
    [] code = NOT_FOUND   -> "ObjectDoesNotExist"
    [] code = TXN_ABORT   -> "TransactionAbort"
    [] code \in {BAD_TABLE, BAD_QUERY, BAD_VALUE, BAD_ROW, BAD_REQUEST} -> "PacketError"

\* A row as get shows it: the value of each field.  A NULL, which another client can store,
\* is shown as the value of the field before it: nothing is said of what is shown for one.
MeansRow(result, values) ==
  /\ DOMAIN result = DOMAIN values
  /\ \A i \in DOMAIN values : values[i].type # NULL => result[i] = PyValue(values[i])

\* Of a BAD_QUERY there is only that the method raises (ErrorsAsDocumented).
Means(result, response) ==
  CASE response.kind = "Error" ->
         /\ result.raised # "nothing"
         /\ response.code # BAD_QUERY => result = Raised(Documented(response.code))
    [] response.kind = "Insert" -> result = Numbers(<<response.id, response.version>>)
    [] response.kind = "Update" -> result = Numbers(<<response.version>>)
    [] response.kind = "Drop"   -> result = Nothing
    [] response.kind = "Query"  -> result = Ids(response.ids)
    [] response.kind = "Get"    ->
         \/ /\ result.raised = "nothing"
            /\ result.version = response.version
            /\ MeansRow(result.list, response.values)
         \/ response.values # <<>> /\ response.values[1].type = NULL

\* A call returns or raises what the response of the server to it means, by the words
\* of exception.py for an error and by the stored row for a get: no refused call returns
\* as if it had succeeded, and no value is decoded at the wrong place of the packet.
ResultMeansAnswer == Answered /\ asked = NoRequest => Means(outcome, answer.response)

\* A method raises for an error what exception.py:24 says, "customized exception for the
\* error code BAD_TABLE, BAD_QUERY, BAD_VALUE, BAD_ROW, and BAD_REQUEST": a PacketError.
\* errorCheck raises an InvalidReference for a BAD_QUERY.
ErrorsAsDocumented ==
  Answered /\ asked = NoRequest /\ answer.response.kind = "Error"
    => outcome = Raised(Documented(answer.response.code))

\* Scans of the kinds that the recorded runs show answered: by 'id', which the client packs
\* as a foreign key (asst1/tester.log:296, asst2/tester.log:237 and 243), and for the floats
\* equal to a value (asst2/tester.log:288 and 290).
RecordedScan(req) ==
  /\ req.command = "Query"
  /\ \/ req.column_id = 0 /\ req.operator # OP_AL
     \/ req.operator = OP_EQ /\ req.value.type = FLOAT

HasNull(t, col) ==
  col > 0 /\ \E o \in DOMAIN content[t] : content[t][o].row_values[col].type = NULL

\* A scan that the client lets pass is answered, as in the recorded runs, where no client
\* has stored a NULL in the column.  handle_query has no arm for a foreign key in column 0,
\* nor for `=' on floats.
ScansAnswered ==
  /\ Answered
  /\ RecordedScan(answer.request)
  /\ ~HasNull(answer.request.table_id, answer.request.column_id)
  => answer.response.kind = "Query"

\* The connection of a program that has sent no EXIT is not closed, unless a request
\* was longer than the buffer of the server: but a second connect, of another
\* Database object even, sends one.
LostOnlyByExit == link = "ended" => exits > 0 \/ torn

\* A text that from_raw (packet.rs:336) never finishes reading
EmptyText == [type |-> TEXT, val |-> 0]

HasEmptyText(req) ==
  \/ req.command \in {"Insert", "Update"} /\ \E i \in DOMAIN req.values : req.values[i] = EmptyText
  \/ req.command = "Query" /\ req.value = EmptyText

\* The program and the thread never wait for each other: there are words for a call
\* that waits, or for the thread, or the connection has ended, on a torn connection
\* too.  Only a thread that is lost lets a call wait for ever, and on a connection that
\* is not torn it is lost over an empty string only.
CallsReturn ==
  asked # NoRequest =>
    \/ toClient # <<>>
    \/ link = "up" /\ thread = "serving" /\ toServer # <<>>
    \/ link \in {"refused", "ended"}
    \/ thread = "endless" /\ (torn \/ HasEmptyText(asked))
=============================================================================
