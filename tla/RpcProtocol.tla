---------------------------- MODULE RpcProtocol ----------------------------
(***************************************************************************)
(* The types of the RPC library (asst4/rpcxx.h): how arguments and results *)
(* are laid out in bytes, the ten kinds of procedure, and a call from      *)
(* Client::Call to its Result, over streams that are cut anywhere.         *)
(*                                                                         *)
(* A byte has ByteValues values and the words of a header take one byte;   *)
(* of a header there are the words that are looked at, type and procedure  *)
(* of a call and type and accept_stat of a reply.  The server closes the   *)
(* connection after an error reply.  Writes that take only a part, buffers *)
(* that are full and peers that vanish are RpcSystem's.                    *)
(***************************************************************************)
EXTENDS Integers, Sequences, SequencesExt

CONSTANTS
  ByteValues,            \* 256
  Size,                  \* type -> sizeof(type), for the types of one size
  LengthSize,            \* sizeof(size_t)
  Exports,               \* the procedures the service exports, in that order
  CallsMade,             \* [func, args]: what the program may call
  Answer(_, _),          \* what the service returns: procedure, arguments
  RequestRoom,           \* bytes of requests the client has room for
  Rooms,                 \* what outbuf may have left for a result: see RpcServer
  MaxPipelineRequests,   \* kMaxPipelineRequests
  Cuts,                  \* how much one read may take
  MaxCalls               \* bound of the model: calls of the program

\* One entry for each overload of Client::Call and of Service::Export
Procedures == <<
  [params |-> <<"int">>,              result |-> "int"],
  [params |-> <<>>,                   result |-> "void"],
  [params |-> <<>>,                   result |-> "bool"],
  [params |-> <<"unsigned">>,         result |-> "string"],
  [params |-> <<"string">>,           result |-> "string"],
  [params |-> <<"string", "int">>,    result |-> "string"],
  [params |-> <<"string", "int">>,    result |-> "unsigned"],
  [params |-> <<"int", "unsigned">>,  result |-> "long"],
  [params |-> <<"string", "int">>,    result |-> "void"],
  [params |-> <<"string", "string">>, result |-> "void"] >>

-----------------------------------------------------------------------------
(* Protocol<T>: a number is its bytes, the lowest first; a string its length
   and its characters. *)

\* How many values n bytes have
Power(n) ==
  LET power[k \in 0..n] == IF k = 0 THEN 1 ELSE ByteValues * power[k - 1]
  IN power[n]

BytesOf(n, size) == [i \in 1..size |-> (n \div Power(i - 1)) % ByteValues]

Number(bytes) ==
  LET low[k \in 0..Len(bytes)] ==
        IF k = 0 THEN 0 ELSE low[k - 1] + Power(k - 1) * bytes[k]
  IN low[Len(bytes)]

\* The values of a type
Fits(type, x) ==
  CASE type = "void"   -> x = <<>>
    [] type = "string" -> x \in Seq(0..(ByteValues - 1)) /\ Len(x) < Power(LengthSize)
    [] type = "int"    -> x \in Int /\ -Power(Size[type]) <= 2 * x /\ 2 * x < Power(Size[type])
    [] type \in {"unsigned", "bool", "long"} -> x \in Nat /\ x < Power(Size[type])

\* What C++ has checked: the arguments and the result are of their types.
WellTyped(call) ==
  /\ call.func \in DOMAIN Procedures
  /\ call.args = [k \in DOMAIN Procedures[call.func].params |-> call.args[k]]
  /\ \A k \in DOMAIN call.args : Fits(Procedures[call.func].params[k], call.args[k])
  /\ Fits(Procedures[call.func].result, Answer(call.func, call.args))

\* Fewer procedures than a word of the header has values, of which the last is for none
ASSUME ProtocolAssumption ==
  /\ ByteValues \in Nat \ {0} /\ LengthSize \in Nat
  /\ Size \in [{"int", "unsigned", "bool", "long"} -> Nat]
  /\ Exports \in Seq(DOMAIN Procedures) /\ Len(Exports) < ByteValues
  /\ \A call \in CallsMade : WellTyped(call)
  /\ RequestRoom \in Nat /\ Rooms \subseteq Nat /\ Rooms # {}
  /\ MaxPipelineRequests \in Nat \ {0} /\ MaxCalls \in Nat /\ Cuts \subseteq Nat \ {0}

Encode(type, x) ==
  CASE type = "void"   -> <<>>
    [] type = "string" -> BytesOf(Len(x), LengthSize) \o x
    [] type \in {"int", "unsigned", "bool", "long"} -> BytesOf(x, Size[type])

\* The bytes Decode waits for, and then takes
Needed(type, bytes) ==
  CASE type = "void"   -> 0
    [] type = "string" -> LengthSize +
         (IF Len(bytes) < LengthSize THEN 0 ELSE Number(SubSeq(bytes, 1, LengthSize)))
    [] type \in {"int", "unsigned", "bool", "long"} -> Size[type]

Decodes(type, bytes) == Len(bytes) >= Needed(type, bytes)

Decoded(type, bytes) ==
  LET n == Number(SubSeq(bytes, 1, Size[type]))
      highest == Power(Size[type])
  IN CASE type = "void"   -> <<>>
       [] type = "string" -> SubSeq(bytes, LengthSize + 1, Needed(type, bytes))
       [] type = "int"    -> IF 2 * n >= highest THEN n - highest ELSE n
       [] type \in {"unsigned", "bool", "long"} -> n

\* An argument after the other: IntParam ... StrStrParam
EncodeArgs(params, args) ==
  FlattenSeq([k \in DOMAIN params |-> Encode(params[k], args[k])])

\* Mutant: in_bytes is not moved past the first argument
AllFromStart(params, bytes) ==
  LET enough == \A k \in DOMAIN params : Decodes(params[k], bytes)
  IN [ok   |-> enough,
      used |-> FoldRight(LAMBDA type, n : n + Needed(type, bytes), params, 0),
      args |-> IF enough THEN [k \in DOMAIN params |-> Decoded(params[k], bytes)] ELSE <<>>]

\* The next argument, if there are bytes enough; ok is FALSE when there are not.
DecodeNext(type, bytes, before) ==
  LET rest == SubSeq(bytes, before.used + 1, Len(bytes))
  IN IF before.ok /\ Decodes(type, rest)
     THEN [ok |-> TRUE, used |-> before.used + Needed(type, rest),
           args |-> Append(before.args, Decoded(type, rest))]
     ELSE [before EXCEPT !.ok = FALSE]

\* The arguments in the bytes, and how many bytes they take
DecodeArgs(params, bytes) ==
  LET first[k \in 0..Len(params)] ==
        IF k = 0 THEN [ok |-> TRUE, used |-> 0, args |-> <<>>]
        ELSE DecodeNext(params[k], bytes, first[k - 1])
  IN first[Len(params)]

-----------------------------------------------------------------------------
VARIABLES
  calls,     \* the calls that were sent: [func, args, is, value]
  pending,   \* the calls sent and not yet replied to
  buf,       \* the client's requests, not yet written
  flush,     \* "idle", or where Flush is
  toServer, toClient,
  inbuf,     \* the server's bytes of requests
  handling,  \* whether OnConnectionEvent is at its loop over requests
  closing,   \* has_error of the connection
  executed,  \* what the service executed: [func, args, result, fits]
  serverEnd, \* "open"; once the server closed it "fin", or "rst" if bytes were unread
  replies    \* Flush's bytes of replies

vars == <<calls, pending, buf, flush, toServer, toClient, inbuf, handling, closing,
          executed, serverEnd, replies>>
server == <<inbuf, handling, closing, executed, serverEnd>>

Init ==
  /\ calls = <<>> /\ pending = <<>> /\ buf = <<>> /\ flush = "idle"
  /\ toServer = <<>> /\ toClient = <<>>
  /\ inbuf = <<>> /\ handling = FALSE /\ closing = FALSE /\ executed = <<>>
  /\ serverEnd = "open" /\ replies = <<>>

CallType == 0
ReplyType == 1
HeaderSize == 2
SUCCESS == 0
PROG_MISMATCH == 2
GARBAGE_ARGS == 4

\* -1, as the unsigned word of a header, for a member function that is not exported
LookupExportFunction(func) ==
  IF Contains(Exports, func) THEN (CHOOSE i \in DOMAIN Exports : Exports[i] = func) - 1
  ELSE ByteValues - 1

RequestOf(call) ==
  <<CallType, LookupExportFunction(call.func)>> \o EncodeArgs(Procedures[call.func].params, call.args)

Sends(call) ==
  /\ Len(pending) < MaxPipelineRequests
  /\ Len(buf) + Len(RequestOf(call)) <= RequestRoom

\* Client::Call and Send.  A call for which there is no room is not sent, and changes
\* nothing.  Call returns nullptr then, and for void() always: the program never sees
\* that Result.
Call(call) ==
  /\ flush = "idle" /\ Len(calls) < MaxCalls
  /\ Sends(call)
  /\ calls' = Append(calls, [func |-> call.func, args |-> call.args, value |-> <<>>,
                             is |-> "pending"])
  /\ buf' = buf \o RequestOf(call)
  /\ pending' = Append(pending, Len(calls) + 1)
  /\ UNCHANGED <<flush, toServer, toClient, server, replies>>

Flush ==
  /\ flush = "idle" /\ pending # <<>>
  /\ toServer' = toServer \o buf /\ buf' = <<>> /\ flush' = "reading"
  /\ UNCHANGED <<calls, pending, toClient, server, replies>>

\* One read takes any of Cuts, or all there is
Read(stream, n) == n \in Cuts \cup {Len(stream)} /\ n <= Len(stream) /\ n > 0

\* While an error reply waits to be written bytes are read, and no more handled.
ServerReads ==
  /\ ~handling /\ serverEnd = "open"
  /\ \E n \in 1..Len(toServer) :
       /\ Read(toServer, n)
       /\ inbuf' = inbuf \o SubSeq(toServer, 1, n)
       /\ toServer' = SubSeq(toServer, n + 1, Len(toServer))
  /\ handling' = ~closing
  /\ UNCHANGED <<calls, pending, buf, flush, toClient, closing, executed, serverEnd, replies>>

\* HandleRequest with a whole header
Asked == Exports[inbuf[2] + 1]
Known == Len(inbuf) >= HeaderSize /\ inbuf[1] = CallType /\ inbuf[2] < Len(Exports)
Arguments == DecodeArgs(Procedures[Asked].params, SubSeq(inbuf, HeaderSize + 1, Len(inbuf)))

Waits == IF Len(inbuf) < HeaderSize THEN TRUE ELSE Known /\ ~Arguments.ok

\* Mutant: a result that just fits is refused
ResultBelow(bytes, room) == Len(bytes) < room

ResultFits(bytes, room) == Len(bytes) <= room

RequestWaits ==
  /\ handling /\ Waits
  /\ handling' = FALSE
  /\ UNCHANGED <<calls, pending, buf, flush, toServer, toClient, inbuf, closing, executed, serverEnd,
                 replies>>

\* FillErrorResponse sets has_error, which ends the loop: CloseConnection comes next.
RequestRefused ==
  /\ handling /\ ~Waits /\ ~Known
  /\ toClient' = toClient \o <<ReplyType, PROG_MISMATCH>>
  /\ closing' = TRUE /\ handling' = FALSE
  /\ UNCHANGED <<calls, pending, buf, flush, toServer, inbuf, executed, serverEnd, replies>>

\* DecodeAndExecute, with the room outbuf has left at that moment.  When the result does not fit the procedure was executed all the same
Execute ==
  /\ handling /\ ~Waits /\ Known
  /\ LET args   == Arguments.args
         result == Answer(Asked, args)
         bytes  == Encode(Procedures[Asked].result, result)
     IN \E room \in Rooms :
        /\ executed' = Append(executed, [func |-> Asked, args |-> args, result |-> result,
                                         fits |-> ResultFits(bytes, room)])
        /\ IF ResultFits(bytes, room)
           THEN /\ toClient' = toClient \o <<ReplyType, SUCCESS>> \o bytes
                /\ inbuf' = SubSeq(inbuf, HeaderSize + Arguments.used + 1, Len(inbuf))
                /\ UNCHANGED <<handling, closing>>
           ELSE /\ toClient' = toClient \o <<ReplyType, GARBAGE_ARGS>>
                /\ closing' = TRUE /\ handling' = FALSE
                /\ UNCHANGED inbuf
  /\ UNCHANGED <<calls, pending, buf, flush, toServer, serverEnd, replies>>

\* MainLoop closes the connection when has_error is set and the reply is written: with
\* requests unread that is a reset.
CloseConnection ==
  /\ closing /\ ~handling /\ serverEnd = "open"
  /\ serverEnd' = IF toServer = <<>> THEN "fin" ELSE "rst"
  /\ toServer' = <<>>
  /\ UNCHANGED <<calls, pending, buf, flush, toClient, inbuf, handling, closing, executed,
                 replies>>

\* poll and read.  After a reset poll says POLLERR, whatever has arrived.
ClientReads ==
  /\ flush = "reading" /\ serverEnd # "rst"
  /\ \E n \in 1..Len(toClient) :
       /\ Read(toClient, n)
       /\ replies' = replies \o SubSeq(toClient, 1, n)
       /\ toClient' = SubSeq(toClient, n + 1, Len(toClient))
  /\ flush' = "parsing"
  /\ UNCHANGED <<calls, pending, buf, toServer, server>>

\* ParseBuffer, and Result<T>::HandleResponse for the first Result that waits
Fails == Len(replies) >= HeaderSize /\ (pending = <<>> \/ replies[1] # ReplyType \/ replies[2] # SUCCESS)
Payload == SubSeq(replies, HeaderSize + 1, Len(replies))
Expected == Procedures[calls[Head(pending)].func].result
Parses == ~Fails /\ Len(replies) >= HeaderSize /\ Decodes(Expected, Payload)

\* Mutants: Result<void> leaves in_len as it is; only the length of a string is counted
VoidTakesAll(type) == IF type = "void" THEN Len(Payload) ELSE Needed(type, Payload)
LengthOnly(type) == IF type = "string" THEN LengthSize ELSE Needed(type, Payload)

Taken(type) == Needed(type, Payload)

HandleResponse ==
  /\ flush = "parsing" /\ Parses
  /\ calls' = [calls EXCEPT ![Head(pending)].is = "value",
                            ![Head(pending)].value = Decoded(Expected, Payload)]
  /\ pending' = Tail(pending)
  /\ replies' = SubSeq(replies, HeaderSize + Taken(Expected) + 1, Len(replies))
  /\ UNCHANGED <<buf, flush, toServer, toClient, server>>

ReplyWaits ==
  /\ flush = "parsing" /\ ~Fails /\ ~Parses
  /\ pending # <<>> \/ replies = <<>>
  /\ flush' = IF pending = <<>> THEN "idle" ELSE "reading"
  /\ UNCHANGED <<calls, pending, buf, toServer, toClient, server, replies>>

\* Flush's fail; the client is of no more use.
Fail ==
  /\ calls' = [x \in DOMAIN calls |->
                IF Contains(pending, x) THEN [calls[x] EXCEPT !.is = "error"] ELSE calls[x]]
  /\ flush' = "failed" /\ pending' = <<>>
  /\ UNCHANGED <<buf, toServer, toClient, server, replies>>

\* An error reply, or bytes left over
FlushFails ==
  /\ flush = "parsing" /\ (Fails \/ (pending = <<>> /\ replies # <<>>))
  /\ Fail

\* POLLERR, or the end of the stream
FlushReadFails ==
  /\ flush = "reading"
  /\ serverEnd = "rst" \/ (serverEnd = "fin" /\ toClient = <<>>)
  /\ Fail

Next ==
  \/ \E call \in CallsMade : Call(call)
  \/ Flush \/ ServerReads \/ RequestWaits \/ RequestRefused \/ Execute \/ CloseConnection
  \/ ClientReads \/ HandleResponse \/ ReplyWaits \/ FlushFails \/ FlushReadFails

Spec == Init /\ [][Next]_vars

-----------------------------------------------------------------------------
\* The service executes the calls that were sent, each once, in their order and with the
\* arguments the program gave, although it tries to decode a request anew whenever bytes
\* arrive (rpcxx.h:360) and nothing delimits requests.  A Result that has a value has the
\* one the service returned for its call: ParseBuffer (rpc.cc:666) finds where the next
\* reply starts from the type alone.
CallsMatch ==
  /\ Len(executed) <= Len(calls)
  /\ \A i \in DOMAIN executed :
       executed[i].func = calls[i].func /\ executed[i].args = calls[i].args
  /\ \A i \in DOMAIN calls : calls[i].is = "value" =>
       i <= Len(executed) /\ calls[i].value = executed[i].result

\* Flush never waits for bytes that will not come: both sides agree on how long each
\* request and each reply is, and the server never gives up a connection without the
\* error reply that ends the Flush.
FlushNeverStuck ==
  flush = "reading" /\ toClient = <<>> => toServer # <<>> \/ handling \/ serverEnd = "rst"

\* A procedure that is not exported, or a result that outbuf may have no room for
Refusable(call) ==
  \/ ~Contains(Exports, call.func)
  \/ LET bytes == Encode(Procedures[call.func].result, Answer(call.func, call.args))
     IN \E room \in Rooms : ~(Len(bytes) <= room)

\* Flush fails only for a call that may be refused (rpcxx.h:254).  The calls before that
\* one have their values and the others errors, unless the server had requests unread when
\* it closed the connection: the reset (rpc.cc:600) can cost the last of them their values,
\* but no call has a value that comes after one with an error.
FailsOnlyWhenRefused ==
  flush = "failed" =>
    \E i \in DOMAIN calls : \E k \in 0..(i - 1) :
      /\ Refusable(calls[i])
      /\ \A j \in DOMAIN calls : calls[j].is = IF j <= k THEN "value" ELSE "error"
      /\ serverEnd # "rst" => k = i - 1
=============================================================================
