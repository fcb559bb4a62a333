---------------------------- MODULE RpcMessages ----------------------------
(***************************************************************************)
(* What the client and the server of the RPC library (asst4/rpc.cc) have   *)
(* in common: calls, requests and replies with the sizes they have on the  *)
(* wire, and one TCP connection per client.                                *)
(*                                                                         *)
(* A byte is represented by the message it is a byte of, so the bytes of a *)
(* message are a sequence that repeats it, and a stream of bytes can be    *)
(* cut anywhere.  Sizes are those of rpc.h, smaller.                       *)
(***************************************************************************)
EXTENDS Integers, Sequences, FiniteSets

CONSTANTS
  Clients,               \* BaseClient objects, each with one connection
  Calls,                 \* what they call
  CallBody,              \* sizeof(SunRpcCallBody)
  AcceptHeader,          \* sizeof(SunRpcAcceptHeader)
  AcceptMismatch,        \* sizeof(SunRpcAcceptMismatch)
  MaxRequestSize,        \* kMaxRequestSize
  MaxResponseSize,       \* kMaxResponseSize
  MaxPipelineRequests,   \* kMaxPipelineRequests
  SendBuffer             \* bytes of replies the kernel takes before write would block

\* A call: the sizes of its encoded arguments and result, and whether the service
\* it is addressed to exists and exports the procedure (LookupService)
Call == [args : Nat, result : Nat, exported : BOOLEAN]

ASSUME CallsAssumption == Calls \subseteq Call

\* The sizes are in the order they have in the program: 24 < 32 < 128, 40 < 4096
ASSUME SizesAssumption ==
  /\ CallBody \in Nat /\ MaxRequestSize \in Nat
  /\ 0 < CallBody /\ CallBody <= MaxRequestSize
  /\ AcceptHeader \in Nat /\ AcceptMismatch \in Nat /\ MaxResponseSize \in Nat
  /\ 0 < AcceptHeader /\ AcceptHeader <= AcceptMismatch
  /\ AcceptMismatch <= MaxResponseSize
  /\ MaxPipelineRequests \in Nat \ {0}
  /\ SendBuffer \in Nat \ {0}

\* accept_stat of a reply
SUCCESS       == 0
PROG_MISMATCH == 2
GARBAGE_ARGS  == 4

Request == [xid : Nat \ {0}, call : Calls]
Reply   == [request : Request, accept_stat : {SUCCESS, PROG_MISMATCH, GARBAGE_ARGS}]

RequestSize(req) == CallBody + req.call.args

ReplySize(reply) ==
  CASE reply.accept_stat = SUCCESS       -> AcceptHeader + reply.request.call.result
    [] reply.accept_stat = PROG_MISMATCH -> AcceptMismatch
    [] reply.accept_stat = GARBAGE_ARGS  -> AcceptHeader

Bytes(message, size) == [i \in 1..size |-> message]

\* The bytes that follow the first n, and the first n
After(bytes, n)  == SubSeq(bytes, n + 1, Len(bytes))
Before(bytes, n) == SubSeq(bytes, 1, n)

\* A call as the library is meant to be used: known to the server, and no longer
\* than a request and a response may be
WithinLimits(call) ==
  /\ call.exported
  /\ CallBody + call.args <= MaxRequestSize
  /\ AcceptHeader + call.result <= MaxResponseSize

VARIABLES
  toServer,    \* client -> bytes of requests in the kernel
  toClient,    \* client -> bytes of replies in the kernel
  clientEnd,   \* client -> how its end of the connection is
  serverEnd    \* client -> how the server's end of its connection is

network == <<toServer, toClient, clientEnd, serverEnd>>

\* An end is closed in order ("fin"), or the other one knows that it will take no
\* more ("rst"): it was closed with bytes unread, or bytes arrived since
ClientEnds == {"none", "open", "fin", "rst"}
ServerEnds == {"none", "backlog", "open", "fin", "rst"}

Closed(unread) == IF unread = <<>> THEN "fin" ELSE "rst"

NetworkTypeOK ==
  /\ toServer \in [Clients -> Seq(Request)]
  /\ toClient \in [Clients -> Seq(Reply)]
  /\ clientEnd \in [Clients -> ClientEnds]
  /\ serverEnd \in [Clients -> ServerEnds]

NetworkInit ==
  /\ toServer = [c \in Clients |-> <<>>]
  /\ toClient = [c \in Clients |-> <<>>]
  /\ clientEnd = [c \in Clients |-> "none"]
  /\ serverEnd = [c \in Clients |-> "none"]

AtMost(n, m) == IF n <= m THEN n ELSE m
=============================================================================
