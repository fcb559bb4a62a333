----------------------------- MODULE RpcClient -----------------------------
(***************************************************************************)
(* BaseClient of the RPC library (asst4/rpc.cc): Send collects requests,   *)
(* Flush writes them all and then reads until each has its reply.  The     *)
(* reply to a request is told by its place, its xid is not looked at.      *)
(*                                                                         *)
(* Flush is a sequence of steps with the server and the network between    *)
(* them; `phase' says where a client is.                                   *)
(***************************************************************************)
EXTENDS RpcMessages

CONSTANTS
  Quitters,   \* clients whose program may end at any point
  MaxCalls    \* bound: client -> calls it makes

ASSUME ClientsAssumption == Quitters \subseteq Clients /\ MaxCalls \in [Clients -> Nat]

VARIABLES
  phase,        \* client -> where its program is
  buf,          \* client -> bytes of the requests not flushed yet
  pending,      \* client -> those requests, each standing for its Result
  nr_replied,   \* client -> how many of them have their reply
  replies,      \* client -> bytes read and not parsed yet: instart up to insz
  insz,         \* client -> bytes read by this Flush
  results       \* client -> for each call it ever sent, what its Result holds

clientVars == <<phase, buf, pending, nr_replied, replies, insz, results>>

BufferSize   == MaxRequestSize * MaxPipelineRequests
InBufferSize == MaxPipelineRequests * MaxResponseSize

\* What a Result holds: nothing yet, its error flag, or what the reply to a call said
Outcome == [is : {"pending", "error"}] \cup [is : {"value"}, of : Request]

ClientInit ==
  /\ phase = [c \in Clients |-> "new"]
  /\ buf = [c \in Clients |-> <<>>]
  /\ pending = [c \in Clients |-> <<>>]
  /\ nr_replied = [c \in Clients |-> 0]
  /\ replies = [c \in Clients |-> <<>>]
  /\ insz = [c \in Clients |-> 0]
  /\ results = [c \in Clients |-> <<>>]

Connect(c) ==
  /\ phase[c] = "new"
  /\ phase' = [phase EXCEPT ![c] = "idle"]
  /\ clientEnd' = [clientEnd EXCEPT ![c] = "open"]
  /\ serverEnd' = [serverEnd EXCEPT ![c] = "backlog"]
  /\ UNCHANGED <<toServer, toClient, buf, pending, nr_replied, replies, insz, results>>

\* Mutant: the head of a request is not counted against the buffer
RoomWithoutHead(c, call) == Len(buf[c]) + call.args <= BufferSize

\* The request fits into what is left of buf
RoomFor(c, call) == Len(buf[c]) + CallBody + call.args <= BufferSize

\* Send returned true.  It does not look at the error flag of the client.
Send(c, call) ==
  LET req == [xid |-> Len(results[c]) + 1, call |-> call] IN
  /\ phase[c] = "idle"
  /\ Len(results[c]) < MaxCalls[c]
  /\ Len(pending[c]) < MaxPipelineRequests
  /\ RoomFor(c, call)
  /\ buf' = [buf EXCEPT ![c] = @ \o Bytes(req, RequestSize(req))]
  /\ pending' = [pending EXCEPT ![c] = Append(@, req)]
  /\ results' = [results EXCEPT ![c] = Append(@, [is |-> "pending"])]
  /\ UNCHANGED <<network, phase, nr_replied, replies, insz>>

-----------------------------------------------------------------------------
\* Flush

\* finalize, back to the program
Finalize(c) ==
  /\ phase' = [phase EXCEPT ![c] = "idle"]
  /\ pending' = [pending EXCEPT ![c] = <<>>]
  /\ buf' = [buf EXCEPT ![c] = <<>>]
  /\ nr_replied' = [nr_replied EXCEPT ![c] = 0]
  /\ replies' = [replies EXCEPT ![c] = <<>>]
  /\ insz' = [insz EXCEPT ![c] = 0]

\* close(fd), and what it means to the server: nothing where fd is closed already
CloseEnd(c) ==
  /\ clientEnd' = [clientEnd EXCEPT ![c] = IF @ = "open" THEN Closed(toClient[c]) ELSE @]
  /\ toClient' = [toClient EXCEPT ![c] = <<>>]

\* Mutant: the flag not for the first result without a reply
AfterNextReply(c) == {pending[c][i].xid : i \in (nr_replied[c] + 2)..Len(pending[c])}

\* The xids of the requests that are still without a reply
Unanswered(c) == {pending[c][i].xid : i \in (nr_replied[c] + 1)..Len(pending[c])}


\* fail: the connection is closed and every result without a reply gets the flag
Fail(c) ==
  /\ CloseEnd(c)
  /\ results' = [results EXCEPT ![c] =
       [x \in DOMAIN @ |-> IF x \in Unanswered(c) THEN [is |-> "error"] ELSE @[x]]]
  /\ Finalize(c)
  /\ UNCHANGED <<toServer, serverEnd>>

\* The blocking write of all requests; a Flush with none does nothing
FlushWrite(c) ==
  /\ phase[c] = "idle"
  /\ pending[c] # <<>>
  /\ clientEnd[c] = "open" /\ serverEnd[c] # "rst"
  /\ phase' = [phase EXCEPT ![c] = "reading"]
  /\ IF serverEnd[c] = "fin"
     THEN serverEnd' = [serverEnd EXCEPT ![c] = "rst"] /\ UNCHANGED toServer
     ELSE toServer' = [toServer EXCEPT ![c] = @ \o buf[c]] /\ UNCHANGED serverEnd
  /\ UNCHANGED <<toClient, clientEnd, buf, pending, nr_replied, replies, insz, results>>

FlushWriteFails(c) ==
  /\ phase[c] = "idle"
  /\ pending[c] # <<>>
  /\ clientEnd[c] # "open" \/ serverEnd[c] = "rst"
  /\ Fail(c)

Room(c) == InBufferSize - insz[c]

\* poll and read, of what has arrived or of a part of it
ReadReplies(c) ==
  /\ phase[c] = "reading"
  /\ serverEnd[c] # "rst"
  /\ \E n \in 1..AtMost(Len(toClient[c]), Room(c)) :
       /\ replies' = [replies EXCEPT ![c] = @ \o Before(toClient[c], n)]
       /\ toClient' = [toClient EXCEPT ![c] = After(@, n)]
       /\ insz' = [insz EXCEPT ![c] = @ + n]
  /\ phase' = [phase EXCEPT ![c] = "parsing"]
  /\ UNCHANGED <<toServer, clientEnd, serverEnd, buf, pending, nr_replied, results>>

\* POLLERR, the end of the stream, or a read into no room at all, which returns 0
ReadRepliesFails(c) ==
  /\ phase[c] = "reading"
  /\ \/ serverEnd[c] = "rst"
     \/ serverEnd[c] = "fin" /\ toClient[c] = <<>>
     \/ toClient[c] # <<>> /\ Room(c) = 0
  /\ Fail(c)

\* The length that HandleResponse decodes is that of the result it is called for
ExpectedSize(c) == AcceptHeader + pending[c][nr_replied[c] + 1].call.result

AllReplied(c) == nr_replied[c] = Len(pending[c])

Refused(c) == Len(replies[c]) >= AcceptHeader /\ Head(replies[c]).accept_stat # SUCCESS

\* Mutant: the bytes of a reply stay in the buffer
ParseAgain(c) ==
  /\ phase[c] = "parsing"
  /\ ~AllReplied(c)
  /\ ~Refused(c)
  /\ Len(replies[c]) >= ExpectedSize(c)
  /\ results' = [results EXCEPT ![c][pending[c][nr_replied[c] + 1].xid] =
                   [is |-> "value", of |-> Head(replies[c]).request]]
  /\ nr_replied' = [nr_replied EXCEPT ![c] = @ + 1]
  /\ UNCHANGED <<network, phase, buf, pending, replies, insz>>

\* ParseBuffer returned true
ParseReply(c) ==
  /\ phase[c] = "parsing"
  /\ ~AllReplied(c)
  /\ ~Refused(c)
  /\ Len(replies[c]) >= ExpectedSize(c)
  /\ results' = [results EXCEPT ![c][pending[c][nr_replied[c] + 1].xid] =
                   [is |-> "value", of |-> Head(replies[c]).request]]
  /\ nr_replied' = [nr_replied EXCEPT ![c] = @ + 1]
  /\ replies' = [replies EXCEPT ![c] = After(@, ExpectedSize(c))]
  /\ UNCHANGED <<network, phase, buf, pending, insz>>

\* It returned false: the rest of the reply has not been read yet
ParseMore(c) ==
  /\ phase[c] = "parsing"
  /\ ~AllReplied(c)
  /\ ~Refused(c)
  /\ Len(replies[c]) < ExpectedSize(c)
  /\ phase' = [phase EXCEPT ![c] = "reading"]
  /\ UNCHANGED <<network, buf, pending, nr_replied, replies, insz, results>>

\* The reply is an error, or there are bytes after the last reply
ParseFails(c) ==
  /\ phase[c] = "parsing"
  /\ IF AllReplied(c) THEN replies[c] # <<>> ELSE Refused(c)
  /\ Fail(c)

FlushDone(c) ==
  /\ phase[c] = "parsing"
  /\ AllReplied(c)
  /\ replies[c] = <<>>
  /\ Finalize(c)
  /\ UNCHANGED <<network, results>>

-----------------------------------------------------------------------------
Vanish(c) ==
  /\ CloseEnd(c)
  /\ phase' = [phase EXCEPT ![c] = "gone"]
  /\ UNCHANGED <<toServer, serverEnd, buf, pending, nr_replied, replies, insz, results>>

\* ~BaseClient, or the end of the program
Leave(c) ==
  /\ phase[c] = "idle" \/ (c \in Quitters /\ phase[c] \in {"reading", "parsing"})
  /\ Vanish(c)

\* SIGPIPE, which nothing handles, ends the program in the write of Flush
Killed(c) ==
  /\ phase[c] = "idle"
  /\ pending[c] # <<>>
  /\ clientEnd[c] = "open" /\ serverEnd[c] = "rst"
  /\ Vanish(c)

FlushStep(c) ==
  \/ ReadReplies(c) \/ ReadRepliesFails(c)
  \/ ParseReply(c) \/ ParseMore(c) \/ ParseFails(c) \/ FlushDone(c)

ProgramStep(c) ==
  \/ FlushWrite(c) \/ FlushWriteFails(c) \/ Killed(c) \/ Leave(c)
  \/ \E call \in Calls : Send(c, call)

ClientTypeOK ==
  /\ phase \in [Clients -> {"new", "idle", "reading", "parsing", "gone"}]
  /\ buf \in [Clients -> Seq(Request)]
  /\ pending \in [Clients -> Seq(Request)]
  /\ nr_replied \in [Clients -> 0..MaxPipelineRequests]
  /\ replies \in [Clients -> Seq(Reply)]
  /\ insz \in [Clients -> 0..InBufferSize]
  /\ results \in [Clients -> Seq(Outcome)]
=============================================================================
