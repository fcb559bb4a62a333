----------------------------- MODULE RpcServer -----------------------------
(***************************************************************************)
(* The server of the RPC library (asst4/rpc.cc): the event loop of one     *)
(* thread, and the two buffers of each connection.  `srv' says where the   *)
(* loop is; clients and the network move between any two of its steps.     *)
(***************************************************************************)
EXTENDS RpcMessages

VARIABLES
  srv,        \* the loop: where it is, for which connection, and what it is to do
  inbuf,      \* connection -> bytes read and not consumed yet
  outbuf,     \* connection -> bytes of replies not written yet
  has_error,  \* connection -> an error reply is the last one
  interest,   \* connection -> the events it is registered for
  executed    \* client -> the xids of the calls the service executed, in order

serverVars == <<srv, inbuf, outbuf, has_error, interest, executed>>

MaxInBuf  == 2 * MaxRequestSize
MaxOutBuf == 2 * MaxResponseSize

\* SlidingBuffer: the bytes from `start' on, without those before
EmptyBuffer == [start |-> 0, data |-> <<>>]

residual_size(buf, size) == size - (buf.start + Len(buf.data))

\* Mutant: the bytes are moved only where they would not fit at all
SlideLate(buf, size, reserve) ==
  IF residual_size(buf, size) <= 0 THEN [buf EXCEPT !.start = 0] ELSE buf

Slide(buf, size, reserve) ==
  IF residual_size(buf, size) <= reserve THEN [buf EXCEPT !.start = 0] ELSE buf

Idle == [at |-> "poll", client |-> "none", read |-> FALSE]

\* The loop is at one of its steps for the connection c
At(step, c) == srv.at = step /\ srv.client = c

GoOn(step) == srv' = [srv EXCEPT !.at = step]

ServerInit ==
  /\ srv = Idle
  /\ inbuf = [c \in Clients |-> EmptyBuffer]
  /\ outbuf = [c \in Clients |-> EmptyBuffer]
  /\ has_error = [c \in Clients |-> FALSE]
  /\ interest = [c \in Clients |-> {}]
  /\ executed = [c \in Clients |-> <<>>]

-----------------------------------------------------------------------------
\* OnNewConnection
OnNewConnection(c) ==
  /\ srv.at = "poll"
  /\ serverEnd[c] = "backlog"
  /\ serverEnd' = [serverEnd EXCEPT ![c] = "open"]
  /\ interest' = [interest EXCEPT ![c] = {"in"}]
  /\ UNCHANGED <<toServer, toClient, clientEnd, srv, inbuf, outbuf, has_error, executed>>

\* CloseConnection, and back to epoll_wait
CloseConnection(c) ==
  /\ serverEnd' = [serverEnd EXCEPT ![c] = Closed(toServer[c])]
  /\ toServer' = [toServer EXCEPT ![c] = <<>>]
  /\ inbuf' = [inbuf EXCEPT ![c] = EmptyBuffer]
  /\ outbuf' = [outbuf EXCEPT ![c] = EmptyBuffer]
  /\ interest' = [interest EXCEPT ![c] = {}]
  /\ srv' = Idle

\* What is left of the connections when the server ends
CloseAll ==
  /\ serverEnd' = [c \in Clients |-> IF serverEnd[c] \in {"open", "backlog"}
                                     THEN Closed(toServer[c]) ELSE serverEnd[c]]
  /\ toServer' = [c \in Clients |-> <<>>]

\* Mutant: an inbuf that is full to its end is one without room, consumed or not
MaskOfRoom(in, out) ==
  (IF residual_size(in, MaxInBuf) > 0 THEN {"in"} ELSE {})
    \cup (IF Len(out.data) > 0 THEN {"out"} ELSE {})

ConnectionPollMask(in, out) ==
  (IF residual_size(in, MaxInBuf) > 0 \/ in.start > 0 THEN {"in"} ELSE {})
    \cup (IF Len(out.data) > 0 THEN {"out"} ELSE {})

\* What epoll_wait reports of a connection
Events(c) ==
  {e \in interest[c] :
     \/ e = "in"  /\ (toServer[c] # <<>> \/ clientEnd[c] # "open")
     \/ e = "out" /\ (Len(toClient[c]) < SendBuffer \/ clientEnd[c] # "open")}

\* epoll_wait returned an event of c, the connection is not broken
OnConnectionEvent(c) ==
  /\ srv.at = "poll"
  /\ serverEnd[c] = "open"
  /\ clientEnd[c] # "rst"
  /\ Events(c) # {}
  /\ srv' = [at |-> IF "out" \in Events(c) THEN "write" ELSE "read", client |-> c,
             read |-> "in" \in Events(c)]
  /\ UNCHANGED <<network, inbuf, outbuf, has_error, interest, executed>>

\* EPOLLERR or EPOLLHUP
OnConnectionError(c) ==
  /\ srv.at = "poll"
  /\ serverEnd[c] = "open"
  /\ clientEnd[c] = "rst"
  /\ CloseConnection(c)
  /\ UNCHANGED <<toClient, clientEnd, has_error, executed>>

\* WriteConnectionBuffer, then `next': write takes what the kernel has room for
WriteSome(c, next) ==
  LET out == outbuf[c]
      n   == IF clientEnd[c] = "open"
             THEN AtMost(Len(out.data), SendBuffer - Len(toClient[c]))
             ELSE Len(out.data) IN
  /\ clientEnd[c] # "rst" \/ out.data = <<>>
  /\ outbuf' = [outbuf EXCEPT ![c] = [start |-> out.start + n, data |-> After(out.data, n)]]
  /\ IF clientEnd[c] = "open"
     THEN /\ toClient' = [toClient EXCEPT ![c] = @ \o Before(out.data, n)]
          /\ UNCHANGED clientEnd
     ELSE /\ \/ clientEnd' = [clientEnd EXCEPT ![c] = "rst"] /\ n > 0
             \/ UNCHANGED clientEnd
          /\ UNCHANGED toClient
  /\ GoOn(next)
  /\ UNCHANGED <<toServer, serverEnd, inbuf, has_error, interest, executed>>

\* write fails: the connection is closed, or SIGPIPE, which nothing handles, ends
\* the process of the server
WriteFails(c) ==
  /\ clientEnd[c] = "rst"
  /\ outbuf[c].data # <<>>
  /\ \/ CloseConnection(c)
     \/ /\ srv' = [Idle EXCEPT !.at = "killed"]
        /\ CloseAll
        /\ UNCHANGED <<inbuf, outbuf, interest>>
  /\ UNCHANGED <<toClient, clientEnd, has_error, executed>>

Writing(c, next) == WriteSome(c, next) \/ WriteFails(c)

\* EPOLLOUT is looked at before EPOLLIN
WriteReady(c) ==
  /\ At("write", c)
  /\ Writing(c, IF srv.read THEN "read" ELSE "finish")

\* EPOLLIN: inbuf.Slide(0) and one read, of what has arrived or of a part of it
ReadConnectionBuffer(c) ==
  LET in == Slide(inbuf[c], MaxInBuf, 0) IN
  /\ At("read", c)
  /\ residual_size(in, MaxInBuf) > 0
  /\ toServer[c] # <<>>
  /\ \E n \in 1..AtMost(Len(toServer[c]), residual_size(in, MaxInBuf)) :
       /\ inbuf' = [inbuf EXCEPT ![c] =
                      [in EXCEPT !.data = @ \o Before(toServer[c], n)]]
       /\ toServer' = [toServer EXCEPT ![c] = After(@, n)]
  /\ GoOn("process")
  /\ UNCHANGED <<toClient, clientEnd, serverEnd, outbuf, has_error, interest, executed>>

\* Mutant: 0 bytes are taken for "nothing yet"
EndIgnored(c) ==
  /\ At("read", c)
  /\ residual_size(Slide(inbuf[c], MaxInBuf, 0), MaxInBuf) > 0
  /\ toServer[c] = <<>>
  /\ clientEnd[c] # "open"
  /\ GoOn("process")
  /\ UNCHANGED <<network, inbuf, outbuf, has_error, interest, executed>>

\* read returned 0 or an error
ReadFails(c) ==
  /\ At("read", c)
  /\ residual_size(Slide(inbuf[c], MaxInBuf, 0), MaxInBuf) > 0
  /\ toServer[c] = <<>>
  /\ clientEnd[c] # "open"
  /\ CloseConnection(c)
  /\ UNCHANGED <<toClient, clientEnd, has_error, executed>>

\* inbuf is full and Slide(0) cannot help
ReadNothing(c) ==
  /\ At("read", c)
  /\ ~(residual_size(Slide(inbuf[c], MaxInBuf, 0), MaxInBuf) > 0)
  /\ GoOn("finish")
  /\ UNCHANGED <<network, inbuf, outbuf, has_error, interest, executed>>

-----------------------------------------------------------------------------
\* The loop over pipelined requests: HandleRequest, then WriteConnectionBuffer

\* outbuf.Slide(kMaxResponseSize) && !has_error
Processing(c) ==
  /\ At("process", c)
  /\ residual_size(Slide(outbuf[c], MaxOutBuf, MaxResponseSize), MaxOutBuf) > MaxResponseSize
  /\ ~has_error[c]

\* A whole request is in inbuf; of one to nobody the head is enough
Complete(in) ==
  /\ Len(in.data) >= CallBody
  /\ Head(in.data).call.exported => Len(in.data) >= RequestSize(Head(in.data))

\* HandleRequest returned true: a reply of some bytes, some bytes consumed
Handled(c, reply, consumed) ==
  LET in  == inbuf[c]
      out == Slide(outbuf[c], MaxOutBuf, MaxResponseSize) IN
  /\ outbuf' = [outbuf EXCEPT ![c] =
                  [out EXCEPT !.data = @ \o Bytes(reply, ReplySize(reply))]]
  /\ inbuf' = [inbuf EXCEPT ![c] =
                 [start |-> in.start + consumed, data |-> After(in.data, consumed)]]
  /\ has_error' = [has_error EXCEPT ![c] = reply.accept_stat # SUCCESS]
  /\ GoOn("reply")
  /\ UNCHANGED <<network, interest>>

RejectCall(c) ==
  /\ Processing(c)
  /\ Complete(inbuf[c])
  /\ LET req == Head(inbuf[c].data) IN
     /\ ~req.call.exported
     /\ Handled(c, [request |-> req, accept_stat |-> PROG_MISMATCH], 0)
  /\ UNCHANGED executed

\* DecodeAndExecute, up to the encoding of the result into the rest of outbuf
ExecuteCall(c) ==
  LET room == residual_size(Slide(outbuf[c], MaxOutBuf, MaxResponseSize), MaxOutBuf) IN
  /\ Processing(c)
  /\ Complete(inbuf[c])
  /\ LET req == Head(inbuf[c].data) IN
     /\ req.call.exported
     /\ executed' = [executed EXCEPT ![c] = Append(@, req.xid)]
     /\ IF AcceptHeader + req.call.result <= room
        THEN Handled(c, [request |-> req, accept_stat |-> SUCCESS], RequestSize(req))
        ELSE Handled(c, [request |-> req, accept_stat |-> GARBAGE_ARGS], 0)

StopProcessing(c) ==
  /\ At("process", c)
  /\ ~(Processing(c) /\ Complete(inbuf[c]))
  /\ outbuf' = [outbuf EXCEPT ![c] = Slide(@, MaxOutBuf, MaxResponseSize)]
  /\ GoOn("finish")
  /\ UNCHANGED <<network, inbuf, has_error, interest, executed>>

WriteReply(c) ==
  /\ At("reply", c)
  /\ Writing(c, "process")

-----------------------------------------------------------------------------
\* The end of the loop's body in MainLoop

\* Mutant: an error closes the connection before its reply is written
CloseAtOnce(c) ==
  LET mask == ConnectionPollMask(inbuf[c], outbuf[c]) IN
  /\ At("finish", c)
  /\ IF has_error[c] \/ mask = {}
     THEN CloseConnection(c)
     ELSE /\ interest' = [interest EXCEPT ![c] = mask]
          /\ srv' = Idle
          /\ UNCHANGED <<toServer, serverEnd, inbuf, outbuf>>
  /\ UNCHANGED <<toClient, clientEnd, has_error, executed>>

FinishEvent(c) ==
  LET mask == ConnectionPollMask(inbuf[c], outbuf[c]) IN
  /\ At("finish", c)
  /\ IF (~("out" \in mask) /\ has_error[c]) \/ mask = {}
     THEN CloseConnection(c)
     ELSE /\ interest' = [interest EXCEPT ![c] = mask]
          /\ srv' = Idle
          /\ UNCHANGED <<toServer, serverEnd, inbuf, outbuf>>
  /\ UNCHANGED <<toClient, clientEnd, has_error, executed>>

\* SignalStop, which the loop sees when it is back at its head, and ~Server
Stop ==
  /\ srv.at = "poll"
  /\ srv' = [Idle EXCEPT !.at = "stopped"]
  /\ CloseAll
  /\ UNCHANGED <<toClient, clientEnd, inbuf, outbuf, has_error, interest, executed>>

Poll(c) == OnNewConnection(c) \/ OnConnectionEvent(c) \/ OnConnectionError(c)

Work(c) ==
  \/ WriteReady(c) \/ ReadConnectionBuffer(c) \/ ReadFails(c) \/ ReadNothing(c)
  \/ RejectCall(c) \/ ExecuteCall(c) \/ StopProcessing(c) \/ WriteReply(c)
  \/ FinishEvent(c)

ServerUp == srv.at \notin {"killed", "stopped"}

ServerTypeOK ==
  /\ srv \in [at : {"poll", "killed", "stopped"}, client : {"none"}, read : {FALSE}]
        \cup [at : {"write", "read", "process", "reply", "finish"}, client : Clients,
              read : BOOLEAN]
  /\ inbuf \in [Clients -> [start : Nat, data : Seq(Request)]]
  /\ outbuf \in [Clients -> [start : Nat, data : Seq(Reply)]]
  /\ has_error \in [Clients -> BOOLEAN]
  /\ interest \in [Clients -> SUBSET {"in", "out"}]
  /\ executed \in [Clients -> Seq(Nat)]
=============================================================================
