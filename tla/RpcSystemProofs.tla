--------------------------- MODULE RpcSystemProofs ---------------------------
(***************************************************************************)
(* Theorems about the RPC library's clients and server, for any number of  *)
(* clients, any sizes of calls, of buffers and of what the kernel takes.   *)
(*                                                                         *)
(* First what is in the buffers and in the pipeline of a client (RpcInv).  *)
(* Then what the streams between them carry: whole requests and replies in *)
(* the order of the calls, wherever reads and writes cut them.  StreamsInv *)
(* says so of every state; from it follows that a Result has the value of  *)
(* its own call, and with HealthInv, which counts bytes, that calls within *)
(* the limits do not fail.                                                 *)
(***************************************************************************)
EXTENDS RpcSystem, SequenceTheorems, TLAPS

\* What is in the kernel; a write takes no more than there is room for.
NetworkInv ==
  /\ NetworkTypeOK
  /\ \A c \in Clients : Len(toClient[c]) <= SendBuffer

\* The buffers of the server's connections
ServerInv ==
  /\ ServerTypeOK
  /\ \A c \in Clients :
       /\ inbuf[c].start + Len(inbuf[c].data) <= MaxInBuf
       /\ outbuf[c].start + Len(outbuf[c].data) <= MaxOutBuf

\* The buffers of a client, and which of its calls wait for their reply: those of
\* the pipeline that none has been taken for, each under an xid of its own.
Waits(c, x) == \E i \in (nr_replied[c] + 1)..Len(pending[c]) : pending[c][i].xid = x

PipelineOK(c) ==
  /\ Len(buf[c]) <= BufferSize
  /\ Len(replies[c]) <= insz[c]
  /\ Len(pending[c]) <= MaxPipelineRequests
  /\ nr_replied[c] <= Len(pending[c])
  /\ phase[c] \in {"new", "idle"} => nr_replied[c] = 0
  /\ phase[c] = "new" => pending[c] = <<>>
  /\ \A i \in DOMAIN pending[c] :
       /\ pending[c][i].xid \in DOMAIN results[c]
       /\ \A j \in DOMAIN pending[c] : pending[c][i].xid = pending[c][j].xid => i = j
  /\ phase[c] # "gone" =>
       \A x \in DOMAIN results[c] : results[c][x].is = "pending" <=> Waits(c, x)

ClientInv ==
  /\ ClientTypeOK
  /\ \A c \in Clients : PipelineOK(c)

RpcInv == NetworkInv /\ ServerInv /\ ClientInv

-----------------------------------------------------------------------------
\* Bytes

\* The sizes of rpc.h add up to buffers of a size.
LEMMA Sizes ==
  /\ BufferSize \in Nat /\ InBufferSize \in Nat /\ MaxInBuf \in Nat /\ MaxOutBuf \in Nat
  /\ MaxInBuf > 0
<1>1. \A m, n \in Nat : m * n \in Nat
  OBVIOUS
<1> QED BY <1>1, SizesAssumption DEF BufferSize, InBufferSize, MaxInBuf, MaxOutBuf

\* A stream is what is before a cut and what is after it.
LEMMA Cut ==
  ASSUME NEW T, NEW s \in Seq(T), NEW n \in 0..Len(s)
  PROVE  /\ After(s, n) \in Seq(T) /\ Len(After(s, n)) = Len(s) - n
         /\ Before(s, n) \in Seq(T) /\ Len(Before(s, n)) = n
<1>1. Len(s) \in Nat /\ \A i \in 1..Len(s) : s[i] \in T
  BY LenProperties, ElementOfSeq
<1>2. After(s, n) \in Seq(T) /\ Len(After(s, n)) = Len(s) - n
  BY <1>1, SubSeqProperties DEF After
<1>3. Before(s, n) \in Seq(T) /\ Len(Before(s, n)) = n
  BY <1>1, SubSeqProperties DEF Before
<1> QED BY <1>2, <1>3

\* The bytes of a message
LEMMA BytesOf ==
  ASSUME NEW T, NEW m \in T, NEW n \in Nat
  PROVE  Bytes(m, n) \in Seq(T) /\ Len(Bytes(m, n)) = n
<1>1. Bytes(m, n) \in [1..n -> T]
  BY DEF Bytes
<1>2. Bytes(m, n) \in Seq(T)
  BY <1>1, SeqDef
<1>3. DOMAIN Bytes(m, n) = 1..n
  BY DEF Bytes
<1>4. Len(Bytes(m, n)) \in Nat /\ 1..Len(Bytes(m, n)) = 1..n
  BY <1>2, <1>3, LenProperties
<1> QED BY <1>2, <1>4

\* Requests and replies have a size.
LEMMA MessageSizes ==
  /\ \A req \in Request : RequestSize(req) \in Nat /\ RequestSize(req) >= CallBody
  /\ \A reply \in Reply : ReplySize(reply) \in Nat
<1>1. \A req \in Request : req.call.args \in Nat /\ req.call.result \in Nat
  BY CallsAssumption DEF Request, Call
<1>2. \A req \in Request : RequestSize(req) \in Nat /\ RequestSize(req) >= CallBody
  BY <1>1, SizesAssumption DEF RequestSize
<1>3. ASSUME NEW reply \in Reply PROVE ReplySize(reply) \in Nat
  <2>1. /\ reply.request \in Request
        /\ reply.accept_stat \in {SUCCESS, PROG_MISMATCH, GARBAGE_ARGS}
    BY DEF Reply
  <2> QED BY <1>1, <2>1, SizesAssumption
          DEF ReplySize, SUCCESS, PROG_MISMATCH, GARBAGE_ARGS
<1> QED BY <1>2, <1>3

\* What is put into a buffer stays in its range, if the new bytes have room.
LEMMA PutBuffer ==
  ASSUME NEW T, NEW f \in [Clients -> [start : Nat, data : Seq(T)]], NEW c \in Clients,
         NEW size \in Nat, \A d \in Clients : f[d].start + Len(f[d].data) <= size,
         NEW start \in Nat, NEW data \in Seq(T), start + Len(data) <= size,
         NEW g, g = [f EXCEPT ![c] = [start |-> start, data |-> data]]
  PROVE  /\ g \in [Clients -> [start : Nat, data : Seq(T)]]
         /\ \A d \in Clients : g[d].start + Len(g[d].data) <= size
<1>1. g \in [Clients -> [start : Nat, data : Seq(T)]]
  OBVIOUS
<1>2. ASSUME NEW d \in Clients PROVE g[d].start + Len(g[d].data) <= size
  <2>1. CASE d = c
    <3>1. g[d].start = start /\ g[d].data = data
      BY <2>1
    <3> QED BY <3>1
  <2>2. CASE d # c
    BY <2>2
  <2> QED BY <2>1, <2>2
<1> QED BY <1>1, <1>2

\* A buffer whose bytes are replaced
LEMMA WithData ==
  ASSUME NEW T, NEW b \in [start : Nat, data : Seq(T)], NEW data
  PROVE  [b EXCEPT !.data = data] = [start |-> b.start, data |-> data]
OBVIOUS

\* The lesser of two numbers of bytes
LEMMA Lesser ==
  ASSUME NEW m \in Nat, NEW n \in Nat
  PROVE  AtMost(m, n) \in 0..m /\ AtMost(m, n) <= n
BY DEF AtMost

\* Sliding moves the bytes of a buffer and keeps them within it.
LEMMA Slid ==
  ASSUME NEW T, NEW b \in [start : Nat, data : Seq(T)], NEW size \in Nat, NEW reserve \in Nat,
         b.start + Len(b.data) <= size
  PROVE  /\ Slide(b, size, reserve) \in [start : Nat, data : Seq(T)]
         /\ Slide(b, size, reserve).data = b.data
         /\ Slide(b, size, reserve).start + Len(b.data) <= size
<1>1. Len(b.data) \in Nat
  BY LenProperties
<1> QED BY <1>1 DEF Slide

\* Nothing is in a buffer that is empty.
LEMMA EmptyBuffers ==
  /\ \A T : EmptyBuffer \in [start : Nat, data : Seq(T)]
  /\ EmptyBuffer.start + Len(EmptyBuffer.data) = 0
BY EmptySeq DEF EmptyBuffer

-----------------------------------------------------------------------------
\* The server

\* Where the loop is for a connection
LEMMA AtIts ==
  ASSUME ServerTypeOK, NEW c \in Clients, NEW step, At(step, c),
         step \in {"write", "read", "process", "reply", "finish"},
         NEW next \in {"write", "read", "process", "reply", "finish"}, GoOn(next)
  PROVE  srv' \in [at : {"write", "read", "process", "reply", "finish"}, client : Clients,
                   read : BOOLEAN]
BY DEF ServerTypeOK, At, GoOn

\* A step that closes one connection, or all of them
LEMMA CloseKeeps ==
  ASSUME NetworkInv, ServerInv, NEW c \in Clients, CloseConnection(c),
         UNCHANGED <<toClient, clientEnd, has_error, executed>>
  PROVE  NetworkInv' /\ ServerInv'
<1>1. Closed(toServer[c]) \in ServerEnds
  BY DEF Closed, ServerEnds
<1>2. NetworkInv'
  BY <1>1, EmptySeq DEF NetworkInv, NetworkTypeOK, CloseConnection
<1>3. ServerTypeOK'
  BY EmptyBuffers DEF ServerInv, ServerTypeOK, CloseConnection, Idle
<1>4. ASSUME NEW d \in Clients
      PROVE  /\ inbuf'[d].start + Len(inbuf'[d].data) <= MaxInBuf
             /\ outbuf'[d].start + Len(outbuf'[d].data) <= MaxOutBuf
  BY EmptyBuffers, Sizes DEF ServerInv, ServerTypeOK, CloseConnection
<1> QED BY <1>2, <1>3, <1>4 DEF ServerInv

\* The end of the server closes what is left.
LEMMA StopKeeps ==
  ASSUME NetworkInv, ServerInv, CloseAll, srv' \in [at : {"killed", "stopped"},
                                                   client : {"none"}, read : {FALSE}],
         UNCHANGED <<toClient, clientEnd, inbuf, outbuf, has_error, interest, executed>>
  PROVE  NetworkInv' /\ ServerInv'
<1>1. \A c \in Clients : Closed(toServer[c]) \in ServerEnds
  BY DEF Closed, ServerEnds
<1>2. NetworkInv'
  BY <1>1, EmptySeq DEF NetworkInv, NetworkTypeOK, CloseAll
<1>3. ServerInv'
  BY DEF ServerInv, ServerTypeOK
<1> QED BY <1>2, <1>3

\* What epoll_wait returns changes no buffer.
LEMMA PollKeeps ==
  ASSUME NetworkInv, ServerInv, NEW c \in Clients, Poll(c)
  PROVE  NetworkInv' /\ ServerInv'
<1>1. CASE OnNewConnection(c)
  <2>1. NetworkInv'
    BY <1>1 DEF OnNewConnection, NetworkInv, NetworkTypeOK, ServerEnds
  <2>2. ServerInv'
    BY <1>1 DEF OnNewConnection, ServerInv, ServerTypeOK
  <2> QED BY <2>1, <2>2
<1>2. CASE OnConnectionEvent(c)
  <2>1. NetworkInv'
    BY <1>2 DEF OnConnectionEvent, network, NetworkInv, NetworkTypeOK
  <2>2. srv' \in [at : {"write", "read"}, client : Clients, read : BOOLEAN]
    BY <1>2 DEF OnConnectionEvent
  <2>3. ServerInv'
    BY <1>2, <2>2 DEF OnConnectionEvent, ServerInv, ServerTypeOK
  <2> QED BY <2>1, <2>3
<1>3. CASE OnConnectionError(c)
  BY <1>3, CloseKeeps DEF OnConnectionError
<1> QED BY <1>1, <1>2, <1>3 DEF Poll

\* A write moves bytes of outbuf into the kernel, as many as it has room for.
LEMMA WriteKeeps ==
  ASSUME NetworkInv, ServerInv, NEW c \in Clients,
         NEW step \in {"write", "reply"}, At(step, c),
         NEW next \in {"read", "process", "finish"}, Writing(c, next)
  PROVE  NetworkInv' /\ ServerInv'
<1> DEFINE out == outbuf[c]
           n == IF clientEnd[c] = "open"
                THEN AtMost(Len(out.data), SendBuffer - Len(toClient[c]))
                ELSE Len(out.data)
<1>1. CASE WriteSome(c, next)
  <2>1. /\ out.start \in Nat /\ out.data \in Seq(Reply)
        /\ out.start + Len(out.data) <= MaxOutBuf
        /\ toClient[c] \in Seq(Reply) /\ Len(toClient[c]) <= SendBuffer
    BY DEF ServerInv, ServerTypeOK, NetworkInv, NetworkTypeOK
  <2>2. /\ Len(out.data) \in Nat /\ Len(toClient[c]) \in Nat /\ n \in 0..Len(out.data)
        /\ clientEnd[c] = "open" => n <= SendBuffer - Len(toClient[c])
    <3>1. Len(out.data) \in Nat /\ Len(toClient[c]) \in Nat
      BY <2>1, LenProperties
    <3>2. CASE clientEnd[c] = "open"
      <4>1. SendBuffer - Len(toClient[c]) \in Nat
        BY <2>1, <3>1, SizesAssumption
      <4> QED BY <3>1, <3>2, <4>1, Lesser
    <3>3. CASE clientEnd[c] # "open"
      BY <3>1, <3>3
    <3> QED BY <3>1, <3>2, <3>3
  <2>3. /\ After(out.data, n) \in Seq(Reply) /\ Len(After(out.data, n)) = Len(out.data) - n
        /\ Before(out.data, n) \in Seq(Reply) /\ Len(Before(out.data, n)) = n
    BY ZenonT(30), <2>1, <2>2, Cut
  <2>4. /\ outbuf' = [outbuf EXCEPT ![c] = [start |-> out.start + n,
                                            data |-> After(out.data, n)]]
        /\ IF clientEnd[c] = "open"
           THEN /\ toClient' = [toClient EXCEPT ![c] = @ \o Before(out.data, n)]
                /\ UNCHANGED clientEnd
           ELSE /\ \/ clientEnd' = [clientEnd EXCEPT ![c] = "rst"]
                   \/ UNCHANGED clientEnd
                /\ UNCHANGED toClient
        /\ GoOn(next)
        /\ UNCHANGED <<toServer, serverEnd, inbuf, has_error, interest, executed>>
    BY <1>1 DEF WriteSome
  <2> HIDE DEF n, out
  <2>5. /\ outbuf' \in [Clients -> [start : Nat, data : Seq(Reply)]]
        /\ \A d \in Clients : outbuf'[d].start + Len(outbuf'[d].data) <= MaxOutBuf
    <3>1. out.start + n \in Nat /\ out.start + n + Len(After(out.data, n)) <= MaxOutBuf
      BY <2>1, <2>2, <2>3
    <3> QED BY <2>3, <2>4, <3>1, Sizes, PutBuffer DEF ServerInv, ServerTypeOK
  <2>6. ServerInv'
    BY <2>4, <2>5, AtIts DEF ServerInv, ServerTypeOK
  <2>7. NetworkInv'
    <3>1. CASE clientEnd[c] = "open"
      <4>0. /\ toClient[c] \o Before(out.data, n) \in Seq(Reply)
            /\ Len(toClient[c] \o Before(out.data, n)) = Len(toClient[c]) + n
        <5> DEFINE written == Before(out.data, n)
        <5>1. toClient[c] \in Seq(Reply) /\ written \in Seq(Reply) /\ Len(written) = n
          BY <2>1, <2>3
        <5> HIDE DEF written
        <5>2. /\ toClient[c] \o written \in Seq(Reply)
              /\ Len(toClient[c] \o written) = Len(toClient[c]) + Len(written)
          BY <5>1, ConcatProperties
        <5> QED BY <5>1, <5>2 DEF written
      <4>1. /\ toClient[c] \o Before(out.data, n) \in Seq(Reply)
            /\ Len(toClient[c] \o Before(out.data, n)) <= SendBuffer
        BY <2>2, <3>1, <4>0, SizesAssumption
      <4> QED BY <2>4, <3>1, <4>1 DEF NetworkInv, NetworkTypeOK
    <3>2. CASE clientEnd[c] # "open"
      BY <2>4, <3>2 DEF NetworkInv, NetworkTypeOK, ClientEnds
    <3> QED BY <3>1, <3>2
  <2> QED BY <2>6, <2>7
<1>2. CASE WriteFails(c)
  <2>1. CASE CloseConnection(c)
    BY <1>2, <2>1, CloseKeeps DEF WriteFails
  <2>2. CASE srv' = [Idle EXCEPT !.at = "killed"] /\ CloseAll
             /\ UNCHANGED <<inbuf, outbuf, interest>>
    BY <1>2, <2>2, StopKeeps DEF WriteFails, Idle
  <2> QED BY <1>2, <2>1, <2>2 DEF WriteFails
<1> QED BY <1>1, <1>2 DEF Writing

\* A read puts into inbuf no more than there is room for.
LEMMA ReadKeeps ==
  ASSUME NetworkInv, ServerInv, NEW c \in Clients,
         ReadConnectionBuffer(c) \/ ReadFails(c) \/ ReadNothing(c)
  PROVE  NetworkInv' /\ ServerInv'
<1>1. CASE ReadConnectionBuffer(c)
  <2> DEFINE in == Slide(inbuf[c], MaxInBuf, 0)
  <2>1. /\ in \in [start : Nat, data : Seq(Request)]
        /\ in.start + Len(in.data) <= MaxInBuf
    BY Slid, Sizes DEF ServerInv, ServerTypeOK
  <2>2. toServer[c] \in Seq(Request)
    BY DEF NetworkInv, NetworkTypeOK
  <2>3. PICK n \in 1..AtMost(Len(toServer[c]), residual_size(in, MaxInBuf)) :
          /\ inbuf' = [inbuf EXCEPT ![c] =
                         [in EXCEPT !.data = @ \o Before(toServer[c], n)]]
          /\ toServer' = [toServer EXCEPT ![c] = After(@, n)]
    BY <1>1 DEF ReadConnectionBuffer
  <2>4. /\ Len(in.data) \in Nat /\ Len(toServer[c]) \in Nat
        /\ n \in 0..Len(toServer[c]) /\ n <= MaxInBuf - (in.start + Len(in.data))
    <3>1. Len(in.data) \in Nat /\ Len(toServer[c]) \in Nat
      BY <2>1, <2>2, LenProperties
    <3> QED BY <2>1, <3>1, Sizes DEF AtMost, residual_size
  <2>5. /\ After(toServer[c], n) \in Seq(Request)
        /\ Before(toServer[c], n) \in Seq(Request) /\ Len(Before(toServer[c], n)) = n
    BY <2>2, <2>4, Cut
  <2>6. /\ in.data \o Before(toServer[c], n) \in Seq(Request)
        /\ Len(in.data \o Before(toServer[c], n)) = Len(in.data) + n
    BY ZenonT(30), <2>1, <2>5, ConcatProperties
  <2>7. /\ GoOn("process") /\ At("read", c)
        /\ UNCHANGED <<toClient, clientEnd, serverEnd, outbuf, has_error, interest, executed>>
    BY <1>1 DEF ReadConnectionBuffer
  <2> HIDE DEF in
  <2>8. NetworkInv'
    BY <2>3, <2>5, <2>7 DEF NetworkInv, NetworkTypeOK
  <2>9. /\ inbuf' \in [Clients -> [start : Nat, data : Seq(Request)]]
        /\ \A d \in Clients : inbuf'[d].start + Len(inbuf'[d].data) <= MaxInBuf
    <3>1. in.start \in Nat /\ in.start + (Len(in.data) + n) <= MaxInBuf
      BY <2>1, <2>4, Sizes
    <3>2. inbuf' = [inbuf EXCEPT ![c] = [start |-> in.start,
                                         data |-> in.data \o Before(toServer[c], n)]]
      BY <2>1, <2>3, WithData
    <3> QED BY <2>6, <3>1, <3>2, Sizes, PutBuffer DEF ServerInv, ServerTypeOK
  <2>10. ServerInv'
    BY <2>7, <2>9, AtIts DEF ServerInv, ServerTypeOK
  <2> QED BY <2>8, <2>10
<1>2. CASE ReadFails(c)
  BY <1>2, CloseKeeps DEF ReadFails
<1>3. CASE ReadNothing(c)
  <2>1. NetworkInv'
    BY <1>3 DEF ReadNothing, network, NetworkInv, NetworkTypeOK
  <2>2. ServerInv'
    BY <1>3, AtIts DEF ReadNothing, ServerInv, ServerTypeOK
  <2> QED BY <2>1, <2>2
<1> QED BY <1>1, <1>2, <1>3

\* A reply is put into outbuf only where a reply of the largest size, or the one
\* that was encoded, has room; what is consumed of inbuf was there.
LEMMA HandledKeeps ==
  ASSUME NetworkInv, ServerInv, NEW c \in Clients, At("process", c),
         NEW reply \in Reply, NEW consumed \in 0..Len(inbuf[c].data),
         ReplySize(reply) <=
           residual_size(Slide(outbuf[c], MaxOutBuf, MaxResponseSize), MaxOutBuf),
         Handled(c, reply, consumed),
         executed' \in [Clients -> Seq(Nat)]
  PROVE  NetworkInv' /\ ServerInv'
<1> DEFINE out == Slide(outbuf[c], MaxOutBuf, MaxResponseSize)
           in  == inbuf[c]
<1>1. /\ out \in [start : Nat, data : Seq(Reply)]
      /\ out.start + Len(out.data) <= MaxOutBuf
  BY SMTT(30), Slid, Sizes, SizesAssumption DEF ServerInv, ServerTypeOK
<1>2. /\ in \in [start : Nat, data : Seq(Request)]
      /\ in.start + Len(in.data) <= MaxInBuf
  BY DEF ServerInv, ServerTypeOK
<1>3. Len(out.data) \in Nat /\ Len(in.data) \in Nat
  BY <1>1, <1>2, LenProperties
<1>4. /\ Bytes(reply, ReplySize(reply)) \in Seq(Reply)
      /\ Len(Bytes(reply, ReplySize(reply))) = ReplySize(reply)
  BY MessageSizes, BytesOf
<1>5. /\ out.data \o Bytes(reply, ReplySize(reply)) \in Seq(Reply)
      /\ Len(out.data \o Bytes(reply, ReplySize(reply))) = Len(out.data) + ReplySize(reply)
  BY ZenonT(30), <1>1, <1>4, ConcatProperties
<1>6. /\ After(in.data, consumed) \in Seq(Request)
      /\ Len(After(in.data, consumed)) = Len(in.data) - consumed
  BY <1>2, Cut
<1>7. /\ outbuf' = [outbuf EXCEPT ![c] =
                      [out EXCEPT !.data = @ \o Bytes(reply, ReplySize(reply))]]
      /\ inbuf' = [inbuf EXCEPT ![c] =
                     [start |-> in.start + consumed, data |-> After(in.data, consumed)]]
      /\ has_error' = [has_error EXCEPT ![c] = reply.accept_stat # SUCCESS]
      /\ GoOn("reply")
      /\ UNCHANGED <<network, interest>>
  BY DEF Handled
<1>8. ReplySize(reply) <= MaxOutBuf - (out.start + Len(out.data))
  BY DEF residual_size
<1>9. consumed \in 0..Len(in.data) /\ ReplySize(reply) \in Nat
  BY MessageSizes
<1> HIDE DEF in, out
<1>10. /\ outbuf' \in [Clients -> [start : Nat, data : Seq(Reply)]]
       /\ \A d \in Clients : outbuf'[d].start + Len(outbuf'[d].data) <= MaxOutBuf
  <2>1. out.start \in Nat /\ out.start + (Len(out.data) + ReplySize(reply)) <= MaxOutBuf
    BY <1>1, <1>3, <1>8, <1>9, Sizes
  <2>2. outbuf' = [outbuf EXCEPT ![c] =
                     [start |-> out.start,
                      data |-> out.data \o Bytes(reply, ReplySize(reply))]]
    BY <1>1, <1>7, WithData
  <2> QED BY <1>5, <2>1, <2>2, Sizes, PutBuffer DEF ServerInv, ServerTypeOK
<1>11. /\ inbuf' \in [Clients -> [start : Nat, data : Seq(Request)]]
       /\ \A d \in Clients : inbuf'[d].start + Len(inbuf'[d].data) <= MaxInBuf
  <2>1. /\ in.start + consumed \in Nat
        /\ in.start + consumed + (Len(in.data) - consumed) <= MaxInBuf
    BY <1>2, <1>3, <1>9, Sizes
  <2> QED BY <1>6, <1>7, <2>1, Sizes, PutBuffer DEF ServerInv, ServerTypeOK
<1>12. NetworkInv'
  BY <1>7 DEF network, NetworkInv, NetworkTypeOK
<1>13. has_error' \in [Clients -> BOOLEAN]
  BY <1>7 DEF ServerInv, ServerTypeOK
<1>14. srv' \in [at : {"write", "read", "process", "reply", "finish"}, client : Clients,
                 read : BOOLEAN]
  BY <1>7, AtIts DEF ServerInv
<1> QED BY <1>7, <1>10, <1>11, <1>12, <1>13, <1>14 DEF ServerInv, ServerTypeOK

\* HandleRequest stays within both buffers, whatever the sizes of the call.
LEMMA RequestKeeps ==
  ASSUME NetworkInv, ServerInv, NEW c \in Clients, RejectCall(c) \/ ExecuteCall(c)
  PROVE  NetworkInv' /\ ServerInv'
<1> DEFINE req == Head(inbuf[c].data)
           room == residual_size(Slide(outbuf[c], MaxOutBuf, MaxResponseSize), MaxOutBuf)
<1>1. /\ At("process", c) /\ room > MaxResponseSize /\ Complete(inbuf[c])
  BY DEF RejectCall, ExecuteCall, Processing
<1>2. /\ inbuf[c].data \in Seq(Request) /\ Len(inbuf[c].data) \in Nat
      /\ Len(inbuf[c].data) > 0
  BY <1>1, LenProperties, SizesAssumption DEF Complete, ServerInv, ServerTypeOK
<1>3. req \in Request
  BY <1>2, HeadTailProperties, EmptySeq
<1>4. room \in Int
  <2>1. outbuf[c] \in [start : Nat, data : Seq(Reply)]
        /\ outbuf[c].start + Len(outbuf[c].data) <= MaxOutBuf
    BY DEF ServerInv, ServerTypeOK
  <2>2. /\ Slide(outbuf[c], MaxOutBuf, MaxResponseSize).start \in Nat
        /\ Slide(outbuf[c], MaxOutBuf, MaxResponseSize).data \in Seq(Reply)
    BY <2>1, Slid, Sizes, SizesAssumption
  <2> QED BY <2>2, LenProperties, Sizes DEF residual_size
<1>5. CASE RejectCall(c)
  <2> DEFINE reply == [request |-> req, accept_stat |-> PROG_MISMATCH]
  <2>1. reply \in Reply /\ ReplySize(reply) = AcceptMismatch
    BY <1>3 DEF Reply, ReplySize, SUCCESS, PROG_MISMATCH, GARBAGE_ARGS
  <2>2. ReplySize(reply) <= room
    BY <1>1, <1>4, <2>1, SizesAssumption
  <2>3. Handled(c, reply, 0) /\ executed' \in [Clients -> Seq(Nat)]
    BY <1>5 DEF RejectCall, ServerInv, ServerTypeOK
  <2> HIDE DEF reply, req
  <2> QED BY <1>1, <1>2, <2>1, <2>2, <2>3, HandledKeeps
<1>6. CASE ExecuteCall(c)
  <2>1. executed' \in [Clients -> Seq(Nat)]
    <3>1. req.xid \in Nat /\ executed[c] \in Seq(Nat)
      BY <1>3 DEF Request, ServerInv, ServerTypeOK
    <3>2. Append(executed[c], req.xid) \in Seq(Nat)
      BY <3>1, AppendProperties
    <3> QED BY <1>6, <3>2 DEF ExecuteCall, ServerInv, ServerTypeOK
  <2>2. CASE AcceptHeader + req.call.result <= room
    <3> DEFINE reply == [request |-> req, accept_stat |-> SUCCESS]
    <3>1. reply \in Reply /\ ReplySize(reply) = AcceptHeader + req.call.result
      BY <1>3 DEF Reply, ReplySize, SUCCESS, PROG_MISMATCH, GARBAGE_ARGS
    <3>2. RequestSize(req) \in 0..Len(inbuf[c].data)
      BY <1>1, <1>2, <1>3, <1>6, MessageSizes DEF ExecuteCall, Complete
    <3>3. Handled(c, reply, RequestSize(req))
      BY <1>6, <2>2 DEF ExecuteCall
    <3>4. ReplySize(reply) <= room
      BY <2>2, <3>1
    <3> HIDE DEF reply, req
    <3> QED BY <1>1, <2>1, <3>1, <3>2, <3>3, <3>4, HandledKeeps
  <2>3. CASE ~(AcceptHeader + req.call.result <= room)
    <3> DEFINE reply == [request |-> req, accept_stat |-> GARBAGE_ARGS]
    <3>1. reply \in Reply /\ ReplySize(reply) = AcceptHeader
      BY <1>3 DEF Reply, ReplySize, SUCCESS, PROG_MISMATCH, GARBAGE_ARGS
    <3>2. ReplySize(reply) <= room
      BY <1>1, <1>4, <3>1, SizesAssumption
    <3>3. Handled(c, reply, 0)
      BY <1>6, <2>3 DEF ExecuteCall
    <3> HIDE DEF reply, req
    <3> QED BY <1>1, <1>2, <2>1, <3>1, <3>2, <3>3, HandledKeeps
  <2> QED BY <2>2, <2>3
<1> QED BY <1>5, <1>6

\* The ends of the loop over requests and of the loop's body
LEMMA EndKeeps ==
  ASSUME NetworkInv, ServerInv, NEW c \in Clients, StopProcessing(c) \/ FinishEvent(c)
  PROVE  NetworkInv' /\ ServerInv'
<1>1. CASE StopProcessing(c)
  <2> DEFINE out == Slide(outbuf[c], MaxOutBuf, MaxResponseSize)
  <2>1. /\ outbuf[c] \in [start : Nat, data : Seq(Reply)]
        /\ outbuf[c].start + Len(outbuf[c].data) <= MaxOutBuf
    BY DEF ServerInv, ServerTypeOK
  <2>2. /\ out \in [start : Nat, data : Seq(Reply)]
        /\ out.start + Len(out.data) <= MaxOutBuf
    BY <2>1, Slid, Sizes, SizesAssumption
  <2>3. outbuf' = [outbuf EXCEPT ![c] = out] /\ GoOn("finish") /\ At("process", c)
        /\ UNCHANGED <<network, inbuf, has_error, interest, executed>>
    BY <1>1 DEF StopProcessing
  <2> HIDE DEF out
  <2>4. NetworkInv'
    BY <2>3 DEF network, NetworkInv, NetworkTypeOK
  <2>5. ServerInv'
    BY <2>2, <2>3, AtIts DEF ServerInv, ServerTypeOK
  <2> QED BY <2>4, <2>5
<1>2. CASE FinishEvent(c) /\ CloseConnection(c)
  BY <1>2, CloseKeeps DEF FinishEvent
<1>3. CASE FinishEvent(c) /\ ~CloseConnection(c)
  <2>1. /\ interest' = [interest EXCEPT ![c] = ConnectionPollMask(inbuf[c], outbuf[c])]
        /\ srv' = Idle
        /\ UNCHANGED <<toServer, serverEnd, inbuf, outbuf, toClient, clientEnd, has_error,
                       executed>>
    BY <1>3 DEF FinishEvent
  <2>2. ConnectionPollMask(inbuf[c], outbuf[c]) \in SUBSET {"in", "out"}
    BY DEF ConnectionPollMask
  <2>3. NetworkInv'
    BY <2>1 DEF NetworkInv, NetworkTypeOK
  <2>4. ServerInv'
    BY <2>1, <2>2 DEF ServerInv, ServerTypeOK, Idle
  <2> QED BY <2>3, <2>4
<1> QED BY <1>1, <1>2, <1>3

\* Every step of the server keeps its buffers and the kernel's in range.
LEMMA ServerKeeps ==
  ASSUME NetworkInv, ServerInv, NEW c \in Clients, Poll(c) \/ Work(c)
  PROVE  NetworkInv' /\ ServerInv'
<1>1. ASSUME WriteReady(c) \/ WriteReply(c) PROVE NetworkInv' /\ ServerInv'
  BY <1>1, WriteKeeps DEF WriteReady, WriteReply
<1> QED BY <1>1, PollKeeps, ReadKeeps, RequestKeeps, EndKeeps DEF Work

-----------------------------------------------------------------------------
\* A step of the server does not touch the clients' variables.
LEMMA ClientRests ==
  ASSUME ClientInv, UNCHANGED clientVars
  PROVE  ClientInv'
BY DEF ClientInv, ClientTypeOK, PipelineOK, Waits, clientVars

\* A client's step leaves the others' pipelines alone.
LEMMA OthersRest ==
  ASSUME NEW c \in Clients, PipelineOK(c), phase'[c] = phase[c], buf'[c] = buf[c],
         pending'[c] = pending[c], nr_replied'[c] = nr_replied[c],
         replies'[c] = replies[c], insz'[c] = insz[c], results'[c] = results[c]
  PROVE  PipelineOK(c)'
BY DEF PipelineOK, Waits

\* What ClientInv says of the types of one client's state
LEMMA ClientTypes ==
  ASSUME ClientInv, NEW c \in Clients
  PROVE  /\ buf[c] \in Seq(Request) /\ Len(buf[c]) \in Nat
         /\ pending[c] \in Seq(Request) /\ Len(pending[c]) \in Nat
         /\ DOMAIN pending[c] = 1..Len(pending[c])
         /\ \A i \in 1..Len(pending[c]) : pending[c][i] \in Request
         /\ nr_replied[c] \in Nat /\ insz[c] \in 0..InBufferSize
         /\ replies[c] \in Seq(Reply) /\ Len(replies[c]) \in Nat
         /\ results[c] \in Seq(Outcome) /\ Len(results[c]) \in Nat
         /\ DOMAIN results[c] = 1..Len(results[c])
         /\ \A x \in 1..Len(results[c]) : results[c][x] \in Outcome
         /\ PipelineOK(c)
<1>1. /\ buf[c] \in Seq(Request) /\ pending[c] \in Seq(Request)
      /\ replies[c] \in Seq(Reply) /\ results[c] \in Seq(Outcome)
      /\ nr_replied[c] \in 0..MaxPipelineRequests /\ insz[c] \in 0..InBufferSize
      /\ PipelineOK(c)
  BY DEF ClientInv, ClientTypeOK
<1> QED BY SMTT(30), <1>1, LenProperties, ElementOfSeq, SizesAssumption

\* The numbers among them
Lengths(c) ==
  /\ Len(buf[c]) \in Nat /\ Len(pending[c]) \in Nat /\ Len(replies[c]) \in Nat
  /\ Len(results[c]) \in Nat /\ nr_replied[c] \in Nat /\ insz[c] \in Nat
  /\ DOMAIN pending[c] = 1..Len(pending[c])
  /\ DOMAIN results[c] = 1..Len(results[c])

\* They are numbers.
LEMMA ClientLengths ==
  ASSUME ClientInv, NEW c \in Clients
  PROVE  Lengths(c) /\ PipelineOK(c)
BY ClientTypes, Sizes DEF Lengths

\* Send puts a request into the pipeline that has room and an xid for it.
LEMMA SendKeeps ==
  ASSUME NetworkInv, ClientInv, NEW c \in Clients, NEW call \in Calls, Send(c, call)
  PROVE  NetworkInv' /\ ClientInv'
<1> DEFINE req == [xid |-> Len(results[c]) + 1, call |-> call]
<1>1. /\ phase[c] = "idle" /\ Len(pending[c]) < MaxPipelineRequests
      /\ RoomFor(c, call)
      /\ buf' = [buf EXCEPT ![c] = @ \o Bytes(req, RequestSize(req))]
      /\ pending' = [pending EXCEPT ![c] = Append(@, req)]
      /\ results' = [results EXCEPT ![c] = Append(@, [is |-> "pending"])]
      /\ UNCHANGED <<network, phase, nr_replied, replies, insz>>
  BY DEF Send
<1>2. req \in Request /\ RequestSize(req) = CallBody + call.args /\ RequestSize(req) \in Nat
      /\ req.xid = Len(results[c]) + 1
  <2>1. Len(results[c]) + 1 \in Nat \ {0}
    BY ClientTypes
  <2>2. req \in Request
    BY <2>1 DEF Request
  <2> QED BY <2>2, MessageSizes DEF RequestSize
<1>3. /\ Bytes(req, RequestSize(req)) \in Seq(Request)
      /\ Len(Bytes(req, RequestSize(req))) = RequestSize(req)
  BY <1>2, BytesOf
<1> HIDE DEF req
<1>4. /\ buf[c] \o Bytes(req, RequestSize(req)) \in Seq(Request)
      /\ Len(buf[c] \o Bytes(req, RequestSize(req))) = Len(buf[c]) + RequestSize(req)
  BY ZenonT(30), <1>3, ClientTypes, ConcatProperties
<1>5. /\ Append(pending[c], req) \in Seq(Request)
      /\ Len(Append(pending[c], req)) = Len(pending[c]) + 1
      /\ \A i \in 1..Len(pending[c]) : Append(pending[c], req)[i] = pending[c][i]
      /\ Append(pending[c], req)[Len(pending[c]) + 1] = req
      /\ DOMAIN Append(pending[c], req) = 1..(Len(pending[c]) + 1)
  BY <1>2, ClientTypes, AppendProperties, LenProperties
<1>6. /\ Append(results[c], [is |-> "pending"]) \in Seq(Outcome)
      /\ \A i \in 1..Len(results[c]) :
           Append(results[c], [is |-> "pending"])[i] = results[c][i]
      /\ Append(results[c], [is |-> "pending"])[Len(results[c]) + 1] = [is |-> "pending"]
      /\ DOMAIN Append(results[c], [is |-> "pending"]) = 1..(Len(results[c]) + 1)
  <2>1. [is |-> "pending"] \in Outcome
    BY DEF Outcome
  <2> QED BY <2>1, ClientTypes, AppendProperties, LenProperties
<1>7. NetworkInv'
  BY <1>1 DEF network, NetworkInv, NetworkTypeOK
<1>8. ClientTypeOK'
  BY <1>1, <1>4, <1>5, <1>6 DEF ClientInv, ClientTypeOK
<1>9. /\ buf'[c] = buf[c] \o Bytes(req, RequestSize(req))
      /\ pending'[c] = Append(pending[c], req)
      /\ results'[c] = Append(results[c], [is |-> "pending"])
      /\ nr_replied'[c] = 0 /\ nr_replied[c] = 0 /\ phase'[c] = "idle"
      /\ replies'[c] = replies[c] /\ insz'[c] = insz[c]
  BY <1>1, ClientTypes DEF ClientInv, ClientTypeOK, PipelineOK
<1>10. PipelineOK(c)'
  <2>0. Lengths(c) /\ PipelineOK(c)
    BY ClientLengths
  <2>1. Len(buf'[c]) <= BufferSize /\ Len(replies'[c]) <= insz'[c]
    <3>1. Len(buf[c]) + CallBody + call.args <= BufferSize
      BY <1>1 DEF RoomFor
    <3>2. Len(buf[c]) \in Nat /\ CallBody \in Nat /\ call.args \in Nat
      BY <2>0, CallsAssumption, SizesAssumption DEF Lengths, Call
    <3>3. Len(buf'[c]) = Len(buf[c]) + (CallBody + call.args)
      BY <1>2, <1>4, <1>9
    <3>4. Len(replies'[c]) <= insz'[c]
      BY <1>9, <2>0 DEF PipelineOK
    <3> QED BY <3>1, <3>2, <3>3, <3>4
  <2>2. Len(pending'[c]) <= MaxPipelineRequests /\ nr_replied'[c] <= Len(pending'[c])
    BY <1>1, <1>5, <1>9, <2>0, SizesAssumption DEF Lengths
  <2>3. \A i \in DOMAIN pending'[c] :
          /\ pending'[c][i].xid \in DOMAIN results'[c]
          /\ \A j \in DOMAIN pending'[c] : pending'[c][i].xid = pending'[c][j].xid => i = j
    <3>1. ASSUME NEW i \in 1..Len(pending[c])
          PROVE  pending'[c][i].xid = pending[c][i].xid /\ pending[c][i].xid \in 1..Len(results[c])
      BY <1>5, <1>9, <2>0 DEF PipelineOK, Lengths
    <3>2. pending'[c][Len(pending[c]) + 1].xid = Len(results[c]) + 1
      BY <1>2, <1>5, <1>9
    <3>3. /\ DOMAIN pending'[c] = 1..(Len(pending[c]) + 1)
          /\ DOMAIN results'[c] = 1..(Len(results[c]) + 1)
      BY <1>5, <1>6, <1>9
    <3>4. Len(pending[c]) \in Nat /\ Len(results[c]) \in Nat
      BY <2>0 DEF Lengths
    <3>5. \A i \in 1..Len(pending[c]) : \A j \in 1..Len(pending[c]) :
            pending[c][i].xid = pending[c][j].xid => i = j
      BY <2>0 DEF PipelineOK, Lengths
    <3>6. ASSUME NEW i \in DOMAIN pending'[c]
          PROVE  i \in 1..Len(pending[c]) \/ i = Len(pending[c]) + 1
      BY <3>3, <3>4
    <3>7. ASSUME NEW i \in DOMAIN pending'[c] PROVE pending'[c][i].xid \in DOMAIN results'[c]
      <4>1. CASE i \in 1..Len(pending[c])
        <5>1. pending'[c][i].xid \in 1..Len(results[c])
          BY <3>1, <4>1
        <5> QED BY <3>3, <3>4, <5>1
      <4>2. CASE i = Len(pending[c]) + 1
        <5>1. pending'[c][i].xid = Len(results[c]) + 1
          BY <3>2, <4>2
        <5> QED BY <3>3, <3>4, <5>1
      <4> QED BY <3>6, <4>1, <4>2
    <3>8. ASSUME NEW i \in DOMAIN pending'[c], NEW j \in DOMAIN pending'[c],
                 pending'[c][i].xid = pending'[c][j].xid
          PROVE  i = j
      <4>1. CASE i \in 1..Len(pending[c]) /\ j \in 1..Len(pending[c])
        BY <3>1, <3>5, <3>8, <4>1
      <4>2. CASE i = Len(pending[c]) + 1 /\ j \in 1..Len(pending[c])
        BY <3>1, <3>2, <3>4, <3>8, <4>2
      <4>3. CASE i \in 1..Len(pending[c]) /\ j = Len(pending[c]) + 1
        BY <3>1, <3>2, <3>4, <3>8, <4>3
      <4> QED BY <3>6, <4>1, <4>2, <4>3
    <3> QED BY <3>7, <3>8
  <2>4. ASSUME NEW x \in DOMAIN results'[c]
        PROVE  results'[c][x].is = "pending" <=> Waits(c, x)'
    <3>1. CASE x = Len(results[c]) + 1
      <4>1. Waits(c, x)'
        <5>1. Len(pending[c]) + 1 \in (nr_replied'[c] + 1)..Len(pending'[c])
          BY <1>5, <1>9, <2>0 DEF Lengths
        <5>2. pending'[c][Len(pending[c]) + 1].xid = x
          BY <1>2, <1>5, <1>9, <3>1
        <5> QED BY <5>1, <5>2 DEF Waits
      <4> QED BY <1>6, <1>9, <3>1, <4>1
    <3>2. CASE x # Len(results[c]) + 1
      <4>1. x \in DOMAIN results[c] /\ results'[c][x] = results[c][x]
        BY <1>6, <1>9, <3>2, ClientTypes
      <4>2. Waits(c, x)' <=> Waits(c, x)
        BY SMTT(30), <1>2, <1>5, <1>9, <3>2, ClientTypes DEF Waits
      <4> QED BY <1>1, <4>1, <4>2, ClientTypes DEF PipelineOK
    <3> QED BY <3>1, <3>2
  <2> QED BY <1>9, <2>1, <2>2, <2>3, <2>4 DEF PipelineOK
<1>11. ASSUME NEW d \in Clients, d # c PROVE PipelineOK(d)'
  BY <1>1, <1>11, ClientTypes, OthersRest DEF ClientInv, ClientTypeOK
<1> QED BY <1>7, <1>8, <1>10, <1>11 DEF ClientInv

\* close(fd) leaves nothing in the kernel for the client.
LEMMA CloseEndKeeps ==
  ASSUME NetworkInv, NEW c \in Clients, CloseEnd(c), UNCHANGED <<toServer, serverEnd>>
  PROVE  NetworkInv'
<1>1. Closed(toClient[c]) \in ClientEnds
  BY DEF Closed, ClientEnds
<1> QED BY <1>1, EmptySeq, SizesAssumption DEF CloseEnd, NetworkInv, NetworkTypeOK

\* finalize, with no call left without an outcome, ends a pipeline.
LEMMA FinalizeKeeps ==
  ASSUME ClientInv, NEW c \in Clients, Finalize(c),
         NEW outcomes \in Seq(Outcome),
         results' = [results EXCEPT ![c] = outcomes],
         \A x \in DOMAIN outcomes : outcomes[x].is # "pending"
  PROVE  ClientInv'
<1>1. ClientTypeOK'
  BY EmptySeq, Sizes, SizesAssumption DEF ClientInv, ClientTypeOK, Finalize
<1>2. /\ buf'[c] = <<>> /\ pending'[c] = <<>> /\ replies'[c] = <<>>
      /\ nr_replied'[c] = 0 /\ insz'[c] = 0 /\ phase'[c] = "idle" /\ results'[c] = outcomes
  BY DEF ClientInv, ClientTypeOK, Finalize
<1>3. Len(<<>>) = 0 /\ DOMAIN <<>> = {}
  OBVIOUS
<1>4. PipelineOK(c)'
  BY <1>2, <1>3, Sizes, SizesAssumption DEF PipelineOK, Waits
<1>5. ASSUME NEW d \in Clients, d # c PROVE PipelineOK(d)'
  BY <1>5, ClientTypes, OthersRest DEF Finalize, ClientInv, ClientTypeOK
<1> QED BY <1>1, <1>4, <1>5 DEF ClientInv

\* A failed Flush marks exactly the calls that have no reply.
LEMMA FailKeeps ==
  ASSUME NetworkInv, ClientInv, NEW c \in Clients, phase[c] # "gone", Fail(c)
  PROVE  NetworkInv' /\ ClientInv'
<1> DEFINE outcomes == [x \in DOMAIN results[c] |->
                          IF x \in Unanswered(c) THEN [is |-> "error"] ELSE results[c][x]]
<1>1. [is |-> "error"] \in Outcome
  BY DEF Outcome
<1>2. outcomes \in [1..Len(results[c]) -> Outcome]
  BY <1>1, ClientTypes
<1>3. outcomes \in Seq(Outcome)
  <2>1. Len(results[c]) \in Nat
    BY ClientTypes
  <2> HIDE DEF outcomes
  <2> QED BY <1>2, <2>1, SeqDef
<1>4. \A x \in DOMAIN results[c] : results[c][x].is = "pending" => x \in Unanswered(c)
  <2>1. PipelineOK(c)
    BY ClientLengths
  <2> QED BY <2>1 DEF PipelineOK, Waits, Unanswered
<1>5. \A x \in DOMAIN outcomes : outcomes[x].is # "pending"
  BY <1>4
<1>6. results' = [results EXCEPT ![c] = outcomes] /\ Finalize(c)
  BY DEF Fail
<1> HIDE DEF outcomes
<1>7. ClientInv'
  BY <1>3, <1>5, <1>6, FinalizeKeeps
<1>8. NetworkInv'
  BY CloseEndKeeps DEF Fail
<1> QED BY <1>7, <1>8

\* A step in which a client only goes on to another phase
LEMMA PhaseKeeps ==
  ASSUME ClientInv, NEW c \in Clients, NEW p \in {"idle", "reading", "parsing", "gone"},
         phase' = [phase EXCEPT ![c] = p],
         p = "idle" => phase[c] = "new",
         phase[c] = "gone" => p = "gone",
         UNCHANGED <<buf, pending, nr_replied, replies, insz, results>>
  PROVE  ClientInv'
<1>1. ClientTypeOK'
  BY DEF ClientInv, ClientTypeOK
<1>2. phase'[c] = p
  BY DEF ClientInv, ClientTypeOK
<1>3. PipelineOK(c)'
  BY <1>2, ClientTypes DEF PipelineOK, Waits
<1>4. ASSUME NEW d \in Clients, d # c PROVE PipelineOK(d)'
  BY <1>4, ClientTypes, OthersRest DEF ClientInv, ClientTypeOK
<1> QED BY <1>1, <1>3, <1>4 DEF ClientInv

\* The program's steps: connect, a write, the end
LEMMA ProgramKeeps ==
  ASSUME NetworkInv, ClientInv, NEW c \in Clients,
         Connect(c) \/ FlushWrite(c) \/ FlushWriteFails(c) \/ Killed(c) \/ Leave(c)
  PROVE  NetworkInv' /\ ClientInv'
<1>1. CASE Connect(c)
  <2>1. NetworkInv'
    BY <1>1 DEF Connect, NetworkInv, NetworkTypeOK, ClientEnds, ServerEnds
  <2>2. ClientInv'
    BY <1>1, PhaseKeeps DEF Connect
  <2> QED BY <2>1, <2>2
<1>2. CASE FlushWrite(c)
  <2>1. toServer[c] \o buf[c] \in Seq(Request)
    BY ClientTypes, ConcatProperties DEF NetworkInv, NetworkTypeOK
  <2>2. NetworkInv'
    BY <1>2, <2>1 DEF FlushWrite, NetworkInv, NetworkTypeOK, ServerEnds
  <2>3. ClientInv'
    BY <1>2, PhaseKeeps DEF FlushWrite
  <2> QED BY <2>2, <2>3
<1>3. CASE FlushWriteFails(c)
  BY <1>3, FailKeeps DEF FlushWriteFails
<1>4. CASE Killed(c) \/ Leave(c)
  <2>1. Vanish(c)
    BY <1>4 DEF Killed, Leave
  <2>2. NetworkInv'
    BY <2>1, CloseEndKeeps DEF Vanish
  <2>3. ClientInv'
    BY <2>1, PhaseKeeps DEF Vanish
  <2> QED BY <2>2, <2>3
<1> QED BY <1>1, <1>2, <1>3, <1>4

\* A read puts into the buffer for replies no more than there is room for.
LEMMA ReadRepliesKeeps ==
  ASSUME NetworkInv, ClientInv, NEW c \in Clients, ReadReplies(c)
  PROVE  NetworkInv' /\ ClientInv'
<1>1. PICK n \in 1..AtMost(Len(toClient[c]), Room(c)) :
        /\ replies' = [replies EXCEPT ![c] = @ \o Before(toClient[c], n)]
        /\ toClient' = [toClient EXCEPT ![c] = After(@, n)]
        /\ insz' = [insz EXCEPT ![c] = @ + n]
  BY DEF ReadReplies
<1>2. /\ phase[c] = "reading" /\ phase' = [phase EXCEPT ![c] = "parsing"]
      /\ UNCHANGED <<toServer, clientEnd, serverEnd, buf, pending, nr_replied, results>>
  BY DEF ReadReplies
<1>3. toClient[c] \in Seq(Reply) /\ Len(toClient[c]) \in Nat /\ Len(toClient[c]) <= SendBuffer
  BY LenProperties DEF NetworkInv, NetworkTypeOK
<1>4. /\ n \in 0..Len(toClient[c]) /\ n \in Nat
      /\ insz[c] + n <= InBufferSize /\ insz[c] + n \in Nat
  <2>1. Room(c) \in Nat
    BY ClientTypes, Sizes DEF Room
  <2>2. AtMost(Len(toClient[c]), Room(c)) \in 0..Len(toClient[c])
        /\ AtMost(Len(toClient[c]), Room(c)) <= Room(c)
    BY <1>3, <2>1, Lesser
  <2> QED BY <1>3, <2>1, <2>2, ClientTypes, Sizes DEF Room
<1> DEFINE read == Before(toClient[c], n)
<1>5. /\ After(toClient[c], n) \in Seq(Reply) /\ Len(After(toClient[c], n)) <= SendBuffer
      /\ read \in Seq(Reply) /\ Len(read) = n
  <2>1. /\ After(toClient[c], n) \in Seq(Reply)
        /\ Len(After(toClient[c], n)) = Len(toClient[c]) - n
        /\ read \in Seq(Reply) /\ Len(read) = n
    BY <1>3, <1>4, Cut
  <2> QED BY <1>3, <1>4, <2>1, SizesAssumption
<1>6. replies' = [replies EXCEPT ![c] = @ \o read]
  BY <1>1
<1> HIDE DEF read
<1>7. replies[c] \o read \in Seq(Reply) /\ Len(replies[c] \o read) = Len(replies[c]) + n
  BY <1>5, ClientTypes, ConcatProperties
<1>8. NetworkInv'
  BY <1>1, <1>2, <1>5 DEF NetworkInv, NetworkTypeOK
<1>9. ClientTypeOK'
  <2>1. insz' \in [Clients -> 0..InBufferSize]
    BY <1>1, <1>4, Sizes DEF ClientInv, ClientTypeOK
  <2> QED BY <1>2, <1>6, <1>7, <2>1 DEF ClientInv, ClientTypeOK
<1>10. /\ replies'[c] = replies[c] \o read /\ insz'[c] = insz[c] + n
       /\ phase'[c] = "parsing"
  BY <1>1, <1>2, <1>6 DEF ClientInv, ClientTypeOK
<1>11. Len(replies'[c]) <= insz'[c]
  BY <1>4, <1>7, <1>10, ClientTypes DEF PipelineOK
<1>12. PipelineOK(c)'
  <2>1. PipelineOK(c)
    BY ClientLengths
  <2> QED BY <1>2, <1>10, <1>11, <2>1 DEF PipelineOK, Waits
<1>13. ASSUME NEW d \in Clients, d # c PROVE PipelineOK(d)'
  BY <1>1, <1>2, <1>6, <1>13, ClientTypes, OthersRest DEF ClientInv, ClientTypeOK
<1> QED BY <1>8, <1>9, <1>12, <1>13 DEF ClientInv

\* The reply that is parsed is that of the first call without one.
LEMMA ParseReplyKeeps ==
  ASSUME NetworkInv, ClientInv, NEW c \in Clients, ParseReply(c)
  PROVE  NetworkInv' /\ ClientInv'
<1> DEFINE k == nr_replied[c] + 1
           x == pending[c][k].xid
           size == ExpectedSize(c)
<1>1. /\ phase[c] = "parsing" /\ nr_replied[c] # Len(pending[c])
      /\ Len(replies[c]) >= size
      /\ results' = [results EXCEPT ![c][x] = [is |-> "value",
                                               of |-> Head(replies[c]).request]]
      /\ nr_replied' = [nr_replied EXCEPT ![c] = @ + 1]
      /\ replies' = [replies EXCEPT ![c] = After(@, size)]
      /\ UNCHANGED <<network, phase, buf, pending, insz>>
  BY DEF ParseReply, AllReplied
<1>0. Lengths(c) /\ PipelineOK(c)
  BY ClientLengths
<1>2. k \in 1..Len(pending[c]) /\ k = nr_replied[c] + 1 /\ k \in Nat
      /\ nr_replied[c] \in Nat /\ k <= MaxPipelineRequests
  <2>1. nr_replied[c] \in Nat /\ Len(pending[c]) \in Nat /\ MaxPipelineRequests \in Nat
    BY <1>0, SizesAssumption DEF Lengths
  <2>2. nr_replied[c] <= Len(pending[c]) /\ Len(pending[c]) <= MaxPipelineRequests
    BY <1>0 DEF PipelineOK
  <2>3. nr_replied[c] # Len(pending[c])
    BY <1>1
  <2> QED BY <2>1, <2>2, <2>3
<1>3. /\ pending[c][k] \in Request /\ x \in DOMAIN results[c] /\ x = pending[c][k].xid
      /\ x \in 1..Len(results[c])
  BY <1>2, ClientTypes DEF PipelineOK
<1>4. size \in Nat /\ size > 0
  <2>1. pending[c][k].call.result \in Nat
    BY <1>3, CallsAssumption DEF Request, Call
  <2> QED BY <2>1, SizesAssumption DEF ExpectedSize
<1>5. /\ After(replies[c], size) \in Seq(Reply)
      /\ Len(After(replies[c], size)) = Len(replies[c]) - size
  BY <1>1, <1>4, ClientTypes, Cut
<1>6. Head(replies[c]) \in Reply
  BY <1>1, <1>4, ClientTypes, HeadTailProperties, EmptySeq
<1> DEFINE outcome == [is |-> "value", of |-> Head(replies[c]).request]
<1>7. outcome \in Outcome /\ outcome.is = "value"
  BY <1>6 DEF Outcome, Reply
<1>8. results' = [results EXCEPT ![c] = [@ EXCEPT ![x] = outcome]]
  BY <1>1
<1> HIDE DEF k, x, size, outcome
<1>9. [results[c] EXCEPT ![x] = outcome] \in Seq(Outcome)
  BY <1>3, <1>7, ClientTypes, ExceptSeq
<1>10. NetworkInv'
  BY <1>1 DEF network, NetworkInv, NetworkTypeOK
<1>11. nr_replied' \in [Clients -> 0..MaxPipelineRequests]
  BY <1>1, <1>2, SizesAssumption DEF ClientInv, ClientTypeOK
<1>12. ClientTypeOK'
  BY <1>1, <1>5, <1>8, <1>9, <1>11 DEF ClientInv, ClientTypeOK
<1>13. /\ results'[c] = [results[c] EXCEPT ![x] = outcome]
       /\ nr_replied'[c] = k /\ replies'[c] = After(replies[c], size)
       /\ phase'[c] = "parsing" /\ buf'[c] = buf[c] /\ pending'[c] = pending[c]
       /\ insz'[c] = insz[c]
  BY <1>1, <1>2, <1>8 DEF ClientInv, ClientTypeOK
<1>14. /\ DOMAIN results'[c] = DOMAIN results[c]
       /\ \A y \in DOMAIN results[c] :
            results'[c][y] = IF y = x THEN outcome ELSE results[c][y]
  BY <1>13
<1>15. ASSUME NEW y \in DOMAIN results'[c]
       PROVE  results'[c][y].is = "pending" <=> Waits(c, y)'
  <2>1. CASE y = x
    <3>1. ~Waits(c, y)'
      <4>1. \A i \in (k + 1)..Len(pending[c]) : i \in 1..Len(pending[c]) /\ i # k
        BY <1>0, <1>2 DEF Lengths
      <4>2. \A i \in 1..Len(pending[c]) : pending[c][i].xid = x => i = k
        BY <1>0, <1>2, <1>3 DEF PipelineOK, Lengths
      <4> QED BY <1>13, <2>1, <4>1, <4>2 DEF Waits
    <3> QED BY <1>7, <1>14, <2>1, <3>1
  <2>2. CASE y # x
    <3>1. Waits(c, y)' <=> Waits(c, y)
      <4>1. \A i \in (nr_replied[c] + 1)..Len(pending[c]) :
              i = k \/ i \in (k + 1)..Len(pending[c])
        BY <1>0, <1>2 DEF Lengths
      <4>2. (k + 1)..Len(pending[c]) \subseteq (nr_replied[c] + 1)..Len(pending[c])
        BY <1>0, <1>2 DEF Lengths
      <4> QED BY <1>3, <1>13, <2>2, <4>1, <4>2 DEF Waits
    <3> QED BY <1>1, <1>14, <2>2, <3>1, ClientTypes DEF PipelineOK
  <2> QED BY <2>1, <2>2
<1>16. Len(replies'[c]) <= insz'[c]
  BY <1>4, <1>5, <1>13, ClientTypes DEF PipelineOK
<1>17. PipelineOK(c)'
  BY <1>2, <1>13, <1>14, <1>15, <1>16, ClientTypes DEF PipelineOK
<1>18. ASSUME NEW d \in Clients, d # c PROVE PipelineOK(d)'
  BY <1>1, <1>8, <1>18, ClientTypes, OthersRest DEF ClientInv, ClientTypeOK
<1> QED BY <1>10, <1>12, <1>17, <1>18 DEF ClientInv

\* Flush goes on or ends.
LEMMA FlushKeeps ==
  ASSUME NetworkInv, ClientInv, NEW c \in Clients, FlushStep(c)
  PROVE  NetworkInv' /\ ClientInv'
<1>1. CASE ReadRepliesFails(c) \/ ParseFails(c)
  BY <1>1, FailKeeps DEF ReadRepliesFails, ParseFails
<1>2. CASE ParseMore(c)
  <2>1. NetworkInv'
    BY <1>2 DEF ParseMore, network, NetworkInv, NetworkTypeOK
  <2>2. ClientInv'
    BY <1>2, PhaseKeeps DEF ParseMore
  <2> QED BY <2>1, <2>2
<1>3. CASE FlushDone(c)
  <2>1. NetworkInv'
    BY <1>3 DEF FlushDone, network, NetworkInv, NetworkTypeOK
  <2>2. phase[c] = "parsing" /\ nr_replied[c] = Len(pending[c])
    BY <1>3 DEF FlushDone, AllReplied
  <2>3. \A x \in DOMAIN results[c] : results[c][x].is # "pending"
    BY <2>2, ClientTypes DEF PipelineOK, Waits
  <2>4. results' = [results EXCEPT ![c] = results[c]] /\ Finalize(c)
    BY <1>3 DEF FlushDone, ClientInv, ClientTypeOK
  <2>5. ClientInv'
    BY <2>3, <2>4, ClientTypes, FinalizeKeeps
  <2> QED BY <2>1, <2>5
<1> QED BY <1>1, <1>2, <1>3, ReadRepliesKeeps, ParseReplyKeeps DEF FlushStep

-----------------------------------------------------------------------------
\* The invariant holds when the clients and the server start.
LEMMA RpcInitially == Init => RpcInv
<1> SUFFICES ASSUME Init PROVE RpcInv
  OBVIOUS
<1>1. NetworkInv
  BY EmptySeq, SizesAssumption
     DEF Init, NetworkInit, NetworkInv, NetworkTypeOK, ClientEnds, ServerEnds
<1>2. ServerInv
  BY EmptyBuffers, EmptySeq, Sizes DEF Init, ServerInit, ServerInv, ServerTypeOK, Idle
<1>3. ClientTypeOK
  BY EmptySeq, Sizes, SizesAssumption DEF Init, ClientInit, ClientTypeOK
<1>4. ASSUME NEW c \in Clients PROVE PipelineOK(c)
  <2>1. Len(<<>>) = 0 /\ DOMAIN <<>> = {}
    OBVIOUS
  <2> QED BY <2>1, Sizes, SizesAssumption DEF Init, ClientInit, PipelineOK, Waits
<1> QED BY <1>1, <1>2, <1>3, <1>4 DEF RpcInv, ClientInv

\* Every step of a client or of the server preserves it.
LEMMA RpcNext ==
  ASSUME RpcInv, [Next]_vars
  PROVE  RpcInv'
<1>1. ASSUME NEW c \in Clients, Server(c) PROVE RpcInv'
  BY <1>1, ServerKeeps, ClientRests DEF Server, RpcInv
<1>2. ASSUME NEW c \in Clients, Client(c) PROVE RpcInv'
  <2>1. ServerInv'
    BY <1>2 DEF Client, serverVars, RpcInv, ServerInv, ServerTypeOK
  <2>2. NetworkInv' /\ ClientInv'
    BY <1>2, SendKeeps, ProgramKeeps, FlushKeeps DEF Client, ProgramStep, RpcInv
  <2> QED BY <2>1, <2>2 DEF RpcInv
<1>3. ASSUME Stop, UNCHANGED clientVars PROVE RpcInv'
  BY <1>3, StopKeeps, ClientRests DEF Stop, Idle, RpcInv
<1>4. ASSUME UNCHANGED vars PROVE RpcInv'
  <2>1. NetworkInv' /\ ServerInv'
    BY <1>4 DEF vars, network, serverVars, RpcInv, NetworkInv, NetworkTypeOK, ServerInv,
       ServerTypeOK
  <2> QED BY <1>4, <2>1, ClientRests DEF vars, RpcInv
<1> QED BY <1>1, <1>2, <1>3, <1>4 DEF Next

\* What is in the buffers and which calls wait for a reply, in every state
THEOREM RpcInvariance == Spec => []RpcInv
BY RpcInitially, RpcNext, PTL DEF Spec

\* No buffer of the server or of a client is written past its end, whatever the
\* sizes of calls, buffers and kernel, and however the streams are cut.
THEOREM BuffersStayInRange == Spec => []BuffersInRange
<1>1. RpcInv => BuffersInRange
  <2> SUFFICES ASSUME RpcInv PROVE BuffersInRange
    OBVIOUS
  <2>1. \A c \in Clients : insz[c] <= InBufferSize
    BY Sizes DEF RpcInv, ClientInv, ClientTypeOK
  <2> QED BY <2>1 DEF RpcInv, NetworkInv, ServerInv, ClientInv, PipelineOK, BuffersInRange
<1> QED BY <1>1, RpcInvariance, PTL

\* Whenever a client is not inside Flush, its calls without an outcome are those
\* still to be flushed: a Flush that returns has settled every call it wrote.
THEOREM FlushSettles == Spec => []SettledByFlush
<1>1. ASSUME RpcInv PROVE SettledByFlush
  <2> SUFFICES ASSUME NEW c \in Clients, phase[c] = "idle"
               PROVE  {x \in DOMAIN results[c] : results[c][x].is = "pending"}
                        = {pending[c][i].xid : i \in DOMAIN pending[c]}
    BY DEF SettledByFlush
  <2>0. Lengths(c) /\ PipelineOK(c)
    BY <1>1, ClientLengths DEF RpcInv
  <2>1. (nr_replied[c] + 1)..Len(pending[c]) = DOMAIN pending[c]
    BY <2>0 DEF PipelineOK, Lengths
  <2> QED BY <2>0, <2>1 DEF PipelineOK, Waits
<1>2. RpcInv => SettledByFlush
  BY <1>1
<1> QED BY <1>2, RpcInvariance, PTL

\* The server knows nothing of a client that has not connected yet.
NewInv == \A c \in Clients : phase[c] = "new" => serverEnd[c] \notin {"backlog", "open"}

\* An end of the server comes into being with Connect and is opened once, by the server.
LEMMA EndsOpened ==
  ASSUME RpcInv, NEW d \in Clients, NEW c \in Clients, Poll(d) \/ Work(d)
  PROVE  serverEnd'[c] \in {"backlog", "open"} => serverEnd[c] \in {"backlog", "open"}
<1>1. serverEnd = [e \in Clients |-> serverEnd[e]]
  BY DEF RpcInv, NetworkInv, NetworkTypeOK
<1>2. ASSUME CloseConnection(d)
      PROVE  serverEnd'[c] \in {"backlog", "open"} => serverEnd[c] \in {"backlog", "open"}
  BY <1>1, <1>2 DEF CloseConnection, Closed
<1>3. ASSUME CloseAll
      PROVE  serverEnd'[c] \in {"backlog", "open"} => serverEnd[c] \in {"backlog", "open"}
  BY <1>3 DEF CloseAll
<1>4. CASE FinishEvent(d) \/ OnConnectionError(d) \/ ReadFails(d)
  BY <1>2, <1>4 DEF FinishEvent, OnConnectionError, ReadFails
<1>5. CASE WriteReady(d) \/ WriteReply(d)
  <2>1. (\E next : WriteSome(d, next)) \/ WriteFails(d)
    BY <1>5 DEF WriteReady, WriteReply, Writing
  <2>2. (\E next : WriteSome(d, next)) => serverEnd' = serverEnd
    BY DEF WriteSome
  <2>3. WriteFails(d) => CloseConnection(d) \/ CloseAll
    BY DEF WriteFails
  <2> QED BY <1>2, <1>3, <2>1, <2>2, <2>3
<1>6. CASE OnNewConnection(d)
  BY <1>1, <1>6 DEF OnNewConnection
<1>7. CASE OnConnectionEvent(d) \/ ReadConnectionBuffer(d) \/ ReadNothing(d)
             \/ RejectCall(d) \/ ExecuteCall(d) \/ StopProcessing(d)
  BY <1>7 DEF OnConnectionEvent, ReadConnectionBuffer, ReadNothing, RejectCall, ExecuteCall,
     StopProcessing, Handled, network
<1> QED BY <1>4, <1>5, <1>6, <1>7 DEF Poll, Work

\* The only step of a client that changes the server's end, but to "rst", is Connect.
LEMMA ClientEndsOpened ==
  ASSUME RpcInv, NEW d \in Clients, NEW c \in Clients, Client(d)
  PROVE  /\ serverEnd'[c] = serverEnd[c] \/ (serverEnd[c] = "fin" /\ serverEnd'[c] = "rst")
              \/ (Connect(d) /\ c = d)
         /\ phase'[c] = "new" => phase[c] = "new"
         /\ Connect(d) => phase[d] = "new" /\ phase'[d] = "idle"
<1>1. serverEnd = [e \in Clients |-> serverEnd[e]] /\ phase = [e \in Clients |-> phase[e]]
  BY DEF RpcInv, NetworkInv, NetworkTypeOK, ClientInv, ClientTypeOK
<1>2. CASE Connect(d)
  BY <1>1, <1>2 DEF Connect
<1>3. CASE FlushWrite(d)
  BY <1>1, <1>3 DEF FlushWrite, Connect
<1>4. CASE FlushWriteFails(d) \/ ReadRepliesFails(d) \/ ParseFails(d)
  BY <1>1, <1>4 DEF FlushWriteFails, ReadRepliesFails, ParseFails, Fail, Finalize, Connect
<1>5. CASE Killed(d) \/ Leave(d)
  BY <1>1, <1>5 DEF Killed, Leave, Vanish, Connect
<1>6. CASE (\E call \in Calls : Send(d, call)) \/ ReadReplies(d) \/ ParseReply(d)
             \/ ParseMore(d) \/ FlushDone(d)
  BY <1>1, <1>6 DEF Send, ReadReplies, ParseReply, ParseMore, FlushDone, Finalize, network,
     Connect
<1> QED BY <1>2, <1>3, <1>4, <1>5, <1>6 DEF Client, ProgramStep, FlushStep

\* No step introduces a client to the server but Connect.
LEMMA NewNext ==
  ASSUME RpcInv, NewInv, [Next]_vars
  PROVE  NewInv'
<1>1. ASSUME NEW d \in Clients, Server(d) PROVE NewInv'
  BY <1>1, EndsOpened DEF Server, clientVars, NewInv
<1>2. ASSUME NEW d \in Clients, Client(d) PROVE NewInv'
  BY <1>2, ClientEndsOpened DEF NewInv
<1>3. ASSUME Stop, UNCHANGED clientVars PROVE NewInv'
  BY <1>3 DEF Stop, CloseAll, Closed, clientVars, NewInv
<1>4. ASSUME UNCHANGED vars PROVE NewInv'
  BY <1>4 DEF vars, network, clientVars, NewInv
<1> QED BY <1>1, <1>2, <1>3, <1>4 DEF Next

\* The server's steps that close a connection leave nothing of it to be written.
LEMMA ServerCloses ==
  ASSUME RpcInv, NEW c \in Clients, NEW d \in Clients, Poll(d) \/ Work(d),
         clientEnd[c] = "open", serverEnd[c] = "open", serverEnd'[c] # "open", ServerUp'
  PROVE  outbuf[c].data = <<>>
<1>1. serverEnd = [e \in Clients |-> serverEnd[e]]
  BY DEF RpcInv, NetworkInv, NetworkTypeOK
<1>2. outbuf[c].data \in Seq(Reply)
  BY DEF RpcInv, ServerInv, ServerTypeOK
<1>3. ASSUME CloseConnection(d) PROVE d = c
  BY <1>1, <1>3 DEF CloseConnection
<1>4. CASE FinishEvent(d)
  <2>1. CloseConnection(d) /\ "out" \notin ConnectionPollMask(inbuf[d], outbuf[d])
    BY <1>4 DEF FinishEvent
  <2>2. ~(Len(outbuf[c].data) > 0)
    BY <1>3, <2>1 DEF ConnectionPollMask
  <2> QED BY <1>2, <2>2, EmptySeq, LenProperties
<1>5. CASE OnConnectionError(d) \/ ReadFails(d)
  <2>1. CloseConnection(d) /\ clientEnd[d] # "open"
    BY <1>5 DEF OnConnectionError, ReadFails
  <2> QED BY <1>3, <2>1
<1>6. CASE WriteReady(d) \/ WriteReply(d)
  <2>1. (\E next : WriteSome(d, next)) \/ WriteFails(d)
    BY <1>6 DEF WriteReady, WriteReply, Writing
  <2>2. CASE \E next : WriteSome(d, next)
    BY <2>2 DEF WriteSome
  <2>3. CASE WriteFails(d)
    <3>1. CloseConnection(d) /\ clientEnd[d] = "rst"
      BY <2>3 DEF WriteFails, ServerUp, Idle
    <3> QED BY <1>3, <3>1
  <2> QED BY <2>1, <2>2, <2>3
<1>7. CASE OnNewConnection(d)
  BY <1>1, <1>7 DEF OnNewConnection
<1>8. CASE OnConnectionEvent(d) \/ ReadConnectionBuffer(d) \/ ReadNothing(d)
             \/ RejectCall(d) \/ ExecuteCall(d) \/ StopProcessing(d)
  BY <1>8 DEF OnConnectionEvent, ReadConnectionBuffer, ReadNothing, RejectCall, ExecuteCall,
     StopProcessing, Handled, network
<1> QED BY <1>4, <1>5, <1>6, <1>7, <1>8 DEF Poll, Work

\* A running server closes a connection whose client is there with nothing left
\* in outbuf to write.
THEOREM NoReplyDropped == Spec => RepliesWritten
<1> DEFINE Kept == \A c \in Clients :
             clientEnd[c] = "open" /\ serverEnd[c] = "open" /\ serverEnd'[c] # "open"
               /\ ServerUp' => outbuf[c].data = <<>>
<1>1. ASSUME RpcInv, NewInv, Next PROVE Kept
  <2> SUFFICES ASSUME NEW c \in Clients, clientEnd[c] = "open", serverEnd[c] = "open",
                      serverEnd'[c] # "open", ServerUp'
               PROVE  outbuf[c].data = <<>>
    OBVIOUS
  <2>1. ASSUME NEW d \in Clients, Server(d) PROVE outbuf[c].data = <<>>
    BY <1>1, <2>1, ServerCloses DEF Server
  <2>2. ASSUME NEW d \in Clients, Client(d) PROVE FALSE
    BY <1>1, <2>2, ClientEndsOpened DEF NewInv
  <2>3. ~Stop
    BY DEF Stop, ServerUp, Idle
  <2> QED BY <1>1, <2>1, <2>2, <2>3 DEF Next
<1>2. RpcInv /\ NewInv /\ [Next]_vars => [Kept]_vars
  BY <1>1
<1>3. Init => NewInv
  BY DEF Init, NetworkInit, NewInv
<1>4. RpcInv /\ NewInv /\ [Next]_vars => NewInv'
  BY NewNext
<1> QED BY <1>2, <1>3, <1>4, RpcInvariance, PTL DEF Spec, RepliesWritten

-----------------------------------------------------------------------------
\* Messages have sizes, and none may follow itself: where one ends can be seen.
Framing(T, size, follows) ==
  /\ size \in [T -> Nat \ {0}]
  /\ \A m \in T : <<m, m>> \notin follows

Starts(s, i) == i = 1 \/ s[i - 1] # s[i]

\* A stream of messages, each followed by one that may follow it. The last may be cut
\* off; in a whole stream it is not.
Stream(s, T, size, follows) ==
  /\ s \in Seq(T)
  /\ \A i \in 1..Len(s) : Starts(s, i) =>
       /\ \A k \in i..(i + size[s[i]] - 1) : k <= Len(s) => s[k] = s[i]
       /\ i + size[s[i]] <= Len(s) => <<s[i], s[i + size[s[i]]]>> \in follows

Whole(s, size) == \A i \in 1..Len(s) : Starts(s, i) => i + size[s[i]] - 1 <= Len(s)

\* What a stream says of the message that starts at a place
LEMMA BlockAt ==
  ASSUME NEW T, NEW size, NEW follows, Framing(T, size, follows),
         NEW s, Stream(s, T, size, follows), NEW i \in 1..Len(s), Starts(s, i),
         NEW z, z = size[s[i]]
  PROVE  /\ \A k \in i..(i + z - 1) : k <= Len(s) => s[k] = s[i]
         /\ i + z <= Len(s) => <<s[i], s[i + z]>> \in follows
         /\ Whole(s, size) => i + z - 1 <= Len(s)
BY DEF Stream, Whole

LEMMA StreamTypes ==
  ASSUME NEW T, NEW size, NEW follows, Framing(T, size, follows),
         NEW s, Stream(s, T, size, follows)
  PROVE  /\ s \in Seq(T) /\ Len(s) \in Nat
         /\ s # <<>> => Len(s) > 0 /\ 1 \in 1..Len(s) /\ Len(s) \in 1..Len(s)
         /\ \A i \in 1..Len(s) : s[i] \in T /\ size[s[i]] \in Nat /\ size[s[i]] > 0
<1>1. s \in Seq(T) /\ size \in [T -> Nat \ {0}]
  BY DEF Stream, Framing
<1>2. Len(s) \in Nat /\ \A i \in 1..Len(s) : s[i] \in T
  BY <1>1, LenProperties, ElementOfSeq
<1>3. s # <<>> => Len(s) > 0
  BY <1>1, <1>2, EmptySeq
<1> QED BY <1>1, <1>2, <1>3

\* What follows the first n bytes
LEMMA AfterFirst ==
  ASSUME NEW T, NEW s \in Seq(T), NEW n \in 0..Len(s), NEW t, t = After(s, n)
  PROVE  /\ t \in Seq(T) /\ Len(t) = Len(s) - n
         /\ \A i \in 1..Len(t) : t[i] = s[n + i] /\ n + i \in 1..Len(s)
<1>1. Len(s) \in Nat /\ \A i \in 1..Len(s) : s[i] \in T
  BY LenProperties, ElementOfSeq
<1>2. \A i \in (n + 1)..Len(s) : s[i] \in T
  BY <1>1
<1>3. /\ SubSeq(s, n + 1, Len(s)) \in Seq(T)
      /\ Len(SubSeq(s, n + 1, Len(s)))
           = IF n + 1 <= Len(s) THEN Len(s) - (n + 1) + 1 ELSE 0
      /\ \A i \in 1..(Len(s) - (n + 1) + 1) :
           SubSeq(s, n + 1, Len(s))[i] = s[(n + 1) + i - 1]
  BY <1>1, <1>2, SubSeqProperties
<1>4. \A i \in 1..(Len(s) - n) :
        i \in 1..(Len(s) - (n + 1) + 1) /\ (n + 1) + i - 1 = n + i /\ n + i \in 1..Len(s)
  BY <1>1
<1>5. Len(s) - n = IF n + 1 <= Len(s) THEN Len(s) - (n + 1) + 1 ELSE 0
  BY <1>1
<1>6. t \in Seq(T) /\ Len(t) = Len(s) - n
  BY <1>3, <1>5 DEF After
<1> QED BY <1>3, <1>4, <1>6 DEF After

\* Without its first message a stream is one of the messages that follow.
LEMMA DropBlock ==
  ASSUME NEW T, NEW size, NEW follows, Framing(T, size, follows),
         NEW s, Stream(s, T, size, follows), s # <<>>,
         size[s[1]] <= Len(s),
         NEW t, t = After(s, size[s[1]])
  PROVE  /\ Stream(t, T, size, follows)
         /\ Whole(s, size) => Whole(t, size)
         /\ \A i \in 1..Len(t) : \E k \in 1..Len(s) : t[i] = s[k]
         /\ IF t = <<>> THEN s[Len(s)] = s[1]
            ELSE <<s[1], t[1]>> \in follows /\ t[Len(t)] = s[Len(s)]
<1> DEFINE n == size[s[1]]
<1>1. Len(s) \in Nat /\ Len(s) > 0 /\ 1 \in 1..Len(s)
  BY StreamTypes
<1>2. n \in Nat /\ n > 0
  BY <1>1, StreamTypes
<1>3. n \in 0..Len(s)
  BY <1>1, <1>2
<1>4. t \in Seq(T) /\ Len(t) = Len(s) - n
  BY <1>3, StreamTypes, AfterFirst
<1>5. \A i \in 1..Len(t) : t[i] = s[n + i] /\ n + i \in 1..Len(s)
  BY <1>3, StreamTypes, AfterFirst
<1>6. /\ \A k \in 1..(1 + n - 1) : k <= Len(s) => s[k] = s[1]
      /\ 1 + n <= Len(s) => <<s[1], s[1 + n]>> \in follows
  BY <1>1, BlockAt DEF Starts
<1> HIDE DEF n
<1>7. \A k \in 1..n : s[k] = s[1]
  BY <1>1, <1>2, <1>3, <1>6
<1>8. s[n] = s[1]
  BY <1>2, <1>7
<1>9. 1 + n <= Len(s) => s[1 + n] # s[n]
  <2>1. s[1] \in T
    BY <1>1, StreamTypes
  <2> QED BY <1>6, <1>8, <2>1 DEF Framing
<1>10. Len(t) \in Nat /\ n + 1 = 1 + n
  BY <1>1, <1>2, <1>3, <1>4
<1>11. ASSUME NEW i \in 1..Len(t), Starts(t, i) PROVE n + i \in 1..Len(s) /\ Starts(s, n + i)
  <2>1. CASE i = 1
    <3>1. 1 + n <= Len(s) /\ n + i = 1 + n /\ n + i - 1 = n
      BY <1>1, <1>2, <1>3, <1>4, <2>1
    <3>2. s[n + i - 1] # s[n + i]
      BY <1>9, <3>1
    <3>3. Starts(s, n + i)
      BY <1>2, <3>2 DEF Starts
    <3> QED BY <1>5, <3>3
  <2>2. CASE i # 1
    <3>1. t[i - 1] # t[i]
      BY <1>11, <2>2 DEF Starts
    <3>2. i - 1 \in 1..Len(t) /\ n + (i - 1) = n + i - 1
      BY <1>2, <1>10, <2>2
    <3>3. t[i - 1] = s[n + i - 1] /\ t[i] = s[n + i]
      BY <1>5, <3>2
    <3>4. s[n + i - 1] # s[n + i]
      BY <3>1, <3>3
    <3>5. Starts(s, n + i)
      BY <1>2, <3>4 DEF Starts
    <3> QED BY <1>5, <3>5
  <2> QED BY <2>1, <2>2
<1>12. ASSUME NEW i \in 1..Len(t), Starts(t, i)
       PROVE  /\ \A k \in i..(i + size[t[i]] - 1) : k <= Len(t) => t[k] = t[i]
              /\ i + size[t[i]] <= Len(t) => <<t[i], t[i + size[t[i]]]>> \in follows
              /\ Whole(s, size) => i + size[t[i]] - 1 <= Len(t)
  <2> DEFINE j == n + i
             z == size[s[j]]
  <2>1. j \in 1..Len(s) /\ Starts(s, j)
    BY <1>11, <1>12
  <2>2. t[i] = s[j] /\ size[t[i]] = z
    BY <1>5
  <2>3. z \in Nat /\ z > 0
    BY <2>1, StreamTypes
  <2>4. /\ \A k \in j..(j + z - 1) : k <= Len(s) => s[k] = s[j]
        /\ j + z <= Len(s) => <<s[j], s[j + z]>> \in follows
        /\ Whole(s, size) => j + z - 1 <= Len(s)
    BY <2>1, BlockAt
  <2> HIDE DEF z
  <2>5. ASSUME NEW k \in i..(i + z - 1), k <= Len(t) PROVE t[k] = t[i]
    <3>1. k \in 1..Len(t) /\ n + k \in j..(j + z - 1) /\ n + k <= Len(s)
      BY <1>1, <1>2, <1>3, <1>4, <2>3, <2>5
    <3>2. s[n + k] = s[j]
      BY <2>4, <3>1
    <3> QED BY <1>5, <2>2, <3>1, <3>2
  <2>6. ASSUME i + z <= Len(t) PROVE <<t[i], t[i + z]>> \in follows
    <3>1. i + z \in 1..Len(t) /\ j + z <= Len(s) /\ n + (i + z) = j + z
      BY <1>1, <1>2, <1>3, <1>4, <2>3, <2>6
    <3>2. t[i + z] = s[j + z]
      BY <1>5, <3>1
    <3> QED BY <2>2, <2>4, <3>1, <3>2
  <2>7. Whole(s, size) => i + z - 1 <= Len(t)
    <3>1. j + z - 1 <= Len(s) => i + z - 1 <= Len(t)
      BY <1>1, <1>2, <1>3, <1>4, <2>3
    <3> QED BY <2>4, <3>1
  <2> QED BY <2>2, <2>5, <2>6, <2>7
<1>13. Stream(t, T, size, follows) /\ (Whole(s, size) => Whole(t, size))
  BY <1>4, <1>12 DEF Stream, Whole
<1>14. CASE t = <<>>
  <2>1. Len(s) = n
    BY <1>1, <1>2, <1>4, <1>14
  <2> QED BY <1>5, <1>8, <1>13, <1>14, <2>1
<1>15. CASE t # <<>>
  <2>1. Len(t) > 0
    BY <1>4, <1>10, <1>15, EmptySeq
  <2>2. 1 \in 1..Len(t) /\ Len(t) \in 1..Len(t) /\ 1 + n <= Len(s) /\ n + Len(t) = Len(s)
    BY <1>1, <1>2, <1>4, <1>10, <2>1
  <2>3. t[1] = s[1 + n] /\ t[Len(t)] = s[Len(s)]
    BY <1>5, <1>10, <2>2
  <2> QED BY <1>5, <1>6, <1>13, <1>15, <2>2, <2>3
<1> QED BY <1>14, <1>15

MayEnd(s, m, follows) == s # <<>> => <<s[Len(s)], m>> \in follows

Appended(s, m, size, t) == t = s \o Bytes(m, size[m])

\* What that leaves of the first, the last and the other messages
Grown(s, m, t) ==
  /\ t # <<>> /\ t[Len(t)] = m
  /\ t[1] = IF s = <<>> THEN m ELSE s[1]
  /\ \A i \in 1..Len(t) : t[i] = m \/ \E k \in 1..Len(s) : t[i] = s[k]

\* A message may be put after a whole stream whose last message it may follow.
LEMMA AppendBlock ==
  ASSUME NEW T, NEW size, NEW follows, Framing(T, size, follows),
         NEW s, Stream(s, T, size, follows), Whole(s, size),
         NEW m \in T, MayEnd(s, m, follows), NEW t, Appended(s, m, size, t)
  PROVE  Stream(t, T, size, follows) /\ Whole(t, size) /\ Grown(s, m, t)
<1> DEFINE n == size[m]
           b == Bytes(m, n)
<1>1. s \in Seq(T) /\ Len(s) \in Nat
  BY StreamTypes
<1>2. n \in Nat /\ n > 0
  BY DEF Framing
<1>3. b \in Seq(T) /\ Len(b) = n /\ \A i \in 1..n : b[i] = m
  <2>1. \A i \in 1..n : b[i] = m
    BY DEF Bytes
  <2> QED BY <1>2, <2>1, BytesOf
<1>4. t = s \o b
  BY DEF Appended
<1> HIDE DEF n, b
<1>5. /\ t \in Seq(T) /\ Len(t) = Len(s) + n
      /\ \A i \in 1..(Len(s) + n) : t[i] = IF i <= Len(s) THEN s[i] ELSE b[i - Len(s)]
  <2>1. /\ s \o b \in Seq(T)
        /\ Len(s \o b) = Len(s) + Len(b)
        /\ \A i \in 1..(Len(s) + Len(b)) :
             (s \o b)[i] = IF i <= Len(s) THEN s[i] ELSE b[i - Len(s)]
    BY <1>1, <1>3, ConcatProperties
  <2> QED BY <1>3, <1>4, <2>1
<1>6. ASSUME NEW i \in 1..Len(s) PROVE i \in 1..Len(t) /\ t[i] = s[i]
  <2>1. i \in 1..(Len(s) + n) /\ i <= Len(s)
    BY <1>1, <1>2
  <2> QED BY <1>5, <2>1
<1>7. ASSUME NEW i \in (Len(s) + 1)..Len(t) PROVE t[i] = m
  <2>1. i \in 1..(Len(s) + n) /\ ~(i <= Len(s)) /\ i - Len(s) \in 1..n
    BY <1>1, <1>2, <1>5
  <2>2. t[i] = b[i - Len(s)]
    BY <1>5, <2>1
  <2> QED BY <1>3, <2>1, <2>2
<1>8. Len(t) = Len(s) + n /\ Len(t) \in Nat
  BY <1>1, <1>2, <1>5
<1>9. ASSUME NEW i \in 1..Len(t), Starts(t, i)
      PROVE  /\ \A k \in i..(i + size[t[i]] - 1) : k <= Len(t) => t[k] = t[i]
             /\ i + size[t[i]] <= Len(t) => <<t[i], t[i + size[t[i]]]>> \in follows
             /\ i + size[t[i]] - 1 <= Len(t)
  <2>1. CASE i > Len(s)
    <3>1. i = Len(s) + 1
      <4>1. ASSUME i > Len(s) + 1 PROVE FALSE
        <5>1. i \in (Len(s) + 1)..Len(t) /\ i - 1 \in (Len(s) + 1)..Len(t) /\ i # 1
          BY <1>1, <1>8, <4>1
        <5>2. t[i - 1] = t[i]
          BY <1>7, <5>1
        <5> QED BY <1>9, <5>1, <5>2 DEF Starts
      <4> QED BY <1>1, <2>1, <4>1
    <3>2. i \in (Len(s) + 1)..Len(t) /\ i + n - 1 = Len(t) /\ ~(i + n <= Len(t))
      BY <1>1, <1>2, <1>8, <3>1
    <3>3. t[i] = m /\ size[t[i]] = n
      BY <1>7, <3>2 DEF n
    <3>4. \A k \in i..Len(t) : k \in (Len(s) + 1)..Len(t)
      BY <1>1, <1>8, <3>1
    <3>5. \A k \in i..(i + n - 1) : t[k] = t[i]
      BY <1>7, <3>2, <3>3, <3>4
    <3>6. /\ \A k \in i..(i + n - 1) : k <= Len(t) => t[k] = t[i]
          /\ i + n <= Len(t) => <<t[i], t[i + n]>> \in follows
          /\ i + n - 1 <= Len(t)
      BY <1>8, <3>2, <3>5
    <3> QED BY <3>3, <3>6
  <2>2. CASE i <= Len(s)
    <3> DEFINE z == size[s[i]]
    <3>1. i \in 1..Len(s)
      BY <1>1, <1>8, <2>2
    <3>2. t[i] = s[i] /\ size[t[i]] = z
      BY <1>6, <3>1
    <3>3. z \in Nat /\ z > 0
      BY <3>1, StreamTypes
    <3>4. Starts(s, i)
      <4>1. CASE i = 1
        BY <4>1 DEF Starts
      <4>2. CASE i # 1
        <5>1. i - 1 \in 1..Len(s)
          BY <1>1, <3>1, <4>2
        <5>2. t[i - 1] = s[i - 1] /\ t[i - 1] # t[i]
          BY <1>6, <1>9, <4>2, <5>1 DEF Starts
        <5> QED BY <3>2, <5>2 DEF Starts
      <4> QED BY <4>1, <4>2
    <3>5. /\ \A k \in i..(i + z - 1) : k <= Len(s) => s[k] = s[i]
          /\ i + z <= Len(s) => <<s[i], s[i + z]>> \in follows
          /\ i + z - 1 <= Len(s)
      BY <3>1, <3>4, BlockAt
    <3> HIDE DEF z
    <3>6. ASSUME NEW k \in i..(i + z - 1) PROVE t[k] = t[i]
      <4>1. k \in 1..Len(s) /\ k <= Len(s)
        BY <1>1, <3>1, <3>3, <3>5
      <4> QED BY <1>6, <3>2, <3>5, <4>1
    <3>7. ASSUME i + z <= Len(t) PROVE <<t[i], t[i + z]>> \in follows
      <4>1. CASE i + z <= Len(s)
        <5>1. i + z \in 1..Len(s)
          BY <1>1, <3>1, <3>3, <4>1
        <5>2. t[i + z] = s[i + z]
          BY <1>6, <5>1
        <5> QED BY <3>2, <3>5, <4>1, <5>2
      <4>2. CASE i + z = Len(s) + 1
        <5>1. Len(s) \in i..(i + z - 1) /\ Len(s) # 0 /\ i + z \in (Len(s) + 1)..Len(t)
          BY <1>1, <1>8, <3>1, <3>3, <3>7, <4>2
        <5>2. s[Len(s)] = s[i] /\ s # <<>>
          BY <3>5, <5>1
        <5>3. t[i + z] = m
          BY <1>7, <5>1
        <5> QED BY <3>2, <5>2, <5>3 DEF MayEnd
      <4>3. i + z <= Len(s) \/ i + z = Len(s) + 1
        BY <1>1, <3>1, <3>3, <3>5
      <4> QED BY <4>1, <4>2, <4>3
    <3>8. i + z - 1 <= Len(t)
      BY <1>1, <1>2, <1>8, <3>1, <3>3, <3>5
    <3> QED BY <3>2, <3>6, <3>7, <3>8
  <2>3. i <= Len(s) \/ i > Len(s)
    BY <1>1, <1>8
  <2> QED BY <2>1, <2>2, <2>3
<1>10. Stream(t, T, size, follows) /\ Whole(t, size)
  BY <1>5, <1>9 DEF Stream, Whole
<1>11. t # <<>> /\ t[Len(t)] = m
  <2>1. Len(t) \in (Len(s) + 1)..Len(t) /\ Len(t) # 0
    BY <1>1, <1>2, <1>8
  <2> QED BY <1>7, <2>1
<1>12. t[1] = IF s = <<>> THEN m ELSE s[1]
  <2>1. CASE s = <<>>
    <3>1. 1 \in (Len(s) + 1)..Len(t)
      BY <1>1, <1>2, <1>8, <2>1
    <3> QED BY <1>7, <2>1, <3>1
  <2>2. CASE s # <<>>
    <3>1. 1 \in 1..Len(s)
      BY <2>2, StreamTypes
    <3> QED BY <1>6, <2>2, <3>1
  <2> QED BY <2>1, <2>2
<1>13. ASSUME NEW i \in 1..Len(t) PROVE t[i] = m \/ \E k \in 1..Len(s) : t[i] = s[k]
  <2>1. i \in 1..Len(s) \/ i \in (Len(s) + 1)..Len(t)
    BY <1>1, <1>8
  <2> QED BY <1>6, <1>7, <2>1
<1> QED BY <1>10, <1>11, <1>12, <1>13 DEF Grown

\* What is left of a stream whose end is lost
LEMMA CutOff ==
  ASSUME NEW T, NEW size, NEW follows, Framing(T, size, follows),
         NEW s \in Seq(T), NEW u \in Seq(T), Stream(s \o u, T, size, follows)
  PROVE  /\ Stream(s, T, size, follows)
         /\ s # <<>> => s \o u # <<>> /\ s[1] = (s \o u)[1]
         /\ \A i \in 1..Len(s) : \E k \in 1..Len(s \o u) : s[i] = (s \o u)[k]
<1> DEFINE t == s \o u
<1>1. Len(s) \in Nat /\ Len(u) \in Nat
  BY LenProperties
<1>2. /\ Len(t) = Len(s) + Len(u)
      /\ \A i \in 1..(Len(s) + Len(u)) : t[i] = IF i <= Len(s) THEN s[i] ELSE u[i - Len(s)]
  BY ConcatProperties
<1>0. Stream(t, T, size, follows)
  OBVIOUS
<1> HIDE DEF t
<1>3. Len(t) = Len(s) + Len(u)
  BY <1>2
<1>4. ASSUME NEW i \in 1..Len(s) PROVE i \in 1..Len(t) /\ t[i] = s[i]
  <2>1. i \in 1..(Len(s) + Len(u)) /\ i <= Len(s)
    BY <1>1
  <2> QED BY <1>2, <2>1
<1>5. ASSUME NEW i \in 1..Len(s), Starts(s, i)
      PROVE  /\ \A k \in i..(i + size[s[i]] - 1) : k <= Len(s) => s[k] = s[i]
             /\ i + size[s[i]] <= Len(s) => <<s[i], s[i + size[s[i]]]>> \in follows
  <2> DEFINE z == size[t[i]]
  <2>1. i \in 1..Len(t) /\ t[i] = s[i] /\ size[s[i]] = z
    BY <1>4
  <2>2. z \in Nat /\ z > 0
    BY <1>0, <2>1, StreamTypes
  <2>3. Starts(t, i)
    <3>1. CASE i = 1
      BY <3>1 DEF Starts
    <3>2. CASE i # 1
      <4>1. i - 1 \in 1..Len(s)
        BY <1>1, <3>2
      <4>2. t[i - 1] = s[i - 1] /\ s[i - 1] # s[i]
        BY <1>4, <1>5, <3>2, <4>1 DEF Starts
      <4> QED BY <2>1, <4>2 DEF Starts
    <3> QED BY <3>1, <3>2
  <2>4. /\ \A k \in i..(i + z - 1) : k <= Len(t) => t[k] = t[i]
        /\ i + z <= Len(t) => <<t[i], t[i + z]>> \in follows
    BY <1>0, <2>1, <2>3, BlockAt
  <2> HIDE DEF z
  <2>5. ASSUME NEW k \in i..(i + z - 1), k <= Len(s) PROVE s[k] = s[i]
    <3>1. k \in 1..Len(s) /\ k <= Len(t)
      BY <1>1, <1>3, <2>2, <2>5
    <3> QED BY <1>4, <2>1, <2>4, <3>1
  <2>6. ASSUME i + z <= Len(s) PROVE <<s[i], s[i + z]>> \in follows
    <3>1. i + z \in 1..Len(s) /\ i + z <= Len(t)
      BY <1>1, <1>3, <2>2, <2>6
    <3> QED BY <1>4, <2>1, <2>4, <3>1
  <2> QED BY <2>1, <2>5, <2>6
<1>6. Stream(s, T, size, follows)
  BY <1>5 DEF Stream
<1>7. s # <<>> => t # <<>> /\ s[1] = t[1]
  <2>1. s # <<>> => 1 \in 1..Len(s) /\ Len(t) # 0
    BY <1>1, <1>3, EmptySeq
  <2> QED BY <1>4, <2>1
<1> QED BY <1>4, <1>6, <1>7 DEF t

\* Bytes that go from the head of one buffer to the end of another stay where they
\* are in the stream.
LEMMA Moved ==
  ASSUME NEW T, NEW s \in Seq(T), NEW t \in Seq(T), NEW n \in 0..Len(t)
  PROVE  (s \o Before(t, n)) \o After(t, n) = s \o t
<1>1. Len(t) \in Nat
  BY LenProperties
<1>2. Before(t, n) \o After(t, n) = t
  <2>1. 1 \in 1..(Len(t) + 1) /\ n \in (1 - 1)..Len(t) /\ Len(t) \in n..Len(t)
    BY <1>1
  <2>2. SubSeq(t, 1, n) \o SubSeq(t, n + 1, Len(t)) = SubSeq(t, 1, Len(t))
    BY <2>1, ConcatAdjacentSubSeq
  <2>3. SubSeq(t, 1, Len(t)) = t
    BY SubSeqFull
  <2> QED BY <2>2, <2>3 DEF Before, After
<1>3. Before(t, n) \in Seq(T) /\ After(t, n) \in Seq(T)
  BY Cut
<1>4. (s \o Before(t, n)) \o After(t, n) = s \o (Before(t, n) \o After(t, n))
  BY <1>3, ConcatAssociative
<1> QED BY <1>2, <1>4

\* Dropping bytes of a buffer drops them from the stream it is the head of.
LEMMA DroppedHead ==
  ASSUME NEW T, NEW s \in Seq(T), NEW t \in Seq(T), NEW n \in 0..Len(s)
  PROVE  After(s, n) \o t = After(s \o t, n)
<1>1. Len(s) \in Nat /\ Len(t) \in Nat
  BY LenProperties
<1>2. /\ s \o t \in Seq(T) /\ Len(s \o t) = Len(s) + Len(t)
      /\ \A i \in 1..(Len(s) + Len(t)) :
           (s \o t)[i] = IF i <= Len(s) THEN s[i] ELSE t[i - Len(s)]
  BY ConcatProperties
<1> DEFINE u == After(s, n)
           v == After(s \o t, n)
           w == s \o t
<1>3. /\ u \in Seq(T) /\ Len(u) = Len(s) - n
      /\ \A i \in 1..Len(u) : u[i] = s[n + i] /\ n + i \in 1..Len(s)
  BY AfterFirst
<1>4. n \in 0..Len(w)
  BY <1>1, <1>2
<1>5. /\ v \in Seq(T) /\ Len(v) = Len(w) - n
      /\ \A i \in 1..Len(v) : v[i] = w[n + i] /\ n + i \in 1..Len(w)
  BY <1>2, <1>4, AfterFirst
<1>6. /\ u \o t \in Seq(T) /\ Len(u \o t) = Len(u) + Len(t)
      /\ \A i \in 1..(Len(u) + Len(t)) :
           (u \o t)[i] = IF i <= Len(u) THEN u[i] ELSE t[i - Len(u)]
  BY <1>3, ConcatProperties
<1> HIDE DEF u, v, w
<1>7. Len(w) = Len(s) + Len(t) /\ \A i \in 1..Len(w) :
        w[i] = IF i <= Len(s) THEN s[i] ELSE t[i - Len(s)]
  BY <1>2 DEF w
<1>8. Len(u \o t) = Len(v) /\ Len(v) \in Nat
  BY <1>1, <1>3, <1>5, <1>6, <1>7
<1>9. ASSUME NEW i \in 1..Len(v) PROVE (u \o t)[i] = v[i]
  <2>1. v[i] = w[n + i] /\ n + i \in 1..Len(w) /\ i \in 1..(Len(u) + Len(t))
    BY <1>5, <1>6, <1>8
  <2>2. CASE i <= Len(u)
    <3>1. i \in 1..Len(u) /\ n + i <= Len(s)
      BY <1>1, <1>3, <2>2
    <3> QED BY <1>3, <1>6, <1>7, <2>1, <2>2, <3>1
  <2>3. CASE ~(i <= Len(u))
    <3>1. ~(n + i <= Len(s)) /\ (n + i) - Len(s) = i - Len(u)
      BY <1>1, <1>3, <2>3
    <3>2. (u \o t)[i] = t[i - Len(u)]
      BY <1>6, <2>1, <2>3
    <3>3. w[n + i] = t[(n + i) - Len(s)]
      BY <1>7, <2>1, <3>1
    <3> QED BY <2>1, <3>1, <3>2, <3>3
  <2> QED BY <2>2, <2>3
<1>10. u \o t = v
  BY <1>5, <1>6, <1>8, <1>9, SeqEqual
<1> QED BY <1>10 DEF u, v

\* Three buffers in a row are one stream.
LEMMA Regroup ==
  \A T : \A s \in Seq(T), t \in Seq(T), u \in Seq(T) : s \o (t \o u) = (s \o t) \o u
BY ConcatAssociative

\* The first byte of a stream is that of its first buffer that has any.
LEMMA HeadOfTwo ==
  ASSUME NEW T, NEW s \in Seq(T), NEW t \in Seq(T), s # <<>>
  PROVE  /\ s \o t # <<>> /\ (s \o t)[1] = s[1] /\ Head(s) = s[1] /\ s[1] \in T
         /\ Len(s \o t) = Len(s) + Len(t) /\ Len(s) \in Nat /\ Len(t) \in Nat /\ Len(s) > 0
<1>1. Len(s) \in Nat /\ Len(t) \in Nat /\ Len(s) > 0
  BY LenProperties, EmptySeq
<1>2. /\ Len(s \o t) = Len(s) + Len(t)
      /\ \A i \in 1..(Len(s) + Len(t)) : (s \o t)[i] = IF i <= Len(s) THEN s[i] ELSE t[i - Len(s)]
  BY ConcatProperties
<1>3. 1 \in 1..(Len(s) + Len(t)) /\ 1 <= Len(s) /\ Len(s) + Len(t) # 0 /\ 1 \in 1..Len(s)
  BY <1>1
<1>4. (s \o t)[1] = s[1]
  BY <1>2, <1>3
<1>5. s \o t # <<>>
  BY <1>2, <1>3
<1>6. Head(s) = s[1] /\ s[1] \in T
  BY <1>3, HeadTailProperties, ElementOfSeq
<1> QED BY <1>1, <1>2, <1>4, <1>5, <1>6

-----------------------------------------------------------------------------
\* What the streams of the library are made of

RequestSizes == [req \in Request |-> RequestSize(req)]
ReplySizes   == [reply \in Reply |-> ReplySize(reply)]

\* Requests come in the order of their xids; so do replies, and none follows an error.
NextRequest == {p \in Request \X Request : p[2].xid = p[1].xid + 1}
NextReply ==
  {p \in Reply \X Reply : p[1].accept_stat = SUCCESS
                            /\ p[2].request.xid = p[1].request.xid + 1}

Requests(s) == Stream(s, Request, RequestSizes, NextRequest)
Replies(s)  == Stream(s, Reply, ReplySizes, NextReply)

Live(c)      == serverEnd[c] \in {"backlog", "open"}
Accepting(c) == Live(c) /\ has_error[c] = FALSE
InFlush(c)   == phase[c] \in {"reading", "parsing"}
Working(c)   == srv.at \in {"write", "read", "process", "reply", "finish"} /\ srv.client = c

\* All bytes of requests that the server has not consumed, and all bytes of replies
\* that the client has not consumed and will be able to read
RequestStream(c) == inbuf[c].data \o toServer[c]
Undelivered(c)   == toClient[c] \o outbuf[c].data
ReplyStream(c)   == replies[c] \o (IF Live(c) THEN Undelivered(c) ELSE toClient[c])

\* The calls of a client that are not in its pipeline any more
Base(c) == Len(results[c]) - Len(pending[c])

InPipeline(c, req) ==
  /\ req.xid - Base(c) \in 1..Len(pending[c])
  /\ req = pending[c][req.xid - Base(c)]

\* A client that has not connected has done nothing.
NewOK(c) == phase[c] = "new" =>
  /\ toServer[c] = <<>> /\ toClient[c] = <<>> /\ ~Live(c) /\ clientEnd[c] # "open"
  /\ inbuf[c].data = <<>> /\ outbuf[c].data = <<>> /\ has_error[c] = FALSE
  /\ executed[c] = <<>>
  /\ buf[c] = <<>> /\ results[c] = <<>> /\ replies[c] = <<>>

\* The loop works for open connections.
LoopOK(c) == Working(c) => serverEnd[c] = "open"

ExecutedOK(c) == \A i \in 1..Len(executed[c]) : executed[c][i] = i

ValuesOK(c) ==
  \A x \in 1..Len(results[c]) : results[c][x].is = "value" =>
    results[c][x].of.xid = x /\ x <= Len(executed[c])

\* The pipeline is the last calls, and buf their requests.
PendingOK(c) ==
  /\ Len(pending[c]) <= Len(results[c])
  /\ \A i \in 1..Len(pending[c]) : pending[c][i].xid = Base(c) + i

BufOK(c) ==
  /\ Requests(buf[c]) /\ Whole(buf[c], RequestSizes)
  /\ \A i \in 1..Len(buf[c]) : InPipeline(c, buf[c][i])
  /\ IF buf[c] = <<>> THEN Len(pending[c]) = 0
     ELSE buf[c][1].xid = Base(c) + 1 /\ buf[c][Len(buf[c])].xid = Len(results[c])

\* While the server takes requests it has all of those not executed, up to the last of
\* the pipeline that a client is flushing.
RequestsOK(c) == Accepting(c) =>
  /\ Requests(RequestStream(c)) /\ Whole(RequestStream(c), RequestSizes)
  /\ RequestStream(c) # <<>> => RequestStream(c)[1].xid = Len(executed[c]) + 1

FlushingOK(c) == Accepting(c) /\ InFlush(c) =>
  /\ \A i \in 1..Len(RequestStream(c)) : InPipeline(c, RequestStream(c)[i])
  /\ IF RequestStream(c) = <<>> THEN Len(executed[c]) = Len(results[c])
     ELSE RequestStream(c)[Len(RequestStream(c))].xid = Len(results[c])

\* The replies on their way to a client that is flushing are those to the first calls
\* of its pipeline without one, up to the last call executed or to an error.
RepliesOK(c) == InFlush(c) =>
  /\ clientEnd[c] = "open"
  /\ Replies(ReplyStream(c))
  /\ Live(c) => Whole(ReplyStream(c), ReplySizes)
  /\ ReplyStream(c) # <<>> =>
       ReplyStream(c)[1].request.xid = Base(c) + nr_replied[c] + 1
  /\ \A i \in 1..Len(ReplyStream(c)) :
       /\ InPipeline(c, ReplyStream(c)[i].request)
       /\ ReplyStream(c)[i].accept_stat = SUCCESS =>
            ReplyStream(c)[i].request.xid <= Len(executed[c])

AnswersOK(c) == InFlush(c) /\ Live(c) =>
  IF ReplyStream(c) = <<>>
  THEN has_error[c] = FALSE /\ Len(executed[c]) = Base(c) + nr_replied[c]
  ELSE /\ has_error[c] = FALSE <=> ReplyStream(c)[Len(ReplyStream(c))].accept_stat = SUCCESS
       /\ has_error[c] = FALSE =>
            ReplyStream(c)[Len(ReplyStream(c))].request.xid = Len(executed[c])

\* Between two calls of Flush nothing is on its way.
IdleOK(c) == phase[c] = "idle" =>
  /\ replies[c] = <<>>
  /\ clientEnd[c] = "open" => toClient[c] = <<>>
  /\ clientEnd[c] = "open" /\ Live(c) =>
       /\ RequestStream(c) = <<>> /\ Undelivered(c) = <<>> /\ has_error[c] = FALSE
       /\ Len(executed[c]) = Base(c)

StreamsOK(c) ==
  /\ NewOK(c) /\ LoopOK(c) /\ ExecutedOK(c) /\ ValuesOK(c) /\ PendingOK(c) /\ BufOK(c)
  /\ RequestsOK(c) /\ FlushingOK(c) /\ RepliesOK(c) /\ AnswersOK(c) /\ IdleOK(c)

StreamsInv == \A c \in Clients : StreamsOK(c)

-----------------------------------------------------------------------------
LEMMA RequestFraming == Framing(Request, RequestSizes, NextRequest)
<1>1. RequestSizes \in [Request -> Nat \ {0}]
  <2>1. \A req \in Request : RequestSize(req) \in Nat \ {0}
    BY MessageSizes, SizesAssumption
  <2> QED BY <2>1 DEF RequestSizes
<1>2. ASSUME NEW m \in Request PROVE <<m, m>> \notin NextRequest
  <2>1. m.xid \in Nat /\ m.xid # m.xid + 1
    BY DEF Request
  <2> QED BY <2>1 DEF NextRequest
<1> QED BY <1>1, <1>2 DEF Framing

LEMMA ReplyFraming == Framing(Reply, ReplySizes, NextReply)
<1>1. ReplySizes \in [Reply -> Nat \ {0}]
  <2>1. ASSUME NEW reply \in Reply PROVE ReplySize(reply) \in Nat \ {0}
    <3>1. reply.request.call.result \in Nat
      BY CallsAssumption DEF Reply, Request, Call
    <3>2. reply.accept_stat \in {SUCCESS, PROG_MISMATCH, GARBAGE_ARGS}
      BY DEF Reply
    <3> QED BY <3>1, <3>2, SizesAssumption DEF ReplySize, SUCCESS, PROG_MISMATCH, GARBAGE_ARGS
  <2> QED BY <2>1 DEF ReplySizes
<1>2. ASSUME NEW m \in Reply PROVE <<m, m>> \notin NextReply
  <2>1. m.request.xid \in Nat /\ m.request.xid # m.request.xid + 1
    BY DEF Reply, Request
  <2> QED BY <2>1 DEF NextReply
<1> QED BY <1>1, <1>2 DEF Framing

LEMMA NothingStreams ==
  /\ Requests(<<>>) /\ Whole(<<>>, RequestSizes)
  /\ Replies(<<>>) /\ Whole(<<>>, ReplySizes)
<1>1. Len(<<>>) = 0 /\ \A T : <<>> \in Seq(T)
  BY EmptySeq
<1> QED BY <1>1 DEF Requests, Replies, Stream, Whole

\* The types of what the streams of one client consist of
LEMMA ConnectionTypes ==
  ASSUME RpcInv, NEW c \in Clients
  PROVE  /\ inbuf[c].data \in Seq(Request) /\ toServer[c] \in Seq(Request)
         /\ outbuf[c].data \in Seq(Reply) /\ toClient[c] \in Seq(Reply)
         /\ replies[c] \in Seq(Reply) /\ buf[c] \in Seq(Request)
         /\ executed[c] \in Seq(Nat) /\ Len(executed[c]) \in Nat
         /\ RequestStream(c) \in Seq(Request) /\ Undelivered(c) \in Seq(Reply)
         /\ ReplyStream(c) \in Seq(Reply)
         /\ has_error[c] \in BOOLEAN
         /\ Base(c) \in Int
<1>1. /\ inbuf[c].data \in Seq(Request) /\ toServer[c] \in Seq(Request)
      /\ outbuf[c].data \in Seq(Reply) /\ toClient[c] \in Seq(Reply)
      /\ executed[c] \in Seq(Nat) /\ has_error[c] \in BOOLEAN
  BY DEF RpcInv, NetworkInv, NetworkTypeOK, ServerInv, ServerTypeOK
<1>2. replies[c] \in Seq(Reply) /\ buf[c] \in Seq(Request)
      /\ Len(results[c]) \in Nat /\ Len(pending[c]) \in Nat
  BY ClientTypes DEF RpcInv
<1>3. RequestStream(c) \in Seq(Request)
  BY <1>1, ConcatProperties DEF RequestStream
<1>4. Undelivered(c) \in Seq(Reply)
  BY <1>1, ConcatProperties DEF Undelivered
<1>5. ReplyStream(c) \in Seq(Reply)
  <2>1. CASE Live(c)
    BY <1>2, <1>4, <2>1, ConcatProperties DEF ReplyStream
  <2>2. CASE ~Live(c)
    BY <1>1, <1>2, <2>2, ConcatProperties DEF ReplyStream
  <2> QED BY <2>1, <2>2
<1>6. Len(executed[c]) \in Nat
  BY <1>1, LenProperties
<1>7. Base(c) \in Int
  BY <1>2 DEF Base
<1> QED BY <1>1, <1>2, <1>3, <1>4, <1>5, <1>6, <1>7
-----------------------------------------------------------------------------
\* Steps of the server

SameClient(c) ==
  /\ phase'[c] = phase[c] /\ buf'[c] = buf[c] /\ pending'[c] = pending[c]
  /\ nr_replied'[c] = nr_replied[c] /\ replies'[c] = replies[c] /\ results'[c] = results[c]

SameConnection(c) ==
  /\ toServer'[c] = toServer[c] /\ toClient'[c] = toClient[c]
  /\ clientEnd'[c] = clientEnd[c] /\ serverEnd'[c] = serverEnd[c]
  /\ inbuf'[c] = inbuf[c] /\ outbuf'[c] = outbuf[c]
  /\ has_error'[c] = has_error[c] /\ executed'[c] = executed[c]

\* A step of another client or of the server for another connection
LEMMA Untouched ==
  ASSUME NEW c \in Clients, StreamsOK(c), SameClient(c), SameConnection(c),
         Working(c)' => Working(c)
  PROVE  StreamsOK(c)'
<1>1. /\ Live(c)' = Live(c) /\ Accepting(c)' = Accepting(c) /\ InFlush(c)' = InFlush(c)
      /\ RequestStream(c)' = RequestStream(c) /\ Undelivered(c)' = Undelivered(c)
      /\ ReplyStream(c)' = ReplyStream(c) /\ Base(c)' = Base(c)
  BY DEF SameClient, SameConnection, Live, Accepting, InFlush, RequestStream, Undelivered,
     ReplyStream, Base
<1>2. \A req : InPipeline(c, req)' = InPipeline(c, req)
  BY <1>1 DEF SameClient, InPipeline
<1>3. NewOK(c)' /\ LoopOK(c)' /\ ExecutedOK(c)' /\ ValuesOK(c)' /\ PendingOK(c)'
  BY <1>1 DEF SameClient, SameConnection, StreamsOK, NewOK, LoopOK, ExecutedOK, ValuesOK,
     PendingOK
<1>4. BufOK(c)'
  BY <1>1, <1>2 DEF SameClient, StreamsOK, BufOK, Requests
<1>5. RequestsOK(c)' /\ FlushingOK(c)'
  BY <1>1, <1>2 DEF SameClient, SameConnection, StreamsOK, RequestsOK, FlushingOK, Requests
<1>6. RepliesOK(c)' /\ AnswersOK(c)'
  BY <1>1, <1>2 DEF SameClient, SameConnection, StreamsOK, RepliesOK, AnswersOK, Replies
<1>7. IdleOK(c)'
  BY <1>1 DEF SameClient, SameConnection, StreamsOK, IdleOK
<1> QED BY <1>3, <1>4, <1>5, <1>6, <1>7 DEF StreamsOK

\* Bytes that only go from one buffer to the next stay in their stream.
LEMMA BytesMove ==
  ASSUME NEW c \in Clients, StreamsOK(c), SameClient(c), Live(c), Live(c)',
         has_error'[c] = has_error[c], executed'[c] = executed[c],
         clientEnd'[c] = "open" <=> clientEnd[c] = "open",
         RequestStream(c)' = RequestStream(c),
         clientEnd[c] = "open" => Undelivered(c)' = Undelivered(c),
         clientEnd[c] = "open" /\ phase[c] = "idle" => toClient'[c] = <<>>,
         LoopOK(c)'
  PROVE  StreamsOK(c)'
<1>1. /\ Live(c)' = Live(c) /\ Accepting(c)' = Accepting(c) /\ InFlush(c)' = InFlush(c)
      /\ Base(c)' = Base(c)
  BY DEF SameClient, Live, Accepting, InFlush, Base
<1>2. \A req : InPipeline(c, req)' = InPipeline(c, req)
  BY <1>1 DEF SameClient, InPipeline
<1>3. ExecutedOK(c)' /\ ValuesOK(c)' /\ PendingOK(c)'
  BY <1>1 DEF SameClient, StreamsOK, ExecutedOK, ValuesOK, PendingOK
<1>4. BufOK(c)'
  BY <1>1, <1>2 DEF SameClient, StreamsOK, BufOK, Requests
<1>5. RequestsOK(c)' /\ FlushingOK(c)'
  BY <1>1, <1>2 DEF SameClient, StreamsOK, RequestsOK, FlushingOK, Requests
<1>6. InFlush(c) => ReplyStream(c)' = ReplyStream(c)
  BY <1>1 DEF SameClient, StreamsOK, RepliesOK, ReplyStream
<1>7. RepliesOK(c)' /\ AnswersOK(c)'
  BY <1>1, <1>2, <1>6 DEF SameClient, StreamsOK, RepliesOK, AnswersOK, Replies
<1>8. IdleOK(c)'
  BY <1>1 DEF SameClient, StreamsOK, IdleOK
<1>9. NewOK(c)'
  BY <1>1 DEF SameClient, StreamsOK, NewOK
<1> QED BY <1>3, <1>4, <1>5, <1>7, <1>8, <1>9 DEF StreamsOK

\* A connection that the server closes leaves its client the replies already written.
LEMMA ConnectionEnds ==
  ASSUME RpcInv, NEW c \in Clients, StreamsOK(c), SameClient(c), ~Live(c)',
         toClient'[c] = toClient[c], executed'[c] = executed[c],
         clientEnd'[c] = clientEnd[c], NewOK(c)', ~Working(c)'
  PROVE  StreamsOK(c)'
<1>1. Accepting(c)' = FALSE /\ InFlush(c)' = InFlush(c) /\ Base(c)' = Base(c)
  BY DEF SameClient, Accepting, InFlush, Base
<1>2. \A req : InPipeline(c, req)' = InPipeline(c, req)
  BY <1>1 DEF SameClient, InPipeline
<1>3. ExecutedOK(c)' /\ ValuesOK(c)' /\ PendingOK(c)' /\ LoopOK(c)'
  BY <1>1 DEF SameClient, StreamsOK, ExecutedOK, ValuesOK, PendingOK, LoopOK
<1>4. BufOK(c)'
  BY <1>1, <1>2 DEF SameClient, StreamsOK, BufOK, Requests
<1>5. RequestsOK(c)' /\ FlushingOK(c)'
  BY <1>1 DEF RequestsOK, FlushingOK
<1>6. RepliesOK(c)'
  <2> SUFFICES ASSUME InFlush(c)' PROVE RepliesOK(c)'
    BY DEF RepliesOK
  <2> DEFINE old == ReplyStream(c)
             new == replies[c] \o toClient[c]
  <2>1. ReplyStream(c)' = new
    BY DEF SameClient, ReplyStream
  <2>2. /\ clientEnd[c] = "open" /\ Replies(old)
        /\ old # <<>> => old[1].request.xid = Base(c) + nr_replied[c] + 1
        /\ \A i \in 1..Len(old) :
             /\ InPipeline(c, old[i].request)
             /\ old[i].accept_stat = SUCCESS => old[i].request.xid <= Len(executed[c])
    BY <1>1 DEF StreamsOK, RepliesOK
  <2>3. /\ Replies(new)
        /\ new # <<>> => old # <<>> /\ new[1] = old[1]
        /\ \A i \in 1..Len(new) : \E k \in 1..Len(old) : new[i] = old[k]
    <3>1. CASE Live(c)
      <4>1. old = new \o outbuf[c].data
        <5>1. /\ replies[c] \in Seq(Reply) /\ toClient[c] \in Seq(Reply)
              /\ outbuf[c].data \in Seq(Reply)
          BY ConnectionTypes
        <5>2. ASSUME NEW r \in Seq(Reply), NEW s \in Seq(Reply), NEW u \in Seq(Reply)
              PROVE  r \o (s \o u) = (r \o s) \o u
          BY Regroup
        <5>3. replies[c] \o (toClient[c] \o outbuf[c].data)
                = (replies[c] \o toClient[c]) \o outbuf[c].data
          BY <5>1, <5>2
        <5> QED BY <3>1, <5>3 DEF ReplyStream, Undelivered
      <4>2. new \in Seq(Reply) /\ outbuf[c].data \in Seq(Reply)
        BY ConnectionTypes, ConcatProperties
      <4> HIDE DEF new, old
      <4>3. Stream(new \o outbuf[c].data, Reply, ReplySizes, NextReply)
        BY <2>2, <4>1 DEF Replies
      <4> QED BY <4>1, <4>2, <4>3, ReplyFraming, CutOff DEF Replies
    <3>2. CASE ~Live(c)
      <4>1. old = new
        BY <3>2 DEF ReplyStream
      <4> QED BY <2>2, <4>1
    <3> QED BY <3>1, <3>2
  <2> HIDE DEF old, new
  <2>4. clientEnd'[c] = "open" /\ Replies(new)
    BY <2>2, <2>3
  <2>5. new # <<>> => new[1].request.xid = Base(c) + nr_replied[c] + 1
    BY <2>2, <2>3
  <2>6. \A i \in 1..Len(new) :
          /\ InPipeline(c, new[i].request)
          /\ new[i].accept_stat = SUCCESS => new[i].request.xid <= Len(executed[c])
    BY <2>2, <2>3
  <2> QED BY <1>1, <1>2, <2>1, <2>4, <2>5, <2>6 DEF SameClient, RepliesOK, Replies
<1>7. AnswersOK(c)'
  BY DEF AnswersOK
<1>8. IdleOK(c)'
  BY <1>1 DEF SameClient, StreamsOK, IdleOK
<1> QED BY <1>3, <1>4, <1>5, <1>6, <1>7, <1>8 DEF StreamsOK

\* The loop goes on with the connection it is at.
LEMMA LoopGoesOn ==
  ASSUME RpcInv, NEW step, GoOn(step)
  PROVE  srv'.at = step /\ srv'.client = srv.client
<1>1. srv \in [at : {"poll", "killed", "stopped"}, client : {"none"}, read : {FALSE}]
           \/ srv \in [at : {"write", "read", "process", "reply", "finish"}, client : Clients,
                       read : BOOLEAN]
  BY DEF RpcInv, ServerInv, ServerTypeOK
<1> QED BY <1>1 DEF GoOn

\* What the steps of the server for the connection d leave alone
LEMMA OtherConnections ==
  ASSUME RpcInv, StreamsInv, NEW d \in Clients, Poll(d) \/ Work(d), UNCHANGED clientVars,
         NEW c \in Clients, c # d, WriteFails(d) => CloseConnection(d)
  PROVE  SameClient(c) /\ SameConnection(c) /\ (Working(c)' => Working(c))
<1>1. SameClient(c)
  BY DEF clientVars, SameClient
<1>2. /\ toServer = [e \in Clients |-> toServer[e]] /\ toClient = [e \in Clients |-> toClient[e]]
      /\ clientEnd = [e \in Clients |-> clientEnd[e]]
      /\ serverEnd = [e \in Clients |-> serverEnd[e]]
      /\ inbuf = [e \in Clients |-> inbuf[e]] /\ outbuf = [e \in Clients |-> outbuf[e]]
      /\ has_error = [e \in Clients |-> has_error[e]]
      /\ executed = [e \in Clients |-> executed[e]]
  BY DEF RpcInv, NetworkInv, NetworkTypeOK, ServerInv, ServerTypeOK
<1>3. ASSUME CloseConnection(d), UNCHANGED <<toClient, clientEnd, has_error, executed>>
      PROVE  SameConnection(c) /\ ~Working(c)'
  BY <1>2, <1>3 DEF CloseConnection, SameConnection, Working, Idle
<1>4. CASE OnNewConnection(d) \/ OnConnectionEvent(d)
  BY <1>1, <1>2, <1>4 DEF OnNewConnection, OnConnectionEvent, SameConnection, Working, network
<1>5. CASE OnConnectionError(d) \/ ReadFails(d)
  BY <1>1, <1>3, <1>5 DEF OnConnectionError, ReadFails
<1>12. ASSUME srv.client = d, NEW step, GoOn(step) PROVE ~Working(c)'
  BY <1>12, LoopGoesOn DEF Working
<1>6. ASSUME NEW next, WriteSome(d, next), srv.client = d
      PROVE  SameConnection(c) /\ ~Working(c)'
  <2>1. SameConnection(c)
    BY <1>2, <1>6 DEF WriteSome, SameConnection
  <2> QED BY <1>6, <1>12, <2>1 DEF WriteSome
<1>7. CASE WriteFails(d)
  BY <1>1, <1>3, <1>7 DEF WriteFails
<1>8. CASE ReadConnectionBuffer(d) \/ ReadNothing(d) \/ StopProcessing(d)
  <2>1. SameConnection(c)
    BY <1>2, <1>8 DEF ReadConnectionBuffer, ReadNothing, StopProcessing, SameConnection, network
  <2>2. srv.client = d /\ \E step : GoOn(step)
    BY <1>8 DEF ReadConnectionBuffer, ReadNothing, StopProcessing, At
  <2> QED BY <1>1, <1>12, <2>1, <2>2
<1>9. CASE RejectCall(d) \/ ExecuteCall(d)
  <2>1. PICK reply, consumed : Handled(d, reply, consumed)
    BY <1>9 DEF RejectCall, ExecuteCall
  <2>2. executed'[c] = executed[c] /\ srv.client = d
    BY <1>2, <1>9 DEF RejectCall, ExecuteCall, Processing, At
  <2>3. SameConnection(c)
    BY <1>2, <2>1, <2>2 DEF Handled, SameConnection, network
  <2> QED BY <1>1, <1>12, <2>1, <2>2, <2>3 DEF Handled
<1>10. CASE FinishEvent(d)
  <2>1. CASE CloseConnection(d)
    BY <1>1, <1>3, <1>10, <2>1 DEF FinishEvent
  <2>2. CASE ~CloseConnection(d)
    BY <1>1, <1>2, <1>10, <2>2 DEF FinishEvent, SameConnection, Working, Idle
  <2> QED BY <2>1, <2>2
<1>11. CASE WriteReady(d) \/ WriteReply(d)
  BY <1>1, <1>6, <1>7, <1>11 DEF WriteReady, WriteReply, Writing, At
<1> QED BY <1>4, <1>5, <1>8, <1>9, <1>10, <1>11 DEF Poll, Work

\* The end of the server ends every connection.
LEMMA AllEnd ==
  ASSUME RpcInv, StreamsInv, CloseAll, UNCHANGED clientVars,
         UNCHANGED <<toClient, clientEnd, inbuf, outbuf, has_error, executed>>,
         srv'.at \in {"killed", "stopped"}
  PROVE  StreamsInv'
<1> SUFFICES ASSUME NEW c \in Clients PROVE StreamsOK(c)'
  BY DEF StreamsInv
<1>1. StreamsOK(c)
  BY DEF StreamsInv
<1>2. SameClient(c)
  BY DEF clientVars, SameClient
<1>3. ~Live(c)' /\ toServer'[c] = <<>>
  BY DEF CloseAll, Live, Closed, RpcInv, NetworkInv, NetworkTypeOK, ServerEnds
<1>4. ~Working(c)'
  BY DEF Working
<1>5. NewOK(c)'
  BY <1>1, <1>2, <1>3 DEF StreamsOK, NewOK, SameClient
<1> QED BY <1>1, <1>2, <1>3, <1>4, <1>5, ConnectionEnds

\* Sliding moves no byte of a stream.
LEMMA SlidBuffers ==
  ASSUME RpcInv, NEW c \in Clients
  PROVE  /\ Slide(inbuf[c], MaxInBuf, 0) \in [start : Nat, data : Seq(Request)]
         /\ Slide(inbuf[c], MaxInBuf, 0).data = inbuf[c].data
         /\ Slide(inbuf[c], MaxInBuf, 0).start + Len(inbuf[c].data) <= MaxInBuf
         /\ Slide(outbuf[c], MaxOutBuf, MaxResponseSize)
              \in [start : Nat, data : Seq(Reply)]
         /\ Slide(outbuf[c], MaxOutBuf, MaxResponseSize).data = outbuf[c].data
         /\ Slide(outbuf[c], MaxOutBuf, MaxResponseSize).start + Len(outbuf[c].data)
              <= MaxOutBuf
<1>1. /\ inbuf[c] \in [start : Nat, data : Seq(Request)]
      /\ inbuf[c].start + Len(inbuf[c].data) <= MaxInBuf
      /\ outbuf[c] \in [start : Nat, data : Seq(Reply)]
      /\ outbuf[c].start + Len(outbuf[c].data) <= MaxOutBuf
  BY DEF RpcInv, ServerInv, ServerTypeOK
<1>2. MaxInBuf \in Nat /\ MaxOutBuf \in Nat /\ MaxResponseSize \in Nat /\ 0 \in Nat
  BY Sizes, SizesAssumption
<1>3. /\ Slide(inbuf[c], MaxInBuf, 0) \in [start : Nat, data : Seq(Request)]
      /\ Slide(inbuf[c], MaxInBuf, 0).data = inbuf[c].data
      /\ Slide(inbuf[c], MaxInBuf, 0).start + Len(inbuf[c].data) <= MaxInBuf
  BY <1>1, <1>2, Slid
<1>4. /\ Slide(outbuf[c], MaxOutBuf, MaxResponseSize) \in [start : Nat, data : Seq(Reply)]
      /\ Slide(outbuf[c], MaxOutBuf, MaxResponseSize).data = outbuf[c].data
      /\ Slide(outbuf[c], MaxOutBuf, MaxResponseSize).start + Len(outbuf[c].data)
           <= MaxOutBuf
  BY <1>1, <1>2, Slid
<1> QED BY <1>3, <1>4

\* Steps of the server for the connection c that only move bytes, and that end it
LEMMA ServerMovesBytes ==
  ASSUME RpcInv, NEW c \in Clients, StreamsOK(c), UNCHANGED clientVars,
         \/ OnNewConnection(c) \/ OnConnectionEvent(c)
         \/ srv.client = c /\ srv.at \in {"write", "reply"} /\ \E next : WriteSome(c, next)
         \/ ReadConnectionBuffer(c) \/ ReadNothing(c) \/ StopProcessing(c)
         \/ FinishEvent(c) /\ ~CloseConnection(c)
  PROVE  StreamsOK(c)'
<1>1. SameClient(c)
  BY DEF clientVars, SameClient
<1>2. /\ toServer = [e \in Clients |-> toServer[e]] /\ toClient = [e \in Clients |-> toClient[e]]
      /\ clientEnd = [e \in Clients |-> clientEnd[e]]
      /\ serverEnd = [e \in Clients |-> serverEnd[e]]
      /\ inbuf = [e \in Clients |-> inbuf[e]] /\ outbuf = [e \in Clients |-> outbuf[e]]
  BY DEF RpcInv, NetworkInv, NetworkTypeOK, ServerInv, ServerTypeOK
<1>3. Working(c) => serverEnd[c] = "open"
  BY DEF StreamsOK, LoopOK
<1>4. clientEnd[c] = "open" /\ phase[c] = "idle" => toClient[c] = <<>>
  BY DEF StreamsOK, IdleOK
<1>6. CASE OnNewConnection(c)
  <2>1. /\ Live(c) /\ Live(c)' /\ LoopOK(c)' /\ has_error'[c] = has_error[c]
        /\ executed'[c] = executed[c] /\ clientEnd'[c] = clientEnd[c]
        /\ toClient'[c] = toClient[c]
        /\ RequestStream(c)' = RequestStream(c) /\ Undelivered(c)' = Undelivered(c)
    BY <1>2, <1>6 DEF OnNewConnection, Live, LoopOK, RequestStream, Undelivered
  <2> QED BY <1>1, <1>4, <2>1, BytesMove
<1>7. CASE OnConnectionEvent(c)
  <2>1. /\ Live(c) /\ Live(c)' /\ LoopOK(c)' /\ has_error'[c] = has_error[c]
        /\ executed'[c] = executed[c] /\ clientEnd'[c] = clientEnd[c]
        /\ toClient'[c] = toClient[c]
        /\ RequestStream(c)' = RequestStream(c) /\ Undelivered(c)' = Undelivered(c)
    BY <1>7 DEF OnConnectionEvent, network, Live, LoopOK, RequestStream, Undelivered
  <2> QED BY <1>1, <1>4, <2>1, BytesMove
<1>8. ASSUME srv.client = c, srv.at \in {"write", "reply"}, NEW next, WriteSome(c, next)
      PROVE  StreamsOK(c)'
  <2> DEFINE out == outbuf[c].data
             n == IF clientEnd[c] = "open"
                  THEN AtMost(Len(out), SendBuffer - Len(toClient[c]))
                  ELSE Len(out)
  <2>1. serverEnd[c] = "open"
    BY <1>3, <1>8 DEF Working
  <2>2. /\ outbuf' = [outbuf EXCEPT ![c] = [start |-> outbuf[c].start + n,
                                            data |-> After(out, n)]]
        /\ IF clientEnd[c] = "open"
           THEN /\ toClient' = [toClient EXCEPT ![c] = @ \o Before(out, n)]
                /\ UNCHANGED clientEnd
           ELSE /\ clientEnd' = [clientEnd EXCEPT ![c] = "rst"] \/ UNCHANGED clientEnd
                /\ UNCHANGED toClient
        /\ UNCHANGED <<toServer, serverEnd, inbuf, has_error, executed>>
    BY <1>8 DEF WriteSome
  <2>3. out \in Seq(Reply) /\ toClient[c] \in Seq(Reply)
    BY ConnectionTypes
  <2>4. clientEnd[c] = "open" => n \in 0..Len(out)
    <3>1. Len(out) \in Nat /\ Len(toClient[c]) \in Nat
      BY <2>3, LenProperties
    <3>2. SendBuffer - Len(toClient[c]) \in Nat
      BY <3>1, SizesAssumption DEF RpcInv, NetworkInv
    <3> QED BY <3>1, <3>2, Lesser
  <2>5. clientEnd[c] = "open" => Undelivered(c)' = Undelivered(c)
    <3> SUFFICES ASSUME clientEnd[c] = "open" PROVE Undelivered(c)' = Undelivered(c)
      OBVIOUS
    <3> HIDE DEF n
    <3>1. toClient'[c] = toClient[c] \o Before(out, n)
      BY <1>2, <2>2
    <3>2. outbuf'[c].data = After(out, n)
      BY <1>2, <2>2
    <3>3. (toClient[c] \o Before(out, n)) \o After(out, n) = toClient[c] \o out
      BY <2>3, <2>4, Moved
    <3> QED BY <3>1, <3>2, <3>3 DEF Undelivered
  <2>6. clientEnd[c] = "open" /\ phase[c] = "idle" => toClient'[c] = <<>>
    <3> SUFFICES ASSUME clientEnd[c] = "open", phase[c] = "idle" PROVE toClient'[c] = <<>>
      OBVIOUS
    <3>1. toClient[c] = <<>> /\ Undelivered(c) = <<>>
      BY <2>1 DEF StreamsOK, IdleOK, Live
    <3>2. out = <<>>
      BY <2>3, <3>1, ConcatSimplifications DEF Undelivered
    <3>3. n \in 0..0 /\ n = 0
      BY <2>4, <3>2
    <3>4. Before(out, 0) = <<>>
      BY SubSeqEmpty DEF Before
    <3>5. toClient'[c] = toClient[c] \o Before(out, n)
      BY <1>2, <2>2
    <3> QED BY <3>1, <3>3, <3>4, <3>5
  <2>7. /\ Live(c) /\ Live(c)' /\ LoopOK(c)' /\ has_error'[c] = has_error[c]
        /\ executed'[c] = executed[c] /\ (clientEnd'[c] = "open" <=> clientEnd[c] = "open")
        /\ RequestStream(c)' = RequestStream(c)
    BY <1>2, <2>1, <2>2 DEF Live, LoopOK, RequestStream
  <2> QED BY <1>1, <2>5, <2>6, <2>7, BytesMove
<1>9. CASE ReadConnectionBuffer(c)
  <2> DEFINE in == Slide(inbuf[c], MaxInBuf, 0)
  <2>1. PICK n \in 1..AtMost(Len(toServer[c]), residual_size(in, MaxInBuf)) :
          /\ inbuf' = [inbuf EXCEPT ![c] =
                         [in EXCEPT !.data = @ \o Before(toServer[c], n)]]
          /\ toServer' = [toServer EXCEPT ![c] = After(@, n)]
    BY <1>9 DEF ReadConnectionBuffer
  <2>2. /\ in \in [start : Nat, data : Seq(Request)] /\ in.data = inbuf[c].data
        /\ in.start + Len(in.data) <= MaxInBuf
    BY SlidBuffers
  <2>3. toServer[c] \in Seq(Request) /\ inbuf[c].data \in Seq(Request)
    BY ConnectionTypes
  <2>4. n \in 0..Len(toServer[c])
    <3>1. Len(toServer[c]) \in Nat
      BY <2>3, LenProperties
    <3>2. residual_size(in, MaxInBuf) \in Nat
      BY <2>2, Sizes, LenProperties DEF residual_size
    <3> QED BY <3>1, <3>2 DEF AtMost
  <2> HIDE DEF in
  <2>5. inbuf'[c].data = inbuf[c].data \o Before(toServer[c], n)
    BY <1>2, <2>1, <2>2
  <2>6. toServer'[c] = After(toServer[c], n)
    BY <1>2, <2>1
  <2>7. RequestStream(c)' = RequestStream(c)
    <3>1. (inbuf[c].data \o Before(toServer[c], n)) \o After(toServer[c], n)
            = inbuf[c].data \o toServer[c]
      BY <2>3, <2>4, Moved
    <3> QED BY <2>5, <2>6, <3>1 DEF RequestStream
  <2>8. /\ Live(c) /\ Live(c)' /\ LoopOK(c)' /\ has_error'[c] = has_error[c]
        /\ executed'[c] = executed[c] /\ clientEnd'[c] = clientEnd[c]
        /\ toClient'[c] = toClient[c] /\ Undelivered(c)' = Undelivered(c)
    BY <1>3, <1>9 DEF ReadConnectionBuffer, At, Working, Live, LoopOK, Undelivered
  <2> QED BY <1>1, <1>4, <2>7, <2>8, BytesMove
<1>10. CASE ReadNothing(c)
  <2>1. /\ Live(c) /\ Live(c)' /\ LoopOK(c)' /\ has_error'[c] = has_error[c]
        /\ executed'[c] = executed[c] /\ clientEnd'[c] = clientEnd[c]
        /\ toClient'[c] = toClient[c]
        /\ RequestStream(c)' = RequestStream(c) /\ Undelivered(c)' = Undelivered(c)
    BY <1>3, <1>10 DEF ReadNothing, At, Working, network, Live, LoopOK, RequestStream,
       Undelivered
  <2> QED BY <1>1, <1>4, <2>1, BytesMove
<1>11. CASE StopProcessing(c)
  <2>1. outbuf'[c].data = outbuf[c].data
    <3>1. Slide(outbuf[c], MaxOutBuf, MaxResponseSize).data = outbuf[c].data
      BY SlidBuffers
    <3> QED BY <1>2, <1>11, <3>1 DEF StopProcessing
  <2>2. /\ Live(c) /\ Live(c)' /\ LoopOK(c)' /\ has_error'[c] = has_error[c]
        /\ executed'[c] = executed[c] /\ clientEnd'[c] = clientEnd[c]
        /\ toClient'[c] = toClient[c]
        /\ RequestStream(c)' = RequestStream(c) /\ Undelivered(c)' = Undelivered(c)
    BY <1>3, <1>11, <2>1 DEF StopProcessing, At, Working, network, Live, LoopOK,
       RequestStream, Undelivered
  <2> QED BY <1>1, <1>4, <2>2, BytesMove
<1>12. CASE FinishEvent(c) /\ ~CloseConnection(c)
  <2>1. /\ Live(c) /\ Live(c)' /\ LoopOK(c)' /\ has_error'[c] = has_error[c]
        /\ executed'[c] = executed[c] /\ clientEnd'[c] = clientEnd[c]
        /\ toClient'[c] = toClient[c]
        /\ RequestStream(c)' = RequestStream(c) /\ Undelivered(c)' = Undelivered(c)
    BY <1>3, <1>12 DEF FinishEvent, At, Working, Live, LoopOK, RequestStream, Undelivered
  <2> QED BY <1>1, <1>4, <2>1, BytesMove
<1> QED BY <1>6, <1>7, <1>8, <1>9, <1>10, <1>11, <1>12

LEMMA ServerEndsConnection ==
  ASSUME RpcInv, NEW c \in Clients, StreamsOK(c), UNCHANGED clientVars,
         CloseConnection(c), serverEnd[c] = "open",
         UNCHANGED <<toClient, clientEnd, has_error, executed>>
  PROVE  StreamsOK(c)'
<1>1. SameClient(c)
  BY DEF clientVars, SameClient
<1>2. ~Live(c)'
  BY DEF CloseConnection, Live, Closed, RpcInv, NetworkInv, NetworkTypeOK
<1>3. ~Working(c)'
  BY DEF CloseConnection, Working, Idle
<1>4. NewOK(c)'
  BY <1>1 DEF StreamsOK, NewOK, Live, SameClient
<1> QED BY <1>1, <1>2, <1>3, <1>4, ConnectionEnds

\* What HandleRequest has done when it returned true: it answered the first request that
\* was left, and consumed it if it executed it to the end.
Answered(c, req, reply) ==
  /\ req \in Request /\ reply \in Reply /\ reply.request = req
  /\ RequestStream(c) # <<>> /\ RequestStream(c)[1] = req
  /\ Live(c) /\ has_error[c] = FALSE
  /\ serverEnd'[c] = "open" /\ clientEnd'[c] = clientEnd[c] /\ toClient'[c] = toClient[c]
  /\ Undelivered(c)' = Undelivered(c) \o Bytes(reply, ReplySizes[reply])
  /\ has_error'[c] = (reply.accept_stat # SUCCESS)
  /\ executed'[c] = executed[c] \/ executed'[c] = Append(executed[c], req.xid)
  /\ reply.accept_stat = SUCCESS =>
       /\ executed'[c] = Append(executed[c], req.xid)
       /\ RequestSizes[req] <= Len(RequestStream(c))
       /\ RequestStream(c)' = After(RequestStream(c), RequestSizes[req])

LEMMA RequestAnswered ==
  ASSUME RpcInv, NEW c \in Clients, StreamsOK(c), RejectCall(c) \/ ExecuteCall(c)
  PROVE  \E req, reply : Answered(c, req, reply)
<1> DEFINE in == inbuf[c].data
           req == Head(in)
           out == Slide(outbuf[c], MaxOutBuf, MaxResponseSize)
<1>1. At("process", c) /\ Complete(inbuf[c]) /\ ~has_error[c]
  BY DEF RejectCall, ExecuteCall, Processing
<1>2. in \in Seq(Request) /\ toServer[c] \in Seq(Request) /\ in # <<>>
  <2>1. in \in Seq(Request) /\ toServer[c] \in Seq(Request)
    BY ConnectionTypes
  <2>2. Len(in) > 0
    BY <1>1, <2>1, LenProperties, SizesAssumption DEF Complete
  <2> QED BY <2>1, <2>2, EmptySeq
<1>3. req = in[1] /\ req \in Request /\ Len(in) \in Nat /\ Len(toServer[c]) \in Nat
  BY <1>2, HeadOfTwo
<1>4. RequestStream(c) # <<>> /\ RequestStream(c)[1] = req
      /\ Len(RequestStream(c)) = Len(in) + Len(toServer[c])
  BY <1>2, <1>3, HeadOfTwo DEF RequestStream
<1>5. serverEnd[c] = "open" /\ Live(c)
  BY <1>1 DEF At, Working, StreamsOK, LoopOK, Live
<1>6. /\ inbuf = [e \in Clients |-> inbuf[e]] /\ outbuf = [e \in Clients |-> outbuf[e]]
      /\ has_error = [e \in Clients |-> has_error[e]]
      /\ executed = [e \in Clients |-> executed[e]] /\ has_error[c] = FALSE
  BY <1>1 DEF RpcInv, ServerInv, ServerTypeOK
<1>7. out \in [start : Nat, data : Seq(Reply)] /\ out.data = outbuf[c].data
  BY SlidBuffers
<1> HIDE DEF in, req, out
<1>8. ASSUME NEW reply \in Reply, NEW n, Handled(c, reply, n)
      PROVE  /\ serverEnd'[c] = "open" /\ clientEnd'[c] = clientEnd[c]
             /\ toClient'[c] = toClient[c] /\ toServer'[c] = toServer[c]
             /\ Undelivered(c)' = Undelivered(c) \o Bytes(reply, ReplySizes[reply])
             /\ has_error'[c] = (reply.accept_stat # SUCCESS)
             /\ inbuf'[c].data = After(in, n)
  <2> DEFINE bytes == Bytes(reply, ReplySize(reply))
  <2>1. /\ outbuf' = [outbuf EXCEPT ![c] = [out EXCEPT !.data = @ \o bytes]]
        /\ inbuf' = [inbuf EXCEPT ![c] =
                       [start |-> inbuf[c].start + n, data |-> After(in, n)]]
        /\ has_error' = [has_error EXCEPT ![c] = reply.accept_stat # SUCCESS]
        /\ UNCHANGED network
    BY <1>8 DEF Handled, in, out
  <2>2. bytes = Bytes(reply, ReplySizes[reply]) /\ bytes \in Seq(Reply)
    BY MessageSizes, BytesOf DEF ReplySizes
  <2> HIDE DEF bytes
  <2>3. outbuf'[c].data = outbuf[c].data \o bytes
    BY <1>6, <1>7, <2>1
  <2>4. Undelivered(c)' = Undelivered(c) \o bytes
    <3>1. toClient[c] \in Seq(Reply) /\ outbuf[c].data \in Seq(Reply)
      BY ConnectionTypes
    <3>2. ASSUME NEW r \in Seq(Reply), NEW s \in Seq(Reply), NEW u \in Seq(Reply)
          PROVE  r \o (s \o u) = (r \o s) \o u
      BY Regroup
    <3>3. toClient[c] \o (outbuf[c].data \o bytes) = (toClient[c] \o outbuf[c].data) \o bytes
      BY <2>2, <3>1, <3>2
    <3>4. toClient'[c] = toClient[c]
      BY <2>1 DEF network
    <3> QED BY <2>3, <3>3, <3>4 DEF Undelivered
  <2>5. inbuf'[c].data = After(in, n)
    BY <1>6, <2>1
  <2>6. has_error'[c] = (reply.accept_stat # SUCCESS)
    BY <1>6, <2>1
  <2> QED BY <1>5, <2>1, <2>2, <2>4, <2>5, <2>6 DEF network
<1>9. CASE RejectCall(c)
  <2> DEFINE reply == [request |-> req, accept_stat |-> PROG_MISMATCH]
  <2>1. Handled(c, reply, 0) /\ UNCHANGED executed
    BY <1>9 DEF RejectCall, req, in
  <2>2. reply \in Reply /\ reply.request = req /\ reply.accept_stat # SUCCESS
    BY <1>3 DEF Reply, PROG_MISMATCH, SUCCESS
  <2> HIDE DEF reply
  <2>3. Answered(c, req, reply)
    BY <1>3, <1>4, <1>5, <1>6, <1>8, <2>1, <2>2 DEF Answered
  <2> QED BY <2>3
<1>10. CASE ExecuteCall(c)
  <2>1. executed'[c] = Append(executed[c], req.xid) /\ req.call.exported
    BY <1>6, <1>10 DEF ExecuteCall, req, in
  <2>2. CASE Handled(c, [request |-> req, accept_stat |-> SUCCESS], RequestSize(req))
    <3> DEFINE reply == [request |-> req, accept_stat |-> SUCCESS]
    <3>1. reply \in Reply /\ reply.request = req
      BY <1>3 DEF Reply
    <3>2. Handled(c, reply, RequestSize(req))
      BY <2>2
    <3> HIDE DEF reply
    <3>3. RequestSize(req) <= Len(in) /\ RequestSize(req) \in Nat
          /\ RequestSize(req) = RequestSizes[req]
      <4>1. RequestSize(req) <= Len(in)
        BY <1>1, <2>1 DEF Complete, req, in
      <4> QED BY <1>3, <4>1, MessageSizes DEF RequestSizes
    <3>4. RequestSizes[req] <= Len(RequestStream(c))
      BY <1>3, <1>4, <3>3
    <3>5. RequestStream(c)' = After(RequestStream(c), RequestSizes[req])
      <4>1. RequestSize(req) \in 0..Len(in)
        BY <1>3, <3>3
      <4>2. After(in, RequestSize(req)) \o toServer[c]
              = After(in \o toServer[c], RequestSize(req))
        BY <1>2, <4>1, DroppedHead
      <4>3. inbuf'[c].data = After(in, RequestSize(req)) /\ toServer'[c] = toServer[c]
        BY <1>8, <3>1, <3>2
      <4> QED BY <3>3, <4>2, <4>3 DEF RequestStream, in
    <3>6. Answered(c, req, reply)
      BY <1>3, <1>4, <1>5, <1>6, <1>8, <2>1, <3>1, <3>2, <3>4, <3>5 DEF Answered
    <3> QED BY <3>6
  <2>3. CASE Handled(c, [request |-> req, accept_stat |-> GARBAGE_ARGS], 0)
    <3> DEFINE reply == [request |-> req, accept_stat |-> GARBAGE_ARGS]
    <3>1. reply \in Reply /\ reply.request = req /\ reply.accept_stat # SUCCESS
      BY <1>3 DEF Reply, GARBAGE_ARGS, SUCCESS
    <3>2. Handled(c, reply, 0)
      BY <2>3
    <3> HIDE DEF reply
    <3>3. Answered(c, req, reply)
      BY <1>3, <1>4, <1>5, <1>6, <1>8, <2>1, <3>1, <3>2 DEF Answered
    <3> QED BY <3>3
  <2> QED BY <1>10, <2>2, <2>3 DEF ExecuteCall, req, in
<1> QED BY <1>9, <1>10

\* What is left of requests after the first one, and replies after which one more comes
Consumed(s, req, t) ==
  /\ Requests(t) /\ Whole(t, RequestSizes)
  /\ \A i \in 1..Len(t) : \E k \in 1..Len(s) : t[i] = s[k]
  /\ IF t = <<>> THEN s[Len(s)] = req
     ELSE t[1].xid = req.xid + 1 /\ t[Len(t)] = s[Len(s)]

Extended(r, reply, t) == Replies(t) /\ Whole(t, ReplySizes) /\ Grown(r, reply, t)

LEMMA RequestConsumed ==
  ASSUME NEW s, Requests(s), Whole(s, RequestSizes), s # <<>>,
         RequestSizes[s[1]] <= Len(s)
  PROVE  Consumed(s, s[1], After(s, RequestSizes[s[1]]))
<1> DEFINE t == After(s, RequestSizes[s[1]])
<1>1. Stream(s, Request, RequestSizes, NextRequest)
  BY DEF Requests
<1>2. /\ Stream(t, Request, RequestSizes, NextRequest)
      /\ Whole(s, RequestSizes) => Whole(t, RequestSizes)
      /\ \A i \in 1..Len(t) : \E k \in 1..Len(s) : t[i] = s[k]
      /\ IF t = <<>> THEN s[Len(s)] = s[1]
         ELSE <<s[1], t[1]>> \in NextRequest /\ t[Len(t)] = s[Len(s)]
  BY <1>1, RequestFraming, DropBlock
<1>3. <<s[1], t[1]>> \in NextRequest => t[1].xid = s[1].xid + 1
  BY DEF NextRequest
<1> HIDE DEF t
<1>4. Consumed(s, s[1], t)
  BY <1>2, <1>3 DEF Consumed, Requests
<1> QED BY <1>4 DEF t

LEMMA ReplyAppended ==
  ASSUME NEW r, Replies(r), Whole(r, ReplySizes), NEW reply \in Reply,
         r # <<>> => <<r[Len(r)], reply>> \in NextReply,
         NEW t, t = r \o Bytes(reply, ReplySizes[reply])
  PROVE  Extended(r, reply, t)
<1>1. Stream(r, Reply, ReplySizes, NextReply)
  BY DEF Replies
<1>4. MayEnd(r, reply, NextReply) /\ Appended(r, reply, ReplySizes, t)
  BY DEF MayEnd, Appended
<1>2. Stream(t, Reply, ReplySizes, NextReply) /\ Whole(t, ReplySizes) /\ Grown(r, reply, t)
  BY <1>1, <1>4, ReplyFraming, AppendBlock
<1> QED BY <1>2 DEF Extended, Replies

\* An answered request leaves the streams in order.
LEMMA AnswerKeeps ==
  ASSUME RpcInv, NEW c \in Clients, StreamsOK(c), SameClient(c),
         NEW req, NEW reply, Answered(c, req, reply)
  PROVE  StreamsOK(c)'
<1> DEFINE s == RequestStream(c)
           r == ReplyStream(c)
           e == Len(executed[c])
           done == reply.accept_stat = SUCCESS
<1>1. /\ req \in Request /\ reply \in Reply /\ reply.request = req
      /\ s # <<>> /\ s[1] = req
      /\ Live(c) /\ has_error[c] = FALSE
      /\ serverEnd'[c] = "open" /\ clientEnd'[c] = clientEnd[c] /\ toClient'[c] = toClient[c]
      /\ has_error'[c] = ~done
      /\ executed'[c] = executed[c] \/ executed'[c] = Append(executed[c], req.xid)
      /\ done => /\ executed'[c] = Append(executed[c], req.xid)
                 /\ RequestSizes[req] <= Len(s)
                 /\ RequestStream(c)' = After(s, RequestSizes[req])
  BY DEF Answered
<1>2. Accepting(c) /\ Live(c)' /\ (Accepting(c)' <=> done) /\ InFlush(c)' = InFlush(c)
      /\ Base(c)' = Base(c)
  BY <1>1 DEF SameClient, Accepting, Live, InFlush, Base
<1>3. \A q : InPipeline(c, q)' = InPipeline(c, q)
  BY <1>2 DEF SameClient, InPipeline
<1>4. Requests(s) /\ Whole(s, RequestSizes) /\ req.xid = e + 1 /\ e \in Nat
  BY <1>1, <1>2, ConnectionTypes DEF StreamsOK, RequestsOK
<1>5. /\ Len(executed'[c]) \in {e, e + 1}
      /\ done => Len(executed'[c]) = e + 1
      /\ \A i \in 1..Len(executed'[c]) : executed'[c][i] = i
  <2>1. executed[c] \in Seq(Nat) /\ req.xid \in Nat /\ \A i \in 1..e : executed[c][i] = i
    BY <1>4, ConnectionTypes DEF StreamsOK, ExecutedOK
  <2> DEFINE more == Append(executed[c], req.xid)
  <2>2. Len(more) = e + 1 /\ (\A i \in 1..e : more[i] = executed[c][i]) /\ more[e + 1] = req.xid
    BY <2>1, AppendProperties
  <2>3. executed'[c] = executed[c] \/ executed'[c] = more
    BY <1>1
  <2>4. done => executed'[c] = more
    BY <1>1
  <2> HIDE DEF more, done, e
  <2>5. \A i \in 1..(e + 1) : i \in 1..e \/ i = e + 1
    BY <1>4
  <2>6. \A i \in 1..Len(more) : more[i] = i
    BY <1>4, <2>1, <2>2, <2>5
  <2>7. executed'[c] = executed[c] => Len(executed'[c]) = e
    BY DEF e
  <2>8. \A i \in 1..Len(executed[c]) : executed[c][i] = i
    BY <2>1 DEF e
  <2> QED BY <2>2, <2>3, <2>4, <2>6, <2>7, <2>8
<1>6. ExecutedOK(c)' /\ PendingOK(c)' /\ NewOK(c)' /\ LoopOK(c)'
  BY <1>1, <1>2, <1>5 DEF SameClient, StreamsOK, ExecutedOK, PendingOK, NewOK, LoopOK
<1>7. ValuesOK(c)'
  <2>1. e <= Len(executed'[c]) /\ Len(executed'[c]) \in Nat
    BY <1>4, <1>5
  <2>2. ASSUME NEW x \in 1..Len(results[c]), results[c][x].is = "value"
        PROVE  results[c][x].of.xid = x /\ x <= Len(executed'[c])
    <3>1. results[c][x].of.xid = x /\ x <= e /\ x \in Int
      BY <2>2 DEF StreamsOK, ValuesOK
    <3> QED BY <1>4, <2>1, <3>1
  <2> QED BY <2>2 DEF SameClient, ValuesOK
<1>8. BufOK(c)'
  BY <1>2, <1>3 DEF SameClient, StreamsOK, BufOK, Requests
<1>9. done => \E t : t = RequestStream(c)' /\ Consumed(s, req, t)
  BY <1>1, <1>4, RequestConsumed
<1>10. RequestsOK(c)'
  <2> SUFFICES ASSUME done PROVE RequestsOK(c)'
    BY <1>2 DEF RequestsOK
  <2>1. PICK t : t = RequestStream(c)' /\ Consumed(s, req, t)
    BY <1>9
  <2>2. Requests(t) /\ Whole(t, RequestSizes) /\ (t # <<>> => t[1].xid = req.xid + 1)
    BY <2>1 DEF Consumed
  <2>3. t # <<>> => t[1].xid = Len(executed'[c]) + 1
    BY <1>4, <1>5, <2>2
  <2> QED BY <2>1, <2>2, <2>3 DEF RequestsOK, Requests
<1>11. FlushingOK(c)'
  <2> SUFFICES ASSUME done, InFlush(c) PROVE FlushingOK(c)'
    BY <1>2 DEF FlushingOK
  <2>1. /\ \A i \in 1..Len(s) : InPipeline(c, s[i])
        /\ s[Len(s)].xid = Len(results[c])
    BY <1>1, <1>2 DEF StreamsOK, FlushingOK
  <2>7. PICK t : t = RequestStream(c)' /\ Consumed(s, req, t)
    BY <1>9
  <2>2. /\ \A i \in 1..Len(t) : \E k \in 1..Len(s) : t[i] = s[k]
        /\ IF t = <<>> THEN s[Len(s)] = req ELSE t[Len(t)] = s[Len(s)]
    BY <2>7 DEF Consumed
  <2> HIDE DEF s
  <2>3. \A i \in 1..Len(t) : InPipeline(c, t[i])
    BY <2>1, <2>2
  <2>4. IF t = <<>> THEN Len(executed'[c]) = Len(results[c])
        ELSE t[Len(t)].xid = Len(results[c])
    BY <1>4, <1>5, <2>1, <2>2
  <2>5. (\A i \in 1..Len(RequestStream(c)) : InPipeline(c, RequestStream(c)[i]))'
    BY <1>3, <2>3, <2>7
  <2>6. (IF RequestStream(c) = <<>> THEN Len(executed[c]) = Len(results[c])
         ELSE RequestStream(c)[Len(RequestStream(c))].xid = Len(results[c]))'
    BY <2>4, <2>7 DEF SameClient
  <2> QED BY <2>5, <2>6 DEF FlushingOK
<1>12. InFlush(c) => \E t : t = ReplyStream(c)' /\ Extended(r, reply, t)
  <2> SUFFICES ASSUME InFlush(c)
               PROVE  \E t : t = ReplyStream(c)' /\ Extended(r, reply, t)
    OBVIOUS
  <2> DEFINE b == Bytes(reply, ReplySizes[reply])
             t == r \o b
  <2>1. b \in Seq(Reply)
    BY <1>1, MessageSizes, BytesOf DEF ReplySizes
  <2>2. ReplyStream(c)' = t
    <3>1. replies[c] \in Seq(Reply) /\ Undelivered(c) \in Seq(Reply)
      BY ConnectionTypes
    <3>2. Undelivered(c)' = Undelivered(c) \o b
      BY DEF Answered
    <3> HIDE DEF b
    <3>3. ASSUME NEW x \in Seq(Reply), NEW y \in Seq(Reply), NEW z \in Seq(Reply)
          PROVE  x \o (y \o z) = (x \o y) \o z
      BY Regroup
    <3>4. replies[c] \o (Undelivered(c) \o b) = (replies[c] \o Undelivered(c)) \o b
      BY <2>1, <3>1, <3>3
    <3> QED BY <1>1, <1>2, <3>2, <3>4 DEF SameClient, ReplyStream
  <2>3. Stream(r, Reply, ReplySizes, NextReply) /\ Whole(r, ReplySizes)
    BY <1>1 DEF StreamsOK, RepliesOK, Replies
  <2>4. r # <<>> => <<r[Len(r)], reply>> \in NextReply
    <3> SUFFICES ASSUME r # <<>> PROVE <<r[Len(r)], reply>> \in NextReply
      OBVIOUS
    <3>1. r[Len(r)].accept_stat = SUCCESS /\ r[Len(r)].request.xid = e
      BY <1>1 DEF StreamsOK, AnswersOK
    <3>2. r[Len(r)] \in Reply
      <4>1. Stream(r, Reply, ReplySizes, NextReply) /\ r # <<>>
        BY <2>3
      <4> HIDE DEF r
      <4> QED BY <4>1, ReplyFraming, StreamTypes
    <3> QED BY <1>1, <1>4, <3>1, <3>2 DEF NextReply
  <2>5. reply \in Reply
    BY <1>1
  <2>6. Replies(r) /\ Whole(r, ReplySizes)
    BY <2>3 DEF Replies
  <2> HIDE DEF r
  <2>7. Extended(r, reply, t)
    BY <2>4, <2>5, <2>6, ReplyAppended
  <2> HIDE DEF t
  <2> QED BY <2>2, <2>7
<1>13. RepliesOK(c)' /\ AnswersOK(c)'
  <2> SUFFICES ASSUME InFlush(c) PROVE RepliesOK(c)' /\ AnswersOK(c)'
    BY <1>2 DEF RepliesOK, AnswersOK
  <2>8. PICK t : t = ReplyStream(c)' /\ Extended(r, reply, t)
    BY <1>12
  <2>1. /\ Replies(t) /\ Whole(t, ReplySizes) /\ t # <<>> /\ t[Len(t)] = reply
        /\ t[1] = IF r = <<>> THEN reply ELSE r[1]
        /\ \A i \in 1..Len(t) : t[i] = reply \/ \E k \in 1..Len(r) : t[i] = r[k]
    BY <2>8 DEF Extended, Grown
  <2>2. /\ clientEnd[c] = "open"
        /\ IF r = <<>> THEN e = Base(c) + nr_replied[c]
           ELSE r[1].request.xid = Base(c) + nr_replied[c] + 1
        /\ \A i \in 1..Len(r) :
             /\ InPipeline(c, r[i].request)
             /\ r[i].accept_stat = SUCCESS => r[i].request.xid <= e
    BY <1>1 DEF StreamsOK, RepliesOK, AnswersOK
  <2>3. InPipeline(c, req)
    <3>1. \A i \in 1..Len(s) : InPipeline(c, s[i])
      BY <1>2 DEF StreamsOK, FlushingOK
    <3>2. 1 \in 1..Len(s)
      <4>1. Stream(s, Request, RequestSizes, NextRequest) /\ s # <<>>
        BY <1>1, <1>4 DEF Requests
      <4> HIDE DEF s
      <4> QED BY <4>1, RequestFraming, StreamTypes
    <3> QED BY <1>1, <3>1, <3>2
  <2> HIDE DEF r
  <2>4. t[1].request.xid = Base(c) + nr_replied[c] + 1
    BY <1>1, <1>4, <2>1, <2>2
  <2>5. ASSUME NEW i \in 1..Len(t)
        PROVE  /\ InPipeline(c, t[i].request)
               /\ t[i].accept_stat = SUCCESS => t[i].request.xid <= Len(executed'[c])
    <3>1. CASE t[i] = reply
      <4>1. InPipeline(c, t[i].request)
        BY <1>1, <2>3, <3>1
      <4>2. done => req.xid <= Len(executed'[c])
        BY <1>4, <1>5
      <4> QED BY <1>1, <3>1, <4>1, <4>2
    <3>2. CASE \E k \in 1..Len(r) : t[i] = r[k]
      <4>1. PICK k \in 1..Len(r) : t[i] = r[k]
        BY <3>2
      <4>2. /\ InPipeline(c, t[i].request)
            /\ t[i].accept_stat = SUCCESS => t[i].request.xid <= e
        BY <2>2, <4>1
      <4>3. t[i].accept_stat = SUCCESS => t[i].request.xid <= Len(executed'[c])
        <5>1. t[i] \in Reply
          <6>1. Stream(t, Reply, ReplySizes, NextReply)
            BY <2>1 DEF Replies
          <6> QED BY <6>1, ReplyFraming, StreamTypes
        <5>2. t[i].request.xid \in Nat
          BY <5>1 DEF Reply, Request
        <5> QED BY <1>4, <1>5, <4>2, <5>2
      <4> QED BY <4>2, <4>3
    <3> QED BY <2>1, <3>1, <3>2
  <2>6. RepliesOK(c)'
    <3>1. clientEnd'[c] = "open" /\ nr_replied'[c] = nr_replied[c]
      BY <1>1, <2>2 DEF SameClient
    <3>2. \A i \in 1..Len(t) :
            /\ InPipeline(c, t[i].request)'
            /\ t[i].accept_stat = SUCCESS => t[i].request.xid <= Len(executed'[c])
      BY <1>3, <2>5
    <3> QED BY <1>2, <2>1, <2>4, <2>8, <3>1, <3>2 DEF RepliesOK, Replies
  <2>7. AnswersOK(c)'
    <3>1. done => reply.request.xid = Len(executed'[c])
      BY <1>1, <1>4, <1>5
    <3> QED BY <1>1, <2>1, <2>8, <3>1 DEF AnswersOK
  <2> QED BY <2>6, <2>7
<1>14. IdleOK(c)'
  BY <1>1, <1>2 DEF SameClient, StreamsOK, IdleOK
<1> QED BY <1>6, <1>7, <1>8, <1>10, <1>11, <1>13, <1>14 DEF StreamsOK

\* Every step of the server keeps the streams of every client in order.
LEMMA ServerStreams ==
  ASSUME RpcInv, StreamsInv, NEW d \in Clients, Poll(d) \/ Work(d), UNCHANGED clientVars
  PROVE  StreamsInv'
<1>1. StreamsOK(d) /\ LoopOK(d)
  BY DEF StreamsInv, StreamsOK
<1>2. CASE WriteFails(d) /\ ~CloseConnection(d)
  <2>1. /\ CloseAll /\ UNCHANGED <<toClient, clientEnd, inbuf, outbuf, has_error, executed>>
        /\ srv'.at \in {"killed", "stopped"}
    BY <1>2 DEF WriteFails, Idle
  <2> QED BY <1>2, <2>1, AllEnd
<1>3. CASE WriteFails(d) => CloseConnection(d)
  <2>1. StreamsOK(d)'
    <3>1. ASSUME CloseConnection(d), serverEnd[d] = "open",
                 UNCHANGED <<toClient, clientEnd, has_error, executed>>
          PROVE  StreamsOK(d)'
      BY <1>1, <3>1, ServerEndsConnection
    <3>2. CASE OnConnectionError(d)
      BY <3>1, <3>2 DEF OnConnectionError
    <3>3. CASE \/ ReadFails(d)
               \/ (WriteReady(d) \/ WriteReply(d)) /\ WriteFails(d)
               \/ FinishEvent(d) /\ CloseConnection(d)
      <4>1. serverEnd[d] = "open"
        BY <1>1, <3>3 DEF ReadFails, WriteReady, WriteReply, FinishEvent, At, LoopOK, Working
      <4>2. CloseConnection(d) /\ UNCHANGED <<toClient, clientEnd, has_error, executed>>
        BY <1>3, <3>3 DEF ReadFails, WriteFails, FinishEvent
      <4> QED BY <3>1, <4>1, <4>2
    <3>4. CASE RejectCall(d) \/ ExecuteCall(d)
      <4>1. SameClient(d)
        BY DEF clientVars, SameClient
      <4>2. PICK req, reply : Answered(d, req, reply)
        BY <1>1, <3>4, RequestAnswered
      <4> QED BY <1>1, <4>1, <4>2, AnswerKeeps
    <3>5. CASE (WriteReady(d) \/ WriteReply(d)) /\ ~WriteFails(d)
      <4>1. srv.client = d /\ srv.at \in {"write", "reply"} /\ \E next : WriteSome(d, next)
        BY <3>5 DEF WriteReady, WriteReply, Writing, At
      <4> QED BY <1>1, <4>1, ServerMovesBytes
    <3>6. CASE \/ OnNewConnection(d) \/ OnConnectionEvent(d)
               \/ ReadConnectionBuffer(d) \/ ReadNothing(d) \/ StopProcessing(d)
               \/ FinishEvent(d) /\ ~CloseConnection(d)
      BY <1>1, <3>6, ServerMovesBytes
    <3> QED BY <3>2, <3>3, <3>4, <3>5, <3>6 DEF Poll, Work
  <2>2. ASSUME NEW c \in Clients, c # d PROVE StreamsOK(c)'
    <3>1. SameClient(c) /\ SameConnection(c) /\ (Working(c)' => Working(c))
      BY <1>3, <2>2, OtherConnections
    <3> QED BY <3>1, Untouched DEF StreamsInv
  <2> QED BY <2>1, <2>2 DEF StreamsInv
<1> QED BY <1>2, <1>3

-----------------------------------------------------------------------------
\* Steps of the clients

\* What the steps of the client d leave alone
LEMMA OtherClients ==
  ASSUME RpcInv, NEW d \in Clients, Client(d), NEW c \in Clients, c # d
  PROVE  SameClient(c) /\ SameConnection(c) /\ (Working(c)' => Working(c))
<1>1. /\ toServer = [e \in Clients |-> toServer[e]] /\ toClient = [e \in Clients |-> toClient[e]]
      /\ clientEnd = [e \in Clients |-> clientEnd[e]]
      /\ serverEnd = [e \in Clients |-> serverEnd[e]]
      /\ phase = [e \in Clients |-> phase[e]] /\ buf = [e \in Clients |-> buf[e]]
      /\ pending = [e \in Clients |-> pending[e]]
      /\ nr_replied = [e \in Clients |-> nr_replied[e]]
      /\ replies = [e \in Clients |-> replies[e]] /\ results = [e \in Clients |-> results[e]]
  BY DEF RpcInv, NetworkInv, NetworkTypeOK, ClientInv, ClientTypeOK
<1>2. UNCHANGED serverVars
  BY DEF Client
<1>3. ASSUME Fail(d) PROVE SameClient(c) /\ SameConnection(c)
  BY <1>1, <1>2, <1>3 DEF Fail, CloseEnd, Finalize, serverVars, SameClient, SameConnection
<1>4. ASSUME Vanish(d) PROVE SameClient(c) /\ SameConnection(c)
  BY <1>1, <1>2, <1>4 DEF Vanish, CloseEnd, serverVars, SameClient, SameConnection
<1>5. CASE Connect(d) \/ FlushWrite(d)
  BY <1>1, <1>2, <1>5 DEF Connect, FlushWrite, serverVars, SameClient, SameConnection, Working
<1>6. ASSUME NEW call \in Calls, Send(d, call)
      PROVE  SameClient(c) /\ SameConnection(c) /\ (Working(c)' => Working(c))
  BY <1>1, <1>2, <1>6 DEF Send, network, serverVars, SameClient, SameConnection, Working
<1>7. CASE FlushWriteFails(d) \/ ReadRepliesFails(d) \/ ParseFails(d)
  BY <1>2, <1>3, <1>7 DEF FlushWriteFails, ReadRepliesFails, ParseFails, serverVars, Working
<1>8. CASE Killed(d) \/ Leave(d)
  BY <1>2, <1>4, <1>8 DEF Killed, Leave, serverVars, Working
<1>9. CASE ReadReplies(d) \/ ParseMore(d)
  BY <1>1, <1>2, <1>9 DEF ReadReplies, ParseMore, network, serverVars, SameClient,
     SameConnection, Working
<1>10. CASE ParseReply(d)
  BY <1>1, <1>2, <1>10 DEF ParseReply, network, serverVars, SameClient, SameConnection, Working
<1>11. CASE FlushDone(d)
  BY <1>1, <1>2, <1>11 DEF FlushDone, Finalize, network, serverVars, SameClient,
     SameConnection, Working
<1> QED BY <1>5, <1>6, <1>7, <1>8, <1>9, <1>10, <1>11 DEF Client, ProgramStep, FlushStep

\* A client that closes its end leaves the server the requests already written.
LEMMA ClientEndsConnection ==
  ASSUME RpcInv, NEW c \in Clients, StreamsOK(c), UNCHANGED serverVars,
         phase'[c] \in {"idle", "gone"}, phase'[c] = "idle" => replies'[c] = <<>>,
         clientEnd'[c] # "open", toServer'[c] = toServer[c], serverEnd'[c] = serverEnd[c],
         PendingOK(c)', BufOK(c)', ValuesOK(c)'
  PROVE  StreamsOK(c)'
<1>1. /\ Accepting(c)' = Accepting(c) /\ ~InFlush(c)' /\ (Working(c)' <=> Working(c))
      /\ RequestStream(c)' = RequestStream(c)
  BY DEF serverVars, Accepting, Live, InFlush, Working, RequestStream
<1>2. NewOK(c)' /\ LoopOK(c)' /\ ExecutedOK(c)'
  BY <1>1 DEF serverVars, StreamsOK, NewOK, LoopOK, ExecutedOK
<1>3. RequestsOK(c)' /\ FlushingOK(c)'
  BY <1>1 DEF serverVars, StreamsOK, RequestsOK, FlushingOK, Requests
<1>4. RepliesOK(c)' /\ AnswersOK(c)' /\ IdleOK(c)'
  BY <1>1 DEF RepliesOK, AnswersOK, IdleOK
<1> QED BY <1>2, <1>3, <1>4 DEF StreamsOK

\* Nothing is pending after finalize.
LEMMA EmptyPipeline ==
  ASSUME NEW c \in Clients, buf'[c] = <<>>, pending'[c] = <<>>,
         NEW k \in Nat, Len(results'[c]) = k
  PROVE  PendingOK(c)' /\ BufOK(c)' /\ Base(c)' = k
<1>1. Len(<<>>) = 0
  BY EmptySeq
<1>2. Base(c)' = k
  BY <1>1 DEF Base
<1>3. PendingOK(c)'
  BY <1>1 DEF PendingOK
<1>4. BufOK(c)'
  BY <1>1, NothingStreams DEF BufOK, Requests
<1> QED BY <1>2, <1>3, <1>4

LEMMA FailStreams ==
  ASSUME RpcInv, NEW c \in Clients, StreamsOK(c), UNCHANGED serverVars, Fail(c)
  PROVE  StreamsOK(c)'
<1> DEFINE outcomes == [x \in DOMAIN results[c] |->
                          IF x \in Unanswered(c) THEN [is |-> "error"] ELSE results[c][x]]
           k == Len(results[c])
<1>1. k \in Nat /\ DOMAIN results[c] = 1..k
  BY ClientTypes DEF RpcInv
<1>2. Len(outcomes) = k
  <2>1. outcomes \in [1..k -> {outcomes[x] : x \in 1..k}]
    BY <1>1
  <2>2. outcomes \in Seq({outcomes[x] : x \in 1..k}) /\ DOMAIN outcomes = 1..k
    BY <1>1, <2>1, SeqDef
  <2> HIDE DEF outcomes, k
  <2>3. Len(outcomes) \in Nat /\ 1..Len(outcomes) = 1..k
    BY <2>2, LenProperties
  <2> QED BY <1>1, <2>3
<1>3. /\ phase'[c] = "idle" /\ replies'[c] = <<>> /\ buf'[c] = <<>> /\ pending'[c] = <<>>
      /\ clientEnd'[c] # "open" /\ results'[c] = outcomes
      /\ toServer'[c] = toServer[c] /\ serverEnd'[c] = serverEnd[c]
  BY DEF Fail, CloseEnd, Finalize, Closed, RpcInv, NetworkInv, NetworkTypeOK, ClientInv,
     ClientTypeOK
<1>4. Len(results'[c]) = k
  BY <1>2, <1>3
<1>5. PendingOK(c)' /\ BufOK(c)'
  BY <1>1, <1>3, <1>4, EmptyPipeline
<1>6. ValuesOK(c)'
  <2>1. ASSUME NEW x \in 1..k, outcomes[x].is = "value"
        PROVE  outcomes[x].of.xid = x /\ x <= Len(executed[c])
    <3>1. outcomes[x] = results[c][x]
      BY <1>1, <2>1
    <3> QED BY <2>1, <3>1 DEF StreamsOK, ValuesOK
  <2> HIDE DEF outcomes, k
  <2> QED BY <1>3, <1>4, <2>1 DEF serverVars, ValuesOK
<1> QED BY <1>3, <1>5, <1>6, ClientEndsConnection

LEMMA VanishStreams ==
  ASSUME RpcInv, NEW c \in Clients, StreamsOK(c), UNCHANGED serverVars, Vanish(c)
  PROVE  StreamsOK(c)'
<1>1. /\ phase'[c] = "gone" /\ clientEnd'[c] # "open"
      /\ toServer'[c] = toServer[c] /\ serverEnd'[c] = serverEnd[c]
      /\ UNCHANGED <<buf, pending, results, executed>>
  BY DEF Vanish, CloseEnd, Closed, RpcInv, NetworkInv, NetworkTypeOK, ClientInv,
     ClientTypeOK, serverVars
<1>2. PendingOK(c)' /\ BufOK(c)' /\ ValuesOK(c)'
  BY <1>1 DEF StreamsOK, PendingOK, BufOK, ValuesOK, Base, InPipeline, Requests
<1> QED BY <1>1, <1>2, ClientEndsConnection

\* A flush that goes on with the same stream of replies
LEMMA FlushGoesOn ==
  ASSUME RpcInv, NEW c \in Clients, StreamsOK(c), UNCHANGED serverVars,
         InFlush(c), InFlush(c)', toServer'[c] = toServer[c], clientEnd'[c] = clientEnd[c],
         serverEnd'[c] = serverEnd[c],
         UNCHANGED <<buf, pending, nr_replied, results>>,
         ReplyStream(c)' = ReplyStream(c)
  PROVE  StreamsOK(c)'
<1>1. /\ Live(c)' = Live(c) /\ Accepting(c)' = Accepting(c) /\ Base(c)' = Base(c)
      /\ RequestStream(c)' = RequestStream(c) /\ (Working(c)' <=> Working(c))
  BY DEF serverVars, Live, Accepting, Base, RequestStream, Working
<1>2. \A req : InPipeline(c, req)' = InPipeline(c, req)
  BY <1>1 DEF InPipeline
<1>3. NewOK(c)' /\ LoopOK(c)' /\ ExecutedOK(c)' /\ ValuesOK(c)' /\ PendingOK(c)' /\ IdleOK(c)'
  BY <1>1 DEF serverVars, InFlush, StreamsOK, NewOK, LoopOK, ExecutedOK, ValuesOK, PendingOK,
     IdleOK
<1>4. BufOK(c)'
  BY <1>1, <1>2 DEF StreamsOK, BufOK, Requests
<1>5. RequestsOK(c)' /\ FlushingOK(c)'
  BY <1>1, <1>2 DEF serverVars, StreamsOK, RequestsOK, FlushingOK, Requests
<1>6. RepliesOK(c)' /\ AnswersOK(c)'
  BY <1>1, <1>2 DEF serverVars, StreamsOK, RepliesOK, AnswersOK, Replies
<1> QED BY <1>3, <1>4, <1>5, <1>6 DEF StreamsOK

LEMMA ReadStreams ==
  ASSUME RpcInv, NEW c \in Clients, StreamsOK(c), UNCHANGED serverVars,
         ReadReplies(c) \/ ParseMore(c)
  PROVE  StreamsOK(c)'
<1>1. CASE ReadReplies(c)
  <2>1. PICK n \in 1..AtMost(Len(toClient[c]), Room(c)) :
          /\ replies' = [replies EXCEPT ![c] = @ \o Before(toClient[c], n)]
          /\ toClient' = [toClient EXCEPT ![c] = After(@, n)]
    BY <1>1 DEF ReadReplies
  <2>2. /\ replies[c] \in Seq(Reply) /\ toClient[c] \in Seq(Reply) /\ outbuf[c].data \in Seq(Reply)
    BY ConnectionTypes
  <2>3. n \in 0..Len(toClient[c])
    <3>1. Len(toClient[c]) \in Nat /\ Room(c) \in Int
      BY <2>2, LenProperties, Sizes, ClientTypes DEF Room, RpcInv
    <3> QED BY <3>1 DEF AtMost
  <2>4. /\ replies'[c] = replies[c] \o Before(toClient[c], n)
        /\ toClient'[c] = After(toClient[c], n)
    BY <2>1 DEF RpcInv, NetworkInv, NetworkTypeOK, ClientInv, ClientTypeOK
  <2>5. replies'[c] \o toClient'[c] = replies[c] \o toClient[c]
    BY <2>2, <2>3, <2>4, Moved
  <2>6. replies'[c] \in Seq(Reply) /\ toClient'[c] \in Seq(Reply)
    BY <2>2, <2>3, <2>4, Cut, ConcatProperties
  <2>7. ASSUME NEW r \in Seq(Reply), NEW s \in Seq(Reply), NEW u \in Seq(Reply)
        PROVE  r \o (s \o u) = (r \o s) \o u
    BY Regroup
  <2>8. replies'[c] \o (toClient'[c] \o outbuf[c].data)
          = replies[c] \o (toClient[c] \o outbuf[c].data)
    <3>1. replies'[c] \o (toClient'[c] \o outbuf[c].data)
            = (replies'[c] \o toClient'[c]) \o outbuf[c].data
      BY ZenonT(30), <2>2, <2>6, <2>7
    <3>2. replies[c] \o (toClient[c] \o outbuf[c].data)
            = (replies[c] \o toClient[c]) \o outbuf[c].data
      BY <2>2, <2>7
    <3> QED BY <2>5, <3>1, <3>2
  <2>9. ReplyStream(c)' = ReplyStream(c)
    BY <1>1, <2>5, <2>8 DEF ReplyStream, Undelivered, Live, ReadReplies, serverVars
  <2>10. InFlush(c) /\ InFlush(c)'
    BY <1>1 DEF ReadReplies, InFlush, RpcInv, ClientInv, ClientTypeOK
  <2> QED BY <1>1, <2>9, <2>10, FlushGoesOn DEF ReadReplies
<1>2. CASE ParseMore(c)
  <2>1. InFlush(c) /\ InFlush(c)'
    BY <1>2 DEF ParseMore, InFlush, RpcInv, ClientInv, ClientTypeOK
  <2>2. ReplyStream(c)' = ReplyStream(c)
    BY <1>2 DEF ParseMore, ReplyStream, Undelivered, Live, network, serverVars
  <2> QED BY <1>2, <2>1, <2>2, FlushGoesOn DEF ParseMore, network
<1> QED BY <1>1, <1>2

LEMMA ConnectStreams ==
  ASSUME RpcInv, NEW c \in Clients, StreamsOK(c), UNCHANGED serverVars, Connect(c)
  PROVE  StreamsOK(c)'
<1>1. /\ phase[c] = "new" /\ phase'[c] = "idle" /\ clientEnd'[c] = "open"
      /\ serverEnd'[c] = "backlog"
      /\ UNCHANGED <<toServer, toClient, buf, pending, nr_replied, replies, results>>
      /\ UNCHANGED serverVars
  BY DEF Connect, RpcInv, NetworkInv, NetworkTypeOK, ClientInv, ClientTypeOK
<1>2. /\ toServer[c] = <<>> /\ toClient[c] = <<>> /\ ~Live(c)
      /\ inbuf[c].data = <<>> /\ outbuf[c].data = <<>> /\ has_error[c] = FALSE
      /\ executed[c] = <<>> /\ buf[c] = <<>> /\ results[c] = <<>> /\ replies[c] = <<>>
  BY <1>1 DEF StreamsOK, NewOK
<1>3. pending[c] = <<>> /\ Len(<<>>) = 0
  BY <1>1, ClientTypes, EmptySeq DEF RpcInv, PipelineOK
<1>4. /\ RequestStream(c)' = <<>> /\ Undelivered(c)' = <<>>
      /\ Base(c)' = 0 /\ Len(executed'[c]) = 0
  <2>1. <<>> \o <<>> = <<>>
    BY EmptySeq, ConcatSimplifications
  <2> QED BY <1>1, <1>2, <1>3, <2>1 DEF serverVars, RequestStream, Undelivered, Base
<1>5. ~Working(c)'
  BY <1>1, <1>2 DEF StreamsOK, LoopOK, Working, serverVars, Live
<1>6. NewOK(c)' /\ LoopOK(c)' /\ FlushingOK(c)' /\ RepliesOK(c)' /\ AnswersOK(c)'
  BY <1>1, <1>5 DEF NewOK, LoopOK, FlushingOK, RepliesOK, AnswersOK, InFlush
<1>7. ExecutedOK(c)' /\ ValuesOK(c)' /\ PendingOK(c)' /\ BufOK(c)'
  BY <1>1 DEF serverVars, StreamsOK, ExecutedOK, ValuesOK, PendingOK, BufOK, Base, InPipeline,
     Requests
<1>8. RequestsOK(c)'
  BY <1>4, NothingStreams DEF RequestsOK, Requests
<1>9. IdleOK(c)'
  BY <1>1, <1>2, <1>4 DEF IdleOK, serverVars
<1> QED BY <1>6, <1>7, <1>8, <1>9 DEF StreamsOK

\* The place of the next request in the pipeline
LEMMA NextPlace ==
  ASSUME NEW n \in Nat, NEW k \in Nat
  PROVE  /\ (n + 1) - (k + 1) = n - k /\ (n - k) + (k + 1) = n + 1
         /\ (n + 1) - (n - k) = k + 1 /\ k + 1 \in 1..(k + 1)
         /\ k = 0 => n - k = n
OBVIOUS

LEMMA SendStreams ==
  ASSUME RpcInv, NEW c \in Clients, StreamsOK(c), UNCHANGED serverVars,
         NEW call \in Calls, Send(c, call)
  PROVE  StreamsOK(c)'
<1> SUFFICES ASSUME NEW n, n = Len(results[c]), NEW k, k = Len(pending[c]),
                    NEW req, req = [xid |-> n + 1, call |-> call],
                    NEW old, old = buf[c],
                    NEW new, new = old \o Bytes(req, RequestSizes[req])
             PROVE  StreamsOK(c)'
  OBVIOUS
<1>1. /\ old \in Seq(Request) /\ n \in Nat /\ k \in Nat
      /\ pending[c] \in Seq(Request) /\ results[c] \in Seq(Outcome)
  BY ClientTypes DEF RpcInv
<1>2. req \in Request /\ RequestSize(req) = RequestSizes[req] /\ req.xid = n + 1
  BY <1>1 DEF Request, RequestSizes
<1>3. /\ phase[c] = "idle" /\ phase'[c] = "idle"
      /\ UNCHANGED <<toServer, toClient, clientEnd, serverEnd, nr_replied, replies>>
      /\ UNCHANGED serverVars
      /\ pending'[c] = Append(pending[c], req)
      /\ results'[c] = Append(results[c], [is |-> "pending"])
      /\ buf'[c] = new
  BY <1>2 DEF Send, network, RpcInv, ClientInv, ClientTypeOK
<1>4. /\ Len(pending'[c]) = k + 1 /\ pending'[c][k + 1] = req
      /\ \A i \in 1..k : pending'[c][i] = pending[c][i]
  BY <1>1, <1>2, <1>3, AppendProperties
<1>5. /\ Len(results'[c]) = n + 1 /\ results'[c][n + 1] = [is |-> "pending"]
      /\ \A x \in 1..n : results'[c][x] = results[c][x]
  <2>1. [is |-> "pending"] \in Outcome
    BY DEF Outcome
  <2> QED BY <1>1, <1>3, <2>1, AppendProperties
<1>6. /\ k <= n /\ Base(c) = n - k /\ Base(c)' = n - k
      /\ \A i \in 1..k : pending[c][i].xid = Base(c) + i
  <2>1. Base(c)' = (n + 1) - (k + 1)
    BY <1>4, <1>5 DEF Base
  <2>2. k <= n /\ \A i \in 1..k : pending[c][i].xid = Base(c) + i
    BY DEF StreamsOK, PendingOK
  <2>3. Base(c) = n - k
    BY DEF Base
  <2>4. n - k = (n + 1) - (k + 1)
    BY <1>1, NextPlace
  <2> QED BY <2>1, <2>2, <2>3, <2>4
<1>7. PendingOK(c)'
  <2>1. k + 1 <= n + 1
    BY <1>1, <1>6
  <2>2. ASSUME NEW i \in 1..(k + 1) PROVE pending'[c][i].xid = Base(c)' + i
    <3>1. CASE i = k + 1
      <4>1. pending'[c][i].xid = n + 1
        BY <1>2, <1>4, <3>1
      <4>2. (n - k) + (k + 1) = n + 1
        BY <1>1, NextPlace
      <4> QED BY <1>6, <3>1, <4>1, <4>2
    <3>2. CASE i # k + 1
      <4>1. i \in 1..k
        BY <1>1, <3>2
      <4> QED BY <1>4, <1>6, <4>1
    <3> QED BY <3>1, <3>2
  <2> QED BY <1>4, <1>5, <2>1, <2>2 DEF PendingOK
<1>8. ASSUME NEW q, InPipeline(c, q) PROVE InPipeline(c, q)'
  <2>1. q.xid - Base(c) \in 1..k /\ q = pending[c][q.xid - Base(c)]
    BY <1>8 DEF InPipeline
  <2>2. q.xid - Base(c) \in 1..(k + 1)
    BY <1>1, <2>1
  <2>3. pending'[c][q.xid - Base(c)] = q
    BY <1>4, <2>1
  <2>4. q.xid - Base(c)' = q.xid - Base(c)
    BY <1>6
  <2> QED BY <1>4, <2>2, <2>3, <2>4 DEF InPipeline
<1>9. InPipeline(c, req)'
  <2>1. (n + 1) - (n - k) = k + 1 /\ k + 1 \in 1..(k + 1)
    BY <1>1, NextPlace
  <2>2. req.xid - Base(c)' = k + 1
    BY <1>2, <1>6, <2>1
  <2> QED BY <1>4, <2>1, <2>2 DEF InPipeline
<1>10. BufOK(c)'
  <2>1. /\ Requests(old) /\ Whole(old, RequestSizes)
        /\ \A i \in 1..Len(old) : InPipeline(c, old[i])
        /\ IF old = <<>> THEN k = 0 ELSE old[1].xid = Base(c) + 1 /\ old[Len(old)].xid = n
    BY DEF StreamsOK, BufOK
  <2>2. Stream(old, Request, RequestSizes, NextRequest)
    BY <2>1 DEF Requests
  <2>3. MayEnd(old, req, NextRequest) /\ Appended(old, req, RequestSizes, new)
    <3>1. ASSUME old # <<>> PROVE <<old[Len(old)], req>> \in NextRequest
      <4>1. old[Len(old)] \in Request
        BY <2>2, <3>1, RequestFraming, StreamTypes
      <4> QED BY <1>2, <2>1, <3>1, <4>1 DEF NextRequest
    <3> QED BY <3>1 DEF MayEnd, Appended
  <2>4. /\ Stream(new, Request, RequestSizes, NextRequest) /\ Whole(new, RequestSizes)
        /\ Grown(old, req, new)
    BY <1>2, <2>1, <2>2, <2>3, RequestFraming, AppendBlock
  <2>5. /\ new # <<>> /\ new[Len(new)].xid = n + 1
        /\ new[1] = IF old = <<>> THEN req ELSE old[1]
        /\ \A i \in 1..Len(new) : new[i] = req \/ \E j \in 1..Len(old) : new[i] = old[j]
    BY <1>2, <2>4 DEF Grown
  <2>6. new[1].xid = Base(c)' + 1
    <3>1. CASE old = <<>>
      <4>1. new[1].xid = n + 1 /\ k = 0
        BY <1>2, <2>1, <2>5, <3>1
      <4>2. n - k = n
        BY <1>1, <4>1, NextPlace
      <4> QED BY <1>6, <4>1, <4>2
    <3>2. CASE old # <<>>
      <4>1. new[1] = old[1] /\ old[1].xid = Base(c) + 1 /\ Base(c)' = Base(c)
        BY <1>6, <2>1, <2>5, <3>2
      <4> QED BY <4>1
    <3> QED BY <3>1, <3>2
  <2>7. ASSUME NEW i \in 1..Len(new) PROVE InPipeline(c, new[i])'
    BY <1>8, <1>9, <2>1, <2>5
  <2> QED BY <1>3, <1>5, <2>4, <2>5, <2>6, <2>7 DEF BufOK, Requests
<1>11. ValuesOK(c)'
  <2>1. ASSUME NEW x \in 1..(n + 1), results'[c][x].is = "value"
        PROVE  results'[c][x].of.xid = x /\ x <= Len(executed[c])
    <3>1. x # n + 1
      BY <1>5, <2>1
    <3>2. x \in 1..n
      BY <1>1, <3>1
    <3>3. results'[c][x] = results[c][x]
      BY <1>5, <3>2
    <3> QED BY <2>1, <3>2, <3>3 DEF StreamsOK, ValuesOK
  <2> QED BY <1>3, <1>5, <2>1 DEF serverVars, ValuesOK
<1>12. /\ Live(c)' = Live(c) /\ Accepting(c)' = Accepting(c) /\ ~InFlush(c)'
       /\ RequestStream(c)' = RequestStream(c) /\ Undelivered(c)' = Undelivered(c)
       /\ (Working(c)' <=> Working(c)) /\ Base(c)' = Base(c)
  BY <1>3, <1>6 DEF serverVars, Live, Accepting, InFlush, RequestStream, Undelivered, Working
<1>13. NewOK(c)' /\ LoopOK(c)' /\ ExecutedOK(c)' /\ FlushingOK(c)' /\ RepliesOK(c)' /\ AnswersOK(c)'
  BY <1>3, <1>12 DEF serverVars, StreamsOK, NewOK, LoopOK, ExecutedOK, FlushingOK, RepliesOK,
     AnswersOK
<1>14. RequestsOK(c)' /\ IdleOK(c)'
  BY <1>3, <1>12 DEF serverVars, StreamsOK, RequestsOK, IdleOK, Requests
<1> QED BY <1>7, <1>10, <1>11, <1>13, <1>14 DEF StreamsOK

LEMMA FlushWriteStreams ==
  ASSUME RpcInv, NEW c \in Clients, StreamsOK(c), UNCHANGED serverVars, FlushWrite(c)
  PROVE  StreamsOK(c)'
<1>1. /\ phase[c] = "idle" /\ phase'[c] = "reading" /\ clientEnd[c] = "open"
      /\ pending[c] # <<>>
      /\ UNCHANGED <<toClient, clientEnd, buf, pending, nr_replied, replies, results>>
      /\ UNCHANGED serverVars
      /\ Live(c)' = Live(c)
      /\ Live(c) => toServer'[c] = toServer[c] \o buf[c] /\ serverEnd'[c] = serverEnd[c]
      /\ serverEnd'[c] = serverEnd[c] \/ (serverEnd[c] = "fin" /\ serverEnd'[c] = "rst")
  BY DEF FlushWrite, Live, RpcInv, NetworkInv, NetworkTypeOK, ClientInv, ClientTypeOK
<1>2. /\ replies[c] = <<>> /\ toClient[c] = <<>>
      /\ Live(c) => /\ RequestStream(c) = <<>> /\ Undelivered(c) = <<>>
                    /\ has_error[c] = FALSE /\ Len(executed[c]) = Base(c)
  BY <1>1 DEF StreamsOK, IdleOK
<1>3. ReplyStream(c)' = <<>>
  <2>1. <<>> \o <<>> = <<>>
    BY EmptySeq, ConcatSimplifications
  <2>2. Undelivered(c)' = Undelivered(c)
    BY <1>1 DEF serverVars, Undelivered
  <2> QED BY <1>1, <1>2, <2>1, <2>2 DEF ReplyStream
<1>4. Base(c)' = Base(c) /\ nr_replied[c] = 0 /\ (Working(c)' <=> Working(c))
      /\ Accepting(c)' = Accepting(c)
  BY <1>1, ClientTypes DEF RpcInv, PipelineOK, Base, Working, serverVars, Accepting
<1>5. \A req : InPipeline(c, req)' = InPipeline(c, req)
  BY <1>1, <1>4 DEF InPipeline
<1>6. NewOK(c)' /\ LoopOK(c)' /\ ExecutedOK(c)' /\ ValuesOK(c)' /\ PendingOK(c)' /\ IdleOK(c)'
  BY <1>1, <1>4 DEF serverVars, StreamsOK, NewOK, LoopOK, ExecutedOK, ValuesOK, PendingOK,
     IdleOK
<1>7. BufOK(c)'
  BY <1>1, <1>4, <1>5 DEF StreamsOK, BufOK, Requests
<1>8. buf[c] # <<>>
  <2>1. Len(pending[c]) # 0
    BY <1>1, ClientTypes, EmptySeq DEF RpcInv
  <2> QED BY <2>1 DEF StreamsOK, BufOK
<1>9. Accepting(c)' => RequestStream(c)' = buf[c] /\ Len(executed[c]) = Base(c)
  <2> SUFFICES ASSUME Accepting(c) PROVE RequestStream(c)' = buf[c] /\ Len(executed[c]) = Base(c)
    BY <1>4
  <2>1. inbuf[c].data \in Seq(Request) /\ toServer[c] \in Seq(Request) /\ buf[c] \in Seq(Request)
    BY ConnectionTypes
  <2>2. inbuf[c].data \o toServer[c] = <<>> /\ Live(c)
    BY <1>2 DEF Accepting, RequestStream
  <2>3. ASSUME NEW r \in Seq(Request), NEW s \in Seq(Request), NEW u \in Seq(Request)
        PROVE  r \o (s \o u) = (r \o s) \o u
    BY Regroup
  <2>4. inbuf[c].data \o (toServer[c] \o buf[c]) = (inbuf[c].data \o toServer[c]) \o buf[c]
    BY <2>1, <2>3
  <2>5. <<>> \o buf[c] = buf[c]
    BY <2>1, ConcatSimplifications
  <2>6. RequestStream(c)' = inbuf[c].data \o (toServer[c] \o buf[c])
    BY <1>1, <2>2 DEF RequestStream, serverVars
  <2> QED BY <1>2, <2>2, <2>4, <2>5, <2>6
<1>10. RequestsOK(c)' /\ FlushingOK(c)'
  <2>1. /\ Requests(buf[c]) /\ Whole(buf[c], RequestSizes)
        /\ \A i \in 1..Len(buf[c]) : InPipeline(c, buf[c][i])
        /\ buf[c][1].xid = Base(c) + 1 /\ buf[c][Len(buf[c])].xid = Len(results[c])
    BY <1>8 DEF StreamsOK, BufOK
  <2>2. RequestsOK(c)'
    BY <1>1, <1>9, <2>1 DEF RequestsOK, Requests, serverVars
  <2>3. FlushingOK(c)'
    BY <1>1, <1>5, <1>8, <1>9, <2>1 DEF FlushingOK, serverVars
  <2> QED BY <2>2, <2>3
<1>11. RepliesOK(c)' /\ AnswersOK(c)'
  <2>1. Len(<<>>) = 0 /\ Replies(<<>>) /\ Whole(<<>>, ReplySizes)
    BY EmptySeq, NothingStreams
  <2>2. RepliesOK(c)'
    BY <1>1, <1>3, <2>1 DEF RepliesOK, Replies
  <2>3. Live(c) => Len(executed[c]) = Base(c) + nr_replied[c]
    BY <1>2, <1>4, ConnectionTypes
  <2>4. AnswersOK(c)'
    BY <1>1, <1>2, <1>3, <1>4, <2>3 DEF AnswersOK, serverVars
  <2> QED BY <2>2, <2>4
<1> QED BY <1>6, <1>7, <1>10, <1>11 DEF StreamsOK

FirstTaken(r, t) ==
  r # <<>> /\ ReplySizes[r[1]] <= Len(r) /\ t = After(r, ReplySizes[r[1]])

\* What is left of replies after the first one
Taken(r, t) ==
  /\ Replies(t) /\ (Whole(r, ReplySizes) => Whole(t, ReplySizes))
  /\ \A i \in 1..Len(t) : \E k \in 1..Len(r) : t[i] = r[k]
  /\ IF t = <<>> THEN r[Len(r)] = r[1]
     ELSE t[1].request.xid = r[1].request.xid + 1 /\ t[Len(t)] = r[Len(r)]

LEMMA ReplyTaken ==
  ASSUME NEW r, Replies(r), NEW t, FirstTaken(r, t)
  PROVE  Taken(r, t)
<1>1. Stream(r, Reply, ReplySizes, NextReply)
  BY DEF Replies
<1>2. /\ Stream(t, Reply, ReplySizes, NextReply)
      /\ Whole(r, ReplySizes) => Whole(t, ReplySizes)
      /\ \A i \in 1..Len(t) : \E k \in 1..Len(r) : t[i] = r[k]
      /\ IF t = <<>> THEN r[Len(r)] = r[1]
         ELSE <<r[1], t[1]>> \in NextReply /\ t[Len(t)] = r[Len(r)]
  BY <1>1, ReplyFraming, DropBlock DEF FirstTaken
<1>3. <<r[1], t[1]>> \in NextReply => t[1].request.xid = r[1].request.xid + 1
  BY DEF NextReply
<1> QED BY <1>2, <1>3 DEF Replies, Taken

LEMMA ExceptLength ==
  ASSUME NEW T, NEW s \in Seq(T), NEW x, NEW v
  PROVE  Len([s EXCEPT ![x] = v]) = Len(s)
<1> DEFINE t == [s EXCEPT ![x] = v]
<1>1. Len(s) \in Nat /\ s \in [1..Len(s) -> T]
  BY LenProperties
<1>2. t \in [1..Len(s) -> T \cup {v}]
  BY <1>1
<1>3. DOMAIN t = 1..Len(s)
  BY <1>1
<1>4. t \in Seq(T \cup {v})
  BY <1>1, <1>2, SeqDef
<1> HIDE DEF t
<1>5. Len(t) \in Nat /\ 1..Len(t) = 1..Len(s)
  BY <1>3, <1>4, LenProperties
<1>6. Len(t) = Len(s)
  BY <1>1, <1>5
<1> QED BY <1>6 DEF t

\* The reply that ParseBuffer takes for the next call is the reply to it, and ends where
\* HandleResponse thinks it does.
LEMMA NextReplyMatches ==
  ASSUME RpcInv, NEW c \in Clients, StreamsOK(c), ParseReply(c)
  PROVE  /\ replies[c] # <<>> /\ ReplyStream(c) # <<>>
         /\ Head(replies[c]) = ReplyStream(c)[1] /\ ReplyStream(c)[1].accept_stat = SUCCESS
         /\ ReplyStream(c)[1].request = pending[c][nr_replied[c] + 1]
         /\ pending[c][nr_replied[c] + 1].xid = Base(c) + nr_replied[c] + 1
         /\ nr_replied[c] + 1 \in 1..Len(pending[c])
         /\ ExpectedSize(c) = ReplySizes[ReplyStream(c)[1]]
         /\ ExpectedSize(c) \in 0..Len(replies[c])
         /\ Base(c) + nr_replied[c] + 1 <= Len(executed[c])
<1> SUFFICES ASSUME NEW r, r = ReplyStream(c), NEW s, s = replies[c],
                    NEW nr, nr = nr_replied[c], NEW b, b = Base(c)
             PROVE  /\ s # <<>> /\ r # <<>>
                    /\ Head(s) = r[1] /\ r[1].accept_stat = SUCCESS
                    /\ r[1].request = pending[c][nr + 1]
                    /\ pending[c][nr + 1].xid = b + nr + 1
                    /\ nr + 1 \in 1..Len(pending[c])
                    /\ ExpectedSize(c) = ReplySizes[r[1]]
                    /\ ExpectedSize(c) \in 0..Len(s)
                    /\ b + nr + 1 <= Len(executed[c])
  OBVIOUS
<1>1. /\ s \in Seq(Reply) /\ r \in Seq(Reply) /\ nr \in Nat /\ b \in Int
      /\ Len(pending[c]) \in Nat /\ nr <= Len(pending[c]) /\ nr # Len(pending[c])
      /\ pending[c] \in Seq(Request) /\ Len(s) \in Nat
  BY ConnectionTypes, ClientTypes DEF RpcInv, PipelineOK, ParseReply, AllReplied
<1>2. nr + 1 \in 1..Len(pending[c])
  BY <1>1
<1>3. pending[c][nr + 1] \in Request
  BY <1>1, <1>2, ElementOfSeq
<1>4. ExpectedSize(c) \in Nat /\ ExpectedSize(c) >= AcceptHeader
  <2>1. pending[c][nr + 1].call.result \in Nat
    BY <1>3, CallsAssumption DEF Request, Call
  <2> QED BY <2>1, SizesAssumption DEF ExpectedSize
<1>5. Len(s) >= ExpectedSize(c) /\ phase[c] = "parsing" /\ ~Refused(c)
  BY DEF ParseReply
<1>6. ExpectedSize(c) \in 0..Len(s) /\ Len(s) >= AcceptHeader /\ Len(s) > 0
  BY <1>1, <1>4, <1>5, SizesAssumption
<1>7. s # <<>>
  BY <1>1, <1>6, EmptySeq
<1>8. \E u \in Seq(Reply) : r = s \o u
  <2>1. toClient[c] \in Seq(Reply) /\ Undelivered(c) \in Seq(Reply)
    BY ConnectionTypes
  <2> QED BY <2>1 DEF ReplyStream
<1>9. r # <<>> /\ Head(s) = r[1] /\ r[1] \in Reply
  BY <1>1, <1>7, <1>8, HeadOfTwo
<1>10. r[1].accept_stat = SUCCESS
  BY <1>5, <1>6, <1>9 DEF Refused
<1>11. /\ Replies(r) /\ r[1].request.xid = b + nr + 1
       /\ \A i \in 1..Len(r) :
            /\ InPipeline(c, r[i].request)
            /\ r[i].accept_stat = SUCCESS => r[i].request.xid <= Len(executed[c])
  BY <1>5, <1>9 DEF StreamsOK, RepliesOK, InFlush
<1>12. 1 \in 1..Len(r)
  BY <1>9, <1>11, ReplyFraming, StreamTypes DEF Replies
<1>13. InPipeline(c, r[1].request) /\ b + nr + 1 <= Len(executed[c])
  BY <1>10, <1>11, <1>12
<1>14. r[1].request = pending[c][nr + 1]
  <2>1. (b + nr + 1) - b = nr + 1
    BY <1>1
  <2> QED BY <1>11, <1>13, <2>1 DEF InPipeline
<1>15. ExpectedSize(c) = ReplySizes[r[1]]
  <2>1. ReplySizes[r[1]] = ReplySize(r[1])
    BY <1>9 DEF ReplySizes
  <2>2. ReplySize(r[1]) = AcceptHeader + r[1].request.call.result
    BY <1>10 DEF ReplySize, SUCCESS, PROG_MISMATCH, GARBAGE_ARGS
  <2>3. ExpectedSize(c) = AcceptHeader + pending[c][nr + 1].call.result
    BY DEF ExpectedSize
  <2> QED BY <1>14, <2>1, <2>2, <2>3
<1>16. pending[c][nr + 1].xid = b + nr + 1
  BY <1>11, <1>14
<1> QED BY <1>2, <1>6, <1>7, <1>9, <1>10, <1>13, <1>14, <1>15, <1>16

LEMMA ParseReplyStreams ==
  ASSUME RpcInv, NEW c \in Clients, StreamsOK(c), UNCHANGED serverVars, ParseReply(c)
  PROVE  StreamsOK(c)'
<1> SUFFICES ASSUME NEW r, r = ReplyStream(c), NEW nr, nr = nr_replied[c],
                    NEW b, b = Base(c), NEW x, x = b + nr + 1,
                    NEW n, n = ExpectedSize(c), NEW t, t = After(r, n)
             PROVE  StreamsOK(c)'
  OBVIOUS
<1>1. /\ replies[c] # <<>> /\ r # <<>> /\ Head(replies[c]) = r[1]
      /\ r[1].accept_stat = SUCCESS
      /\ r[1].request.xid = x /\ pending[c][nr + 1].xid = x
      /\ n = ReplySizes[r[1]] /\ n \in 0..Len(replies[c]) /\ x <= Len(executed[c])
  BY NextReplyMatches
<1>2. /\ nr \in Nat /\ b \in Int /\ Len(results[c]) \in Nat /\ results[c] \in Seq(Outcome)
      /\ DOMAIN results[c] = 1..Len(results[c]) /\ replies[c] \in Seq(Reply)
  BY ConnectionTypes, ClientTypes DEF RpcInv
<1>3. /\ phase[c] = "parsing" /\ phase'[c] = "parsing"
      /\ UNCHANGED <<toServer, toClient, clientEnd, serverEnd, buf, pending>>
      /\ UNCHANGED serverVars
      /\ nr_replied'[c] = nr + 1
      /\ replies'[c] = After(replies[c], n)
      /\ results'[c] = [results[c] EXCEPT ![x] = [is |-> "value", of |-> r[1].request]]
  BY <1>1 DEF ParseReply, network, RpcInv, ClientInv, ClientTypeOK
<1>4. Len(results'[c]) = Len(results[c])
  BY <1>2, <1>3, ExceptLength
<1>5. /\ Live(c)' = Live(c) /\ Accepting(c)' = Accepting(c) /\ InFlush(c) /\ InFlush(c)'
      /\ Base(c)' = Base(c) /\ RequestStream(c)' = RequestStream(c)
      /\ (Working(c)' <=> Working(c)) /\ Undelivered(c)' = Undelivered(c)
  BY <1>3, <1>4 DEF serverVars, Live, Accepting, InFlush, Base, RequestStream, Working,
     Undelivered
<1>6. \A req : InPipeline(c, req)' = InPipeline(c, req)
  BY <1>3, <1>5 DEF InPipeline
<1>7. NewOK(c)' /\ LoopOK(c)' /\ ExecutedOK(c)' /\ IdleOK(c)'
  BY <1>3, <1>5 DEF serverVars, StreamsOK, NewOK, LoopOK, ExecutedOK, IdleOK
<1>8. ValuesOK(c)'
  <2>1. ASSUME NEW y \in 1..Len(results[c]), results'[c][y].is = "value"
        PROVE  results'[c][y].of.xid = y /\ y <= Len(executed[c])
    <3>1. CASE y = x
      <4>1. results'[c][y] = [is |-> "value", of |-> r[1].request]
        BY <1>2, <1>3, <3>1
      <4> QED BY <1>1, <3>1, <4>1
    <3>2. CASE y # x
      <4>1. results'[c][y] = results[c][y]
        BY <1>2, <1>3, <3>2
      <4> QED BY <2>1, <4>1 DEF StreamsOK, ValuesOK
    <3> QED BY <3>1, <3>2
  <2> QED BY <1>3, <1>4, <2>1 DEF serverVars, ValuesOK
<1>9. PendingOK(c)'
  BY <1>3, <1>4, <1>5 DEF StreamsOK, PendingOK
<1>10. BufOK(c)'
  BY <1>3, <1>4, <1>5, <1>6 DEF StreamsOK, BufOK, Requests
<1>11. RequestsOK(c)'
  BY <1>3, <1>5 DEF serverVars, StreamsOK, RequestsOK, Requests
<1>12. FlushingOK(c)'
  BY <1>3, <1>4, <1>5, <1>6 DEF serverVars, StreamsOK, FlushingOK
<1>13. /\ clientEnd[c] = "open" /\ Replies(r)
       /\ Live(c) => Whole(r, ReplySizes)
       /\ \A i \in 1..Len(r) :
            /\ InPipeline(c, r[i].request)
            /\ r[i].accept_stat = SUCCESS => r[i].request.xid <= Len(executed[c])
  BY <1>5 DEF StreamsOK, RepliesOK
<1>14. ReplyStream(c)' = t /\ n <= Len(r)
  <2>1. PICK u \in Seq(Reply) : r = replies[c] \o u /\ ReplyStream(c)' = replies'[c] \o u
    <3>1. toClient[c] \in Seq(Reply) /\ Undelivered(c) \in Seq(Reply)
      BY ConnectionTypes
    <3> QED BY <1>3, <1>5, <3>1 DEF ReplyStream
  <2>2. After(replies[c], n) \o u = After(replies[c] \o u, n)
    BY <1>1, <1>2, DroppedHead
  <2>3. Len(r) = Len(replies[c]) + Len(u) /\ Len(replies[c]) \in Nat /\ Len(u) \in Nat
    BY <1>1, <1>2, <2>1, HeadOfTwo
  <2>4. n <= Len(r)
    BY <1>1, <2>3
  <2> QED BY <1>3, <2>1, <2>2, <2>4
<1>15. /\ Replies(t) /\ (Whole(r, ReplySizes) => Whole(t, ReplySizes))
       /\ \A i \in 1..Len(t) : \E k \in 1..Len(r) : t[i] = r[k]
       /\ IF t = <<>> THEN r[Len(r)] = r[1]
          ELSE t[1].request.xid = x + 1 /\ t[Len(t)] = r[Len(r)]
  <2>1. FirstTaken(r, t)
    BY <1>1, <1>14 DEF FirstTaken
  <2>2. Taken(r, t)
    BY <1>13, <2>1, ReplyTaken
  <2> QED BY <1>1, <2>2 DEF Taken
<1>16. x + 1 = b + nr_replied'[c] + 1
  BY <1>2, <1>3
<1>17. RepliesOK(c)'
  <2>1. \A i \in 1..Len(t) :
          /\ InPipeline(c, t[i].request)
          /\ t[i].accept_stat = SUCCESS => t[i].request.xid <= Len(executed[c])
    BY <1>13, <1>15
  <2>2. \A i \in 1..Len(t) :
          /\ InPipeline(c, t[i].request)'
          /\ t[i].accept_stat = SUCCESS => t[i].request.xid <= Len(executed'[c])
    BY <1>3, <1>6, <2>1 DEF serverVars
  <2>3. Base(c)' = b
    BY <1>5
  <2> QED BY <1>3, <1>5, <1>13, <1>14, <1>15, <1>16, <2>2, <2>3 DEF RepliesOK, Replies
<1>18. AnswersOK(c)'
  <2> SUFFICES ASSUME Live(c) PROVE AnswersOK(c)'
    BY <1>5 DEF AnswersOK
  <2>1. /\ has_error[c] = FALSE <=> r[Len(r)].accept_stat = SUCCESS
        /\ has_error[c] = FALSE => r[Len(r)].request.xid = Len(executed[c])
    BY <1>1, <1>5 DEF StreamsOK, AnswersOK
  <2>2. x = b + nr_replied'[c]
    BY <1>2, <1>3
  <2>3. CASE t = <<>>
    <3>1. has_error[c] = FALSE /\ Len(executed[c]) = b + nr_replied'[c]
      BY <1>1, <1>15, <2>1, <2>2, <2>3
    <3> QED BY <1>3, <1>5, <1>14, <2>3, <3>1 DEF AnswersOK, serverVars
  <2>4. CASE t # <<>>
    <3>1. t[Len(t)] = r[Len(r)]
      BY <1>15, <2>4
    <3> QED BY <1>3, <1>5, <1>14, <2>1, <2>4, <3>1 DEF AnswersOK, serverVars
  <2> QED BY <2>3, <2>4
<1> QED BY <1>7, <1>8, <1>9, <1>10, <1>11, <1>12, <1>17, <1>18 DEF StreamsOK

\* When Flush returns with every reply nothing is on its way any more.
LEMMA FlushDoneStreams ==
  ASSUME RpcInv, NEW c \in Clients, StreamsOK(c), UNCHANGED serverVars, FlushDone(c)
  PROVE  StreamsOK(c)'
<1> SUFFICES ASSUME NEW r, r = ReplyStream(c), NEW s, s = RequestStream(c),
                    NEW b, b = Base(c), NEW k, k = Len(pending[c]),
                    NEW n, n = Len(results[c])
             PROVE  StreamsOK(c)'
  OBVIOUS
<1>1. /\ phase[c] = "parsing" /\ nr_replied[c] = k /\ replies[c] = <<>>
      /\ phase'[c] = "idle" /\ replies'[c] = <<>> /\ buf'[c] = <<>> /\ pending'[c] = <<>>
      /\ UNCHANGED <<toServer, toClient, clientEnd, serverEnd, results>>
      /\ UNCHANGED serverVars
  BY DEF FlushDone, AllReplied, Finalize, network, RpcInv, ClientInv, ClientTypeOK
<1>2. /\ k \in Nat /\ n \in Nat /\ b = n - k /\ b \in Int /\ InFlush(c)
      /\ toClient[c] \in Seq(Reply) /\ Undelivered(c) \in Seq(Reply)
  BY <1>1, ConnectionTypes, ClientTypes DEF RpcInv, Base, InFlush
<1>3. /\ Replies(r) /\ (r # <<>> => r[1].request.xid = b + k + 1)
      /\ \A i \in 1..Len(r) : InPipeline(c, r[i].request)
  BY <1>1, <1>2 DEF StreamsOK, RepliesOK
<1>4. r = <<>>
  <2> SUFFICES ASSUME r # <<>> PROVE FALSE
    OBVIOUS
  <2>1. 1 \in 1..Len(r)
    BY <1>3, ReplyFraming, StreamTypes DEF Replies
  <2>2. (b + k + 1) - b \in 1..k
    BY <1>3, <2>1 DEF InPipeline
  <2> QED BY <1>2, <2>2
<1>5. toClient[c] = <<>> /\ (Live(c) => Undelivered(c) = <<>>)
  <2>1. \A q \in Seq(Reply) : <<>> \o q = q
    BY ConcatSimplifications
  <2>2. CASE Live(c)
    <3>1. r = <<>> \o Undelivered(c)
      BY <1>1, <2>2 DEF ReplyStream
    <3>2. Undelivered(c) = <<>>
      BY <1>2, <1>4, <2>1, <3>1
    <3>3. toClient[c] \in Seq(Reply) /\ outbuf[c].data \in Seq(Reply)
      BY ConnectionTypes
    <3>4. toClient[c] = <<>>
      BY <3>2, <3>3, ConcatSimplifications DEF Undelivered
    <3> QED BY <3>2, <3>4
  <2>3. CASE ~Live(c)
    <3>1. r = <<>> \o toClient[c]
      BY <1>1, <2>3 DEF ReplyStream
    <3> QED BY <1>2, <1>4, <2>1, <2>3, <3>1
  <2> QED BY <2>2, <2>3
<1>6. Live(c) => has_error[c] = FALSE /\ Len(executed[c]) = n
  <2> SUFFICES ASSUME Live(c) PROVE has_error[c] = FALSE /\ Len(executed[c]) = n
    OBVIOUS
  <2>1. has_error[c] = FALSE /\ Len(executed[c]) = b + k
    BY <1>1, <1>2, <1>4 DEF StreamsOK, AnswersOK
  <2>2. b + k = n
    BY <1>2
  <2> QED BY <2>1, <2>2
<1>7. Live(c) => s = <<>>
  <2> SUFFICES ASSUME Live(c), s # <<>> PROVE FALSE
    OBVIOUS
  <2>1. Accepting(c)
    BY <1>6 DEF Accepting
  <2>2. Requests(s) /\ s[1].xid = n + 1 /\ \A i \in 1..Len(s) : InPipeline(c, s[i])
    BY <1>2, <1>6, <2>1 DEF StreamsOK, RequestsOK, FlushingOK
  <2>3. 1 \in 1..Len(s)
    BY <2>2, RequestFraming, StreamTypes DEF Requests
  <2>4. (n + 1) - b \in 1..k
    BY <2>2, <2>3 DEF InPipeline
  <2> QED BY <1>2, <2>4
<1>8. PendingOK(c)' /\ BufOK(c)' /\ Base(c)' = n
  BY <1>1, <1>2, EmptyPipeline
<1>9. /\ Live(c)' = Live(c) /\ Accepting(c)' = Accepting(c) /\ ~InFlush(c)'
      /\ RequestStream(c)' = s /\ Undelivered(c)' = Undelivered(c)
      /\ (Working(c)' <=> Working(c))
  BY <1>1 DEF serverVars, Live, Accepting, InFlush, RequestStream, Working, Undelivered
<1>10. NewOK(c)' /\ LoopOK(c)' /\ ExecutedOK(c)' /\ ValuesOK(c)'
  BY <1>1, <1>9 DEF serverVars, StreamsOK, NewOK, LoopOK, ExecutedOK, ValuesOK
<1>11. RequestsOK(c)' /\ FlushingOK(c)' /\ RepliesOK(c)' /\ AnswersOK(c)'
  BY <1>1, <1>9 DEF serverVars, StreamsOK, RequestsOK, Requests, FlushingOK, RepliesOK,
     AnswersOK
<1>12. IdleOK(c)'
  BY <1>1, <1>5, <1>6, <1>7, <1>8, <1>9 DEF IdleOK, serverVars
<1> QED BY <1>8, <1>10, <1>11, <1>12 DEF StreamsOK

-----------------------------------------------------------------------------
LEMMA StreamsInitially == Init => StreamsInv
<1> SUFFICES ASSUME Init, NEW c \in Clients PROVE StreamsOK(c)
  BY DEF StreamsInv
<1>1. /\ phase[c] = "new" /\ buf[c] = <<>> /\ pending[c] = <<>> /\ nr_replied[c] = 0
      /\ replies[c] = <<>> /\ results[c] = <<>>
      /\ toServer[c] = <<>> /\ toClient[c] = <<>> /\ clientEnd[c] = "none"
      /\ serverEnd[c] = "none" /\ inbuf[c].data = <<>> /\ outbuf[c].data = <<>>
      /\ has_error[c] = FALSE /\ executed[c] = <<>> /\ srv.at = "poll"
  BY DEF Init, NetworkInit, ServerInit, ClientInit, EmptyBuffer, Idle
<1>2. ~Live(c) /\ ~InFlush(c) /\ ~Working(c) /\ Len(<<>>) = 0
  BY <1>1, EmptySeq DEF Live, InFlush, Working
<1>3. NewOK(c) /\ LoopOK(c) /\ RequestsOK(c) /\ FlushingOK(c) /\ RepliesOK(c) /\ AnswersOK(c)
      /\ IdleOK(c)
  BY <1>1, <1>2 DEF NewOK, LoopOK, RequestsOK, FlushingOK, RepliesOK, AnswersOK, IdleOK,
     Accepting
<1>4. ExecutedOK(c) /\ ValuesOK(c) /\ PendingOK(c)
  BY <1>1, <1>2 DEF ExecutedOK, ValuesOK, PendingOK
<1>5. BufOK(c)
  BY <1>1, <1>2, NothingStreams DEF BufOK, Requests
<1> QED BY <1>3, <1>4, <1>5 DEF StreamsOK

LEMMA ClientStreams ==
  ASSUME RpcInv, StreamsInv, NEW d \in Clients, Client(d)
  PROVE  StreamsInv'
<1>1. StreamsOK(d) /\ UNCHANGED serverVars
  BY DEF StreamsInv, Client
<1>2. ASSUME NEW c \in Clients, c # d PROVE StreamsOK(c)'
  BY <1>2, OtherClients, Untouched DEF StreamsInv
<1>3. StreamsOK(d)'
  <2>1. CASE Connect(d)
    BY <1>1, <2>1, ConnectStreams
  <2>2. ASSUME NEW call \in Calls, Send(d, call) PROVE StreamsOK(d)'
    BY <1>1, <2>2, SendStreams
  <2>3. CASE FlushWrite(d)
    BY <1>1, <2>3, FlushWriteStreams
  <2>4. CASE FlushWriteFails(d) \/ ReadRepliesFails(d) \/ ParseFails(d)
    BY <1>1, <2>4, FailStreams DEF FlushWriteFails, ReadRepliesFails, ParseFails
  <2>5. CASE Killed(d) \/ Leave(d)
    BY <1>1, <2>5, VanishStreams DEF Killed, Leave
  <2>6. CASE ReadReplies(d) \/ ParseMore(d)
    BY <1>1, <2>6, ReadStreams
  <2>7. CASE ParseReply(d)
    BY <1>1, <2>7, ParseReplyStreams
  <2>8. CASE FlushDone(d)
    BY <1>1, <2>8, FlushDoneStreams
  <2> QED BY <2>1, <2>2, <2>3, <2>4, <2>5, <2>6, <2>7, <2>8 DEF Client, ProgramStep, FlushStep
<1> QED BY <1>2, <1>3 DEF StreamsInv

LEMMA StreamsNext ==
  ASSUME RpcInv, StreamsInv, [Next]_vars
  PROVE  StreamsInv'
<1>1. ASSUME NEW d \in Clients, Server(d) PROVE StreamsInv'
  BY <1>1, ServerStreams DEF Server
<1>2. ASSUME NEW d \in Clients, Client(d) PROVE StreamsInv'
  BY <1>2, ClientStreams
<1>3. ASSUME Stop, UNCHANGED clientVars PROVE StreamsInv'
  BY <1>3, AllEnd DEF Stop, Idle
<1>4. ASSUME UNCHANGED vars PROVE StreamsInv'
  <2> SUFFICES ASSUME NEW c \in Clients PROVE StreamsOK(c)'
    BY DEF StreamsInv
  <2>1. SameClient(c) /\ SameConnection(c) /\ (Working(c)' => Working(c))
    BY <1>4 DEF vars, network, serverVars, clientVars, SameClient, SameConnection, Working
  <2> QED BY <2>1, Untouched DEF StreamsInv
<1> QED BY <1>1, <1>2, <1>3, <1>4 DEF Next

\* The streams carry whole requests and replies in the order of the calls.
THEOREM StreamsInvariance == Spec => []StreamsInv
BY StreamsInitially, StreamsNext, RpcInvariance, PTL DEF Spec

\* Calls are executed in the order they were sent and each at most once, and a Result
\* gets its value from the reply to its own call, for any number of clients and calls and
\* whatever the sizes of buffers, calls and kernel are.
THEOREM RepliesMatchCalls == Spec => []ResultsMatch
<1>1. ASSUME RpcInv, StreamsInv PROVE ResultsMatch
  <2> SUFFICES ASSUME NEW c \in Clients
               PROVE  /\ \A i \in DOMAIN executed[c] : executed[c][i] = i
                      /\ \A x \in DOMAIN results[c] : results[c][x].is = "value" =>
                           results[c][x].of.xid = x /\ x \in DOMAIN executed[c]
    BY DEF ResultsMatch
  <2>1. executed[c] \in Seq(Nat) /\ DOMAIN results[c] = 1..Len(results[c])
    BY <1>1, ConnectionTypes, ClientTypes DEF RpcInv
  <2>2. DOMAIN executed[c] = 1..Len(executed[c]) /\ Len(executed[c]) \in Nat
    BY <2>1, LenProperties
  <2>3. ExecutedOK(c) /\ ValuesOK(c)
    BY <1>1 DEF StreamsInv, StreamsOK
  <2>4. \A x \in 1..Len(results[c]) : x <= Len(executed[c]) => x \in 1..Len(executed[c])
    BY <2>2
  <2> QED BY <2>1, <2>2, <2>3, <2>4 DEF ExecutedOK, ValuesOK
<1> QED BY <1>1, RpcInvariance, StreamsInvariance, PTL

-----------------------------------------------------------------------------
\* A server that runs, and calls within the limits

\* The calls are of the sizes the library is made for, and the kernel takes the replies to
\* a pipeline: in the program 8 times 128 bytes.
Sized == (\A call \in Calls : WithinLimits(call)) /\ InBufferSize <= SendBuffer

Served(c) == phase[c] \in {"idle", "reading", "parsing"}

\* What bytes the replies to n calls have at most
Budget(n) == n * MaxResponseSize

\* The connection of a client is open at both ends and without an error; whatever the
\* server has read it has answered but for a part of a request, and whatever it has
\* answered is written.
ConnectionHealthy(c) ==
  /\ clientEnd[c] = "open" /\ Live(c) /\ has_error[c] = FALSE
  /\ outbuf[c].data # <<>> => At("reply", c)
  /\ Len(inbuf[c].data) >= MaxRequestSize => At("process", c) \/ At("reply", c)
  /\ InFlush(c) =>
       insz[c] + Len(Undelivered(c)) <= Budget(Len(executed[c]) - Base(c))

HealthyOK(c) ==
  /\ \A x \in DOMAIN results[c] : results[c][x].is # "error"
  /\ phase[c] \in {"new", "idle"} => insz[c] = 0
  /\ Served(c) => ConnectionHealthy(c)

HealthInv == ServerUp => \A c \in Clients : HealthyOK(c)

LEMMA Budgets ==
  /\ \A n \in Nat : Budget(n) \in Nat
  /\ \A n \in Nat : Budget(n + 1) = Budget(n) + MaxResponseSize
  /\ \A n \in 0..MaxPipelineRequests : Budget(n) <= InBufferSize
<1>1. \A n, m \in Nat : n * m \in Nat /\ (n + 1) * m = n * m + m
  OBVIOUS
<1>2. \A n, m, k \in Nat : n <= k => n * m <= k * m
  OBVIOUS
<1>3. MaxPipelineRequests \in Nat /\ MaxResponseSize \in Nat
  BY SizesAssumption
<1>4. \A n \in 0..MaxPipelineRequests : n \in Nat /\ n <= MaxPipelineRequests
  BY <1>3
<1> QED BY <1>1, <1>2, <1>3, <1>4 DEF Budget, InBufferSize


\* What has been executed of a pipeline: as much as has its reply, or more
LEMMA ExecutedPlaces ==
  ASSUME NEW b \in Int, NEW k \in Nat, NEW e \in Nat, NEW n \in Nat, n <= k,
         e = b + n \/ e - b \in 1..k
  PROVE  e - b \in 0..k
OBVIOUS

LEMMA ExecutedInPipeline ==
  ASSUME RpcInv, NEW c \in Clients, StreamsOK(c), Accepting(c), InFlush(c)
  PROVE  Len(executed[c]) - Base(c) \in 0..Len(pending[c])
<1>1. /\ Base(c) \in Int /\ Len(pending[c]) \in Nat /\ Len(executed[c]) \in Nat
      /\ nr_replied[c] \in Nat /\ nr_replied[c] <= Len(pending[c])
  BY ConnectionTypes, ClientTypes DEF RpcInv, PipelineOK
<1>2. Live(c) /\ has_error[c] = FALSE
  BY DEF Accepting
<1>3. CASE ReplyStream(c) = <<>>
  <2>1. Len(executed[c]) = Base(c) + nr_replied[c]
    BY <1>2, <1>3 DEF StreamsOK, AnswersOK
  <2> QED BY <1>1, <2>1, ExecutedPlaces
<1>4. CASE ReplyStream(c) # <<>>
  <2>1. Len(ReplyStream(c)) \in 1..Len(ReplyStream(c))
    <3>1. Stream(ReplyStream(c), Reply, ReplySizes, NextReply)
      BY DEF StreamsOK, RepliesOK, Replies
    <3> QED BY <1>4, <3>1, ReplyFraming, StreamTypes
  <2>2. InPipeline(c, ReplyStream(c)[Len(ReplyStream(c))].request)
    BY <2>1 DEF StreamsOK, RepliesOK
  <2>3. ReplyStream(c)[Len(ReplyStream(c))].request.xid = Len(executed[c])
    BY <1>2, <1>4 DEF StreamsOK, AnswersOK
  <2>4. Len(executed[c]) - Base(c) \in 1..Len(pending[c])
    BY <2>2, <2>3 DEF InPipeline
  <2> QED BY <1>1, <2>4, ExecutedPlaces
<1> QED BY <1>3, <1>4

LEMMA Within ==
  ASSUME NEW i \in Nat, NEW u \in Nat, NEW b \in Nat, NEW size \in Nat,
         i + u <= b, b <= size
  PROVE  i + u <= size /\ u <= size
OBVIOUS

\* A client never waits for more replies than fit into its buffer or the kernel.
LEMMA RepliesFit ==
  ASSUME RpcInv, NEW c \in Clients, StreamsOK(c), ConnectionHealthy(c), Served(c), Sized
  PROVE  /\ InFlush(c) => /\ insz[c] + Len(Undelivered(c)) <= InBufferSize
                          /\ Len(executed[c]) - Base(c) \in Nat
         /\ Len(Undelivered(c)) = Len(toClient[c]) + Len(outbuf[c].data)
         /\ Len(Undelivered(c)) <= SendBuffer
         /\ Len(toClient[c]) \in Nat /\ Len(outbuf[c].data) \in Nat
<1>1. Accepting(c)
  BY DEF ConnectionHealthy, Accepting
<1>2. /\ Len(Undelivered(c)) = Len(toClient[c]) + Len(outbuf[c].data)
      /\ Len(toClient[c]) \in Nat /\ Len(outbuf[c].data) \in Nat
  <2>1. toClient[c] \in Seq(Reply) /\ outbuf[c].data \in Seq(Reply)
    BY ConnectionTypes
  <2> QED BY <2>1, ConcatProperties, LenProperties DEF Undelivered
<1>3. Len(Undelivered(c)) \in Nat /\ insz[c] \in Nat /\ InBufferSize \in Nat /\ SendBuffer \in Nat
  <2>1. Len(Undelivered(c)) \in Nat
    BY ConnectionTypes, LenProperties
  <2>2. insz[c] \in Nat
    BY ClientLengths DEF RpcInv, Lengths
  <2> QED BY <2>1, <2>2, Sizes, SizesAssumption
<1>4. ASSUME InFlush(c)
      PROVE  /\ insz[c] + Len(Undelivered(c)) <= InBufferSize
             /\ Len(Undelivered(c)) <= InBufferSize
             /\ Len(executed[c]) - Base(c) \in Nat
  <2>1. insz[c] + Len(Undelivered(c)) <= Budget(Len(executed[c]) - Base(c))
    BY <1>4 DEF ConnectionHealthy
  <2>2. Len(executed[c]) - Base(c) \in 0..MaxPipelineRequests
    <3>1. Len(pending[c]) \in Nat /\ Len(pending[c]) <= MaxPipelineRequests
      BY ClientTypes DEF RpcInv, PipelineOK
    <3>2. MaxPipelineRequests \in Nat
      BY SizesAssumption
    <3> QED BY <1>1, <1>4, <3>1, <3>2, ExecutedInPipeline
  <2>3. Len(executed[c]) - Base(c) \in Nat
    BY <2>2, SizesAssumption
  <2>4. /\ Budget(Len(executed[c]) - Base(c)) <= InBufferSize
        /\ Budget(Len(executed[c]) - Base(c)) \in Nat
    BY <2>2, <2>3, Budgets
  <2> QED BY <1>3, <2>1, <2>3, <2>4, Within
<1>5. Len(Undelivered(c)) <= SendBuffer
  <2>1. CASE InFlush(c)
    <3>1. InBufferSize <= SendBuffer
      BY DEF Sized
    <3> QED BY <1>3, <1>4, <2>1, <3>1
  <2>2. CASE ~InFlush(c)
    <3>1. Undelivered(c) = <<>>
      BY <1>1, <2>2 DEF Accepting, Served, InFlush, ConnectionHealthy, StreamsOK, IdleOK
    <3> QED BY <1>3, <3>1, EmptySeq
  <2> QED BY <2>1, <2>2
<1> QED BY <1>2, <1>4, <1>5

-----------------------------------------------------------------------------
\* A server that runs, and calls within the limits: steps of the server

LEMMA HealthyStays ==
  ASSUME NEW c \in Clients, HealthyOK(c), SameClient(c), SameConnection(c),
         insz'[c] = insz[c], srv' = srv \/ ~Working(c)
  PROVE  HealthyOK(c)'
<1>1. /\ Live(c)' = Live(c) /\ InFlush(c)' = InFlush(c) /\ Base(c)' = Base(c)
      /\ Undelivered(c)' = Undelivered(c) /\ Served(c)' = Served(c)
  BY DEF SameClient, SameConnection, Live, InFlush, Undelivered, Base, Served
<1>2. ConnectionHealthy(c) => ConnectionHealthy(c)'
  BY <1>1 DEF SameClient, SameConnection, ConnectionHealthy, At, Working
<1> QED BY <1>1, <1>2 DEF SameClient, HealthyOK

\* A step of the server that executes nothing and after which no reply waits
LEMMA ServerKeepsHealth ==
  ASSUME NEW c \in Clients, HealthyOK(c), ConnectionHealthy(c), UNCHANGED clientVars,
         executed'[c] = executed[c], has_error'[c] = has_error[c],
         clientEnd'[c] = clientEnd[c], Live(c)', Len(Undelivered(c))' = Len(Undelivered(c)),
         outbuf'[c].data = <<>>,
         Len(inbuf'[c].data) >= MaxRequestSize => At("process", c)' \/ At("reply", c)'
  PROVE  HealthyOK(c)'
<1>1. InFlush(c)' = InFlush(c) /\ Base(c)' = Base(c)
  BY DEF clientVars, InFlush, Base
<1>2. ConnectionHealthy(c)'
  BY <1>1 DEF clientVars, ConnectionHealthy
<1> QED BY <1>2 DEF clientVars, HealthyOK

LEMMA SameLength ==
  ASSUME NEW T, NEW x \in Seq(T), NEW s \in Seq(T), NEW t \in Seq(T), Len(s) = Len(t)
  PROVE  Len((x \o s) \o <<>>) = Len(x \o t)
<1>1. x \o s \in Seq(T) /\ Len(x \o s) = Len(x) + Len(s)
  BY ConcatProperties
<1>2. Len(x \o t) = Len(x) + Len(t)
  BY ConcatProperties
<1>3. (x \o s) \o <<>> = x \o s
  BY <1>1, ConcatEmptySeq
<1> QED BY <1>1, <1>2, <1>3

\* The kernel takes all of outbuf.
LEMMA AllWritten ==
  ASSUME RpcInv, NEW c \in Clients, StreamsOK(c), ConnectionHealthy(c), Served(c), Sized,
         NEW next, WriteSome(c, next)
  PROVE  outbuf'[c].data = <<>> /\ Len(Undelivered(c))' = Len(Undelivered(c))
<1> DEFINE out == outbuf[c].data
           n   == AtMost(Len(out), SendBuffer - Len(toClient[c]))
<1>1. clientEnd[c] = "open"
  BY DEF ConnectionHealthy
<1>2. /\ outbuf[c] \in [start : Nat, data : Seq(Reply)] /\ toClient[c] \in Seq(Reply)
      /\ outbuf = [e \in Clients |-> outbuf[e]] /\ toClient = [e \in Clients |-> toClient[e]]
  BY DEF RpcInv, NetworkInv, NetworkTypeOK, ServerInv, ServerTypeOK
<1>3. outbuf'[c].data = After(out, n) /\ toClient'[c] = toClient[c] \o Before(out, n)
  BY <1>1, <1>2 DEF WriteSome
<1>4. n = Len(out) /\ Len(out) \in Nat /\ Len(out) \in 0..Len(out)
  <2>1. /\ Len(toClient[c]) + Len(out) <= SendBuffer
        /\ Len(toClient[c]) \in Nat /\ Len(out) \in Nat
    BY RepliesFit
  <2> HIDE DEF out
  <2> QED BY <2>1, SizesAssumption DEF AtMost
<1> HIDE DEF n
<1>5. /\ After(out, n) \in Seq(Reply) /\ Len(After(out, n)) = 0
      /\ Before(out, n) \in Seq(Reply) /\ Len(Before(out, n)) = Len(out)
  <2>1. out \in Seq(Reply)
    BY <1>2
  <2>2. /\ After(out, n) \in Seq(Reply) /\ Len(After(out, n)) = Len(out) - Len(out)
        /\ Before(out, n) \in Seq(Reply) /\ Len(Before(out, n)) = Len(out)
    BY <1>4, <2>1, Cut
  <2> QED BY <1>4, <2>2
<1>6. After(out, n) = <<>>
  BY <1>5, EmptySeq
<1>7. Len((toClient[c] \o Before(out, n)) \o <<>>) = Len(toClient[c] \o out)
  <2>1. out \in Seq(Reply)
    BY <1>2
  <2> HIDE DEF out
  <2> QED BY <1>2, <1>5, <2>1, SameLength
<1> QED BY <1>3, <1>6, <1>7 DEF Undelivered

\* Where the loop has read nothing and answered nothing for c
LEMMA Rests ==
  ASSUME NEW c \in Clients, ConnectionHealthy(c), ~At("process", c), ~At("reply", c)
  PROVE  outbuf[c].data = <<>> /\ ~(Len(inbuf[c].data) >= MaxRequestSize)
BY DEF ConnectionHealthy

\* What epoll_wait reports, a read of nothing, and the end of the loop's body
NothingMoves(c) ==
  \/ OnNewConnection(c) \/ OnConnectionEvent(c) \/ ReadNothing(c)
  \/ FinishEvent(c) /\ ~CloseConnection(c)

LEMMA EventsKeepHealth ==
  ASSUME RpcInv, NEW c \in Clients, HealthyOK(c), ConnectionHealthy(c), UNCHANGED clientVars,
         NothingMoves(c)
  PROVE  HealthyOK(c)'
<1>1. serverEnd = [e \in Clients |-> serverEnd[e]]
  BY DEF RpcInv, NetworkInv, NetworkTypeOK
<1>2. ~At("process", c) /\ ~At("reply", c)
  BY DEF NothingMoves, OnNewConnection, OnConnectionEvent, ReadNothing, FinishEvent, At
<1>3. /\ UNCHANGED <<executed, has_error, clientEnd, toClient, outbuf, inbuf>> /\ Live(c)'
      /\ Live(c)
  BY <1>1 DEF NothingMoves, OnNewConnection, OnConnectionEvent, ReadNothing, FinishEvent,
     ConnectionHealthy, Live, network
<1>4. Undelivered(c)' = Undelivered(c)
  BY <1>3 DEF Undelivered
<1> QED BY <1>2, <1>3, <1>4, Rests, ServerKeepsHealth

LEMMA ReadKeepsHealth ==
  ASSUME RpcInv, NEW c \in Clients, HealthyOK(c), ConnectionHealthy(c), UNCHANGED clientVars,
         ReadConnectionBuffer(c)
  PROVE  HealthyOK(c)'
<1>1. ~At("process", c) /\ ~At("reply", c) /\ At("process", c)'
  BY DEF ReadConnectionBuffer, At, GoOn, RpcInv, ServerInv, ServerTypeOK
<1>2. UNCHANGED <<executed, has_error, clientEnd, toClient, outbuf, serverEnd>>
  BY DEF ReadConnectionBuffer
<1>3. Undelivered(c)' = Undelivered(c) /\ Live(c)' = Live(c)
  BY <1>2 DEF Undelivered, Live
<1> QED BY <1>1, <1>2, <1>3, Rests, ServerKeepsHealth DEF ConnectionHealthy

LEMMA WriteKeepsHealth ==
  ASSUME RpcInv, NEW c \in Clients, StreamsOK(c), HealthyOK(c), ConnectionHealthy(c),
         Served(c), Sized, UNCHANGED clientVars, WriteReady(c) \/ WriteReply(c)
  PROVE  HealthyOK(c)'
<1>1. clientEnd[c] = "open"
  BY DEF ConnectionHealthy
<1>2. clientEnd = [e \in Clients |-> clientEnd[e]]
  BY DEF RpcInv, NetworkInv, NetworkTypeOK
<1>3. PICK next : WriteSome(c, next) /\ (At("write", c) \/ next = "process")
  BY <1>1 DEF WriteReady, WriteReply, Writing, WriteFails
<1>4. At("write", c) \/ At("process", c)'
  BY <1>3 DEF WriteReady, WriteReply, WriteSome, At, GoOn, RpcInv, ServerInv, ServerTypeOK
<1>5. At("write", c) => ~At("process", c) /\ ~At("reply", c)
  BY DEF At
<1>6. UNCHANGED <<executed, has_error, clientEnd, serverEnd, inbuf>>
  BY <1>1, <1>3 DEF WriteSome
<1>7. outbuf'[c].data = <<>> /\ Len(Undelivered(c))' = Len(Undelivered(c))
  BY <1>3, AllWritten
<1>8. Live(c)' /\ clientEnd'[c] = clientEnd[c] /\ inbuf'[c] = inbuf[c]
  BY <1>6 DEF ConnectionHealthy, Live
<1>9. Len(inbuf'[c].data) >= MaxRequestSize => At("process", c)'
  BY <1>4, <1>5, <1>8, Rests
<1> QED BY <1>6, <1>7, <1>8, <1>9, ServerKeepsHealth

\* A running server whose client is there and within the limits does not close.
LEMMA NothingBreaks ==
  ASSUME RpcInv, NEW c \in Clients, ConnectionHealthy(c),
         OnConnectionError(c) \/ ReadFails(c) \/ (FinishEvent(c) /\ CloseConnection(c))
  PROVE  FALSE
<1>1. clientEnd[c] = "open" /\ has_error[c] = FALSE /\ Live(c)
  BY DEF ConnectionHealthy
<1>2. CASE OnConnectionError(c) \/ ReadFails(c)
  BY <1>1, <1>2 DEF OnConnectionError, ReadFails
<1>3. CASE FinishEvent(c) /\ CloseConnection(c)
  <2>1. ConnectionPollMask(inbuf[c], outbuf[c]) # {}
    <3>1. /\ inbuf[c] \in [start : Nat, data : Seq(Request)]
          /\ inbuf[c].start + Len(inbuf[c].data) <= MaxInBuf
      BY DEF RpcInv, ServerInv, ServerTypeOK
    <3>2. ~(Len(inbuf[c].data) >= MaxRequestSize)
      BY <1>3, Rests DEF FinishEvent, At
    <3>3. Len(inbuf[c].data) \in Nat /\ inbuf[c].start \in Nat
      BY <3>1, LenProperties
    <3>4. residual_size(inbuf[c], MaxInBuf) > 0 \/ inbuf[c].start > 0
      <4>1. \A k \in Nat, start \in Nat, m \in Nat :
              m > 0 /\ ~(k >= m) => 2 * m - (start + k) > 0 \/ start > 0
        OBVIOUS
      <4>2. MaxRequestSize \in Nat /\ MaxRequestSize > 0
        BY SizesAssumption
      <4> QED BY <3>2, <3>3, <4>1, <4>2 DEF residual_size, MaxInBuf
    <3> QED BY <3>4 DEF ConnectionPollMask
  <2>2. serverEnd[c] = "open" \/ serverEnd[c] = "backlog"
    BY <1>1 DEF Live
  <2>3. serverEnd'[c] \notin {"open", "backlog"}
    BY <1>3 DEF CloseConnection, Closed, RpcInv, NetworkInv, NetworkTypeOK
  <2>4. UNCHANGED serverEnd
    BY <1>1, <1>3, <2>1 DEF FinishEvent
  <2> QED BY <2>2, <2>3, <2>4
<1> QED BY <1>2, <1>3

\* A request to be handled is one of the calls, and known to the server.
LEMMA CallsKnown ==
  ASSUME RpcInv, Sized, NEW c \in Clients, Complete(inbuf[c])
  PROVE  /\ Head(inbuf[c].data) \in Request /\ Head(inbuf[c].data).call.exported
         /\ WithinLimits(Head(inbuf[c].data).call)
<1>1. inbuf[c].data \in Seq(Request)
  BY ConnectionTypes
<1>2. Len(inbuf[c].data) >= CallBody
  BY DEF Complete
<1>3. inbuf[c].data # <<>>
  BY <1>1, <1>2, SizesAssumption, LenProperties, EmptySeq
<1>4. Head(inbuf[c].data) \in Request
  BY <1>1, <1>3, HeadTailProperties
<1>5. Head(inbuf[c].data).call \in Calls
  BY <1>4 DEF Request
<1> QED BY <1>4, <1>5 DEF Sized, WithinLimits

\* The result of a call within the limits fits: it gets its reply without an error.
LEMMA Succeeds ==
  ASSUME RpcInv, Sized, NEW c \in Clients, RejectCall(c) \/ ExecuteCall(c)
  PROVE  has_error'[c] = FALSE /\ srv'.at = "reply" /\ srv'.client = c
<1> DEFINE req   == Head(inbuf[c].data)
           reply == [request |-> req, accept_stat |-> SUCCESS]
           room  == residual_size(Slide(outbuf[c], MaxOutBuf, MaxResponseSize), MaxOutBuf)
<1>1. Complete(inbuf[c]) /\ Processing(c)
  BY DEF RejectCall, ExecuteCall
<1>2. req.call.exported /\ WithinLimits(req.call) /\ req \in Request
  BY <1>1, CallsKnown
<1>3. ExecuteCall(c)
  BY <1>2 DEF RejectCall
<1>4. room > MaxResponseSize /\ room \in Int
  <2>1. Slide(outbuf[c], MaxOutBuf, MaxResponseSize) \in [start : Nat, data : Seq(Reply)]
    BY SlidBuffers
  <2>2. /\ Slide(outbuf[c], MaxOutBuf, MaxResponseSize).start \in Nat
        /\ Len(Slide(outbuf[c], MaxOutBuf, MaxResponseSize).data) \in Nat
    BY <2>1, LenProperties
  <2>3. room \in Int
    BY <2>2, Sizes DEF residual_size
  <2> QED BY <1>1, <2>3 DEF Processing
<1>5. AcceptHeader + req.call.result <= room
  <2>1. req.call.result \in Nat
    BY <1>2, CallsAssumption DEF Request, Call
  <2>2. AcceptHeader + req.call.result <= MaxResponseSize
    BY <1>2 DEF WithinLimits
  <2> HIDE DEF room, req
  <2> QED BY <1>4, <2>1, <2>2, SizesAssumption
<1>6. Handled(c, reply, RequestSize(req))
  BY <1>3, <1>5 DEF ExecuteCall
<1>7. has_error' = [has_error EXCEPT ![c] = FALSE] /\ GoOn("reply")
  <2>1. has_error' = [has_error EXCEPT ![c] = reply.accept_stat # SUCCESS] /\ GoOn("reply")
    BY <1>6 DEF Handled
  <2>2. (reply.accept_stat # SUCCESS) = FALSE
    OBVIOUS
  <2> QED BY <2>1, <2>2
<1>8. has_error'[c] = FALSE
  BY <1>7 DEF RpcInv, ServerInv, ServerTypeOK
<1>9. srv'.at = "reply" /\ srv'.client = c
  BY <1>1, <1>7, LoopGoesOn DEF Processing, At
<1> QED BY <1>8, <1>9

LEMMA Grows ==
  ASSUME NEW i \in Nat, NEW u \in Nat, NEW b \in Nat, NEW z \in Nat, NEW m \in Nat,
         i + u <= b, z <= m
  PROVE  i + (u + z) <= b + m
OBVIOUS

LEMMA NextBudget ==
  ASSUME NEW e \in Nat, NEW b \in Int, e - b \in Nat
  PROVE  Budget((e + 1) - b) = Budget(e - b) + MaxResponseSize /\ Budget(e - b) \in Nat
<1>1. (e + 1) - b = (e - b) + 1
  OBVIOUS
<1> QED BY <1>1, Budgets

LEMMA AnswerKeepsHealth ==
  ASSUME RpcInv, NEW c \in Clients, StreamsOK(c), HealthyOK(c), ConnectionHealthy(c),
         Served(c), Sized, UNCHANGED clientVars, RejectCall(c) \/ ExecuteCall(c)
  PROVE  HealthyOK(c)'
<1>1. PICK req, reply : Answered(c, req, reply)
  BY RequestAnswered
<1>2. has_error'[c] = FALSE /\ At("reply", c)'
  BY Succeeds DEF At
<1>3. reply.accept_stat = SUCCESS /\ reply \in Reply
  BY <1>1, <1>2 DEF Answered
<1>4. executed'[c] = Append(executed[c], req.xid)
  BY <1>1, <1>3 DEF Answered
<1>5. Undelivered(c)' = Undelivered(c) \o Bytes(reply, ReplySizes[reply])
  BY <1>1 DEF Answered
<1>6. clientEnd'[c] = "open" /\ Live(c)'
  BY <1>1 DEF Answered, ConnectionHealthy, Live
<1>7. ReplySizes[reply] \in Nat /\ ReplySizes[reply] <= MaxResponseSize
  <2>1. ReplySizes[reply] = AcceptHeader + reply.request.call.result
    <3>1. ReplySizes[reply] = ReplySize(reply)
      BY <1>3 DEF ReplySizes
    <3>2. ReplySize(reply) = AcceptHeader + reply.request.call.result
      BY <1>3 DEF ReplySize, SUCCESS, PROG_MISMATCH, GARBAGE_ARGS
    <3> QED BY <3>1, <3>2
  <2>2. ReplySizes[reply] \in Nat
    BY <1>3, MessageSizes DEF ReplySizes
  <2>3. WithinLimits(reply.request.call)
    BY <1>3 DEF Sized, Reply, Request
  <2> QED BY <2>1, <2>2, <2>3 DEF WithinLimits
<1>8. Len(Undelivered(c))' = Len(Undelivered(c)) + ReplySizes[reply]
  <2>1. /\ Bytes(reply, ReplySizes[reply]) \in Seq(Reply)
        /\ Len(Bytes(reply, ReplySizes[reply])) = ReplySizes[reply]
    BY <1>3, <1>7, BytesOf
  <2>2. Undelivered(c) \in Seq(Reply)
    BY ConnectionTypes
  <2>3. Len(Undelivered(c) \o Bytes(reply, ReplySizes[reply]))
          = Len(Undelivered(c)) + Len(Bytes(reply, ReplySizes[reply]))
    BY <2>1, <2>2, ConcatProperties
  <2> QED BY <1>5, <2>1, <2>3
<1>9. InFlush(c)' = InFlush(c) /\ Base(c)' = Base(c) /\ insz'[c] = insz[c]
  BY DEF clientVars, InFlush, Base
<1>10. ASSUME InFlush(c)
       PROVE  insz'[c] + Len(Undelivered(c))' <= Budget(Len(executed'[c]) - Base(c))
  <2>1. /\ insz[c] + Len(Undelivered(c)) <= Budget(Len(executed[c]) - Base(c))
        /\ Len(executed[c]) - Base(c) \in Nat
    BY <1>10, RepliesFit DEF ConnectionHealthy
  <2>2. Len(executed'[c]) = Len(executed[c]) + 1
    <3>1. executed[c] \in Seq(Nat)
      BY ConnectionTypes
    <3>2. req.xid \in Nat
      BY <1>1 DEF Answered, Request
    <3> QED BY <1>4, <3>1, <3>2, AppendProperties
  <2>3. /\ Budget((Len(executed[c]) + 1) - Base(c))
             = Budget(Len(executed[c]) - Base(c)) + MaxResponseSize
        /\ Budget(Len(executed[c]) - Base(c)) \in Nat
    BY <2>1, ConnectionTypes, NextBudget
  <2>4. /\ insz[c] \in Nat /\ Len(Undelivered(c)) \in Nat /\ MaxResponseSize \in Nat
    <3>1. insz[c] \in Nat
      BY ClientLengths DEF RpcInv, Lengths
    <3> QED BY <3>1, ConnectionTypes, LenProperties, SizesAssumption
  <2>5. insz[c] + (Len(Undelivered(c)) + ReplySizes[reply])
          <= Budget(Len(executed[c]) - Base(c)) + MaxResponseSize
    BY <1>7, <2>1, <2>3, <2>4, Grows
  <2> QED BY <1>8, <1>9, <2>2, <2>3, <2>5
<1>11. ConnectionHealthy(c)'
  BY <1>2, <1>6, <1>9, <1>10 DEF ConnectionHealthy
<1> QED BY <1>11 DEF clientVars, HealthyOK

\* The loop stops only where no whole request is left.
LEMMA StopKeepsHealth ==
  ASSUME RpcInv, NEW c \in Clients, StreamsOK(c), HealthyOK(c), ConnectionHealthy(c),
         Served(c), Sized, UNCHANGED clientVars, StopProcessing(c)
  PROVE  HealthyOK(c)'
<1> DEFINE out == Slide(outbuf[c], MaxOutBuf, MaxResponseSize)
<1>1. ~At("reply", c) /\ At("process", c) /\ ~(Processing(c) /\ Complete(inbuf[c]))
  BY DEF StopProcessing, At
<1>2. outbuf[c].data = <<>> /\ out.data = outbuf[c].data
  BY <1>1, SlidBuffers DEF ConnectionHealthy
<1>3. outbuf'[c].data = <<>>
  <2>1. outbuf = [e \in Clients |-> outbuf[e]]
    BY DEF RpcInv, ServerInv, ServerTypeOK
  <2> QED BY <1>2, <2>1 DEF StopProcessing
<1>4. Processing(c)
  <2>1. residual_size(out, MaxOutBuf) > MaxResponseSize
    <3>1. outbuf[c] \in [start : Nat, data : Seq(Reply)] /\ Len(outbuf[c].data) = 0
      BY <1>2, EmptySeq DEF RpcInv, ServerInv, ServerTypeOK
    <3>2. \A start, m \in Nat : ~(2 * m - (start + 0) <= m) => 2 * m - (start + 0) > m
      OBVIOUS
    <3>3. \A m \in Nat : m > 0 => 2 * m - (0 + 0) > m
      OBVIOUS
    <3>4. MaxResponseSize \in Nat /\ MaxResponseSize > 0
      BY SizesAssumption
    <3>5. CASE residual_size(outbuf[c], MaxOutBuf) <= MaxResponseSize
      <4>1. out = [outbuf[c] EXCEPT !.start = 0]
        BY <3>5 DEF Slide
      <4>2. out.start = 0 /\ Len(out.data) = 0
        BY <1>2, <3>1, <4>1
      <4> HIDE DEF out
      <4> QED BY <3>3, <3>4, <4>2 DEF residual_size, MaxOutBuf
    <3>6. CASE ~(residual_size(outbuf[c], MaxOutBuf) <= MaxResponseSize)
      <4>1. out = outbuf[c]
        BY <3>6 DEF Slide
      <4> HIDE DEF out
      <4> QED BY <3>1, <3>2, <3>4, <3>6, <4>1 DEF residual_size, MaxOutBuf
    <3> QED BY <3>5, <3>6
  <2> QED BY <1>1, <2>1 DEF Processing, ConnectionHealthy
<1>5. ~(Len(inbuf[c].data) >= MaxRequestSize)
  <2> SUFFICES ASSUME Len(inbuf[c].data) >= MaxRequestSize PROVE Complete(inbuf[c])
    BY <1>1, <1>4
  <2>1. Len(inbuf[c].data) \in Nat
    BY ConnectionTypes, LenProperties
  <2>2. Len(inbuf[c].data) >= CallBody
    BY <2>1, SizesAssumption
  <2>3. inbuf[c].data # <<>> /\ inbuf[c].data \in Seq(Request)
    BY <2>1, <2>2, ConnectionTypes, EmptySeq, SizesAssumption
  <2>4. Head(inbuf[c].data) \in Request
    BY <2>3, HeadTailProperties
  <2>5. WithinLimits(Head(inbuf[c].data).call)
    BY <2>4 DEF Sized, Request
  <2>6. /\ RequestSize(Head(inbuf[c].data)) <= MaxRequestSize
        /\ RequestSize(Head(inbuf[c].data)) \in Nat
    BY <2>4, <2>5, MessageSizes DEF WithinLimits, RequestSize
  <2> QED BY <2>1, <2>2, <2>6, SizesAssumption DEF Complete
<1>6. UNCHANGED <<executed, has_error, clientEnd, serverEnd, toClient, inbuf>>
  BY DEF StopProcessing, network
<1>7. Undelivered(c)' = Undelivered(c) /\ Live(c)'
  BY <1>2, <1>3, <1>6 DEF Undelivered, Live, ConnectionHealthy
<1> QED BY <1>3, <1>5, <1>6, <1>7, ServerKeepsHealth

LEMMA ServerHealth ==
  ASSUME RpcInv, StreamsInv, HealthInv, Sized, NEW d \in Clients, Server(d)
  PROVE  HealthInv'
<1> SUFFICES ASSUME ServerUp', NEW c \in Clients PROVE HealthyOK(c)'
  BY DEF HealthInv
<1>1. HealthyOK(c) /\ StreamsOK(c) /\ UNCHANGED clientVars /\ (Poll(d) \/ Work(d))
  BY DEF Server, HealthInv, StreamsInv
<1>2. WriteFails(d) => CloseConnection(d)
  BY DEF ServerUp, WriteFails, Idle
<1>3. CASE c # d
  <2>1. SameClient(c) /\ SameConnection(c)
    BY <1>1, <1>2, <1>3, OtherConnections
  <2>2. ~Working(c)
    <3>1. CASE Poll(d)
      BY <3>1 DEF Poll, OnNewConnection, OnConnectionEvent, OnConnectionError, Working
    <3>2. CASE Work(d)
      <4>1. srv.client = d
        BY <3>2 DEF Work, WriteReady, ReadConnectionBuffer, ReadFails, ReadNothing, RejectCall,
           ExecuteCall, Processing, StopProcessing, WriteReply, FinishEvent, At
      <4> QED BY <1>3, <4>1 DEF Working
    <3> QED BY <1>1, <3>1, <3>2
  <2>3. insz'[c] = insz[c]
    BY <1>1 DEF clientVars
  <2> QED BY <1>1, <2>1, <2>2, <2>3, HealthyStays
<1>4. CASE c = d /\ ~Served(c)
  BY <1>1, <1>4 DEF clientVars, HealthyOK, Served
<1>5. CASE c = d /\ Served(c)
  <2>1. ConnectionHealthy(c)
    BY <1>1, <1>5 DEF HealthyOK
  <2>2. ~(OnConnectionError(c) \/ ReadFails(c) \/ (FinishEvent(c) /\ CloseConnection(c)))
    BY <2>1, NothingBreaks
  <2>3. CASE OnNewConnection(c) \/ OnConnectionEvent(c) \/ ReadNothing(c) \/ FinishEvent(c)
    <3>1. NothingMoves(c)
      BY <2>2, <2>3 DEF NothingMoves
    <3> QED BY <1>1, <2>1, <3>1, EventsKeepHealth
  <2>4. CASE ReadConnectionBuffer(c)
    BY <1>1, <2>1, <2>4, ReadKeepsHealth
  <2>5. CASE WriteReady(c) \/ WriteReply(c)
    BY <1>1, <1>5, <2>1, <2>5, WriteKeepsHealth
  <2>6. CASE RejectCall(c) \/ ExecuteCall(c)
    BY <1>1, <1>5, <2>1, <2>6, AnswerKeepsHealth
  <2>7. CASE StopProcessing(c)
    BY <1>1, <1>5, <2>1, <2>7, StopKeepsHealth
  <2> QED BY <1>1, <1>5, <2>2, <2>3, <2>4, <2>5, <2>6, <2>7 DEF Poll, Work
<1> QED BY <1>3, <1>4, <1>5

-----------------------------------------------------------------------------
\* A server that runs, and calls within the limits: steps of the clients

\* A step of a client that leaves its end of the connection, and what it waits for, alone
LEMMA ClientKeepsHealth ==
  ASSUME NEW c \in Clients, HealthyOK(c), UNCHANGED serverVars, Served(c),
         UNCHANGED <<toClient, clientEnd, serverEnd>>,
         phase'[c] \in {"idle", "reading", "parsing"},
         InFlush(c)' => InFlush(c) /\ insz'[c] = insz[c] /\ Base(c)' = Base(c),
         phase'[c] = "idle" => insz'[c] = 0,
         \A x \in DOMAIN results'[c] : results'[c][x].is # "error"
  PROVE  HealthyOK(c)'
<1>1. Live(c)' = Live(c) /\ Undelivered(c)' = Undelivered(c)
  BY DEF serverVars, Live, Undelivered
<1>2. ConnectionHealthy(c)
  BY DEF HealthyOK
<1>3. ConnectionHealthy(c)'
  <2>1. InFlush(c)' => insz'[c] + Len(Undelivered(c)') <= Budget(Len(executed'[c]) - Base(c)')
    BY <1>1, <1>2 DEF serverVars, ConnectionHealthy
  <2>2. clientEnd'[c] = "open" /\ Live(c)' /\ has_error'[c] = FALSE
    BY <1>1, <1>2 DEF serverVars, ConnectionHealthy
  <2>3. /\ outbuf'[c].data # <<>> => At("reply", c)'
        /\ Len(inbuf'[c].data) >= MaxRequestSize => At("process", c)' \/ At("reply", c)'
    BY <1>2 DEF serverVars, ConnectionHealthy, At
  <2> QED BY <2>1, <2>2, <2>3 DEF ConnectionHealthy
<1> QED BY <1>3 DEF HealthyOK

LEMMA ConnectHealth ==
  ASSUME RpcInv, NEW c \in Clients, StreamsOK(c), HealthyOK(c), UNCHANGED serverVars, Connect(c)
  PROVE  HealthyOK(c)'
<1>1. phase[c] = "new" /\ phase'[c] = "idle" /\ clientEnd'[c] = "open" /\ serverEnd'[c] = "backlog"
  BY DEF Connect, RpcInv, NetworkInv, NetworkTypeOK, ClientInv, ClientTypeOK
<1>2. UNCHANGED <<results, insz, serverVars>>
  BY DEF Connect
<1>3. inbuf'[c].data = <<>> /\ outbuf'[c].data = <<>> /\ has_error'[c] = FALSE
  BY <1>1, <1>2 DEF StreamsOK, NewOK, serverVars
<1>4. ~(Len(inbuf'[c].data) >= MaxRequestSize)
  BY <1>3, EmptySeq, SizesAssumption
<1>5. ConnectionHealthy(c)'
  BY <1>1, <1>3, <1>4 DEF ConnectionHealthy, Live, InFlush
<1>6. insz'[c] = 0 /\ \A x \in DOMAIN results'[c] : results'[c][x].is # "error"
  BY <1>1, <1>2 DEF HealthyOK
<1> QED BY <1>5, <1>6 DEF HealthyOK

LEMMA SendHealth ==
  ASSUME RpcInv, NEW c \in Clients, HealthyOK(c), UNCHANGED serverVars,
         NEW call \in Calls, Send(c, call)
  PROVE  HealthyOK(c)'
<1>1. phase[c] = "idle" /\ phase' = phase /\ insz' = insz
      /\ UNCHANGED <<toClient, clientEnd, serverEnd>>
  BY DEF Send, network
<1>2. results'[c] = Append(results[c], [is |-> "pending"])
  BY DEF Send, RpcInv, ClientInv, ClientTypeOK
<1>3. \A x \in DOMAIN results'[c] : results'[c][x].is # "error"
  <2>1. results[c] \in Seq(Outcome) /\ [is |-> "pending"] \in Outcome
    BY ClientTypes DEF RpcInv, Outcome
  <2>2. /\ Len(results'[c]) = Len(results[c]) + 1 /\ Len(results[c]) \in Nat
        /\ \A x \in 1..Len(results[c]) : results'[c][x] = results[c][x]
        /\ results'[c][Len(results[c]) + 1] = [is |-> "pending"]
        /\ DOMAIN results'[c] = 1..Len(results'[c]) /\ DOMAIN results[c] = 1..Len(results[c])
    BY <1>2, <2>1, AppendProperties, LenProperties
  <2> SUFFICES ASSUME NEW x \in DOMAIN results'[c] PROVE results'[c][x].is # "error"
    OBVIOUS
  <2>3. x \in 1..Len(results[c]) \/ x = Len(results[c]) + 1
    BY <2>2
  <2>4. CASE x \in 1..Len(results[c])
    BY <2>2, <2>4 DEF HealthyOK
  <2>5. CASE x = Len(results[c]) + 1
    BY <2>2, <2>5
  <2> QED BY <2>3, <2>4, <2>5
<1>4. insz'[c] = 0
  BY <1>1 DEF HealthyOK
<1> QED BY <1>1, <1>3, <1>4, ClientKeepsHealth DEF Served, InFlush

LEMMA FlushWriteHealth ==
  ASSUME RpcInv, NEW c \in Clients, StreamsOK(c), HealthyOK(c), UNCHANGED serverVars,
         FlushWrite(c)
  PROVE  HealthyOK(c)'
<1>1. phase[c] = "idle" /\ phase'[c] = "reading" /\ ConnectionHealthy(c)
  BY DEF FlushWrite, HealthyOK, Served, RpcInv, ClientInv, ClientTypeOK
<1>2. UNCHANGED <<toClient, clientEnd, pending, insz, results>> /\ insz[c] = 0
      /\ UNCHANGED serverEnd
  BY <1>1 DEF FlushWrite, HealthyOK, ConnectionHealthy, Live
<1>3. Undelivered(c) = <<>> /\ Len(executed[c]) = Base(c)
  BY <1>1 DEF ConnectionHealthy, StreamsOK, IdleOK
<1>4. /\ Live(c)' = Live(c) /\ Undelivered(c)' = Undelivered(c) /\ Base(c)' = Base(c)
      /\ UNCHANGED serverVars
  BY <1>2 DEF serverVars, Live, Undelivered, Base
<1>5. insz'[c] + Len(Undelivered(c)') <= Budget(Len(executed'[c]) - Base(c)')
  <2>1. Len(executed[c]) - Base(c) = 0
    BY <1>3, ConnectionTypes
  <2>2. 0 + 0 <= Budget(0)
    BY Budgets
  <2>3. Len(<<>>) = 0 /\ executed' = executed
    BY EmptySeq DEF serverVars
  <2>4. Len(executed'[c]) - Base(c)' = 0 /\ insz'[c] = 0 /\ Len(Undelivered(c)') = 0
    BY <1>2, <1>3, <1>4, <2>1, <2>3
  <2> QED BY <2>2, <2>4
<1>6. ConnectionHealthy(c)'
  <2>1. clientEnd'[c] = "open" /\ Live(c)' /\ has_error'[c] = FALSE
    BY <1>1, <1>2, <1>4 DEF serverVars, ConnectionHealthy
  <2>2. /\ outbuf'[c].data # <<>> => At("reply", c)'
        /\ Len(inbuf'[c].data) >= MaxRequestSize => At("process", c)' \/ At("reply", c)'
    BY <1>1 DEF serverVars, ConnectionHealthy, At
  <2> QED BY <1>5, <2>1, <2>2 DEF ConnectionHealthy
<1> QED BY <1>1, <1>2, <1>6 DEF HealthyOK

\* Bytes that move from the kernel to the client still count once.
LEMMA MovedBytes ==
  ASSUME NEW T, NEW s \in Seq(T), NEW u \in Seq(T), NEW n \in 0..Len(s), NEW i \in Nat
  PROVE  (i + n) + Len(After(s, n) \o u) = i + Len(s \o u)
<1>1. After(s, n) \in Seq(T) /\ Len(After(s, n)) = Len(s) - n
  BY Cut
<1>2. Len(After(s, n) \o u) = (Len(s) - n) + Len(u) /\ Len(s \o u) = Len(s) + Len(u)
  BY <1>1, ConcatProperties
<1>3. Len(s) \in Nat /\ Len(u) \in Nat
  BY LenProperties
<1> QED BY <1>2, <1>3

LEMMA ReadHealth ==
  ASSUME RpcInv, NEW c \in Clients, HealthyOK(c), UNCHANGED serverVars, ReadReplies(c)
  PROVE  HealthyOK(c)'
<1>1. PICK n \in 1..AtMost(Len(toClient[c]), Room(c)) :
        /\ toClient' = [toClient EXCEPT ![c] = After(@, n)]
        /\ insz' = [insz EXCEPT ![c] = @ + n]
  BY DEF ReadReplies
<1>2. /\ phase[c] = "reading" /\ phase'[c] = "parsing"
      /\ UNCHANGED <<clientEnd, serverEnd, pending, results>>
  BY DEF ReadReplies, RpcInv, ClientInv, ClientTypeOK
<1>3. ConnectionHealthy(c) /\ InFlush(c)
  BY <1>2 DEF HealthyOK, Served, InFlush
<1>4. Len(toClient[c]) \in Nat /\ insz[c] \in Nat /\ Len(outbuf[c].data) \in Nat
  <2>1. insz[c] \in Nat
    BY ClientLengths DEF RpcInv, Lengths
  <2> QED BY <2>1, ConnectionTypes, LenProperties
<1>5. n \in Nat /\ n <= Len(toClient[c]) /\ n \in 0..Len(toClient[c])
  <2>1. Room(c) \in Int
    BY <1>4, Sizes DEF Room
  <2>2. AtMost(Len(toClient[c]), Room(c)) <= Len(toClient[c])
        /\ AtMost(Len(toClient[c]), Room(c)) \in Int
    BY <1>4, <2>1 DEF AtMost
  <2> QED BY <1>4, <2>2
<1>6. insz'[c] = insz[c] + n /\ toClient'[c] = After(toClient[c], n)
  BY <1>1 DEF RpcInv, NetworkInv, NetworkTypeOK, ClientInv, ClientTypeOK
<1>7. insz'[c] + Len(Undelivered(c)') = insz[c] + Len(Undelivered(c))
  <2>1. outbuf[c].data \in Seq(Reply) /\ toClient[c] \in Seq(Reply)
    BY ConnectionTypes
  <2>5. Undelivered(c)' = After(toClient[c], n) \o outbuf[c].data
    BY <1>6 DEF Undelivered, serverVars
  <2>6. (insz[c] + n) + Len(After(toClient[c], n) \o outbuf[c].data)
          = insz[c] + Len(toClient[c] \o outbuf[c].data)
    BY <1>4, <1>5, <2>1, MovedBytes
  <2> QED BY <1>6, <2>5, <2>6 DEF Undelivered
<1>8. Base(c)' = Base(c) /\ Live(c)' = Live(c) /\ UNCHANGED serverVars
  BY <1>2 DEF Base, Live
<1>9. ConnectionHealthy(c)'
  <2>1. insz'[c] + Len(Undelivered(c)') <= Budget(Len(executed'[c]) - Base(c)')
    BY <1>3, <1>7, <1>8 DEF serverVars, ConnectionHealthy
  <2>2. clientEnd'[c] = "open" /\ Live(c)' /\ has_error'[c] = FALSE
    BY <1>2, <1>3, <1>8 DEF serverVars, ConnectionHealthy
  <2>3. /\ outbuf'[c].data # <<>> => At("reply", c)'
        /\ Len(inbuf'[c].data) >= MaxRequestSize => At("process", c)' \/ At("reply", c)'
    BY <1>3 DEF serverVars, ConnectionHealthy, At
  <2> QED BY <2>1, <2>2, <2>3 DEF ConnectionHealthy
<1> QED BY <1>2, <1>9 DEF HealthyOK

\* A stream that ends without an error has none before.
LEMMA FirstSucceeds ==
  ASSUME NEW r, Replies(r), Whole(r, ReplySizes), r # <<>>, r[Len(r)].accept_stat = SUCCESS
  PROVE  r[1].accept_stat = SUCCESS
<1>1. Stream(r, Reply, ReplySizes, NextReply)
  BY DEF Replies
<1>2. 1 \in 1..Len(r) /\ ReplySizes[r[1]] \in Nat /\ Len(r) \in Nat
  BY <1>1, ReplyFraming, StreamTypes
<1>3. ReplySizes[r[1]] <= Len(r)
  <2>1. 1 + ReplySizes[r[1]] - 1 <= Len(r)
    BY <1>1, <1>2, ReplyFraming, BlockAt DEF Starts
  <2> QED BY <1>2, <2>1
<1>4. \E t : t = After(r, ReplySizes[r[1]])
  OBVIOUS
<1>5. PICK t : t = After(r, ReplySizes[r[1]])
  BY <1>4
<1>6. IF t = <<>> THEN r[Len(r)] = r[1] ELSE <<r[1], t[1]>> \in NextReply
  BY <1>1, <1>3, <1>5, ReplyFraming, DropBlock
<1>7. <<r[1], t[1]>> \in NextReply => r[1].accept_stat = SUCCESS
  BY DEF NextReply
<1> QED BY <1>6, <1>7

\* What a Flush has read is the beginning of the replies to its calls.
LEMMA NextReplyComes ==
  ASSUME RpcInv, NEW c \in Clients, StreamsOK(c), ConnectionHealthy(c), InFlush(c),
         replies[c] # <<>>
  PROVE  Head(replies[c]).accept_stat = SUCCESS /\ ~AllReplied(c)
<1>1. Live(c) /\ has_error[c] = FALSE
  BY DEF ConnectionHealthy
<1>2. ReplyStream(c) = replies[c] \o Undelivered(c)
  BY <1>1 DEF ReplyStream
<1>3. replies[c] \in Seq(Reply) /\ Undelivered(c) \in Seq(Reply)
  BY ConnectionTypes
<1>4. ReplyStream(c) # <<>> /\ ReplyStream(c)[1] = Head(replies[c])
  BY <1>2, <1>3, HeadOfTwo
<1>5. /\ Replies(ReplyStream(c)) /\ Whole(ReplyStream(c), ReplySizes)
      /\ ReplyStream(c)[1].request.xid = Base(c) + nr_replied[c] + 1
      /\ \A i \in 1..Len(ReplyStream(c)) : InPipeline(c, ReplyStream(c)[i].request)
  BY <1>1, <1>4 DEF StreamsOK, RepliesOK
<1>6. ReplyStream(c)[Len(ReplyStream(c))].accept_stat = SUCCESS
  BY <1>1, <1>4 DEF StreamsOK, AnswersOK
<1>7. ReplyStream(c)[1].accept_stat = SUCCESS
  BY <1>4, <1>5, <1>6, FirstSucceeds
<1>8. 1 \in 1..Len(ReplyStream(c))
  <2>1. Stream(ReplyStream(c), Reply, ReplySizes, NextReply)
    BY <1>5 DEF Replies
  <2> QED BY <1>4, <2>1, ReplyFraming, StreamTypes
<1>9. InPipeline(c, ReplyStream(c)[1].request)
  BY <1>5, <1>8
<1>10. (Base(c) + nr_replied[c] + 1) - Base(c) \in 1..Len(pending[c])
  BY <1>5, <1>9 DEF InPipeline
<1>11. \A b \in Int, n \in Nat, k \in Nat : (b + n + 1) - b \in 1..k => n # k
  OBVIOUS
<1>12. nr_replied[c] # Len(pending[c])
  BY <1>10, <1>11, ConnectionTypes, ClientTypes DEF RpcInv
<1> QED BY <1>4, <1>7, <1>12 DEF AllReplied

\* A Flush to a running server does not fail.
LEMMA NothingFails ==
  ASSUME RpcInv, NEW c \in Clients, StreamsOK(c), HealthyOK(c), Sized,
         \/ FlushWriteFails(c) \/ Killed(c)
         \/ ReadRepliesFails(c) \/ ParseFails(c)
  PROVE  FALSE
<1>1. Served(c) /\ ConnectionHealthy(c)
  BY DEF FlushWriteFails, Killed, ReadRepliesFails, ParseFails, HealthyOK, Served
<1>2. clientEnd[c] = "open" /\ serverEnd[c] # "rst" /\ serverEnd[c] # "fin"
  BY <1>1 DEF ConnectionHealthy, Live
<1>3. CASE FlushWriteFails(c) \/ Killed(c)
  BY <1>2, <1>3 DEF FlushWriteFails, Killed
<1>4. CASE ReadRepliesFails(c)
  <2>1. toClient[c] # <<>> /\ Room(c) = 0 /\ InFlush(c)
    BY <1>2, <1>4 DEF ReadRepliesFails, InFlush
  <2>2. /\ insz[c] + Len(Undelivered(c)) <= InBufferSize
        /\ Len(Undelivered(c)) = Len(toClient[c]) + Len(outbuf[c].data)
        /\ Len(toClient[c]) \in Nat /\ Len(outbuf[c].data) \in Nat
    BY <1>1, <2>1, RepliesFit
  <2>3. toClient[c] \in Seq(Reply) /\ insz[c] \in Nat /\ InBufferSize \in Nat
    BY ConnectionTypes, ClientLengths, Sizes DEF RpcInv, Lengths
  <2>4. Len(toClient[c]) # 0
    BY <2>1, <2>3, EmptySeq
  <2>5. InBufferSize - insz[c] = 0
    BY <2>1 DEF Room
  <2>6. \A i \in Nat, s \in Nat, k \in Nat, o \in Nat :
          i + (k + o) <= s /\ s - i = 0 => k = 0
    OBVIOUS
  <2>7. insz[c] + (Len(toClient[c]) + Len(outbuf[c].data)) <= InBufferSize
    BY <2>2
  <2> QED BY <2>2, <2>3, <2>4, <2>5, <2>6, <2>7
<1>5. CASE ParseFails(c)
  <2>1. InFlush(c) /\ IF AllReplied(c) THEN replies[c] # <<>> ELSE Refused(c)
    BY <1>5 DEF ParseFails, InFlush
  <2>2. replies[c] # <<>>
    <3>1. Refused(c) => replies[c] # <<>>
      <4>1. Refused(c) => Len(replies[c]) >= AcceptHeader
        BY DEF Refused
      <4>2. Len(replies[c]) >= AcceptHeader => replies[c] # <<>>
        BY EmptySeq, SizesAssumption
      <4> QED BY <4>1, <4>2
    <3> QED BY <2>1, <3>1
  <2>3. Head(replies[c]).accept_stat = SUCCESS /\ ~AllReplied(c)
    BY <1>1, <2>1, <2>2, NextReplyComes
  <2> QED BY <2>1, <2>3 DEF Refused
<1> QED BY <1>3, <1>4, <1>5

LEMMA ParseHealth ==
  ASSUME RpcInv, NEW c \in Clients, StreamsOK(c), HealthyOK(c), UNCHANGED serverVars,
         ParseReply(c)
  PROVE  HealthyOK(c)'
<1> DEFINE x == pending[c][nr_replied[c] + 1].xid
           v == [is |-> "value", of |-> Head(replies[c]).request]
<1>1. /\ phase[c] = "parsing" /\ phase' = phase /\ insz' = insz /\ pending' = pending
      /\ UNCHANGED <<toClient, clientEnd, serverEnd>>
      /\ results' = [results EXCEPT ![c][x] = v]
  BY DEF ParseReply, network
<1>2. results[c] \in Seq(Outcome) /\ DOMAIN results[c] = 1..Len(results[c])
  BY ClientTypes DEF RpcInv
<1> HIDE DEF x
<1>3. results'[c] = [results[c] EXCEPT ![x] = v]
  BY <1>1 DEF RpcInv, ClientInv, ClientTypeOK
<1>4. v.is # "error"
  OBVIOUS
<1> HIDE DEF v
<1>5. Len(results'[c]) = Len(results[c])
  BY <1>2, <1>3, ExceptLength
<1>6. \A y \in DOMAIN results'[c] : results'[c][y].is # "error"
  BY <1>3, <1>4 DEF HealthyOK
<1>7. Base(c)' = Base(c)
  BY <1>1, <1>5 DEF Base
<1>8. Served(c) /\ InFlush(c) /\ phase'[c] = "parsing" /\ insz'[c] = insz[c]
  BY <1>1 DEF Served, InFlush
<1> QED BY <1>1, <1>6, <1>7, <1>8, ClientKeepsHealth

LEMMA FlushEndsHealth ==
  ASSUME RpcInv, NEW c \in Clients, HealthyOK(c), UNCHANGED serverVars,
         FlushDone(c) \/ ParseMore(c)
  PROVE  HealthyOK(c)'
<1>1. CASE FlushDone(c)
  <2>1. /\ phase[c] = "parsing" /\ phase'[c] = "idle" /\ insz'[c] = 0
        /\ UNCHANGED <<toClient, clientEnd, serverEnd>> /\ results' = results
    BY <1>1 DEF FlushDone, Finalize, network, RpcInv, ClientInv, ClientTypeOK
  <2> QED BY <2>1, ClientKeepsHealth DEF HealthyOK, Served, InFlush
<1>2. CASE ParseMore(c)
  <2>1. /\ phase[c] = "parsing" /\ phase'[c] = "reading" /\ insz' = insz
        /\ UNCHANGED <<toClient, clientEnd, serverEnd>> /\ results' = results
        /\ pending' = pending
    BY <1>2 DEF ParseMore, network, RpcInv, ClientInv, ClientTypeOK
  <2>2. Base(c)' = Base(c)
    BY <2>1 DEF Base
  <2> QED BY <2>1, <2>2, ClientKeepsHealth DEF HealthyOK, Served, InFlush
<1> QED BY <1>1, <1>2

LEMMA ClientHealth ==
  ASSUME RpcInv, StreamsInv, HealthInv, Sized, NEW d \in Clients, Client(d)
  PROVE  HealthInv'
<1> SUFFICES ASSUME ServerUp', NEW c \in Clients PROVE HealthyOK(c)'
  BY DEF HealthInv
<1>1. UNCHANGED serverVars /\ srv' = srv /\ ServerUp
  BY DEF Client, serverVars, ServerUp
<1>2. HealthyOK(c) /\ StreamsOK(c)
  BY <1>1 DEF HealthInv, StreamsInv
<1>3. CASE c # d
  <2>1. SameClient(c) /\ SameConnection(c)
    BY <1>3, OtherClients
  <2>2. insz'[c] = insz[c]
    BY <1>3 DEF Client, ProgramStep, FlushStep, Connect, Send, FlushWrite, FlushWriteFails, Killed,
       Leave, Vanish, Fail, Finalize, ReadReplies, ReadRepliesFails, ParseReply, ParseMore,
       ParseFails, FlushDone, RpcInv, ClientInv, ClientTypeOK
  <2> QED BY <1>1, <1>2, <2>1, <2>2, HealthyStays
<1>4. CASE c = d
  <2>1. ~(FlushWriteFails(c) \/ Killed(c) \/ ReadRepliesFails(c) \/ ParseFails(c))
    BY <1>2, NothingFails
  <2>2. CASE Connect(c)
    BY <1>1, <1>2, <2>2, ConnectHealth
  <2>3. CASE \E call \in Calls : Send(c, call)
    BY <1>1, <1>2, <2>3, SendHealth
  <2>4. CASE FlushWrite(c)
    BY <1>1, <1>2, <2>4, FlushWriteHealth
  <2>5. CASE Leave(c)
    <3>1. phase'[c] = "gone" /\ results' = results
      BY <2>5 DEF Leave, Vanish, RpcInv, ClientInv, ClientTypeOK
    <3> QED BY <1>2, <3>1 DEF HealthyOK, Served
  <2>6. CASE ReadReplies(c)
    BY <1>1, <1>2, <2>6, ReadHealth
  <2>7. CASE ParseReply(c)
    BY <1>1, <1>2, <2>7, ParseHealth
  <2>8. CASE ParseMore(c) \/ FlushDone(c)
    BY <1>1, <1>2, <2>8, FlushEndsHealth
  <2> QED BY <1>4, <2>1, <2>2, <2>3, <2>4, <2>5, <2>6, <2>7, <2>8
          DEF Client, ProgramStep, FlushStep
<1> QED BY <1>3, <1>4

LEMMA HealthNext ==
  ASSUME RpcInv, StreamsInv, HealthInv, Sized, [Next]_vars
  PROVE  HealthInv'
<1>1. CASE \E c \in Clients : Server(c)
  BY <1>1, ServerHealth
<1>2. CASE \E c \in Clients : Client(c)
  BY <1>2, ClientHealth
<1>3. CASE MayStop /\ Stop /\ UNCHANGED clientVars
  BY <1>3 DEF Stop, Idle, HealthInv, ServerUp
<1>4. CASE UNCHANGED vars
  <2>1. UNCHANGED serverVars /\ UNCHANGED clientVars
        /\ UNCHANGED <<toServer, toClient, clientEnd, serverEnd>>
    BY <1>4 DEF vars, network
  <2>2. \A c \in Clients : HealthyOK(c)' = HealthyOK(c)
    BY <2>1 DEF serverVars, clientVars, HealthyOK, ConnectionHealthy, Served, Live, At, InFlush,
       Undelivered, Base
  <2> QED BY <2>1, <2>2 DEF HealthInv, ServerUp, serverVars
<1> QED BY <1>1, <1>2, <1>3, <1>4 DEF Next

LEMMA HealthInitially == Init => HealthInv
<1> SUFFICES ASSUME Init, NEW c \in Clients PROVE HealthyOK(c)
  BY DEF HealthInv
<1>1. phase[c] = "new" /\ results[c] = <<>> /\ insz[c] = 0
  BY DEF Init, ClientInit
<1>2. DOMAIN results[c] = {}
  BY <1>1
<1> QED BY <1>1, <1>2 DEF HealthyOK, Served

\* While the server runs, no call within the limits ever fails, for any number of clients and
\* of calls, any sizes and however reads cut the streams, if the kernel takes the replies to
\* a pipeline before a write would block: in the program 8 times 128 bytes.
THEOREM CallsSucceed ==
  ASSUME InBufferSize <= SendBuffer
  PROVE  Spec => []NoSpuriousFailure
<1>1. CASE \A call \in Calls : WithinLimits(call)
  <2>1. Sized
    BY <1>1 DEF Sized
  <2>2. Spec => []HealthInv
    BY <2>1, HealthInitially, HealthNext, RpcInvariance, StreamsInvariance, PTL DEF Spec
  <2>3. HealthInv => NoSpuriousFailure
    BY DEF HealthInv, HealthyOK, NoSpuriousFailure
  <2> QED BY <2>2, <2>3, PTL
<1>2. CASE ~(\A call \in Calls : WithinLimits(call))
  <2>1. NoSpuriousFailure
    BY <1>2 DEF NoSpuriousFailure
  <2> QED BY <2>1, PTL
<1> QED BY <1>1, <1>2
=============================================================================
