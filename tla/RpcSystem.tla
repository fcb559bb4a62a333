----------------------------- MODULE RpcSystem -----------------------------
(***************************************************************************)
(* Clients of the RPC library (RpcClient) and its server (RpcServer).      *)
(***************************************************************************)
EXTENDS RpcServer, RpcClient

CONSTANT MayStop   \* whether the server is ever told to stop

ASSUME StopAssumption == MayStop \in BOOLEAN

vars == <<network, serverVars, clientVars>>

Init == NetworkInit /\ ServerInit /\ ClientInit

Server(c) ==
  /\ ServerUp
  /\ Poll(c) \/ Work(c)
  /\ UNCHANGED clientVars

Client(c) ==
  /\ (ServerUp /\ Connect(c)) \/ ProgramStep(c) \/ FlushStep(c)
  /\ UNCHANGED serverVars

Next ==
  \/ \E c \in Clients : Server(c) \/ Client(c)
  \/ MayStop /\ Stop /\ UNCHANGED clientVars

Spec == Init /\ [][Next]_vars

-----------------------------------------------------------------------------

\* Every variable holds what its declaration in rpc.h and rpc.cc allows, and no buffer of
\* the library is written past its end: inbuf and outbuf of a connection (rpc.cc:48), the
\* request buffer of a client (rpc.cc:543) and Flush's buffer for replies (rpc.cc:572),
\* whatever sizes the calls have.
BuffersInRange ==
  /\ NetworkTypeOK /\ ServerTypeOK /\ ClientTypeOK
  /\ \A c \in Clients :
       /\ inbuf[c].start + Len(inbuf[c].data) <= MaxInBuf
       /\ outbuf[c].start + Len(outbuf[c].data) <= MaxOutBuf
       /\ Len(buf[c]) <= BufferSize
       /\ Len(replies[c]) <= insz[c] /\ insz[c] <= InBufferSize

\* The service executes the calls of a client in the order it sent them, each at most once
\* and none before one it skipped, also across partial reads, a full outbuf and several
\* events (rpc.cc:494); and a Result that got a value got it from the reply to its own
\* call, although ParseBuffer (rpc.cc:648) tells replies by their place only.
ResultsMatch ==
  \A c \in Clients :
    /\ \A i \in DOMAIN executed[c] : executed[c][i] = i
    /\ \A x \in DOMAIN results[c] :
         results[c][x].is = "value" => results[c][x].of.xid = x /\ x \in DOMAIN executed[c]

\* Between two calls of Flush the Results that are neither filled nor marked are those
\* of the requests still to be flushed: Flush leaves none behind (rpc.cc:636).
SettledByFlush ==
  \A c \in Clients : phase[c] = "idle" =>
    {x \in DOMAIN results[c] : results[c][x].is = "pending"}
      = {pending[c][i].xid : i \in DOMAIN pending[c]}

\* The server drops no reply: while it runs it closes a connection whose client is there
\* only after everything in outbuf has been written, an error reply too (rpc.cc:401).
RepliesWritten ==
  [][\A c \in Clients :
       clientEnd[c] = "open" /\ serverEnd[c] = "open" /\ serverEnd'[c] # "open" /\ ServerUp'
         => outbuf[c].data = <<>>]_vars

\* With calls of the sizes the library is made for no call fails while the server runs:
\* no connection is closed for a buffer without room (rpc.cc:402, rpc.cc:465).
NoSpuriousFailure ==
  ServerUp /\ (\A call \in Calls : WithinLimits(call)) =>
    \A c \in Clients : \A x \in DOMAIN results[c] : results[c][x].is # "error"

-----------------------------------------------------------------------------
\* epoll_wait reports every connection that is ready and the loop looks at each, so a
\* connection that is ready again and again is served; the loop never pauses, and
\* neither does a Flush that can go on.
FairSpec ==
  /\ Spec
  /\ \A c \in Clients :
       /\ SF_vars(ServerUp /\ Poll(c) /\ UNCHANGED clientVars)
       /\ WF_vars(ServerUp /\ Work(c) /\ UNCHANGED clientVars)
       /\ WF_vars(FlushStep(c) /\ UNCHANGED serverVars)

\* Flush returns, with every reply or with an error, whatever the server does.
FlushReturns ==
  \A c \in Clients : phase[c] \in {"reading", "parsing"} ~> phase[c] \in {"idle", "gone"}

\* The server closes its end of a connection whose client closed (rpc.cc:517, rpc.cc:474).
ConnectionsClosed ==
  \A c \in Clients :
    clientEnd[c] \in {"fin", "rst"} ~> serverEnd[c] \in {"fin", "rst"}
=============================================================================
