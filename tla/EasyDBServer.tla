---------------------------- MODULE EasyDBServer ----------------------------
(***************************************************************************)
(* The EasyDB server, asst3/server.rs, around the database of EasyDB: the  *)
(* accept loop of multi_threaded, a thread per client that runs            *)
(* handle_connection, and the mutex around the database.  A client of this *)
(* module is one connection of the Python client (asst1/easydb): it waits  *)
(* for the response to a request before it sends the next.                 *)
(*                                                                         *)
(* Who still holds a clone of the Arc around the mutex decides who is      *)
(* served, so the clones are part of the state: one for the accept loop,   *)
(* one for the connection it is looking at, one for each thread.           *)
(***************************************************************************)
EXTENDS EasyDB

CONSTANTS
  Clients,        \* connections
  Quitters,       \* those whose program may end without sending EXIT
  BusyThreshold,  \* a connection is refused beyond this many clones: 5 in the code
  Endless,        \* requests with a string that from_raw never finishes reading
  MaxSent,        \* bound: connection -> requests it sends
  MaxGhosts       \* bound: requests the server makes out of no bytes at all

Nobody == "nobody"   \* no connection

ASSUME ServerAssumption ==
  /\ Nobody \notin Clients
  /\ IsFiniteSet(Clients)
  /\ Quitters \subseteq Clients
  /\ BusyThreshold \in Nat \ {0}
  /\ Endless \subseteq Requests
  /\ MaxSent \in [Clients -> Nat] /\ MaxGhosts \in Nat

VARIABLES
  client,     \* connection -> what its program is doing
  sent,       \* connection -> the requests it has sent
  toServer,   \* connection -> messages the server has not read
  toClient,   \* connection -> messages the client has not read
  reset,      \* connections whose peer is known to the server to be gone
  backlog,    \* connections listener.incoming() has not returned yet
  acceptor,   \* the accept loop: where it is and the connection it looks at
  thread,     \* connection -> where its thread is, "none" if it has no thread
  request,    \* connection -> the request its thread is serving
  holder,     \* who holds the mutex: a set of at most one connection
  ghosts      \* requests made out of no bytes

serverVars == <<client, sent, toServer, toClient, reset, backlog, acceptor, thread,
                request, holder, ghosts>>
allVars    == <<vars, serverVars>>

\* What respond writes: the call it answers, where it answers one
Greeting(response) == [request |-> NoRequest, response |-> response]
CONNECTED   == Greeting([kind |-> "Connected"])
SERVER_BUSY == Greeting(Error(10))
BAD_REQUEST == Greeting(Error(8))
EXIT        == [command |-> "Exit", table_id |-> 1]

AcceptorUp == acceptor.at # "panicked"

\* Threads that still own their clone of the Arc
Threads == {c \in Clients : thread[c] # "none"}

\* Mutant: the count before the clone for the connection is made
CountBeforeClone == 1 + Cardinality(Threads)

strong_count ==
  1 + (IF acceptor.client \in Clients THEN 1 ELSE 0) + Cardinality(Threads)

ServerInit ==
  /\ Init
  /\ client = [c \in Clients |-> "idle"]
  /\ sent = [c \in Clients |-> <<>>]
  /\ toServer = [c \in Clients |-> <<>>]
  /\ toClient = [c \in Clients |-> <<>>]
  /\ reset = {}
  /\ backlog = <<>>
  /\ acceptor = [at |-> "incoming", client |-> Nobody]
  /\ thread = [c \in Clients |-> "none"]
  /\ request = [c \in Clients |-> NoRequest]
  /\ holder = {}
  /\ ghosts = 0

-----------------------------------------------------------------------------
\* The client and the network

ClientUnchanged ==
  UNCHANGED <<vars, acceptor, thread, request, holder, ghosts>>

\* Database.connect: the kernel completes the connection before the server does
Connect(c) ==
  /\ client[c] = "idle"
  /\ client' = [client EXCEPT ![c] = "connecting"]
  /\ backlog' = Append(backlog, c)
  /\ UNCHANGED <<sent, toServer, toClient, reset>> /\ ClientUnchanged

Send(c) ==
  /\ client[c] = "ready"
  /\ Len(sent[c]) < MaxSent[c]
  /\ \E r \in Requests :
       /\ r.command # "Exit"
       /\ toServer' = [toServer EXCEPT ![c] = Append(@, r)]
       /\ sent' = [sent EXCEPT ![c] = Append(@, r)]
  /\ client' = [client EXCEPT ![c] = "waiting"]
  /\ UNCHANGED <<toClient, reset, backlog>> /\ ClientUnchanged

\* s.recv: the response to connect, or to the request; who is refused still sends EXIT
Receive(c) ==
  /\ client[c] \in {"connecting", "waiting"}
  /\ toClient[c] # <<>>
  /\ IF Head(toClient[c]) = SERVER_BUSY
     THEN /\ client' = [client EXCEPT ![c] = "refused"]
          /\ toServer' = [toServer EXCEPT ![c] = Append(@, EXIT)]
     ELSE client' = [client EXCEPT ![c] = "ready"] /\ UNCHANGED toServer
  /\ toClient' = [toClient EXCEPT ![c] = Tail(@)]
  /\ UNCHANGED <<sent, reset, backlog>> /\ ClientUnchanged

\* Database.close
Exit(c) ==
  /\ client[c] = "ready"
  /\ client' = [client EXCEPT ![c] = "exited"]
  /\ toServer' = [toServer EXCEPT ![c] = Append(@, EXIT)]
  /\ UNCHANGED <<sent, toClient, reset, backlog>> /\ ClientUnchanged

\* The program ends without close: what it sent is still delivered, then nothing
Quit(c) ==
  /\ c \in Quitters
  /\ client[c] \in {"connecting", "ready", "waiting"}
  /\ client' = [client EXCEPT ![c] = "gone"]
  /\ UNCHANGED <<sent, toServer, toClient, reset, backlog>> /\ ClientUnchanged

\* The kernel of a client that is gone refuses what the server sent to it
Reset(c) ==
  /\ client[c] = "gone"
  /\ toClient[c] # <<>>
  /\ c \notin reset
  /\ reset' = reset \cup {c}
  /\ UNCHANGED <<client, sent, toServer, toClient, backlog>> /\ ClientUnchanged

-----------------------------------------------------------------------------
\* multi_threaded

AcceptorUnchanged ==
  UNCHANGED <<vars, client, sent, toServer, reset, request, holder, ghosts>>

\* listener.incoming() returns a stream and db is cloned for it
Accept ==
  /\ acceptor.at = "incoming"
  /\ backlog # <<>>
  /\ acceptor' = [at |-> "accepted", client |-> Head(backlog)]
  /\ backlog' = Tail(backlog)
  /\ UNCHANGED <<toClient, thread>> /\ AcceptorUnchanged

\* The clone moves into a thread
Spawn ==
  /\ acceptor.at = "accepted"
  /\ ~(strong_count > BusyThreshold)
  /\ thread' = [thread EXCEPT ![acceptor.client] = "hello"]
  /\ acceptor' = [at |-> "incoming", client |-> Nobody]
  /\ UNCHANGED <<toClient, backlog>> /\ AcceptorUnchanged

Refuse ==
  /\ acceptor.at = "accepted"
  /\ strong_count > BusyThreshold
  /\ toClient' = [toClient EXCEPT ![acceptor.client] = Append(@, SERVER_BUSY)]
  /\ acceptor' = [acceptor EXCEPT !.at = "shutdown"]
  /\ UNCHANGED <<backlog, thread>> /\ AcceptorUnchanged

\* shutdown(Both).unwrap(): it fails on a connection that was reset, and a panic
\* of the main thread ends the process with all its threads
ShutdownRefused ==
  /\ acceptor.at = "shutdown"
  /\ acceptor' = [at |-> IF acceptor.client \in reset THEN "panicked" ELSE "incoming",
                  client |-> Nobody]
  /\ UNCHANGED <<toClient, backlog, thread>> /\ AcceptorUnchanged

-----------------------------------------------------------------------------
\* handle_connection

ThreadUnchanged == UNCHANGED <<client, sent, reset, backlog, acceptor>>

GoTo(c, at) == thread' = [thread EXCEPT ![c] = at]

\* respond: a write fails once the connection is known to be reset
Write(c, message, next) ==
  IF c \in reset THEN GoTo(c, "ended") /\ UNCHANGED toClient
  ELSE GoTo(c, next) /\ toClient' = [toClient EXCEPT ![c] = Append(@, message)]

Hello(c) ==
  /\ thread[c] = "hello"
  /\ Write(c, CONNECTED, "receive")
  /\ UNCHANGED <<vars, toServer, request, holder, ghosts>> /\ ThreadUnchanged

\* Mutant: EXIT is a request like any other
ExitIsServed(c) ==
  /\ thread[c] = "receive"
  /\ toServer[c] # <<>>
  /\ toServer' = [toServer EXCEPT ![c] = Tail(@)]
  /\ GoTo(c, "lock")
  /\ request' = [request EXCEPT ![c] = Head(toServer[c])]
  /\ UNCHANGED <<vars, toClient, holder, ghosts>> /\ ThreadUnchanged

\* A packet of the client: EXIT ends the loop
ReceivePacket(c) ==
  /\ thread[c] = "receive"
  /\ toServer[c] # <<>>
  /\ toServer' = [toServer EXCEPT ![c] = Tail(@)]
  /\ LET m == Head(toServer[c]) IN
     IF m.command = "Exit" THEN GoTo(c, "ended") /\ UNCHANGED request
     ELSE /\ GoTo(c, IF m \in Endless THEN "endless" ELSE "lock")
          /\ request' = [request EXCEPT ![c] = m]
  /\ UNCHANGED <<vars, toClient, holder, ghosts>> /\ ThreadUnchanged

\* read returned an error
ReceiveError(c) ==
  /\ thread[c] = "receive"
  /\ c \in reset
  /\ toServer[c] = <<>>
  /\ GoTo(c, "bad")
  /\ UNCHANGED <<vars, toServer, toClient, request, holder, ghosts>> /\ ThreadUnchanged

\* read returned 0, which receive does not look at: it parses the uninitialised
\* buffer, which is what this thread read last, or a thread whose stack it was
\* given, or nothing it can parse
ReceiveNothing(c) ==
  /\ thread[c] = "receive"
  /\ client[c] = "gone" /\ c \notin reset
  /\ toServer[c] = <<>>
  /\ \/ GoTo(c, "bad") /\ UNCHANGED <<request, ghosts>>
     \/ GoTo(c, "ended") /\ UNCHANGED <<request, ghosts>>
     \/ /\ ghosts < MaxGhosts
        /\ ghosts' = ghosts + 1
        /\ \E d \in Clients :
             /\ d = c \/ thread[d] = "none"
             /\ request[d] # NoRequest
             /\ request' = [request EXCEPT ![c] = request[d]]
             /\ GoTo(c, IF request[d] \in Endless THEN "endless" ELSE "lock")
  /\ UNCHANGED <<vars, toServer, toClient, holder>> /\ ThreadUnchanged

BadRequest(c) ==
  /\ thread[c] = "bad"
  /\ Write(c, BAD_REQUEST, "ended")
  /\ UNCHANGED <<vars, toServer, request, holder, ghosts>> /\ ThreadUnchanged

\* Mutant: no mutex
LockIgnored(c) ==
  /\ thread[c] = "lock"
  /\ holder' = holder \cup {c}
  /\ GoTo(c, "locked")
  /\ UNCHANGED <<vars, toServer, toClient, request, ghosts>> /\ ThreadUnchanged

Lock(c) ==
  /\ thread[c] = "lock"
  /\ holder = {}
  /\ holder' = {c}
  /\ GoTo(c, "locked")
  /\ UNCHANGED <<vars, toServer, toClient, request, ghosts>> /\ ThreadUnchanged

\* Mutant: the guard of the mutex is a temporary of the call to handle_request
UnlockedWhenHandled(c) ==
  /\ \/ thread[c] = "locked" /\ handle_request(request[c])
     \/ thread[c] = "dropping" /\ DropStep
  /\ GoTo(c, IF frames' = <<>> THEN "respond" ELSE "dropping")
  /\ holder' = {}
  /\ UNCHANGED <<toServer, toClient, request, ghosts>> /\ ThreadUnchanged

\* database::handle_request, as far as it goes in one step
Handle(c) ==
  /\ \/ thread[c] = "locked" /\ handle_request(request[c])
     \/ thread[c] = "dropping" /\ DropStep
  /\ GoTo(c, IF frames' = <<>> THEN "respond" ELSE "dropping")
  /\ UNCHANGED <<toServer, toClient, request, holder, ghosts>> /\ ThreadUnchanged

\* Mutant: a response that cannot be written leaves the mutex locked
LockedForGood(c) ==
  /\ thread[c] = "respond"
  /\ Write(c, call, "unlock")
  /\ UNCHANGED <<vars, toServer, request, holder, ghosts>> /\ ThreadUnchanged

\* The guard of the mutex lives to the end of the loop's body, and no longer than
\* handle_connection where the response cannot be written
Answer(c) ==
  /\ thread[c] = "respond"
  /\ Write(c, call, "unlock")
  /\ holder' = IF c \in reset THEN {} ELSE holder
  /\ UNCHANGED <<vars, toServer, request, ghosts>> /\ ThreadUnchanged

Unlock(c) ==
  /\ thread[c] = "unlock"
  /\ holder' = {}
  /\ GoTo(c, "receive")
  /\ UNCHANGED <<vars, toServer, toClient, request, ghosts>> /\ ThreadUnchanged

\* The stream was closed when handle_connection returned, the Arc goes after it
DropArc(c) ==
  /\ thread[c] = "ended"
  /\ GoTo(c, "none")
  /\ UNCHANGED <<vars, toServer, toClient, request, holder, ghosts>> /\ ThreadUnchanged

-----------------------------------------------------------------------------
ClientStep(c) == Connect(c) \/ Send(c) \/ Receive(c) \/ Exit(c) \/ Quit(c)

AcceptorStep == Accept \/ Spawn \/ Refuse \/ ShutdownRefused

ThreadStep(c) ==
  \/ Hello(c) \/ ReceivePacket(c) \/ ReceiveError(c) \/ ReceiveNothing(c)
  \/ BadRequest(c) \/ Lock(c) \/ Handle(c) \/ Answer(c) \/ Unlock(c) \/ DropArc(c)

ServerNext ==
  /\ AcceptorUp
  /\ \/ AcceptorStep
     \/ \E c \in Clients : ClientStep(c) \/ Reset(c) \/ ThreadStep(c)

ServerSpec == ServerInit /\ [][ServerNext]_allVars

\* The scheduler runs the accept loop and every thread; a mutex nobody holds goes
\* to one of those who wait for it; the network delivers.  A client need not do
\* anything but read its responses.
FairServerSpec ==
  /\ ServerSpec
  /\ WF_allVars(AcceptorUp /\ AcceptorStep)
  /\ \A c \in Clients : WF_allVars(AcceptorUp /\ ThreadStep(c))
  /\ \A c \in Clients : WF_allVars(AcceptorUp /\ (Receive(c) \/ Reset(c)))

-----------------------------------------------------------------------------
(***************************************************************************)
(* Properties                                                              *)
(***************************************************************************)
Message == {CONNECTED, SERVER_BUSY, BAD_REQUEST}
             \cup [request : Requests, response : Response]

\* The states of clients, threads and the accept loop, and what the two directions of a
\* connection carry: requests and EXIT one way, one response per request the other.
ServerTypeOK ==
  /\ client \in [Clients -> {"idle", "connecting", "ready", "waiting", "refused",
                             "exited", "gone"}]
  /\ sent \in [Clients -> Seq(Requests)]
  /\ toServer \in [Clients -> Seq(Requests \cup {EXIT})]
  /\ toClient \in [Clients -> Seq(Message)]
  /\ reset \subseteq Clients
  /\ backlog \in Seq(Clients)
  /\ acceptor \in [at : {"incoming", "panicked"}, client : {Nobody}]
               \cup [at : {"accepted", "shutdown"}, client : Clients]
  /\ thread \in [Clients -> {"none", "hello", "receive", "endless", "bad", "lock",
                             "locked", "dropping", "respond", "unlock", "ended"}]
  /\ request \in [Clients -> Requests \cup {NoRequest}]
  /\ holder \subseteq Clients
  /\ ghosts \in 0..MaxGhosts

\* At most four clients are served at a time (5 clones, less the accept loop's),
\* although the threads give their clones back whenever they please.
ServedBound == Cardinality(Threads) <= BusyThreshold - 1

\* The threads that are somewhere between lock() and the end of the loop's body
\* are those that hold the mutex, one at most; a cascade is begun and finished
\* by the thread that holds it.
InSection(c) == thread[c] \in {"locked", "dropping", "respond", "unlock"}
MutexHeld ==
  /\ holder = {c \in Clients : InSection(c)}
  /\ Cardinality(holder) <= 1
  /\ frames # <<>> <=> \E c \in Clients : thread[c] = "dropping"

\* The threads, interleaved at every step, are one database that serves one
\* request at a time: no handler starts inside the cascade of another.
Serialised == Spec

\* A client that waits for the response to a request never reads the response to
\* anything else: neither one to another client nor one that is late.
AnswersMatch ==
  \A c \in Clients : client[c] # "gone" /\ toClient[c] # <<>> =>
    LET m == Head(toClient[c]) IN
    /\ Len(toClient[c]) = 1
    /\ \/ client[c] = "connecting" /\ m \in {CONNECTED, SERVER_BUSY}
       \/ client[c] = "waiting" /\ m.request = sent[c][Len(sent[c])]

\* Whoever connects is greeted or refused, and a request of a client that stays is answered.
ClientsAnswered ==
  \A c \in Clients : LET waits == client[c] \in {"connecting", "waiting"} IN
    waits ~> (~waits \/ ~AcceptorUp)

\* The place of a client that left, with or without EXIT, becomes free.
PlacesFreed ==
  \A c \in Clients :
    (client[c] \in {"exited", "gone"}) ~>
      (\/ thread[c] = "none" /\ acceptor.client # c /\ c \notin Range(backlog)
       \/ ~AcceptorUp)
=============================================================================
