-------------------------- MODULE RpcConnections --------------------------
(***************************************************************************)
(* The list of the connections of the RPC server (asst4/rpc.cc): doubly    *)
(* linked through next_lru and next_mru, with the server's lru and mru for *)
(* its ends.  ~Server walks the list while it takes connections out of it. *)
(*                                                                         *)
(* A member of Connections is an address; `new' may return one that was    *)
(* deleted, whose fields hold what they held.                              *)
(***************************************************************************)
EXTENDS Naturals, Sequences, FiniteSets

CONSTANTS Connections, NULL

ASSUME NullAssumption == NULL \notin Connections

VARIABLES
  list,         \* lru and mru of the server, next_lru and next_mru of each connection
  live,         \* connections that are constructed and not deleted
  registered,   \* those whose socket is in the event poll
  at,           \* "running", then ~Server: "destroying", "destroyed"
  conn          \* where the loop of ~Server is

vars == <<list, live, registered, at, conn>>

Init ==
  /\ list = [mru |-> NULL, lru |-> NULL,
             next_mru |-> [c \in Connections |-> NULL],
             next_lru |-> [c \in Connections |-> NULL]]
  /\ live = {}
  /\ registered = {}
  /\ at = "running"
  /\ conn = NULL

-----------------------------------------------------------------------------
\* Mutant: the server's ends of the list are left alone
UnlinkInside(l, c) ==
  LET newer == l.next_lru[c]
      older == l.next_mru[c] IN
  [l EXCEPT
     !.next_mru = IF newer = NULL THEN @ ELSE [@ EXCEPT ![newer] = older],
     !.next_lru = IF older = NULL THEN @ ELSE [@ EXCEPT ![older] = newer]]

DeleteFromLRU(l, c) ==
  LET newer == l.next_lru[c]
      older == l.next_mru[c] IN
  [l EXCEPT
     !.next_mru = IF newer = NULL THEN @ ELSE [@ EXCEPT ![newer] = older],
     !.mru      = IF newer = NULL THEN older ELSE @,
     !.next_lru = IF older = NULL THEN @ ELSE [@ EXCEPT ![older] = newer],
     !.lru      = IF older = NULL THEN newer ELSE @]

\* Mutant: the connection goes to the other end
LinkLast(l, c) ==
  [l EXCEPT
     !.next_lru = [@ EXCEPT ![c] = l.lru],
     !.next_mru = IF l.lru = NULL THEN [@ EXCEPT ![c] = NULL]
                                  ELSE [@ EXCEPT ![c] = NULL, ![l.lru] = c],
     !.mru      = IF l.lru = NULL THEN c ELSE @,
     !.lru      = c]

\* MarkActive of a connection that is not in the list
LinkFirst(l, c) ==
  [l EXCEPT
     !.next_mru = [@ EXCEPT ![c] = l.mru],
     !.next_lru = IF l.mru = NULL THEN [@ EXCEPT ![c] = NULL]
                                  ELSE [@ EXCEPT ![c] = NULL, ![l.mru] = c],
     !.lru      = IF l.mru = NULL THEN c ELSE @,
     !.mru      = c]

-----------------------------------------------------------------------------
\* The Connection stays in the list where the event poll does not take its socket
OnNewConnection(c) ==
  /\ at = "running"
  /\ c \notin live
  /\ list' = LinkFirst(list, c)
  /\ live' = live \cup {c}
  /\ registered' \in {registered, registered \cup {c}}
  /\ UNCHANGED <<at, conn>>

\* An event without an error: MarkActive
OnConnectionEvent(c) ==
  /\ at = "running"
  /\ c \in registered
  /\ list' = LinkFirst(DeleteFromLRU(list, c), c)
  /\ UNCHANGED <<live, registered, at, conn>>

\* CloseConnection and ~Connection
Delete(c) ==
  /\ list' = DeleteFromLRU(list, c)
  /\ live' = live \ {c}
  /\ registered' = registered \ {c}

CloseConnection(c) ==
  /\ at = "running"
  /\ c \in registered
  /\ Delete(c)
  /\ UNCHANGED <<at, conn>>

StartDestroy ==
  /\ at = "running"
  /\ at' = "destroying"
  /\ conn' = list.mru
  /\ UNCHANGED <<list, live, registered>>

\* Mutant: the loop goes on from what is now the mru end
FromMRU ==
  /\ at = "destroying"
  /\ conn # NULL
  /\ IF conn \in registered THEN Delete(conn) ELSE UNCHANGED <<list, live, registered>>
  /\ conn' = list'.mru
  /\ UNCHANGED at

\* One round of the loop: a connection that is not in the event poll is not closed
DestroyNext ==
  /\ at = "destroying"
  /\ conn # NULL
  /\ conn' = list.next_mru[conn]
  /\ IF conn \in registered THEN Delete(conn) ELSE UNCHANGED <<list, live, registered>>
  /\ UNCHANGED at

Destroyed ==
  /\ at = "destroying"
  /\ conn = NULL
  /\ at' = "destroyed"
  /\ UNCHANGED <<list, live, registered, conn>>

Next ==
  \/ \E c \in Connections :
       OnNewConnection(c) \/ OnConnectionEvent(c) \/ CloseConnection(c)
  \/ StartDestroy \/ DestroyNext \/ Destroyed

Spec == Init /\ [][Next]_vars

-----------------------------------------------------------------------------
Links == Connections \cup {NULL}

Lists == [mru : Links, lru : Links,
          next_mru : [Connections -> Links], next_lru : [Connections -> Links]]

\* The variables hold connections or null where the code declares a pointer.
ConnectionsTypeOK ==
  /\ list \in Lists
  /\ live \in SUBSET Connections
  /\ registered \in SUBSET live
  /\ at \in {"running", "destroying", "destroyed"}
  /\ conn \in Links

Linked(l, L) ==
  /\ l.mru \in L \cup {NULL} /\ l.lru \in L \cup {NULL}
  /\ l.mru = NULL <=> l.lru = NULL
  /\ \A c \in L :
       /\ l.next_lru[c] = NULL <=> l.mru = c
       /\ l.next_mru[c] = NULL <=> l.lru = c
       /\ l.next_lru[c] # NULL =>
            l.next_lru[c] \in L /\ l.next_mru[l.next_lru[c]] = c
       /\ l.next_mru[c] # NULL =>
            l.next_mru[c] \in L /\ l.next_lru[l.next_mru[c]] = c

\* Nothing that is reached from the server, from a live connection or from where the loop
\* of ~Server stands is deleted memory: of two neighbours each points to the other, the
\* ends are the server's lru and mru (DeleteFromLRU writes through these links,
\* rpc.cc:119), and the loop read next_mru while the connection was there (rpc.cc:255).
LinksMatch ==
  /\ Linked(list, live)
  /\ at = "destroying" => conn \in live \cup {NULL}

FairSpec == Spec /\ WF_vars(DestroyNext \/ Destroyed)

\* ~Server ends, and has then deleted every connection but those the event poll never
\* took (rpc.cc:256): the links lead it, while it deletes, to all of them.
DestructorEnds == at = "destroying" ~> at = "destroyed" /\ registered = {}

\* As many connections as there are in L, along next_mru from the mru end on
Walk(l, L) ==
  LET nth[i \in 1..Cardinality(L)] ==
        IF i = 1 THEN l.mru
        ELSE IF nth[i - 1] = NULL THEN NULL ELSE l.next_mru[nth[i - 1]]
  IN nth

Recency == INSTANCE RpcRecency WITH order <- Walk(list, live)

\* The list is at every step a sequence of the live connections, and each operation does
\* to it what RpcRecency says.
ImplementsRecency == Recency!Spec
=============================================================================
