---------------------------- MODULE RpcRecency ----------------------------
(***************************************************************************)
(* What the list of connections of the RPC server promises: the live ones, *)
(* each once, the one that was active last first.                          *)
(***************************************************************************)
EXTENDS Naturals, Sequences

CONSTANT Connections

VARIABLE order

\* The order without c
Others(c) ==
  LET place == CHOOSE i \in DOMAIN order : order[i] = c
  IN [i \in 1..(Len(order) - 1) |-> order[IF i < place THEN i ELSE i + 1]]

Held == {order[i] : i \in DOMAIN order}

Init == order = <<>>

New(c) ==
  /\ c \notin Held
  /\ order' = <<c>> \o order

Active(c) ==
  /\ c \in Held
  /\ order' = <<c>> \o Others(c)

Close(c) ==
  /\ c \in Held
  /\ order' = Others(c)

Next == \E c \in Connections : New(c) \/ Active(c) \/ Close(c)

Spec == Init /\ [][Next]_order
=============================================================================
