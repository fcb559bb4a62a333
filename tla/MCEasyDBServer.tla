--------------------------- MODULE MCEasyDBServer ---------------------------
(***************************************************************************)
(* An instance of EasyDBServer for TLC.                                    *)
(***************************************************************************)
EXTENDS EasyDBServer, MCEasyDBValues

CONSTANTS a, b, c

TwoTables == << <<Col(INTEGER)>>, <<Ref(1)>> >>

InsertUser    == [command |-> "Insert", table_id |-> 1, values |-> <<Int1(1)>>]
InsertAccount == [command |-> "Insert", table_id |-> 2, values |-> <<Foreign(1)>>]
DropUser      == [command |-> "Drop", table_id |-> 1, object_id |-> 1]

\* How many requests each connection sends
OneOneNone == [d \in Clients |-> IF d = c THEN 0 ELSE 1]

ServerRequests == {InsertUser, InsertAccount, DropUser}
=============================================================================
