------------------------------ MODULE MCEasyDB ------------------------------
(***************************************************************************)
(* An instance of EasyDB for TLC: a schema and the requests sent to it.    *)
(***************************************************************************)
EXTENDS EasyDB, MCEasyDBValues

\* A table whose rows refer to two rows of the first one, or twice to one
TwoRefsSchema == << <<Col(INTEGER)>>, <<Ref(1), Ref(1)>> >>

TwoRefsRequests ==
  UNION { Inserts(1, {<<Int1(1)>>}),
          Inserts(2, {<<Foreign(1), Foreign(2)>>, <<Foreign(2), Foreign(2)>>}),
          Drops({1}, {1, 2}) }
=============================================================================
