--------------------------- MODULE MCEasyDBClient ---------------------------
(***************************************************************************)
(* A program that makes a few calls on a database of three tables, while   *)
(* another client, which has stored rows with NULLs, drops one.            *)
(***************************************************************************)
EXTENDS EasyDBClient, MCEasyDBValues

SmallSchema == << <<Col(INTEGER)>>, <<Ref(1), Col(TEXT)>>, <<Col(FLOAT)>> >>

SmallStored ==
  << [i \in 1..5 |-> <<Int1(i)>>], << <<Foreign(1), Text(1)>>, <<Foreign(1), Null>> >>,
     << <<Float(1)>>, <<Null>> >> >>

\* Rows that this client can store
PlainStored == [SmallStored EXCEPT ![2] = << <<Foreign(1), Text(1)>> >>, ![3] = << <<Float(1)>> >>]

\* Packets of the client are up to 14 words long, but the last of these inserts
SmallCalls ==
  UNION {
    [method : {"insert"}, table : {2},
     values : {<<Py(1), Text(1)>>, <<Py(9), Text(2)>>, <<Py(2), Text(0)>>,
               <<Py(1), Text(8)>>, <<Py(1)>>, <<Py(1), None>>}],
    [method : {"update"}, table : {2}, pk : {1}, version : {1},
     values : {<<Py(3), Text(3)>>}],
    [method : {"drop", "get"}, table : {2, 4}, pk : {1}],
    [method : {"get"}, table : {2, 3}, pk : {2}],
    [method : {"scan"}, table : {1}, op : {OP_AL}, column : {-1}, value : {None}],
    [method : {"scan"}, table : {2}, op : {OP_EQ}, column : {0, 1}, value : {Py(1)}],
    [method : {"scan"}, table : {2}, op : {OP_LT}, column : {0, 2},
     value : {Text(2), Text(0)}],
    [method : {"scan"}, table : {3}, op : {OP_EQ}, column : {1}, value : {Float(1)}] }

OtherRequests == Drops({2}, {2})
=============================================================================
