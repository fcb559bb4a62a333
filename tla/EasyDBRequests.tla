--------------------------- MODULE EasyDBRequests ---------------------------
(***************************************************************************)
(* The methods of the Python class Database, asst1/easydb/easydb.py, up to *)
(* the request they send: what they check of their arguments, and how an   *)
(* error code becomes an exception.  Nothing here has a state.             *)
(*                                                                         *)
(* A Python value is written as a Value: None has the type NULL, an int    *)
(* the type INTEGER, the primary key in a foreign column included.         *)
(***************************************************************************)
EXTENDS EasyDBTables

None  == [type |-> NULL, val |-> 0]
Py(i) == [type |-> INTEGER, val |-> i]

\* The Python type that check_row and valueStruct want in a column
python_type(col) == IF col.c_type = FOREIGN THEN INTEGER ELSE col.c_type

\* check_input and check_row, with what valueStruct adds for foreign columns
check_values(t, values) ==
  /\ t \in TableIds
  /\ Len(values) = Len(Schema[t])
  /\ \A i \in DOMAIN values : values[i].type = python_type(Schema[t][i])

\* rowStruct: each value with the type of its column
rowStruct(t, values) ==
  [i \in DOMAIN values |-> [type |-> Schema[t][i].c_type, val |-> values[i].val]]

InsertRequest(t, values) ==
  [command |-> "Insert", table_id |-> t, values |-> rowStruct(t, values)]

UpdateRequest(t, pk, values, version) ==
  [command |-> "Update", table_id |-> t, object_id |-> pk, version |-> version,
   values |-> rowStruct(t, values)]

KeyRequest(command, t, pk) == [command |-> command, table_id |-> t, object_id |-> pk]

\* What scan accepts; column 0 stands for 'id', and -1 for no column, or none of
\* that name.  With AL it is not looked at, unless it is 'id'.
check_scan(t, op, i, v) ==
  /\ t \in TableIds
  /\ op \in OP_AL..OP_GE
  /\ \/ op = OP_AL /\ i # 0
     \/ i = 0 /\ op \in {OP_EQ, OP_NE} /\ v.type = INTEGER
     \/ /\ i \in DOMAIN Schema[t]
        /\ Schema[t][i].c_type = FOREIGN => op \in {OP_EQ, OP_NE}
        /\ v.type = python_type(Schema[t][i])

\* scan numbers columns from 1 and packs an id as a foreign key
ScanRequest(t, op, i, v) ==
  [command |-> "Query", table_id |-> t, operator |-> op,
   column_id |-> IF op = OP_AL THEN 0 ELSE i,
   value |-> CASE op = OP_AL -> None
               [] op # OP_AL /\ i = 0 -> [v EXCEPT !.type = FOREIGN]
               [] OTHER -> [v EXCEPT !.type = Schema[t][i].c_type]]

\* Codes that the database has no use for, but the server
BAD_REQUEST == 8
SERVER_BUSY == 10

\* errorCheck; a code it has no case for raises nothing
errorCheck(code) ==
  CASE code \in {BAD_FOREIGN, BAD_QUERY} -> "InvalidReference"
    [] code = TXN_ABORT                  -> "TransactionAbort"
    [] code = NOT_FOUND                  -> "ObjectDoesNotExist"
    [] code = BAD_REQUEST                -> "IndexError"
    [] OTHER                             -> "nothing"

\* What a method raises when it has its response.  After a code that errorCheck has
\* no case for, get has nothing to return.
raises(command, response) ==
  IF response.kind # "Error" THEN "nothing"
  ELSE IF errorCheck(response.code) = "nothing" /\ command = "Get"
       THEN "UnboundLocalError"
       ELSE errorCheck(response.code)
=============================================================================
