---------------------------- MODULE EasyDBTables ----------------------------
(***************************************************************************)
(* The tables of the EasyDB database, asst3/database.rs, and the handlers  *)
(* that read and write them in one step: insert, update, get and query.    *)
(* A table maps the ids of its live rows to a version and the values of    *)
(* the row.  Ids are handed out by row_count, which only grows.            *)
(*                                                                         *)
(* How a row is dropped is left to the modules that extend this one:       *)
(* EasyDB has the recursion of the program, AtomicDB what it is for.       *)
(*                                                                         *)
(* Integers, floats and strings are represented by integers in the order   *)
(* the program compares them; no float is a NaN.                           *)
(***************************************************************************)
EXTENDS Integers, Sequences, FiniteSets, Functions

CONSTANTS
  Schema,      \* the tables in the order of the schema file: sequences of columns
  Requests,    \* the requests clients send
  MaxId,       \* bound: rows ever inserted into one table
  MaxVersion   \* bound: versions of one row

\* Types of a value and of a column
NULL    == 0
INTEGER == 1
FLOAT   == 2
TEXT    == 3      \* Value::STRING, a name that TLA+ reserves
FOREIGN == 4

\* Operators of a query
OP_AL == 1
OP_EQ == 2
OP_NE == 3
OP_LT == 4
OP_GT == 5
OP_LE == 6
OP_GE == 7

\* Codes of a response
OK            == 1
NOT_FOUND     == 2
BAD_TABLE     == 3
BAD_QUERY     == 4
TXN_ABORT     == 5
BAD_VALUE     == 6
BAD_ROW       == 7
BAD_FOREIGN   == 9
UNIMPLEMENTED == 11

TableIds == DOMAIN Schema

Column == [c_type : {INTEGER, FLOAT, TEXT, FOREIGN}, c_ref : Nat]
Value  == [type : NULL..FOREIGN, val : Int]
Row    == [version : Nat \ {0}, row_values : Seq(Value)]

Request ==
       [command : {"Insert"}, table_id : Int, values : Seq(Value)]
  \cup [command : {"Update"}, table_id : Int, object_id : Int, version : Int,
        values : Seq(Value)]
  \cup [command : {"Drop", "Get"}, table_id : Int, object_id : Int]
  \cup [command : {"Query"}, table_id : Int, column_id : Nat, operator : Int,
        value : Value]
  \cup [command : {"Exit"}, table_id : Int]

(***************************************************************************)
(* What the schema parser guarantees: a column refers to a table exactly   *)
(* when it is of a foreign type, and then to one declared before its own.  *)
(***************************************************************************)
ASSUME SchemaAssumption ==
  /\ Schema \in Seq(Seq(Column))
  /\ \A t \in TableIds : \A i \in DOMAIN Schema[t] :
       /\ Schema[t][i].c_ref < t
       /\ Schema[t][i].c_type = FOREIGN <=> Schema[t][i].c_ref # 0

ASSUME RequestsAssumption == Requests \subseteq Request

ASSUME BoundsAssumption == MaxId \in Nat /\ MaxVersion \in Nat

VARIABLES
  content,     \* table id -> (id of a live row -> row)
  row_count,   \* table id -> the last id given to a row of the table
  call         \* the request last taken and the response to it

Error(code)          == [kind |-> "Error", code |-> code]
Inserted(id, ver)    == [kind |-> "Insert", id |-> id, version |-> ver]
Updated(ver)         == [kind |-> "Update", version |-> ver]
Dropped              == [kind |-> "Drop"]
Got(ver, values)     == [kind |-> "Get", version |-> ver, values |-> values]
Queried(ids)         == [kind |-> "Query", ids |-> ids]
Pending              == [kind |-> "Pending"]   \* handle_request has not returned
NoRequest            == [command |-> "None"]

Response ==
       [kind : {"Error"}, code : OK..UNIMPLEMENTED]
  \cup [kind : {"Insert"}, id : 1..MaxId, version : Nat]
  \cup [kind : {"Update"}, version : Nat]
  \cup [kind : {"Get"}, version : Nat, values : Seq(Value)]
  \cup [kind : {"Query"}, ids : SUBSET (1..MaxId)]
  \cup [kind : {"Drop", "Pending"}]

Respond(req, response) == call' = [request |-> req, response |-> response]

Live(t, o) == t \in TableIds /\ o \in DOMAIN content[t]

-----------------------------------------------------------------------------
\* Database::new
InitTables ==
  /\ content = [t \in TableIds |-> [o \in {} |-> {}]]
  /\ row_count = [t \in TableIds |-> 0]
  /\ call = [request |-> NoRequest, response |-> Pending]

(***************************************************************************)
(* check_row: the table exists, the number of values is right, and then    *)
(* value by value from the left.  A NULL is accepted in any column.        *)
(***************************************************************************)
\* Mutant: the type of a value is not compared with that of its column
AnyTypeInColumn(col, v) ==
  IF v.type = FOREIGN /\ col.c_ref = 0 THEN BAD_VALUE
  ELSE IF v.type = FOREIGN /\ ~Live(col.c_ref, v.val) THEN BAD_FOREIGN
  ELSE OK

check_value(col, v) ==
  IF v.type = FOREIGN /\ col.c_ref = 0 THEN BAD_VALUE
  ELSE IF v.type = FOREIGN /\ ~Live(col.c_ref, v.val) THEN BAD_FOREIGN
  ELSE IF v.type \notin {NULL, col.c_type} THEN BAD_VALUE
  ELSE OK

ValidRow(t, values) ==
  /\ t \in TableIds
  /\ Len(values) = Len(Schema[t])
  /\ \A i \in DOMAIN values : check_value(Schema[t][i], values[i]) = OK

\* The code of the first error, of which there is at most one
RowErrors(t, values) ==
  IF t \notin TableIds THEN {BAD_TABLE}
  ELSE IF Len(values) # Len(Schema[t]) THEN {BAD_ROW}
  ELSE LET code(i) == check_value(Schema[t][i], values[i])
       IN  {code(i) : i \in {j \in DOMAIN values :
                               code(j) # OK /\ \A k \in 1..(j - 1) : code(k) = OK}}

refuse_row(req) ==
  /\ \E code \in RowErrors(req.table_id, req.values) : Respond(req, Error(code))
  /\ UNCHANGED <<content, row_count>>

\* check_object: version 0 asks for an update whatever the version of the row
Matches(row, version) == version \in {0, row.version}

\* Mutant: the lowest free id is reused
FreeId(t) == CHOOSE i \in 1..(row_count[t] + 1) :
               i \notin DOMAIN content[t] /\ 1..(i - 1) \subseteq DOMAIN content[t]

NextId(t) == row_count[t] + 1

handle_insert(req) ==
  LET t  == req.table_id
      id == NextId(t) IN
  \/ refuse_row(req)
  \/ /\ ValidRow(t, req.values)
     /\ row_count[t] < MaxId
     /\ row_count' = [row_count EXCEPT ![t] = id]
     /\ content' = [content EXCEPT ![t] =
           [o \in DOMAIN content[t] \cup {id} |->
              IF o = id THEN [version |-> 1, row_values |-> req.values]
                        ELSE content[t][o]]]
     /\ Respond(req, Inserted(id, 1))

\* Mutant: an update keeps the version of the row
SameVersion(row) == row.version

NextVersion(row) == row.version + 1

\* The values are checked before the object, so a bad row hides a missing object.
handle_update(req) ==
  LET t   == req.table_id
      o   == req.object_id
      new == NextVersion(content[t][o]) IN
  \/ refuse_row(req)
  \/ /\ ValidRow(t, req.values)
     /\ IF Live(t, o) THEN /\ ~Matches(content[t][o], req.version)
                           /\ Respond(req, Error(TXN_ABORT))
                      ELSE Respond(req, Error(NOT_FOUND))
     /\ UNCHANGED <<content, row_count>>
  \/ /\ ValidRow(t, req.values)
     /\ Live(t, o)
     /\ Matches(content[t][o], req.version)
     /\ new <= MaxVersion
     /\ content' = [content EXCEPT ![t] =
           [@ EXCEPT ![o] = [version |-> new, row_values |-> req.values]]]
     /\ Respond(req, Updated(new))
     /\ UNCHANGED row_count

handle_get(req) ==
  LET t == req.table_id
      o == req.object_id IN
  /\ UNCHANGED <<content, row_count>>
  /\ \/ t \notin TableIds /\ Respond(req, Error(BAD_TABLE))
     \/ t \in TableIds /\ ~Live(t, o) /\ Respond(req, Error(NOT_FOUND))
     \/ /\ Live(t, o)
        /\ Respond(req, Got(content[t][o].version, content[t][o].row_values))

-----------------------------------------------------------------------------
\* Mutant: <= without the equal
StrictLE(op, i, j) ==
  \/ op = OP_EQ /\ i = j
  \/ op = OP_NE /\ i # j
  \/ op \in {OP_LT, OP_LE} /\ i < j
  \/ op = OP_GT /\ i > j
  \/ op = OP_GE /\ i >= j

value_is_satisfied(op, i, j) ==
  \/ op = OP_EQ /\ i = j
  \/ op = OP_NE /\ i # j
  \/ op = OP_LT /\ i < j
  \/ op = OP_GT /\ i > j
  \/ op = OP_LE /\ i <= j
  \/ op = OP_GE /\ i >= j

\* The operators that the match of handle_query has an arm for, by type of the field
Operators(type) ==
  CASE type \in {INTEGER, TEXT} -> OP_EQ..OP_GE
    [] type = FLOAT               -> OP_NE..OP_GE
    [] type = FOREIGN             -> {OP_EQ, OP_NE}
    [] type = NULL                -> {}

\* What is refused before a row is looked at
QueryRefused(t, col, op, v) ==
  \/ col > Len(Schema[t])
  \/ v.type = FOREIGN /\ op \notin {OP_EQ, OP_NE}
  \/ op = OP_AL /\ col # 0

\* The match on one row has an arm for it: column 0 is the id of the row
Comparable(t, o, col, op, v) ==
  IF col = 0 THEN v.type = NULL \/ (v.type = INTEGER /\ op \in {OP_EQ, OP_NE})
             ELSE /\ content[t][o].row_values[col].type = v.type
                  /\ op \in Operators(v.type)

Selected(t, o, col, op, v) ==
  IF col = 0 THEN v.type = NULL \/ value_is_satisfied(op, o, v.val)
             ELSE value_is_satisfied(op, content[t][o].row_values[col].val, v.val)

\* The response to a query; the ids come in the order of a HashMap, a set here
QueryResponse(t, col, op, v) ==
  IF t \notin TableIds THEN Error(BAD_TABLE)
  ELSE IF QueryRefused(t, col, op, v) THEN Error(BAD_QUERY)
  ELSE IF \E o \in DOMAIN content[t] : ~Comparable(t, o, col, op, v)
       THEN Error(BAD_QUERY)
  ELSE Queried({o \in DOMAIN content[t] : Selected(t, o, col, op, v)})

handle_query(req) ==
  /\ Respond(req, QueryResponse(req.table_id, req.column_id, req.operator, req.value))
  /\ UNCHANGED <<content, row_count>>

\* Database::handle_request, but for Drop
handle_in_one_step(req) ==
  \/ req.command = "Insert" /\ handle_insert(req)
  \/ req.command = "Update" /\ handle_update(req)
  \/ req.command = "Get"    /\ handle_get(req)
  \/ req.command = "Query"  /\ handle_query(req)
  \/ /\ req.command = "Exit"
     /\ Respond(req, Error(UNIMPLEMENTED))
     /\ UNCHANGED <<content, row_count>>

\* A drop that is refused before anything is looked for
refuse_drop(req) ==
  /\ UNCHANGED <<content, row_count>>
  /\ \/ req.table_id \notin TableIds /\ Respond(req, Error(BAD_TABLE))
     \/ /\ req.table_id \in TableIds
        /\ ~Live(req.table_id, req.object_id)
        /\ Respond(req, Error(NOT_FOUND))

-----------------------------------------------------------------------------
\* Mutant: a field refers to the rows with its value in every table
RefersAnyTable(c, t, o) ==
  /\ Live(c.table_id, c.object_id)
  /\ c.column \in DOMAIN Schema[c.table_id]
  /\ content[c.table_id][c.object_id].row_values[c.column]
        = [type |-> FOREIGN, val |-> o]

\* The fields by which rows refer to the row o of the table t
Refers(c, t, o) ==
  /\ Live(c.table_id, c.object_id)
  /\ c.column \in DOMAIN Schema[c.table_id]
  /\ Schema[c.table_id][c.column].c_ref = t
  /\ content[c.table_id][c.object_id].row_values[c.column]
        = [type |-> FOREIGN, val |-> o]

Referrers(t, o) ==
  {c \in UNION {[table_id : {u}, object_id : DOMAIN content[u],
                 column : DOMAIN Schema[u]] : u \in TableIds} : Refers(c, t, o)}

SameRow(c, d) == c.table_id = d.table_id /\ c.object_id = d.object_id
=============================================================================
