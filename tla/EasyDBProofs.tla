---------------------------- MODULE EasyDBProofs ----------------------------
(***************************************************************************)
(* Theorems about EasyDB, for every schema, every set of requests and      *)
(* every bound, the last of which is that EasyDB implements AtomicDB: the  *)
(* recursion of handle_drop removes the family of a row, or gives up where *)
(* AtomicDB says it may.                                                   *)
(*                                                                         *)
(* Then theorems about EasyDBServer, for any number of connections: how    *)
(* many are served, that the mutex makes of the threads one database that  *)
(* serves one request at a time, and with that every theorem about EasyDB  *)
(* for the database behind the server; and that every answer goes to       *)
(* whoever asked, for which the invariant follows one request from the     *)
(* client's packet through the thread and the database to the packet that  *)
(* answers it.                                                             *)
(***************************************************************************)
EXTENDS EasyDBServer, EasyDBRefinement, SequenceTheorems, FiniteSetTheorems, TLAPS

Inv == TypeOK /\ RowsFitSchema /\ ReferentialIntegrity /\ RecursionBounded /\ Covered

-----------------------------------------------------------------------------
\* Facts about the constants and the operators

\* Tables are numbered from 1 in the order of the schema file (schema.rs), each with a
\* sequence of columns.
LEMMA SchemaFacts ==
  /\ TableIds = 1..Len(Schema)
  /\ Len(Schema) \in Nat
  /\ \A t \in TableIds :
       /\ Schema[t] \in Seq(Column)
       /\ Len(Schema[t]) \in Nat
       /\ DOMAIN Schema[t] = 1..Len(Schema[t])
       /\ \A i \in DOMAIN Schema[t] : Schema[t][i] \in Column
<1>1. Schema \in Seq(Seq(Column))
  BY SchemaAssumption
<1>2. TableIds = 1..Len(Schema) /\ Len(Schema) \in Nat
  BY <1>1, LenProperties DEF TableIds
<1>3. ASSUME NEW t \in TableIds
      PROVE  /\ Schema[t] \in Seq(Column)
             /\ Len(Schema[t]) \in Nat
             /\ DOMAIN Schema[t] = 1..Len(Schema[t])
             /\ \A i \in DOMAIN Schema[t] : Schema[t][i] \in Column
  <2>1. Schema[t] \in Seq(Column)
    BY <1>1, <1>2, <1>3, ElementOfSeq
  <2>2. Len(Schema[t]) \in Nat /\ DOMAIN Schema[t] = 1..Len(Schema[t])
    BY <2>1, LenProperties
  <2>3. \A i \in DOMAIN Schema[t] : Schema[t][i] \in Column
    BY <2>1, <2>2, ElementOfSeq
  <2> QED BY <2>1, <2>2, <2>3
<1> QED BY <1>2, <1>3

\* The fields that refer to a row are fields of live rows of later tables.
LEMMA ReferrersFacts ==
  ASSUME TypeOK, NEW t, NEW o, NEW c
  PROVE  c \in Referrers(t, o) <=>
           /\ c \in Cell
           /\ Refers(c, t, o)
<1>1. \A u \in TableIds : DOMAIN content[u] \subseteq 1..MaxId
  BY BoundsAssumption DEF TypeOK
<1>2. \A u \in TableIds : DOMAIN Schema[u] \subseteq Nat
  BY SchemaFacts
<1>3. c \in Referrers(t, o) <=>
        /\ \E u \in TableIds : c \in [table_id : {u}, object_id : DOMAIN content[u],
                                      column : DOMAIN Schema[u]]
        /\ Refers(c, t, o)
  BY DEF Referrers
<1> QED BY <1>1, <1>2, <1>3 DEF Cell, Refers, Live

\* A row refers only to tables declared before its own (schema.rs), so what the search of
\* handle_drop finds for a table lies in a later one.
LEMMA ReferrersLater ==
  ASSUME TypeOK, NEW t, NEW o, NEW c \in Referrers(t, o)
  PROVE  t < c.table_id
<1>1. Refers(c, t, o)
  BY ReferrersFacts
<1> QED BY <1>1, SchemaAssumption DEF Refers, Live

\* A value that check_value lets pass.
LEMMA CheckedValue ==
  ASSUME NEW col \in Column, NEW v \in Value, check_value(col, v) = OK
  PROVE  /\ v.type \in {NULL, col.c_type}
         /\ v.type = FOREIGN => Live(col.c_ref, v.val)
BY DEF check_value, OK, BAD_VALUE, BAD_FOREIGN

\* Every code that check_row refuses a row with is the code of a response.
LEMMA RowErrorsType ==
  ASSUME NEW t, NEW values, NEW code \in RowErrors(t, values)
  PROVE  Error(code) \in Response
<1>1. \A col, v : check_value(col, v) \in {OK, BAD_VALUE, BAD_FOREIGN}
  BY DEF check_value
<1>2. code \in {BAD_TABLE, BAD_ROW, OK, BAD_VALUE, BAD_FOREIGN}
  BY <1>1 DEF RowErrors
<1> QED BY <1>2 DEF Error, Response, OK, BAD_TABLE, BAD_ROW, BAD_VALUE, BAD_FOREIGN,
                    UNIMPLEMENTED

-----------------------------------------------------------------------------
\* Without a step of the database nothing changes

\* A step that leaves the database alone preserves its invariant.
LEMMA StutterInv ==
  ASSUME Inv, UNCHANGED vars
  PROVE  Inv'
<1> USE DEF vars
<1>1. TypeOK'
  BY DEF Inv, TypeOK
<1>2. RowsFitSchema'
  BY DEF Inv, RowsFitSchema
<1>3. ReferentialIntegrity'
  BY DEF Inv, ReferentialIntegrity, Live
<1>4. RecursionBounded'
  BY DEF Inv, RecursionBounded
<1>5. Covered'
  BY DEF Inv, Covered, Referrers, Refers, Live
<1> QED BY <1>1, <1>2, <1>3, <1>4, <1>5 DEF Inv

\* The invariant holds of the empty tables that Database::new makes.
LEMMA InitInv == Init => Inv
<1> SUFFICES ASSUME Init PROVE Inv
  OBVIOUS
<1> USE DEF Init, InitTables
<1>1. TypeOK
  BY BoundsAssumption DEF TypeOK, Response, Pending, NoRequest
<1>2. RowsFitSchema /\ ReferentialIntegrity
  BY DEF RowsFitSchema, ReferentialIntegrity
<1>3. RecursionBounded
  BY SchemaFacts DEF RecursionBounded
<1>4. Covered
  BY DEF Covered
<1> QED BY <1>1, <1>2, <1>3, <1>4 DEF Inv

-----------------------------------------------------------------------------
\* The steps of the handlers

\* A request that is only answered.
LEMMA AnswerInv ==
  ASSUME Inv, NEW req \in Requests, NEW r \in Response,
         Respond(req, r), UNCHANGED <<content, row_count, frames>>
  PROVE  Inv'
<1>1. TypeOK'
  BY DEF Inv, TypeOK, Respond
<1>2. RowsFitSchema'
  BY DEF Inv, RowsFitSchema
<1>3. ReferentialIntegrity'
  BY DEF Inv, ReferentialIntegrity, Live
<1>4. RecursionBounded'
  BY DEF Inv, RecursionBounded
<1>5. Covered'
  BY DEF Inv, Covered, Referrers, Refers, Live
<1> QED BY <1>1, <1>2, <1>3, <1>4, <1>5 DEF Inv

\* A row that passed check_row is put into its table, new or in the place of one.
LEMMA PutInv ==
  ASSUME Inv, frames = <<>>, UNCHANGED frames,
         NEW t \in TableIds, NEW id \in 1..MaxId,
         NEW ver \in Nat \ {0}, NEW values \in Seq(Value), ValidRow(t, values),
         content' = [content EXCEPT ![t] =
           [o \in DOMAIN content[t] \cup {id} |->
              IF o = id THEN [version |-> ver, row_values |-> values]
                        ELSE content[t][o]]],
         row_count' \in [TableIds -> 0..MaxId],
         \A u \in TableIds : row_count[u] <= row_count'[u],
         id <= row_count'[t],
         call' \in [request : Requests \cup {NoRequest}, response : Response]
  PROVE  Inv'
<1> DEFINE row == [version |-> ver, row_values |-> values]
<1>1. row \in Row
  BY DEF Row
<1>2. /\ content' = [u \in TableIds |-> content'[u]]
      /\ \A u \in TableIds : u # t => content'[u] = content[u]
      /\ DOMAIN content'[t] = DOMAIN content[t] \cup {id}
      /\ \A o \in DOMAIN content'[t] :
           content'[t][o] = IF o = id THEN row ELSE content[t][o]
  BY DEF Inv, TypeOK
<1>3. \A u, o : Live(u, o) => Live(u, o)'
  BY <1>2 DEF Live
<1>4. /\ Len(values) = Len(Schema[t])
      /\ \A i \in DOMAIN values : Schema[t][i] \in Column /\ values[i] \in Value
  <2>1. Len(values) = Len(Schema[t])
    BY DEF ValidRow
  <2>2. DOMAIN values = 1..Len(values) /\ Len(values) \in Nat
    BY LenProperties
  <2>3. \A i \in DOMAIN values : values[i] \in Value
    BY <2>2, ElementOfSeq
  <2> QED BY <2>1, <2>2, <2>3, SchemaFacts
<1>5. TypeOK'
  <2>1. \A u \in TableIds : content'[u] \in [DOMAIN content'[u] -> Row]
    <3> SUFFICES ASSUME NEW u \in TableIds PROVE content'[u] \in [DOMAIN content'[u] -> Row]
      OBVIOUS
    <3>1. CASE u # t
      BY <3>1, <1>2 DEF Inv, TypeOK
    <3>2. CASE u = t
      <4>1. content'[t] = [o \in DOMAIN content[t] \cup {id} |->
                             IF o = id THEN row ELSE content[t][o]]
        BY DEF Inv, TypeOK
      <4>2. \A o \in DOMAIN content[t] : content[t][o] \in Row
        BY DEF Inv, TypeOK
      <4>3. \A o \in DOMAIN content[t] \cup {id} :
              (IF o = id THEN row ELSE content[t][o]) \in Row
        BY <4>2, <1>1
      <4> HIDE DEF row
      <4>4. content'[t] \in [DOMAIN content[t] \cup {id} -> Row]
        BY <4>1, <4>3
      <4> QED BY <4>4, <3>2, <1>2
    <3> QED BY <3>1, <3>2
  <2>2. \A u \in TableIds : DOMAIN content'[u] \subseteq 1..row_count'[u]
    <3> SUFFICES ASSUME NEW u \in TableIds, NEW o \in DOMAIN content'[u]
                 PROVE  o \in 1..row_count'[u]
      OBVIOUS
    <3>1. row_count[u] \in Nat /\ row_count'[u] \in Nat /\ row_count[u] <= row_count'[u]
      BY DEF Inv, TypeOK
    <3>2. CASE o \in DOMAIN content[u]
      BY <3>1, <3>2 DEF Inv, TypeOK
    <3>3. CASE u = t /\ o = id
      BY <3>1, <3>3
    <3> QED BY <3>2, <3>3, <1>2
  <2> QED BY <2>1, <2>2, <1>2 DEF Inv, TypeOK
<1>6. RowsFitSchema'
  <2> SUFFICES ASSUME NEW u \in TableIds, NEW o \in DOMAIN content'[u]
               PROVE  LET vs == content'[u][o].row_values
                      IN  /\ Len(vs) = Len(Schema[u])
                          /\ \A i \in DOMAIN vs : vs[i].type \in {NULL, Schema[u][i].c_type}
    BY DEF RowsFitSchema
  <2>1. CASE u = t /\ o = id
    <3>1. content'[u][o].row_values = values /\ Len(values) = Len(Schema[t])
      BY <2>1, <1>2, <1>4
    <3>2. ASSUME NEW i \in DOMAIN values
          PROVE  values[i].type \in {NULL, Schema[t][i].c_type}
      <4>1. Schema[t][i] \in Column /\ values[i] \in Value
        BY <1>4
      <4>2. check_value(Schema[t][i], values[i]) = OK
        BY DEF ValidRow
      <4> QED BY <4>1, <4>2, CheckedValue
    <3> QED BY <3>1, <3>2, <2>1
  <2>2. CASE ~(u = t /\ o = id)
    <3>1. o \in DOMAIN content[u] /\ content'[u][o] = content[u][o]
      BY <2>2, <1>2
    <3> QED BY <3>1 DEF Inv, RowsFitSchema
  <2> QED BY <2>1, <2>2
<1>7. ReferentialIntegrity'
  <2> SUFFICES ASSUME NEW u \in TableIds, NEW o \in DOMAIN content'[u],
                      NEW i \in DOMAIN content'[u][o].row_values,
                      NEW v, v = content'[u][o].row_values[i], v.type = FOREIGN
               PROVE  Live(Schema[u][i].c_ref, v.val)'
    BY DEF ReferentialIntegrity
  <2>1. CASE u = t /\ o = id
    <3>1. content'[u][o].row_values = values
      BY <2>1, <1>2
    <3>2. i \in DOMAIN values /\ v = values[i]
      BY <3>1
    <3>3. Schema[t][i] \in Column /\ v \in Value
      BY <3>2, <1>4
    <3>4. check_value(Schema[t][i], v) = OK
      BY <3>2 DEF ValidRow
    <3>5. Live(Schema[t][i].c_ref, v.val)
      BY <3>3, <3>4, CheckedValue
    <3> QED BY <3>5, <2>1, <1>3
  <2>2. CASE ~(u = t /\ o = id)
    <3>1. o \in DOMAIN content[u] /\ content'[u][o] = content[u][o]
      BY <2>2, <1>2
    <3>2. Live(Schema[u][i].c_ref, v.val)
      BY <3>1 DEF Inv, ReferentialIntegrity
    <3> QED BY <3>2, <1>3
  <2> QED BY <2>1, <2>2
<1>8. RecursionBounded'
  BY DEF Inv, RecursionBounded
<1>9. Covered'
  BY DEF Covered
<1> QED BY <1>5, <1>6, <1>7, <1>8, <1>9 DEF Inv

\* The fields the handlers read are there in the requests they are called for.
LEMMA RequestFields ==
  ASSUME NEW req \in Requests
  PROVE  /\ req.command \in {"Insert", "Update"} => req.values \in Seq(Value)
         /\ req.command = "Query" => req.column_id \in Nat /\ req.value \in Value
BY RequestsAssumption DEF Request

\* handle_insert preserves the invariant: the new id is above every live one, so no field
\* refers to it yet.
LEMMA InsertInv ==
  ASSUME Inv, frames = <<>>, UNCHANGED frames,
         NEW req \in Requests, req.command = "Insert", handle_insert(req)
  PROVE  Inv'
<1> DEFINE t  == req.table_id
           id == row_count[t] + 1
<1>1. CASE refuse_row(req)
  BY <1>1, AnswerInv, RowErrorsType DEF refuse_row
<1>2. CASE /\ ValidRow(t, req.values)
           /\ row_count[t] < MaxId
           /\ row_count' = [row_count EXCEPT ![t] = id]
           /\ content' = [content EXCEPT ![t] =
                [o \in DOMAIN content[t] \cup {id} |->
                   IF o = id THEN [version |-> 1, row_values |-> req.values]
                             ELSE content[t][o]]]
           /\ Respond(req, Inserted(id, 1))
  <2>1. t \in TableIds /\ req.values \in Seq(Value)
    BY <1>2, RequestFields DEF ValidRow
  <2>2. row_count \in [TableIds -> 0..MaxId] /\ MaxId \in Nat
    BY BoundsAssumption DEF Inv, TypeOK
  <2>3. id \in 1..MaxId
    BY <1>2, <2>1, <2>2
  <2>4. /\ row_count' \in [TableIds -> 0..MaxId]
        /\ \A u \in TableIds : row_count[u] <= row_count'[u]
        /\ id <= row_count'[t]
    BY <1>2, <2>1, <2>2, <2>3
  <2>5. call' \in [request : Requests \cup {NoRequest}, response : Response]
    BY <1>2, <2>3 DEF Respond, Inserted, Response
  <2>6. /\ content' = [content EXCEPT ![t] =
             [o \in DOMAIN content[t] \cup {id} |->
                IF o = id THEN [version |-> 1, row_values |-> req.values]
                          ELSE content[t][o]]]
        /\ ValidRow(t, req.values)
        /\ 1 \in Nat \ {0}
    BY <1>2
  <2> HIDE DEF t, id
  <2> QED BY <2>1, <2>3, <2>4, <2>5, <2>6, PutInv
<1> QED BY <1>1, <1>2 DEF handle_insert, NextId

\* handle_update preserves the invariant: it replaces the values of a live row by checked ones.
LEMMA UpdateInv ==
  ASSUME Inv, frames = <<>>, UNCHANGED frames,
         NEW req \in Requests, req.command = "Update", handle_update(req)
  PROVE  Inv'
<1> DEFINE t   == req.table_id
           o   == req.object_id
           new == content[t][o].version + 1
<1>1. CASE refuse_row(req)
  BY <1>1, AnswerInv, RowErrorsType DEF refuse_row
<1>2. CASE /\ IF Live(t, o) THEN /\ ~Matches(content[t][o], req.version)
                                 /\ Respond(req, Error(TXN_ABORT))
                            ELSE Respond(req, Error(NOT_FOUND))
           /\ UNCHANGED <<content, row_count>>
  <2>1. Error(TXN_ABORT) \in Response /\ Error(NOT_FOUND) \in Response
    BY DEF Error, Response, OK, UNIMPLEMENTED, TXN_ABORT, NOT_FOUND
  <2> QED BY <1>2, <2>1, AnswerInv
<1>3. CASE /\ ValidRow(t, req.values)
           /\ Live(t, o)
           /\ content' = [content EXCEPT ![t] =
                [@ EXCEPT ![o] = [version |-> new, row_values |-> req.values]]]
           /\ Respond(req, Updated(new))
           /\ UNCHANGED row_count
  <2>1. t \in TableIds /\ req.values \in Seq(Value)
    BY <1>3, RequestFields DEF ValidRow
  <2>2. o \in DOMAIN content[t]
    BY <1>3 DEF Live
  <2>3. /\ content[t] \in [DOMAIN content[t] -> Row]
        /\ DOMAIN content[t] \subseteq 1..row_count[t]
        /\ row_count \in [TableIds -> 0..MaxId]
        /\ MaxId \in Nat
    BY <2>1, BoundsAssumption DEF Inv, TypeOK
  <2>4. new \in Nat \ {0}
    BY <2>2, <2>3 DEF Row
  <2>5. o \in 1..MaxId /\ o <= row_count'[t]
    BY <1>3, <2>1, <2>2, <2>3
  <2>6. \A u \in TableIds : row_count[u] <= row_count'[u]
    BY <1>3, <2>3
  <2>7. call' \in [request : Requests \cup {NoRequest}, response : Response]
    BY <1>3, <2>4 DEF Respond, Updated, Response
  <2>8. [content[t] EXCEPT ![o] = [version |-> new, row_values |-> req.values]]
          = [p \in DOMAIN content[t] \cup {o} |->
               IF p = o THEN [version |-> new, row_values |-> req.values]
                        ELSE content[t][p]]
    BY <2>2, <2>3
  <2>9. content' = [content EXCEPT ![t] =
          [p \in DOMAIN content[t] \cup {o} |->
             IF p = o THEN [version |-> new, row_values |-> req.values]
                      ELSE content[t][p]]]
    BY <1>3, <2>8
  <2>10. row_count' \in [TableIds -> 0..MaxId] /\ ValidRow(t, req.values)
    BY <1>3, <2>3
  <2> HIDE DEF t, o, new
  <2> QED BY <2>1, <2>4, <2>5, <2>6, <2>7, <2>9, <2>10, PutInv
<1> QED BY <1>1, <1>2, <1>3 DEF handle_update, NextVersion

\* Gets, queries, exits and refused drops preserve the invariant: they only answer.
LEMMA ReadInv ==
  ASSUME Inv, UNCHANGED frames, NEW req \in Requests,
         \/ req.command = "Get" /\ handle_get(req)
         \/ req.command = "Query" /\ handle_query(req)
         \/ Respond(req, Error(UNIMPLEMENTED)) /\ UNCHANGED <<content, row_count>>
         \/ refuse_drop(req)
  PROVE  Inv'
<1> USE DEF OK, BAD_TABLE, NOT_FOUND, BAD_QUERY, UNIMPLEMENTED
<1>1. \A code \in {BAD_TABLE, NOT_FOUND, BAD_QUERY, UNIMPLEMENTED} :
        Error(code) \in Response
  BY DEF Error, Response
<1>2. ASSUME NEW t \in TableIds, NEW o \in DOMAIN content[t]
      PROVE  Got(content[t][o].version, content[t][o].row_values) \in Response
  BY <1>2 DEF Inv, TypeOK, Row, Got, Response
<1>3. ASSUME NEW t, NEW col, NEW op, NEW v
      PROVE  QueryResponse(t, col, op, v) \in Response
  <2>1. ASSUME t \in TableIds
        PROVE  Queried({o \in DOMAIN content[t] : Selected(t, o, col, op, v)}) \in Response
    <3>1. DOMAIN content[t] \subseteq 1..MaxId
      BY <2>1, BoundsAssumption DEF Inv, TypeOK
    <3> QED BY <3>1 DEF Queried, Response
  <2> QED BY <2>1, <1>1 DEF QueryResponse
<1>4. CASE handle_get(req)
  BY <1>1, <1>2, <1>4, AnswerInv DEF handle_get, Live
<1>5. CASE handle_query(req)
  BY <1>3, <1>5, AnswerInv DEF handle_query
<1>6. CASE Respond(req, Error(UNIMPLEMENTED)) /\ UNCHANGED <<content, row_count>>
  BY <1>1, <1>6, AnswerInv
<1>7. CASE refuse_drop(req)
  BY <1>1, <1>7, AnswerInv DEF refuse_drop
<1> QED BY <1>4, <1>5, <1>6, <1>7

-----------------------------------------------------------------------------
\* The steps of handle_drop

\* A call of handle_drop for a live row starts with the fields of later tables on its list.
LEMMA NewFrameFacts ==
  ASSUME Inv, NEW t, NEW o, Live(t, o)
  PROVE  /\ NewFrame(t, o) \in Frame
         /\ \A c \in NewFrame(t, o).todo : t < c.table_id
<1>1. t \in TableIds /\ o \in 1..MaxId
  BY BoundsAssumption DEF Inv, TypeOK, Live
<1>2. Referrers(t, o) \subseteq Cell
  BY ReferrersFacts DEF Inv
<1> QED BY <1>1, <1>2, ReferrersLater DEF NewFrame, Frame, Cell, Inv

\* The first call of handle_drop preserves the invariant.
LEMMA BeginDropInv ==
  ASSUME Inv, frames = <<>>, NEW req \in Requests,
         Live(req.table_id, req.object_id),
         frames' = <<NewFrame(req.table_id, req.object_id)>>,
         Respond(req, Pending),
         UNCHANGED <<content, row_count>>
  PROVE  Inv'
<1> DEFINE t == req.table_id
           o == req.object_id
           f == NewFrame(t, o)
<1>1. /\ f \in Frame
      /\ f.table_id = t /\ f.object_id = o /\ f.todo = Referrers(t, o)
      /\ \A c \in f.todo : t < c.table_id
      /\ t \in 1..Len(Schema) /\ Len(Schema) \in Nat
  BY NewFrameFacts, SchemaFacts DEF NewFrame, Live
<1> HIDE DEF t, o, f
<1>2. /\ frames' = <<f>>
      /\ DOMAIN frames' = {1}
      /\ Len(frames') = 1
      /\ frames'[1] = f
      /\ frames' \in Seq(Frame)
  BY <1>1 DEF t, o, f
<1>3. TypeOK'
  <2>1. Pending \in Response
    BY DEF Pending, Response
  <2> QED BY <1>2, <2>1 DEF Inv, TypeOK, Respond
<1>4. RowsFitSchema'
  BY DEF Inv, RowsFitSchema
<1>5. ReferentialIntegrity'
  BY DEF Inv, ReferentialIntegrity, Live
<1>6. RecursionBounded'
  BY <1>1, <1>2 DEF RecursionBounded
<1>7. Covered'
  <2>1. Referrers(t, o)' = Referrers(t, o)
    BY DEF Referrers, Refers, Live, t, o
  <2> QED BY <1>1, <1>2, <2>1 DEF Covered
<1> QED BY <1>3, <1>4, <1>5, <1>6, <1>7 DEF Inv

\* The stack of a cascade and the call at its top.
LEMMA StackFacts ==
  ASSUME Inv, frames # <<>>
  PROVE  /\ frames \in Seq(Frame)
         /\ Len(frames) \in Nat \ {0}
         /\ DOMAIN frames = 1..Len(frames)
         /\ Top = frames[Len(frames)] /\ Top \in Frame
         /\ \A k \in DOMAIN frames : frames[k] \in Frame
<1>1. frames \in Seq(Frame)
  BY DEF Inv, TypeOK
<1>2. Len(frames) \in Nat \ {0} /\ DOMAIN frames = 1..Len(frames)
  BY <1>1, EmptySeq, LenProperties
<1>3. \A k \in DOMAIN frames : frames[k] \in Frame
  BY <1>1, <1>2, ElementOfSeq
<1> QED BY <1>1, <1>2, <1>3 DEF Top

\* The stack after a recursive call: the field it is for has left the list of its caller,
\* and it has a list of its own.
Called(c, top, f) ==
  LET n == Len(frames) IN
  /\ Live(c.table_id, c.object_id) /\ Top.table_id < c.table_id
  /\ top.table_id = Top.table_id /\ top.object_id = Top.object_id
  /\ top.todo = Top.todo \ {c}
  /\ f.table_id = c.table_id /\ f.object_id = c.object_id
  /\ f.todo = Referrers(c.table_id, c.object_id)
  /\ \A d \in f.todo : c.table_id < d.table_id
  /\ frames' \in Seq(Frame)
  /\ Len(frames') = n + 1 /\ DOMAIN frames' = 1..(n + 1)
  /\ \A k \in 1..(n - 1) : frames'[k] = frames[k]
  /\ frames'[n] = top /\ frames'[n + 1] = f

LEMMA StackAfterCall ==
  ASSUME Inv, DropReferrer
  PROVE  \E c \in Top.todo, top \in Frame, f \in Frame : c \in Cell /\ Called(c, top, f)
<1> DEFINE n == Len(frames)
<1>1. PICK c \in NextCells(Top) :
        /\ Live(c.table_id, c.object_id)
        /\ frames' = Append([frames EXCEPT ![n] = [Top EXCEPT !.todo = @ \ {c}, !.last = c]],
                            NewFrame(c.table_id, c.object_id))
  BY DEF DropReferrer
<1> DEFINE top == [Top EXCEPT !.todo = @ \ {c}, !.last = c]
           f   == NewFrame(c.table_id, c.object_id)
<1>2. /\ frames \in Seq(Frame)
      /\ n \in Nat \ {0}
      /\ DOMAIN frames = 1..n
      /\ Top = frames[n]
      /\ Top \in Frame
  BY StackFacts DEF DropReferrer
<1>3. /\ c \in Top.todo
      /\ c \in Cell
      /\ Top.table_id < c.table_id
  BY <1>2 DEF NextCells, Frame, Inv, RecursionBounded
<1>4. /\ top \in Frame
      /\ top.table_id = Top.table_id
      /\ top.object_id = Top.object_id
      /\ top.todo = Top.todo \ {c}
  BY <1>2, <1>3 DEF Frame
<1>5. /\ f \in Frame
      /\ f.table_id = c.table_id
      /\ f.object_id = c.object_id
      /\ f.todo = Referrers(c.table_id, c.object_id)
      /\ \A d \in f.todo : c.table_id < d.table_id
  BY <1>1, NewFrameFacts DEF NewFrame
<1> HIDE DEF top, f, n
<1> DEFINE fs == [frames EXCEPT ![n] = top]
<1>6. frames' = Append(fs, f)
  BY <1>1 DEF top, f, n
<1>7. /\ fs \in Seq(Frame)
      /\ Len(fs) = n
      /\ \A k \in 1..n : fs[k] = IF k = n THEN top ELSE frames[k]
  <2>1. n = Len(frames) /\ n \in 1..Len(frames)
    BY <1>2 DEF n
  <2> QED BY <2>1, <1>2, <1>4, ExceptSeq
<1> HIDE DEF fs
<1>8. /\ Append(fs, f) \in Seq(Frame)
      /\ Len(Append(fs, f)) = n + 1
      /\ \A k \in 1..n : Append(fs, f)[k] = fs[k]
      /\ Append(fs, f)[n + 1] = f
  BY <1>7, <1>5, AppendProperties
<1>9. /\ frames' \in Seq(Frame)
      /\ Len(frames') = n + 1 /\ DOMAIN frames' = 1..(n + 1)
      /\ \A k \in 1..(n - 1) : frames'[k] = frames[k]
      /\ frames'[n] = top /\ frames'[n + 1] = f
  BY <1>6, <1>7, <1>8, <1>2, LenProperties
<1>10. Called(c, top, f)
  BY <1>1, <1>3, <1>4, <1>5, <1>9 DEF Called, n
<1> QED BY <1>3, <1>4, <1>5, <1>10

\* A recursive call of handle_drop preserves the invariant: the row it is for leaves the list
\* of its caller and is covered by the new call.
LEMMA DropReferrerInv ==
  ASSUME Inv, DropReferrer
  PROVE  Inv'
<1> DEFINE n == Len(frames)
<1>1. PICK c \in Top.todo, top \in Frame, f \in Frame : c \in Cell /\ Called(c, top, f)
  BY StackAfterCall
<1>2. /\ frames \in Seq(Frame)
      /\ n \in Nat \ {0}
      /\ DOMAIN frames = 1..n
      /\ Top = frames[n]
      /\ Top \in Frame
  BY StackFacts DEF DropReferrer
<1>3. /\ c \in Top.todo
      /\ c \in Cell
      /\ Top.table_id < c.table_id
      /\ n <= Top.table_id
  BY <1>1, <1>2 DEF Called, Inv, RecursionBounded
<1>4. /\ top.table_id = Top.table_id
      /\ top.object_id = Top.object_id
      /\ top.todo = Top.todo \ {c}
  BY <1>1 DEF Called
<1>5. /\ f.table_id = c.table_id
      /\ f.object_id = c.object_id
      /\ f.todo = Referrers(c.table_id, c.object_id)
      /\ \A d \in f.todo : c.table_id < d.table_id
  BY <1>1 DEF Called
<1>6. /\ frames' \in Seq(Frame)
      /\ Len(frames') = n + 1
      /\ DOMAIN frames' = 1..(n + 1)
      /\ \A k \in 1..(n - 1) : frames'[k] = frames[k]
      /\ frames'[n] = top
      /\ frames'[n + 1] = f
  BY <1>1 DEF Called
<1> HIDE DEF n
<1>7. UNCHANGED <<content, row_count, call>>
  BY DEF DropReferrer
<1>8. TypeOK'
  BY <1>6, <1>7 DEF Inv, TypeOK
<1>9. RowsFitSchema'
  BY <1>7 DEF Inv, RowsFitSchema
<1>10. ReferentialIntegrity'
  BY <1>7 DEF Inv, ReferentialIntegrity, Live
<1>11. RecursionBounded'
  <2>1. c.table_id \in 1..Len(Schema) /\ Len(Schema) \in Nat
    BY <1>3, SchemaFacts DEF Cell
  <2>2. n + 1 <= c.table_id
    BY <1>2, <1>3, <2>1, SchemaFacts DEF Frame
  <2>3. ASSUME NEW k \in 1..(n + 1)
        PROVE  /\ k <= frames'[k].table_id
               /\ \A d \in frames'[k].todo : frames'[k].table_id < d.table_id
    <3>1. CASE k \in 1..(n - 1)
      BY <3>1, <1>2, <1>6 DEF Inv, RecursionBounded
    <3>2. CASE k = n
      BY <3>2, <1>2, <1>3, <1>4, <1>6 DEF Inv, RecursionBounded
    <3>3. CASE k = n + 1
      BY <3>3, <2>2, <1>5, <1>6
    <3> QED BY <3>1, <3>2, <3>3, <1>2
  <2> QED BY <2>1, <2>2, <2>3, <1>2, <1>6 DEF RecursionBounded
<1>12. Covered'
  <2>1. \A t, o : Referrers(t, o)' = Referrers(t, o)
    BY <1>7 DEF Referrers, Refers, Live
  <2>2. ASSUME NEW k \in 1..(n + 1),
               NEW d \in Referrers(frames'[k].table_id, frames'[k].object_id)
        PROVE  \/ d \in frames'[k].todo
               \/ k < n + 1 /\ SameRow(d, frames'[k + 1])
    <3>1. CASE k \in 1..(n - 1)
      <4>1. d \in frames[k].todo \/ SameRow(d, frames[k + 1])
        BY <3>1, <1>2, <1>6, <2>2 DEF Inv, Covered
      <4>2. SameRow(d, frames[k + 1]) => SameRow(d, frames'[k + 1])
        BY <3>1, <1>2, <1>4, <1>6 DEF SameRow
      <4> QED BY <3>1, <4>1, <4>2, <1>2, <1>6
    <3>2. CASE k = n
      <4>1. d \in Top.todo
        BY <3>2, <1>2, <1>4, <1>6, <2>2 DEF Inv, Covered, n
      <4> QED BY <3>2, <4>1, <1>2, <1>4, <1>5, <1>6 DEF SameRow
    <3>3. CASE k = n + 1
      BY <3>3, <1>5, <1>6, <2>2
    <3> QED BY <3>1, <3>2, <3>3, <1>2
  <2> QED BY <1>6, <2>1, <2>2 DEF Covered
<1> QED BY <1>8, <1>9, <1>10, <1>11, <1>12 DEF Inv

\* A cascade given up with NOT_FOUND preserves the invariant: no row is touched.
LEMMA AbortDropInv ==
  ASSUME Inv, AbortDrop
  PROVE  Inv'
<1>1. /\ frames' = <<>>
      /\ Respond(call.request, Error(NOT_FOUND))
      /\ UNCHANGED <<content, row_count>>
  BY DEF AbortDrop
<1>2. TypeOK'
  <2>1. Error(NOT_FOUND) \in Response
    BY DEF Error, Response, OK, UNIMPLEMENTED, NOT_FOUND
  <2> QED BY <1>1, <2>1 DEF Inv, TypeOK, Respond
<1>3. RowsFitSchema'
  BY <1>1 DEF Inv, RowsFitSchema
<1>4. ReferentialIntegrity'
  BY <1>1 DEF Inv, ReferentialIntegrity, Live
<1>5. RecursionBounded'
  BY <1>1, SchemaFacts DEF RecursionBounded
<1>6. Covered'
  BY <1>1 DEF Covered
<1> QED BY <1>2, <1>3, <1>4, <1>5, <1>6 DEF Inv

\* The tables and the stack after the removal of an object.
Removed(n, t, o) ==
  /\ content' = [u \in TableIds |-> content'[u]]
  /\ \A u \in TableIds : u # t => content'[u] = content[u]
  /\ content'[t] = [p \in DOMAIN content[t] \ {o} |-> content[t][p]]
  /\ DOMAIN content'[t] = DOMAIN content[t] \ {o}
  /\ frames' \in Seq(Frame)
  /\ Len(frames') = n - 1 /\ DOMAIN frames' = 1..(n - 1)
  /\ \A k \in 1..(n - 1) : frames'[k] = frames[k]

LEMMA StackAfterReturn ==
  ASSUME Inv, RemoveObject
  PROVE  Top.table_id \in TableIds /\ Removed(Len(frames), Top.table_id, Top.object_id)
<1> DEFINE n == Len(frames)
           t == Top.table_id
           o == Top.object_id
<1>1. /\ frames \in Seq(Frame)
      /\ n \in Nat \ {0}
      /\ DOMAIN frames = 1..n
      /\ Top \in Frame
      /\ t \in TableIds
  BY StackFacts DEF RemoveObject, Frame
<1>2. /\ content' = [content EXCEPT ![t] = Restrict(content[t], DOMAIN content[t] \ {o})]
      /\ frames' = SubSeq(frames, 1, n - 1)
  BY DEF RemoveObject
<1> HIDE DEF t, o
<1>3. /\ content' = [u \in TableIds |-> content'[u]]
      /\ \A u \in TableIds : u # t => content'[u] = content[u]
      /\ content'[t] = [p \in DOMAIN content[t] \ {o} |-> content[t][p]]
      /\ DOMAIN content'[t] = DOMAIN content[t] \ {o}
  BY <1>1, <1>2 DEF Restrict, Inv, TypeOK
<1>4. /\ frames' \in Seq(Frame)
      /\ Len(frames') = n - 1
      /\ DOMAIN frames' = 1..(n - 1)
      /\ \A k \in 1..(n - 1) : frames'[k] = frames[k]
  <2>1. \A k \in 1..(n - 1) : frames[k] \in Frame
    BY <1>1, ElementOfSeq
  <2>2. n - 1 \in Int /\ 1 \in Int
    BY <1>1
  <2> HIDE DEF n
  <2>3. /\ SubSeq(frames, 1, n - 1) \in Seq(Frame)
        /\ Len(SubSeq(frames, 1, n - 1)) = IF 1 <= n - 1 THEN n - 1 - 1 + 1 ELSE 0
        /\ \A k \in 1..(n - 1 - 1 + 1) : SubSeq(frames, 1, n - 1)[k] = frames[1 + k - 1]
    BY <2>1, <2>2, SubSeqProperties
  <2> QED BY <1>1, <1>2, <2>2, <2>3, LenProperties
<1> QED BY <1>1, <1>3, <1>4 DEF Removed, t, o

\* The removal of an object preserves the invariant: by Covered no live row refers to it.
LEMMA RemoveObjectInv ==
  ASSUME Inv, RemoveObject
  PROVE  Inv'
<1> DEFINE n == Len(frames)
           t == Top.table_id
           o == Top.object_id
<1>1. /\ frames \in Seq(Frame)
      /\ n \in Nat \ {0}
      /\ DOMAIN frames = 1..n
      /\ Top = frames[n]
      /\ Top \in Frame
      /\ Top.todo = {}
      /\ t \in TableIds
  BY StackFacts DEF RemoveObject, Frame
<1>2. /\ IF frames' = <<>> THEN Respond(call.request, Dropped) ELSE UNCHANGED call
      /\ UNCHANGED row_count
  BY DEF RemoveObject
<1>3. /\ content' = [u \in TableIds |-> content'[u]]
      /\ \A u \in TableIds : u # t => content'[u] = content[u]
      /\ content'[t] = [p \in DOMAIN content[t] \ {o} |-> content[t][p]]
      /\ DOMAIN content'[t] = DOMAIN content[t] \ {o}
  BY StackAfterReturn DEF Removed
<1> HIDE DEF t, o
<1>4. \A u \in TableIds : \A p \in DOMAIN content'[u] :
        /\ p \in DOMAIN content[u]
        /\ content'[u][p] = content[u][p]
  BY <1>3
<1>5. \A u, p : Live(u, p) /\ ~(u = t /\ p = o) => Live(u, p)'
  BY <1>3 DEF Live
<1>6. /\ frames' \in Seq(Frame)
      /\ Len(frames') = n - 1
      /\ DOMAIN frames' = 1..(n - 1)
      /\ \A k \in 1..(n - 1) : frames'[k] = frames[k]
  BY StackAfterReturn DEF Removed
<1> HIDE DEF n
<1>7. TypeOK'
  <2>1. \A u \in TableIds : content'[u] \in [DOMAIN content'[u] -> Row]
    <3> SUFFICES ASSUME NEW u \in TableIds PROVE content'[u] \in [DOMAIN content'[u] -> Row]
      OBVIOUS
    <3>1. CASE u # t
      BY <3>1, <1>3 DEF Inv, TypeOK
    <3>2. CASE u = t
      <4>1. \A p \in DOMAIN content[t] : content[t][p] \in Row
        BY <1>1 DEF Inv, TypeOK
      <4> QED BY <4>1, <3>2, <1>3
    <3> QED BY <3>1, <3>2
  <2>2. \A u \in TableIds : DOMAIN content'[u] \subseteq 1..row_count'[u]
    BY <1>2, <1>4 DEF Inv, TypeOK
  <2>3. call' \in [request : Requests \cup {NoRequest}, response : Response]
    BY <1>2 DEF Respond, Dropped, Response, Inv, TypeOK
  <2> QED BY <1>2, <1>3, <1>6, <2>1, <2>2, <2>3 DEF Inv, TypeOK
<1>8. RowsFitSchema'
  BY <1>4 DEF Inv, RowsFitSchema
<1>9. ReferentialIntegrity'
  <2> SUFFICES ASSUME NEW u \in TableIds, NEW p \in DOMAIN content'[u],
                      NEW i \in DOMAIN content'[u][p].row_values,
                      NEW v, v = content'[u][p].row_values[i], v.type = FOREIGN
               PROVE  Live(Schema[u][i].c_ref, v.val)'
    BY DEF ReferentialIntegrity
  <2> DEFINE values == content[u][p].row_values
             c == [table_id |-> u, object_id |-> p, column |-> i]
  <2>1. /\ p \in DOMAIN content[u]
        /\ i \in DOMAIN values
        /\ v = values[i]
    BY <1>4
  <2>2. /\ values \in Seq(Value)
        /\ Len(values) = Len(Schema[u])
    BY <2>1 DEF Inv, TypeOK, Row, RowsFitSchema
  <2>3. i \in DOMAIN Schema[u] /\ v \in Value
    BY <2>1, <2>2, SchemaFacts, LenProperties, ElementOfSeq
  <2>4. Live(Schema[u][i].c_ref, v.val)
    BY <2>1 DEF Inv, ReferentialIntegrity
  <2>5. ASSUME Schema[u][i].c_ref = t, v.val = o
        PROVE  FALSE
    <3>1. v = [type |-> FOREIGN, val |-> o]
      BY <2>3, <2>5 DEF Value
    <3>2. Refers(c, t, o)
      BY <2>1, <2>3, <2>5, <3>1 DEF Refers, Live
    <3>3. c \in Referrers(t, o)
      BY <2>1, <2>3, <3>2 DEF Referrers
    <3>4. /\ n \in DOMAIN frames
          /\ ~(n < Len(frames))
          /\ frames[n].table_id = t /\ frames[n].object_id = o /\ frames[n].todo = {}
      BY <1>1 DEF n, t, o
    <3> QED BY <3>3, <3>4 DEF Inv, Covered
  <2> QED BY <2>4, <2>5, <1>5
<1>10. RecursionBounded'
  <2>1. /\ n <= Len(Schema)
        /\ \A k \in 1..n : /\ k <= frames[k].table_id
                           /\ \A c \in frames[k].todo : frames[k].table_id < c.table_id
    BY <1>1 DEF Inv, RecursionBounded, n
  <2>2. n - 1 <= Len(Schema) /\ \A k \in 1..(n - 1) : k \in 1..n
    BY <2>1, <1>1, SchemaFacts
  <2> QED BY <2>1, <2>2, <1>6 DEF RecursionBounded
<1>11. Covered'
  <2>1. \A u, p, c : c \in Referrers(u, p)' => c \in Referrers(u, p) /\ ~SameRow(c, Top)
    <3>1. \A u, p : Live(u, p)' => Live(u, p) /\ ~(u = t /\ p = o)
      BY <1>1, <1>3 DEF Live
    <3>2. \A u, p, c : c \in Referrers(u, p)' => Live(c.table_id, c.object_id)'
      BY DEF Referrers, Refers
    <3>3. \A u, p, c : c \in Referrers(u, p)' => c \in Referrers(u, p)
      BY <1>4 DEF Referrers, Refers, Live
    <3> QED BY <3>1, <3>2, <3>3 DEF SameRow, t, o
  <2> SUFFICES ASSUME NEW k \in 1..(n - 1), NEW f, f = frames'[k],
                      NEW d, d \in Referrers(f.table_id, f.object_id)'
               PROVE  \/ d \in f.todo
                      \/ k < n - 1 /\ SameRow(d, frames'[k + 1])
    BY <1>6 DEF Covered
  <2>2. k \in DOMAIN frames /\ k + 1 \in DOMAIN frames /\ f = frames[k]
    BY <1>1, <1>6
  <2>3. d \in f.todo \/ SameRow(d, frames[k + 1])
    BY <2>1, <2>2 DEF Inv, Covered
  <2>4. CASE k = n - 1
    <3>1. frames[k + 1] = Top
      BY <2>4, <1>1
    <3> QED BY <3>1, <2>1, <2>3
  <2>5. CASE k < n - 1
    <3>1. k + 1 \in 1..(n - 1)
      BY <2>5, <1>1
    <3> QED BY <3>1, <2>3, <2>5, <1>6
  <2> QED BY <2>4, <2>5, <1>1
<1> QED BY <1>7, <1>8, <1>9, <1>10, <1>11 DEF Inv

-----------------------------------------------------------------------------
\* The theorems

\* Every step of the database preserves the invariant.
LEMMA NextInv ==
  ASSUME Inv, [Next]_vars
  PROVE  Inv'
<1>1. ASSUME frames = <<>>, NEW req \in Requests, handle_request(req)
      PROVE  Inv'
  BY <1>1, InsertInv, UpdateInv, ReadInv, BeginDropInv
     DEF handle_request, handle_in_one_step, handle_drop
<1>2. CASE DropStep
  BY <1>2, DropReferrerInv, AbortDropInv, RemoveObjectInv DEF DropStep
<1>3. CASE UNCHANGED vars
  BY <1>3, StutterInv
<1> QED BY <1>1, <1>2, <1>3 DEF Next

\* How a step changes the tables.
LEMMA ContentSteps ==
  ASSUME Inv, [Next]_vars
  PROVE  \/ UNCHANGED content
         \/ \E t \in TableIds, row \in Row :
              content' = [content EXCEPT ![t] =
                [o \in DOMAIN content[t] \cup {row_count[t] + 1} |->
                   IF o = row_count[t] + 1 THEN row ELSE content[t][o]]]
         \/ \E t \in TableIds : \E o \in DOMAIN content[t] : \E values :
              content' = [content EXCEPT ![t] = [@ EXCEPT ![o] =
                [version |-> content[t][o].version + 1, row_values |-> values]]]
         \/ \E t \in TableIds : \E o :
              content' = [content EXCEPT ![t] =
                Restrict(content[t], DOMAIN content[t] \ {o})]
<1>1. ASSUME NEW req \in Requests, req.command = "Insert", handle_insert(req)
      PROVE  \/ UNCHANGED content
             \/ \E t \in TableIds, row \in Row :
                  content' = [content EXCEPT ![t] =
                    [o \in DOMAIN content[t] \cup {row_count[t] + 1} |->
                       IF o = row_count[t] + 1 THEN row ELSE content[t][o]]]
  <2>1. [version |-> 1, row_values |-> req.values] \in Row
    BY <1>1, RequestFields DEF Row
  <2> QED BY <1>1, <2>1 DEF handle_insert, refuse_row, ValidRow, NextId
<1>2. ASSUME NEW req \in Requests, handle_update(req)
      PROVE  \/ UNCHANGED content
             \/ \E t \in TableIds : \E o \in DOMAIN content[t] : \E values :
                  content' = [content EXCEPT ![t] = [@ EXCEPT ![o] =
                    [version |-> content[t][o].version + 1, row_values |-> values]]]
  BY <1>2 DEF handle_update, refuse_row, Live, NextVersion
<1>3. ASSUME NEW req \in Requests, handle_request(req), req.command \notin {"Insert", "Update"}
      PROVE  UNCHANGED content
  BY <1>3 DEF handle_request, handle_in_one_step, handle_get, handle_query, handle_drop,
              refuse_drop
<1>4. CASE RemoveObject
  <2>1. Top.table_id \in TableIds
    <3>1. frames # <<>> /\ frames \in Seq(Frame)
      BY <1>4 DEF RemoveObject, Inv, TypeOK
    <3>2. Top \in Frame
      BY <3>1, EmptySeq, ElementOfSeq DEF Top
    <3> QED BY <3>2 DEF Frame
  <2> QED BY <1>4, <2>1 DEF RemoveObject
<1>5. CASE DropReferrer \/ AbortDrop \/ UNCHANGED vars
  BY <1>5 DEF DropReferrer, AbortDrop, vars
<1>6. ASSUME NEW req \in Requests, handle_request(req)
      PROVE  \/ req.command = "Insert" /\ handle_insert(req)
             \/ handle_update(req)
             \/ req.command \notin {"Insert", "Update"}
  BY <1>6 DEF handle_request, handle_in_one_step
<1> QED BY <1>1, <1>2, <1>3, <1>4, <1>5, <1>6 DEF Next, DropStep

\* The same, row by row.
LEMMA RowSteps ==
  ASSUME Inv, [Next]_vars, NEW t \in TableIds, NEW o \in DOMAIN content'[t]
  PROVE  \/ o \in DOMAIN content[t] /\ content'[t][o] = content[t][o]
         \/ o \in DOMAIN content[t] /\ content'[t][o].version = content[t][o].version + 1
         \/ o = row_count[t] + 1
<1>1. /\ content = [u \in TableIds |-> content[u]]
      /\ content[t] \in [DOMAIN content[t] -> Row]
  BY DEF Inv, TypeOK
<1>2. CASE UNCHANGED content
  BY <1>2
<1>3. ASSUME NEW u \in TableIds, NEW f, content' = [content EXCEPT ![u] = f], u # t
      PROVE  content'[t] = content[t]
  BY <1>3, <1>1
<1>4. ASSUME NEW f, content' = [content EXCEPT ![t] = f]
      PROVE  content'[t] = f
  BY <1>4, <1>1
<1>5. ASSUME NEW u \in TableIds, NEW row \in Row,
             content' = [content EXCEPT ![u] =
               [p \in DOMAIN content[u] \cup {row_count[u] + 1} |->
                  IF p = row_count[u] + 1 THEN row ELSE content[u][p]]]
      PROVE  \/ o \in DOMAIN content[t] /\ content'[t][o] = content[t][o]
             \/ o = row_count[t] + 1
  <2>1. CASE u = t
    <3>1. content'[t] = [p \in DOMAIN content[t] \cup {row_count[t] + 1} |->
                           IF p = row_count[t] + 1 THEN row ELSE content[t][p]]
      BY <1>4, <1>5, <2>1
    <3> QED BY <3>1
  <2> QED BY <1>3, <1>5, <2>1
<1>6. ASSUME NEW u \in TableIds, NEW p \in DOMAIN content[u], NEW values,
             content' = [content EXCEPT ![u] = [@ EXCEPT ![p] =
               [version |-> content[u][p].version + 1, row_values |-> values]]]
      PROVE  /\ o \in DOMAIN content[t]
             /\ \/ content'[t][o] = content[t][o]
                \/ content'[t][o].version = content[t][o].version + 1
  <2>1. CASE u = t
    <3>1. content'[t] = [content[t] EXCEPT ![p] =
                           [version |-> content[t][p].version + 1, row_values |-> values]]
      BY <1>1, <1>6, <2>1
    <3> QED BY <3>1, <1>1
  <2>2. CASE u # t
    BY <1>1, <1>6, <2>2
  <2> QED BY <2>1, <2>2
<1>7. ASSUME NEW u \in TableIds, NEW p,
             content' = [content EXCEPT ![u] = Restrict(content[u], DOMAIN content[u] \ {p})]
      PROVE  o \in DOMAIN content[t] /\ content'[t][o] = content[t][o]
  <2>1. CASE u = t
    <3>1. content'[t] = [q \in DOMAIN content[t] \ {p} |-> content[t][q]]
      BY <1>4, <1>7, <2>1 DEF Restrict
    <3> QED BY <3>1
  <2> QED BY <1>3, <1>7, <2>1
<1> QED BY <1>2, <1>5, <1>6, <1>7, ContentSteps

\* No step brings a dropped row back: a new id is above every one handed out before.
LEMMA RowsStayGoneStep ==
  ASSUME Inv, [Next]_vars
  PROVE  RowsStayGone
<1> SUFFICES ASSUME NEW t \in TableIds, NEW o \in 1..row_count[t],
                    o \in DOMAIN content'[t]
             PROVE  o \in DOMAIN content[t]
  BY DEF RowsStayGone
<1>1. row_count[t] \in Nat
  BY DEF Inv, TypeOK
<1> QED BY <1>1, RowSteps

\* A step that changes a row raises its version.
LEMMA ChangesRaiseVersionStep ==
  ASSUME Inv, [Next]_vars
  PROVE  ChangesRaiseVersion
<1> SUFFICES ASSUME NEW t \in TableIds, NEW o \in DOMAIN content[t] \cap DOMAIN content'[t],
                    content'[t][o] # content[t][o]
             PROVE  content'[t][o].version > content[t][o].version
  BY DEF ChangesRaiseVersion
<1>1. /\ content[t][o].version \in Nat
      /\ row_count[t] \in Nat
      /\ o \in 1..row_count[t]
  BY DEF Inv, TypeOK, Row
<1>2. content'[t][o].version = content[t][o].version + 1
  BY <1>1, RowSteps
<1> QED BY <1>1, <1>2

\* The invariants hold in every state of every behaviour of the database.
THEOREM Invariance == Spec => []Inv
BY InitInv, NextInv, PTL DEF Spec

\* The state is always of the type that TypeOK says.
THEOREM TypeCorrectness == Spec => []TypeOK
BY Invariance, PTL DEF Inv

\* The values of a row are always those its table has columns for.
THEOREM RowsAlwaysFit == Spec => []RowsFitSchema
BY Invariance, PTL DEF Inv

\* No field ever refers to a row that is gone, in the middle of a cascade, after
\* it and after one that failed, for every schema the parser accepts.
THEOREM ReferencesAreLive == Spec => []ReferentialIntegrity
BY Invariance, PTL DEF Inv

\* The stack of handle_drop is never deeper than there are tables.
THEOREM RecursionIsBounded == Spec => []RecursionBounded
BY Invariance, PTL DEF Inv

\* Why a cascade leaves nothing behind: whatever refers to a row that is being
\* dropped is on the list of its call or is being dropped by the next one.
THEOREM CascadeIsCovered == Spec => []Covered
BY Invariance, PTL DEF Inv

\* An id that was dropped is never an id of its table again.
THEOREM DroppedIdsStayGone == Spec => GoneForever
<1>1. Inv /\ [Next]_vars => [RowsStayGone]_vars
  BY RowsStayGoneStep
<1> QED BY <1>1, Invariance, PTL DEF Spec, GoneForever

\* A version of a row never stands for two contents of it.
THEOREM VersionsIdentify == Spec => VersionIdentifiesValues
<1>1. Inv /\ [Next]_vars => [ChangesRaiseVersion]_vars
  BY ChangesRaiseVersionStep
<1> QED BY <1>1, Invariance, PTL DEF Spec, VersionIdentifiesValues

-----------------------------------------------------------------------------
\* QueriesPartition: the queries of a column agree with each other

\* What a query compares the value it is given with
Field(t, o, col) == IF col = 0 THEN o ELSE content[t][o].row_values[col].val

\* A query is answered when it is not refused and has an arm for each row.
Answerable(t, col, op, v) ==
  /\ ~QueryRefused(t, col, op, v)
  /\ \A o \in DOMAIN content[t] : Comparable(t, o, col, op, v)

\* The rows an operator selects by
SelectedIds(t, col, op, v) ==
  {o \in DOMAIN content[t] : value_is_satisfied(op, Field(t, o, col), v.val)}

\* A query of a table that exists is answered exactly when it is answerable, and
\* then with the rows whose field satisfies its operator.
LEMMA QueryAnswers ==
  ASSUME NEW t \in TableIds, NEW col, NEW op, NEW v, v.type # NULL
  PROVE  LET R == QueryResponse(t, col, op, v) IN
         /\ R.kind = "Query" <=> Answerable(t, col, op, v)
         /\ R.kind = "Query" => R.ids = SelectedIds(t, col, op, v)
<1> DEFINE ids == {o \in DOMAIN content[t] : Selected(t, o, col, op, v)}
<1>1. ids = SelectedIds(t, col, op, v)
  BY DEF Selected, SelectedIds, Field
<1>2. CASE Answerable(t, col, op, v)
  <2>1. QueryResponse(t, col, op, v) = Queried(ids)
    BY <1>2, Zenon DEF QueryResponse, Answerable
  <2>2. Queried(ids).kind = "Query" /\ Queried(ids).ids = ids
    BY DEF Queried
  <2> QED BY <1>1, <1>2, <2>1, <2>2
<1>3. CASE ~Answerable(t, col, op, v)
  <2>1. QueryResponse(t, col, op, v) = Error(BAD_QUERY)
    BY <1>3, Zenon DEF QueryResponse, Answerable
  <2>2. Error(BAD_QUERY).kind # "Query"
    BY DEF Error
  <2> QED BY <1>3, <2>1, <2>2
<1> QED BY <1>2, <1>3

\* Two operators that are opposite, or both orders, have the same arms.
LEMMA SameArms ==
  ASSUME NEW t, NEW col, NEW v, v.type \in NULL..FOREIGN
  PROVE  /\ Answerable(t, col, OP_LT, v) <=> Answerable(t, col, OP_GE, v)
         /\ Answerable(t, col, OP_GT, v) <=> Answerable(t, col, OP_LE, v)
<1> USE DEF OP_AL, OP_EQ, OP_NE, OP_LT, OP_GT, OP_LE, OP_GE
<1>1. /\ QueryRefused(t, col, OP_LT, v) <=> QueryRefused(t, col, OP_GE, v)
      /\ QueryRefused(t, col, OP_GT, v) <=> QueryRefused(t, col, OP_LE, v)
  BY DEF QueryRefused
<1>2. /\ OP_LT \in Operators(v.type) <=> OP_GE \in Operators(v.type)
      /\ OP_GT \in Operators(v.type) <=> OP_LE \in Operators(v.type)
  BY DEF Operators, NULL, INTEGER, FLOAT, TEXT, FOREIGN
<1>3. ASSUME NEW o
      PROVE  /\ Comparable(t, o, col, OP_LT, v) <=> Comparable(t, o, col, OP_GE, v)
             /\ Comparable(t, o, col, OP_GT, v) <=> Comparable(t, o, col, OP_LE, v)
  BY <1>2 DEF Comparable
<1> QED BY <1>1, <1>3, Zenon DEF Answerable

\* A column that answers both orders answers inequality too.
LEMMA BothOrdersTest ==
  ASSUME NEW t, NEW col, NEW v, v.type \in NULL..FOREIGN,
         Answerable(t, col, OP_LT, v)
  PROVE  Answerable(t, col, OP_NE, v)
<1> USE DEF OP_AL, OP_EQ, OP_NE, OP_LT, OP_GT, OP_LE, OP_GE
<1>1. ~QueryRefused(t, col, OP_NE, v)
  BY DEF QueryRefused, Answerable
<1>2. OP_LT \in Operators(v.type) => OP_NE \in Operators(v.type)
  BY DEF Operators, NULL, INTEGER, FLOAT, TEXT, FOREIGN
<1>3. ASSUME NEW o, Comparable(t, o, col, OP_LT, v)
      PROVE  Comparable(t, o, col, OP_NE, v)
  BY <1>2, <1>3 DEF Comparable
<1> QED BY <1>1, <1>3 DEF Answerable

\* The numbers a query compares are integers.
LEMMA FieldsAreNumbers ==
  ASSUME TypeOK, RowsFitSchema, NEW t \in TableIds, NEW col \in Nat, NEW op, NEW v,
         Answerable(t, col, op, v), NEW o \in DOMAIN content[t]
  PROVE  Field(t, o, col) \in Int
<1>1. content[t][o] \in Row /\ o \in Int
  BY DEF TypeOK
<1>2. CASE col = 0
  BY <1>1, <1>2 DEF Field
<1>3. CASE col # 0
  <2>1. col \in 1..Len(Schema[t]) /\ Len(content[t][o].row_values) = Len(Schema[t])
    BY <1>3, SchemaAssumption, LenProperties DEF Answerable, QueryRefused, RowsFitSchema, TableIds
  <2>2. content[t][o].row_values[col] \in Value
    BY <1>1, <2>1, ElementOfSeq DEF Row
  <2> QED BY <1>3, <2>2 DEF Field, Value
<1> QED BY <1>2, <1>3

\* The six comparisons of two numbers split and join as their names say.
LEMMA Comparisons ==
  ASSUME NEW i \in Int, NEW j \in Int
  PROVE  LET S(op) == value_is_satisfied(op, i, j) IN
         /\ S(OP_EQ) <=> ~S(OP_NE)
         /\ S(OP_GE) <=> ~S(OP_LT)
         /\ S(OP_LE) <=> ~S(OP_GT)
         /\ S(OP_NE) <=> S(OP_LT) \/ S(OP_GT)
         /\ ~(S(OP_LT) /\ S(OP_GT))
BY DEF value_is_satisfied, OP_EQ, OP_NE, OP_LT, OP_GT, OP_LE, OP_GE

\* What QueriesPartition says of the queries of one column by one value
Agree(t, col, v) ==
  LET R(op)        == QueryResponse(t, col, op, v)
      All          == DOMAIN content[t]
      Answered(op) == R(op).kind = "Query"
  IN  /\ Answered(OP_EQ) /\ Answered(OP_NE) => R(OP_EQ).ids = All \ R(OP_NE).ids
      /\ Answered(OP_LT) <=> Answered(OP_GE)
      /\ Answered(OP_GT) <=> Answered(OP_LE)
      /\ Answered(OP_LT) /\ Answered(OP_GT) =>
           /\ R(OP_GE).ids = All \ R(OP_LT).ids
           /\ R(OP_LE).ids = All \ R(OP_GT).ids
           /\ R(OP_NE).ids = R(OP_LT).ids \cup R(OP_GT).ids
           /\ R(OP_LT).ids \cap R(OP_GT).ids = {}

\* The queries of a column by a value of a type agree with each other.
LEMMA QueriesOfOneColumn ==
  ASSUME TypeOK, RowsFitSchema, NEW t \in TableIds, NEW col \in Nat, NEW v \in Value,
         v.type # NULL
  PROVE  Agree(t, col, v)
<1> DEFINE R(op) == QueryResponse(t, col, op, v)
           S(op) == SelectedIds(t, col, op, v)
           A(op) == Answerable(t, col, op, v)
<1>1. v.type \in NULL..FOREIGN /\ v.val \in Int
  BY DEF Value
<1>2. \A op : /\ R(op).kind = "Query" <=> A(op)
              /\ R(op).kind = "Query" => R(op).ids = S(op)
  BY QueryAnswers
<1>3. (A(OP_LT) <=> A(OP_GE)) /\ (A(OP_GT) <=> A(OP_LE))
  BY <1>1, SameArms
<1>4. ASSUME NEW op, A(op), NEW o \in DOMAIN content[t]
      PROVE  Field(t, o, col) \in Int
  BY <1>4, FieldsAreNumbers
<1>5. A(OP_EQ) => S(OP_EQ) = DOMAIN content[t] \ S(OP_NE)
  BY <1>1, <1>4, Comparisons DEF SelectedIds
<1>6. A(OP_LT) /\ A(OP_GT) =>
        /\ S(OP_GE) = DOMAIN content[t] \ S(OP_LT)
        /\ S(OP_LE) = DOMAIN content[t] \ S(OP_GT)
        /\ S(OP_NE) = S(OP_LT) \cup S(OP_GT)
        /\ S(OP_LT) \cap S(OP_GT) = {}
  BY <1>1, <1>4, Comparisons DEF SelectedIds
<1>7. R(OP_EQ).kind = "Query" /\ R(OP_NE).kind = "Query" =>
        R(OP_EQ).ids = DOMAIN content[t] \ R(OP_NE).ids
  BY <1>2, <1>5
<1>8. /\ R(OP_LT).kind = "Query" <=> R(OP_GE).kind = "Query"
      /\ R(OP_GT).kind = "Query" <=> R(OP_LE).kind = "Query"
  BY <1>2, <1>3
<1>9. ASSUME R(OP_LT).kind = "Query", R(OP_GT).kind = "Query"
      PROVE  /\ R(OP_GE).ids = DOMAIN content[t] \ R(OP_LT).ids
             /\ R(OP_LE).ids = DOMAIN content[t] \ R(OP_GT).ids
             /\ R(OP_NE).ids = R(OP_LT).ids \cup R(OP_GT).ids
             /\ R(OP_LT).ids \cap R(OP_GT).ids = {}
  <2>1. A(OP_NE)
    BY <1>1, <1>2, <1>9, BothOrdersTest
  <2> QED BY <1>2, <1>3, <1>6, <1>9, <2>1
<1> HIDE DEF R
<1> QED BY <1>7, <1>8, <1>9 DEF Agree, R

\* Whatever was inserted, updated and dropped: the operators a column answers
\* split its rows as their names say, and opposite orders are answered together.
THEOREM QueriesAgree == Spec => []QueriesPartition
<1>1. ASSUME TypeOK, RowsFitSchema PROVE QueriesPartition
  <2>1. ASSUME NEW r \in Requests, r.command = "Query", r.table_id \in TableIds,
               r.value.type # NULL
        PROVE  Agree(r.table_id, r.column_id, r.value)
    <3>1. r.column_id \in Nat /\ r.value \in Value
      BY <2>1, RequestsAssumption DEF Request
    <3> QED BY <1>1, <2>1, <3>1, QueriesOfOneColumn
  <2>2. ASSUME NEW q \in {<<r.table_id, r.column_id, r.value>> :
                            r \in {s \in Requests : s.command = "Query"}},
               q[1] \in TableIds, q[3].type # NULL
        PROVE  Agree(q[1], q[2], q[3])
    <3>1. PICK r \in Requests : r.command = "Query"
                                /\ q = <<r.table_id, r.column_id, r.value>>
      BY <2>2
    <3>2. q[1] = r.table_id /\ q[2] = r.column_id /\ q[3] = r.value
      BY <3>1
    <3> QED BY <2>1, <2>2, <3>1, <3>2
  <2> QED BY <2>2, Zenon DEF QueriesPartition, Agree
<1>2. TypeOK /\ RowsFitSchema => QueriesPartition
  BY <1>1
<1> QED BY <1>2, TypeCorrectness, RowsAlwaysFit, PTL

-----------------------------------------------------------------------------
\* The invariant

\* The object of the drop in progress
Root == [table_id |-> call.request.table_id, object_id |-> call.request.object_id]

\* The rows that were there when the drop began and are gone by now
Gone == {x \in Atomic!LiveRows : ~Live(x.table_id, x.object_id)}

\* The rows that are left are as they were.
Kept ==
  /\ returned.content = [t \in TableIds |-> returned.content[t]]
  /\ \A t \in TableIds :
       /\ returned.content[t] = [o \in DOMAIN returned.content[t] |-> returned.content[t][o]]
       /\ DOMAIN content[t] \subseteq DOMAIN returned.content[t]
       /\ \A o \in DOMAIN content[t] : content[t][o] = returned.content[t][o]

\* A call of handle_drop is for a live row of the family, each for a row of a later table
\* than the one before; and the fields it has listed referred to its row from the start.
CallsOK ==
  /\ SameRow(frames[1], call.request)
  /\ \A k \in DOMAIN frames :
       /\ Live(frames[k].table_id, frames[k].object_id)
       /\ Atomic!RowOf(frames[k]) \in Atomic!Family(Root)
       /\ frames[k].todo \subseteq Atomic!Referrers(frames[k].table_id, frames[k].object_id)
       /\ \A l \in DOMAIN frames : k < l => frames[k].table_id < frames[l].table_id

\* The recursive call for the row x was made for a field of it that refers to a row of
\* the family, and which is on no list any more.
CalledFor(x) ==
  \E y \in Atomic!Family(Root) : \E d \in Atomic!Referrers(y.table_id, y.object_id) :
    /\ SameRow(d, x)
    /\ \/ ~Live(y.table_id, y.object_id)
       \/ \E k \in DOMAIN frames : SameRow(y, frames[k]) /\ d \notin frames[k].todo

\* While a drop is in progress: a part of the family of its object is gone, each row of it
\* by a call that was made for a reference to another member.  If such a row is met again,
\* by another reference, it is why the family can be entered in two ways.
CascadeInv ==
  /\ call.request \in Requests /\ call.request.command = "Drop"
  /\ Kept
  /\ CallsOK
  /\ Gone \subseteq Atomic!Family(Root)
  /\ \A x \in Gone : CalledFor(x)
  /\ \A k \in DOMAIN frames : k > 1 => CalledFor(frames[k])

\* A client saw the tables as they are, or as they were when the drop in progress began.
RefinementInv ==
  /\ returned = [content |-> returned.content, call |-> returned.call]
  /\ frames = <<>> => returned.content = content /\ returned.call = call
  /\ frames # <<>> => CascadeInv

-----------------------------------------------------------------------------
\* What AtomicDB says, in the terms of the tables as a client saw them last

\* Reference in the tables as they were: AtomicDB's definition, with its names for ours.
LEMMA OldRefers ==
  ASSUME NEW t, NEW o, NEW c
  PROVE  Atomic!Refers(c, t, o) <=>
           /\ c.table_id \in TableIds
           /\ c.object_id \in DOMAIN returned.content[c.table_id]
           /\ c.column \in DOMAIN Schema[c.table_id]
           /\ Schema[c.table_id][c.column].c_ref = t
           /\ returned.content[c.table_id][c.object_id].row_values[c.column]
                = [type |-> FOREIGN, val |-> o]
BY DEF Atomic!Refers, Atomic!Live, Atomic!TableIds, TableIds, Atomic!FOREIGN, FOREIGN

\* The fields that referred to a row.
LEMMA OldReferrers ==
  ASSUME NEW t, NEW o, NEW c
  PROVE  c \in Atomic!Referrers(t, o) <=>
           /\ \E u \in TableIds : c \in [table_id : {u},
                                         object_id : DOMAIN returned.content[u],
                                         column : DOMAIN Schema[u]]
           /\ Atomic!Refers(c, t, o)
BY DEF Atomic!Referrers, Atomic!TableIds, TableIds

\* The rows there were.
LEMMA OldLiveRows ==
  ASSUME NEW x
  PROVE  x \in Atomic!LiveRows <=>
           /\ x = [table_id |-> x.table_id, object_id |-> x.object_id]
           /\ x.table_id \in TableIds
           /\ x.object_id \in DOMAIN returned.content[x.table_id]
<1>1. x \in Atomic!LiveRows <=>
        \E u \in TableIds : x \in [table_id : {u}, object_id : DOMAIN returned.content[u]]
  BY DEF Atomic!LiveRows, Atomic!TableIds, TableIds
<1> QED BY <1>1

\* A field that referred to a row is of a row there was, of a later table: the parser lets
\* a column refer to an earlier table only (schema.rs).
LEMMA LaterReferrers ==
  ASSUME NEW t, NEW o, NEW c \in Atomic!Referrers(t, o)
  PROVE  /\ Atomic!RowOf(c) \in Atomic!LiveRows
         /\ t < c.table_id
         /\ c.table_id \in TableIds
<1>1. Atomic!Refers(c, t, o)
  BY OldReferrers
<1>2. Atomic!RowOf(c) \in Atomic!LiveRows
  BY <1>1, OldRefers, OldLiveRows DEF Atomic!RowOf
<1>3. t < c.table_id /\ c.table_id \in TableIds
  BY <1>1, OldRefers, SchemaAssumption
<1> QED BY <1>2, <1>3

\* The family of a row is closed: whatever refers to one of its rows belongs to it.
LEMMA FamilyClosed ==
  ASSUME NEW r \in Atomic!LiveRows, NEW x \in Atomic!Family(r),
         NEW c \in Atomic!Referrers(x.table_id, x.object_id)
  PROVE  Atomic!RowOf(c) \in Atomic!Family(r)
<1> DEFINE s == Atomic!RowOf(c)
<1>1. s \in Atomic!LiveRows /\ x.table_id < s.table_id /\ s.table_id \in TableIds
  BY LaterReferrers DEF Atomic!RowOf
<1>2. x = r \/ x \in Atomic!Later(r)
  BY DEF Atomic!Family
<1>3. r.table_id \in Int /\ s.table_id \in Int
  BY <1>1, OldLiveRows, SchemaFacts
<1>4. r.table_id < s.table_id
  <2>1. CASE x = r
    BY <2>1, <1>1
  <2>2. CASE x \in Atomic!Later(r)
    <3>1. x \in Atomic!LiveRows /\ x.table_id > r.table_id
      BY <2>2 DEF Atomic!Later
    <3>2. x.table_id \in Int
      BY <3>1, OldLiveRows, SchemaFacts
    <3> QED BY <3>1, <3>2, <1>1, <1>3
  <2> QED BY <1>2, <2>1, <2>2
<1>5. s \in Atomic!Later(r) /\ s # r
  BY <1>1, <1>3, <1>4 DEF Atomic!Later
<1>6. ASSUME NEW S \in SUBSET Atomic!Later(r), Atomic!IsClosed({r} \cup S)
      PROVE  s \in S
  <2>1. x \in {r} \cup S
    BY <1>6 DEF Atomic!Family
  <2>2. s \in {r} \cup S
    BY <1>6, <2>1 DEF Atomic!IsClosed
  <2> QED BY <2>2, <1>5
<1> QED BY <1>5, <1>6 DEF Atomic!Family

\* It is the least closed set of later rows.
LEMMA FamilyLeast ==
  ASSUME NEW r, NEW S \in SUBSET Atomic!Later(r), Atomic!IsClosed({r} \cup S)
  PROVE  Atomic!Family(r) \subseteq {r} \cup S
BY DEF Atomic!Family

\* All of a family but the row itself is of later tables.
LEMMA FamilyOf ==
  ASSUME NEW r, NEW x \in Atomic!Family(r), x # r
  PROVE  x \in Atomic!Later(r)
BY DEF Atomic!Family

-----------------------------------------------------------------------------
\* The rows that are left and those that are gone

\* While the rows that are left are as they were, a field that refers to a row did so
\* from the start; and one that did refers to it still, if its own row is left.
LEMMA StillRefers ==
  ASSUME Kept, NEW t, NEW o, NEW c
  PROVE  /\ c \in Referrers(t, o) => c \in Atomic!Referrers(t, o)
         /\ c \in Atomic!Referrers(t, o) /\ Live(c.table_id, c.object_id)
              => c \in Referrers(t, o)
<1>1. c \in Referrers(t, o) <=>
        /\ \E u \in TableIds : c \in [table_id : {u}, object_id : DOMAIN content[u],
                                      column : DOMAIN Schema[u]]
        /\ Refers(c, t, o)
  BY DEF Referrers
<1>2. ASSUME Live(c.table_id, c.object_id)
      PROVE  Refers(c, t, o) <=> Atomic!Refers(c, t, o)
  BY <1>2, OldRefers DEF Refers, Live, Kept
<1>3. \A u \in TableIds : DOMAIN content[u] \subseteq DOMAIN returned.content[u]
  BY DEF Kept
<1>4. Refers(c, t, o) => Live(c.table_id, c.object_id)
  BY DEF Refers
<1>5. ASSUME c \in Referrers(t, o)
      PROVE  c \in Atomic!Referrers(t, o)
  BY <1>1, <1>2, <1>3, <1>4, <1>5, OldReferrers
<1>6. ASSUME c \in Atomic!Referrers(t, o), Live(c.table_id, c.object_id)
      PROVE  c \in Referrers(t, o)
  <2>1. Refers(c, t, o)
    BY <1>2, <1>6, OldReferrers
  <2>2. PICK u \in TableIds : c \in [table_id : {u}, object_id : DOMAIN returned.content[u],
                                     column : DOMAIN Schema[u]]
    BY <1>6, OldReferrers
  <2>3. c \in [table_id : {u}, object_id : DOMAIN content[u], column : DOMAIN Schema[u]]
    BY <1>6, <2>2 DEF Live
  <2> QED BY <1>1, <2>1, <2>3
<1> QED BY <1>5, <1>6

\* A row that something refers to is there.
LEMMA ReferredIsLive ==
  ASSUME Inv, NEW t, NEW o, NEW c \in Referrers(t, o)
  PROVE  Live(t, o)
<1>1. Refers(c, t, o) /\ Live(c.table_id, c.object_id)
  BY DEF Referrers, Refers
<1> DEFINE values == content[c.table_id][c.object_id].row_values
<1>2. values \in Seq(Value) /\ Len(values) = Len(Schema[c.table_id])
  BY <1>1 DEF Inv, TypeOK, RowsFitSchema, Row, Live
<1>3. c.column \in DOMAIN values
  BY <1>1, <1>2, SchemaFacts, LenProperties DEF Refers, Live
<1>4. /\ values[c.column] = [type |-> FOREIGN, val |-> o]
      /\ Schema[c.table_id][c.column].c_ref = t
  BY <1>1 DEF Refers
<1> QED BY <1>1, <1>3, <1>4 DEF Inv, ReferentialIntegrity, Live

\* The rows that are gone.
LEMMA GoneRows ==
  ASSUME NEW x
  PROVE  x \in Gone <=>
           x \in Atomic!LiveRows /\ ~Live(x.table_id, x.object_id)
BY DEF Gone

\* The rows that are gone left no reference to one of them, since what is left refers to
\* live rows only.
LEMMA GoneClosed ==
  ASSUME Inv, Kept
  PROVE  Atomic!IsClosed(Gone)
<1> SUFFICES ASSUME NEW x \in Gone, NEW c \in Atomic!Referrers(x.table_id, x.object_id)
             PROVE  Atomic!RowOf(c) \in Gone
  BY DEF Atomic!IsClosed
<1>1. Atomic!RowOf(c) \in Atomic!LiveRows
  BY LaterReferrers
<1>2. ~Live(c.table_id, c.object_id)
  BY StillRefers, ReferredIsLive, GoneRows
<1> QED BY <1>1, <1>2, GoneRows DEF Atomic!RowOf

\* The rows of the tables T are those of before but for the rows of S.
LessRows(T, S) ==
  /\ T = [t \in TableIds |-> T[t]]
  /\ \A t \in TableIds :
       /\ T[t] = [o \in DOMAIN T[t] |-> T[t][o]]
       /\ \A o : o \in DOMAIN T[t] <=>
                   /\ o \in DOMAIN returned.content[t]
                   /\ [table_id |-> t, object_id |-> o] \notin S
       /\ \A o \in DOMAIN T[t] : T[t][o] = returned.content[t][o]

\* Such tables are what AtomicDB makes of them.
LEMMA IsWithout ==
  ASSUME NEW S, NEW T, LessRows(T, S)
  PROVE  T = Atomic!Without(S)
<1> USE DEF LessRows
<1> DEFINE W(t) == Atomic!Restrict(returned.content[t],
                     {o \in DOMAIN returned.content[t] :
                        [table_id |-> t, object_id |-> o] \notin S})
<1>1. ASSUME NEW t \in TableIds
      PROVE  T[t] = W(t)
  <2> DEFINE D == {o \in DOMAIN returned.content[t] :
                     [table_id |-> t, object_id |-> o] \notin S}
  <2>1. DOMAIN T[t] = D
    OBVIOUS
  <2> HIDE DEF D
  <2>2. T[t] = [o \in D |-> returned.content[t][o]]
    BY <2>1
  <2> QED BY <2>2 DEF Atomic!Restrict, D
<1>2. Atomic!Without(S) = [t \in TableIds |-> W(t)]
  BY DEF Atomic!Without, Atomic!TableIds, TableIds
<1> HIDE DEF W
<1> QED BY <1>1, <1>2

\* In the middle of a cascade the tables are those of before without the rows that are gone.
LEMMA KeptLessRows ==
  ASSUME Inv, Kept
  PROVE  LessRows(content, Gone)
<1>1. content = [t \in TableIds |-> content[t]]
  BY DEF Inv, TypeOK
<1>2. ASSUME NEW t \in TableIds
      PROVE  /\ content[t] = [o \in DOMAIN content[t] |-> content[t][o]]
             /\ \A o \in DOMAIN content[t] : content[t][o] = returned.content[t][o]
  BY DEF Inv, TypeOK, Kept
<1>3. ASSUME NEW t \in TableIds, NEW o
      PROVE  o \in DOMAIN content[t] <=>
               /\ o \in DOMAIN returned.content[t]
               /\ [table_id |-> t, object_id |-> o] \notin Gone
  <2>1. DOMAIN content[t] \subseteq DOMAIN returned.content[t]
    BY DEF Kept
  <2>2. [table_id |-> t, object_id |-> o] \in Gone <=>
          /\ [table_id |-> t, object_id |-> o] \in Atomic!LiveRows
          /\ ~Live(t, o)
    BY GoneRows
  <2>3. [table_id |-> t, object_id |-> o] \in Atomic!LiveRows <=>
          o \in DOMAIN returned.content[t]
    BY OldLiveRows
  <2> QED BY <2>1, <2>2, <2>3 DEF Live
<1> QED BY <1>1, <1>2, <1>3 DEF LessRows

-----------------------------------------------------------------------------
\* The handlers that are one step do what those of AtomicDB do

\* A client sees the tables as they are after the step,
Shown == returned'.content = content' /\ returned'.call = call'

\* and saw them last as they were before it.
Seen == returned.content = content /\ Shown

\* check_row and check_object are the same in both modules.
LEMMA SameChecks ==
  ASSUME returned.content = content
  PROVE  /\ \A t, o : Live(t, o) <=> Atomic!Live(t, o)
         /\ \A t, values : ValidRow(t, values) <=> Atomic!ValidRow(t, values)
         /\ \A t, values : RowErrors(t, values) = Atomic!RowErrors(t, values)
         /\ \A row, version : Matches(row, version) <=> Atomic!Matches(row, version)
<1>1. \A t, o : Live(t, o) <=> Atomic!Live(t, o)
  BY DEF Live, Atomic!Live, TableIds, Atomic!TableIds
<1>2. \A col, v : check_value(col, v) = Atomic!check_value(col, v)
  BY <1>1 DEF check_value, Atomic!check_value, OK, Atomic!OK, NULL, Atomic!NULL,
     FOREIGN, Atomic!FOREIGN, BAD_VALUE, Atomic!BAD_VALUE, BAD_FOREIGN, Atomic!BAD_FOREIGN
<1>3. \A t, values : ValidRow(t, values) <=> Atomic!ValidRow(t, values)
  BY <1>2 DEF ValidRow, Atomic!ValidRow, TableIds, Atomic!TableIds, OK, Atomic!OK
<1>4. \A t, values : RowErrors(t, values) = Atomic!RowErrors(t, values)
  BY ZenonT(30), <1>2 DEF RowErrors, Atomic!RowErrors, TableIds, Atomic!TableIds, OK, Atomic!OK,
     BAD_TABLE, Atomic!BAD_TABLE, BAD_ROW, Atomic!BAD_ROW
<1>5. \A row, version : Matches(row, version) <=> Atomic!Matches(row, version)
  BY DEF Matches, Atomic!Matches
<1> QED BY <1>1, <1>3, <1>4, <1>5

\* So are the responses.
LEMMA SameAnswers ==
  ASSUME Shown
  PROVE  /\ \A req, response : Respond(req, response) <=> Atomic!Respond(req, response)
         /\ \A code : Error(code) = Atomic!Error(code)
         /\ \A id, ver : Inserted(id, ver) = Atomic!Inserted(id, ver)
         /\ \A ver : Updated(ver) = Atomic!Updated(ver)
         /\ \A ver, values : Got(ver, values) = Atomic!Got(ver, values)
         /\ \A ids : Queried(ids) = Atomic!Queried(ids)
         /\ Dropped = Atomic!Dropped
BY DEF Shown, Respond, Atomic!Respond, Error, Atomic!Error, Inserted, Atomic!Inserted,
   Updated, Atomic!Updated, Got, Atomic!Got, Queried, Atomic!Queried, Dropped, Atomic!Dropped

\* A row that check_row refuses.
LEMMA SameRefusal ==
  ASSUME Seen, NEW req, refuse_row(req)
  PROVE  Atomic!refuse_row(req)
BY SameChecks, SameAnswers DEF Seen, Shown, refuse_row, Atomic!refuse_row

\* handle_insert.
LEMMA SameInsert ==
  ASSUME Seen, NEW req, handle_insert(req)
  PROVE  Atomic!handle_insert(req)
<1>1. CASE refuse_row(req)
  BY <1>1, SameRefusal DEF Atomic!handle_insert
<1>2. CASE ~refuse_row(req)
  BY <1>2, SameChecks, SameAnswers
     DEF Seen, Shown, handle_insert, Atomic!handle_insert, NextId, Atomic!NextId
<1> QED BY <1>1, <1>2

\* handle_update.
LEMMA SameUpdate ==
  ASSUME Seen, NEW req, handle_update(req)
  PROVE  Atomic!handle_update(req)
<1> USE SameChecks, SameAnswers DEF Seen, Shown
<1>1. CASE refuse_row(req)
  BY <1>1, SameRefusal DEF Atomic!handle_update
<1>2. CASE ~refuse_row(req)
  BY <1>2 DEF handle_update, Atomic!handle_update, NextVersion, Atomic!NextVersion,
     TXN_ABORT, Atomic!TXN_ABORT, NOT_FOUND, Atomic!NOT_FOUND
<1> QED BY <1>1, <1>2

\* handle_get.
LEMMA SameGet ==
  ASSUME Seen, NEW req, handle_get(req)
  PROVE  Atomic!handle_get(req)
BY SameChecks, SameAnswers
   DEF Seen, Shown, handle_get, Atomic!handle_get, TableIds, Atomic!TableIds,
       BAD_TABLE, Atomic!BAD_TABLE, NOT_FOUND, Atomic!NOT_FOUND

\* handle_query: the same rows are compared by the same operators.
LEMMA SameQuery ==
  ASSUME Seen, NEW req, handle_query(req)
  PROVE  Atomic!handle_query(req)
<1>1. ASSUME NEW t, NEW col, NEW op, NEW v
      PROVE  QueryResponse(t, col, op, v) = Atomic!QueryResponse(t, col, op, v)
  <2>1. /\ \A o : Comparable(t, o, col, op, v) <=> Atomic!Comparable(t, o, col, op, v)
        /\ \A o : Selected(t, o, col, op, v) <=> Atomic!Selected(t, o, col, op, v)
    BY DEF Seen, Shown, Comparable, Atomic!Comparable, Selected, Atomic!Selected,
       value_is_satisfied, Atomic!value_is_satisfied, Operators, Atomic!Operators,
       NULL, Atomic!NULL, INTEGER, Atomic!INTEGER, FLOAT, Atomic!FLOAT,
       TEXT, Atomic!TEXT, FOREIGN, Atomic!FOREIGN,
       OP_EQ, Atomic!OP_EQ, OP_NE, Atomic!OP_NE, OP_LT, Atomic!OP_LT,
       OP_GT, Atomic!OP_GT, OP_LE, Atomic!OP_LE, OP_GE, Atomic!OP_GE
  <2>2. QueryRefused(t, col, op, v) <=> Atomic!QueryRefused(t, col, op, v)
    BY DEF QueryRefused, Atomic!QueryRefused, FOREIGN, Atomic!FOREIGN,
       OP_EQ, Atomic!OP_EQ, OP_NE, Atomic!OP_NE, OP_AL, Atomic!OP_AL
  <2>3. {o \in DOMAIN content[t] : Selected(t, o, col, op, v)}
          = {o \in DOMAIN returned.content[t] : Atomic!Selected(t, o, col, op, v)}
    BY <2>1 DEF Seen, Shown
  <2> QED BY <2>1, <2>2, <2>3, SameAnswers
         DEF Seen, Shown, QueryResponse, Atomic!QueryResponse, TableIds, Atomic!TableIds,
             BAD_TABLE, Atomic!BAD_TABLE, BAD_QUERY, Atomic!BAD_QUERY
<1> QED BY <1>1, SameAnswers DEF Seen, Shown, handle_query, Atomic!handle_query

\* A handler that returns without a recursive call is a step of AtomicDB.
LEMMA SameRequest ==
  ASSUME Seen, NEW req,
         handle_in_one_step(req) \/ (req.command = "Drop" /\ refuse_drop(req))
  PROVE  Atomic!handle_request(req)
<1>1. CASE handle_in_one_step(req)
  <2>1. Atomic!handle_in_one_step(req)
    BY <1>1, SameInsert, SameUpdate, SameGet, SameQuery, SameAnswers
       DEF Seen, Shown, handle_in_one_step, Atomic!handle_in_one_step,
           UNIMPLEMENTED, Atomic!UNIMPLEMENTED
  <2> QED BY <2>1 DEF Atomic!handle_request
<1>2. CASE req.command = "Drop" /\ refuse_drop(req)
  <2>1. Atomic!refuse_drop(req)
    BY <1>2, SameChecks, SameAnswers
       DEF Seen, Shown, refuse_drop, Atomic!refuse_drop, TableIds, Atomic!TableIds,
           BAD_TABLE, Atomic!BAD_TABLE, NOT_FOUND, Atomic!NOT_FOUND
  <2> QED BY <1>2, <2>1 DEF Atomic!handle_request, Atomic!drop
<1> QED BY <1>1, <1>2

-----------------------------------------------------------------------------
\* The steps of handle_drop

\* Until a handler returns, what a client saw last stays, and with it the families.
LEMMA SameOld ==
  ASSUME UNCHANGED returned
  PROVE  /\ \A t, o : Atomic!Referrers(t, o)' = Atomic!Referrers(t, o)
         /\ Atomic!LiveRows' = Atomic!LiveRows
         /\ \A x : Atomic!Family(x)' = Atomic!Family(x)
<1>1. \A t, o : Atomic!Referrers(t, o)' = Atomic!Referrers(t, o)
  BY DEF Atomic!Referrers, Atomic!Refers, Atomic!Live
<1>2. Atomic!LiveRows' = Atomic!LiveRows
  BY DEF Atomic!LiveRows
<1>3. \A x : Atomic!Later(x)' = Atomic!Later(x)
  BY <1>2 DEF Atomic!Later
<1>4. \A S : Atomic!IsClosed(S)' <=> Atomic!IsClosed(S)
  BY <1>1 DEF Atomic!IsClosed
<1>5. \A x : Atomic!Family(x)' = Atomic!Family(x)
  BY <1>3, <1>4 DEF Atomic!Family
<1> QED BY <1>1, <1>2, <1>5

\* The object of the drop is there to the end.
LEMMA RootFacts ==
  ASSUME Inv, CascadeInv, frames # <<>>
  PROVE  /\ SameRow(frames[1], Root) /\ Root = Atomic!RowOf(frames[1])
         /\ Root = Atomic!RowOf(call.request)
         /\ Root \in Atomic!LiveRows
         /\ Live(Root.table_id, Root.object_id)
         /\ Root \notin Gone
<1>1. 1 \in DOMAIN frames
  BY StackFacts
<1>2. SameRow(frames[1], call.request) /\ Live(frames[1].table_id, frames[1].object_id)
  BY <1>1 DEF CascadeInv, CallsOK
<1>3. /\ SameRow(frames[1], Root) /\ Root = Atomic!RowOf(frames[1])
      /\ Root = Atomic!RowOf(call.request)
      /\ Live(Root.table_id, Root.object_id)
  BY <1>2 DEF SameRow, Root, Atomic!RowOf
<1>4. Root \in Atomic!LiveRows
  BY <1>3, OldLiveRows DEF CascadeInv, Kept, Live, Root
<1> QED BY <1>3, <1>4, GoneRows

\* The first call of handle_drop: nothing is gone yet.
LEMMA BeginDropCascade ==
  ASSUME Inv, frames = <<>>, returned.content = content,
         NEW req \in Requests, req.command = "Drop", Live(req.table_id, req.object_id),
         frames' = <<NewFrame(req.table_id, req.object_id)>>,
         Respond(req, Pending), UNCHANGED <<content, row_count, returned>>
  PROVE  CascadeInv'
<1> PICK f : f = NewFrame(req.table_id, req.object_id)
  OBVIOUS
<1>1. /\ f.table_id = req.table_id /\ f.object_id = req.object_id
      /\ f.todo = Referrers(req.table_id, req.object_id)
  BY DEF NewFrame
<1>2. DOMAIN frames' = {1} /\ frames'[1] = f /\ Len(frames') = 1
  OBVIOUS
<1>3. call'.request = req
  BY DEF Respond
<1>4. Kept /\ Kept'
  BY DEF Kept, Inv, TypeOK
<1>5. Gone' = {}
  <2>1. \A x : x \in Atomic!LiveRows => Live(x.table_id, x.object_id)
    BY OldLiveRows DEF Live
  <2> QED BY <2>1, SameOld DEF Gone, Live
<1>6. CallsOK'
  <2>1. Root' = Atomic!RowOf(f)
    BY <1>1, <1>3 DEF Root, Atomic!RowOf
  <2>2. Atomic!RowOf(f) \in Atomic!Family(Root')
    BY <2>1 DEF Atomic!Family
  <2>3. f.todo \subseteq Atomic!Referrers(f.table_id, f.object_id)
    BY <1>1, <1>4, StillRefers
  <2>4. SameRow(f, call'.request) /\ Live(f.table_id, f.object_id)'
    BY <1>1, <1>3 DEF SameRow, Live
  <2>5. Atomic!RowOf(f) \in Atomic!Family(Root)'
    BY <2>2, SameOld
  <2>6. f.todo \subseteq Atomic!Referrers(f.table_id, f.object_id)'
    BY <2>3, SameOld
  <2>7. frames' = <<f>>
    OBVIOUS
  <2> QED BY <1>2, <2>4, <2>5, <2>6, <2>7 DEF CallsOK
<1> QED BY <1>2, <1>3, <1>4, <1>5, <1>6 DEF CascadeInv

\* A recursive call: what it is for belongs to the family, as it refers to a row of it, and
\* the field it was made for has left its list.
LEMMA DropReferrerCascade ==
  ASSUME Inv, CascadeInv, DropReferrer, UNCHANGED returned
  PROVE  CascadeInv' /\ frames' # <<>>
<1> PICK n, fs : n = Len(frames) /\ fs = frames'
  OBVIOUS
<1>1. PICK c \in Top.todo, top \in Frame, f \in Frame : c \in Cell /\ Called(c, top, f)
  BY StackAfterCall
<1>2. /\ n \in Nat \ {0} /\ DOMAIN frames = 1..n
      /\ Top = frames[n]
  BY StackFacts DEF DropReferrer
<1>3. UNCHANGED <<content, call>> /\ frames # <<>>
  BY DEF DropReferrer
<1>4. /\ DOMAIN fs = 1..(n + 1)
      /\ \A k \in 1..(n - 1) : fs[k] = frames[k]
      /\ fs[n] = top /\ fs[n + 1] = f
      /\ SameRow(top, Top) /\ top.todo = Top.todo \ {c}
      /\ SameRow(f, c) /\ f.todo = Referrers(c.table_id, c.object_id)
      /\ Live(c.table_id, c.object_id)
      /\ Top.table_id < c.table_id
  BY <1>1 DEF Called, SameRow
<1>5. Root' = Root /\ Gone' = Gone /\ (Kept <=> Kept')
  BY <1>3, SameOld DEF Root, Gone, Kept, Live
<1>6. /\ Kept /\ CallsOK
      /\ Root \in Atomic!LiveRows
  BY <1>3, RootFacts DEF CascadeInv
<1>7. /\ Atomic!RowOf(Top) \in Atomic!Family(Root)
      /\ c \in Atomic!Referrers(Top.table_id, Top.object_id)
  BY <1>2, <1>6 DEF CallsOK
<1>8. ASSUME NEW k \in 1..n
      PROVE  /\ k \in DOMAIN frames
             /\ SameRow(fs[k], frames[k])
             /\ fs[k].todo \subseteq frames[k].todo
  <2>1. CASE k = n
    BY <2>1, <1>2, <1>4
  <2>2. CASE k \in 1..(n - 1)
    BY <2>2, <1>2, <1>4 DEF SameRow
  <2> QED BY <2>1, <2>2, <1>2
<1>9. /\ SameRow(fs[n + 1], c)
      /\ Atomic!RowOf(fs[n + 1]) \in Atomic!Family(Root)
      /\ fs[n + 1].todo \subseteq Atomic!Referrers(c.table_id, c.object_id)
  <2>1. Atomic!RowOf(c) \in Atomic!Family(Root)
    BY <1>6, <1>7, FamilyClosed DEF Atomic!RowOf
  <2>2. Atomic!RowOf(f) = Atomic!RowOf(c)
    BY <1>4 DEF Atomic!RowOf, SameRow
  <2>3. Referrers(c.table_id, c.object_id) \subseteq Atomic!Referrers(c.table_id, c.object_id)
    BY <1>6, StillRefers
  <2> QED BY <2>1, <2>2, <2>3, <1>4
<1>10. CallsOK'
  <2>1. SameRow(fs[1], call'.request)
    BY <1>2, <1>3, <1>6, <1>8 DEF CallsOK, SameRow
  <2>2. ASSUME NEW k \in 1..(n + 1)
        PROVE  /\ Live(fs[k].table_id, fs[k].object_id)
               /\ Atomic!RowOf(fs[k]) \in Atomic!Family(Root)
               /\ fs[k].todo
                    \subseteq Atomic!Referrers(fs[k].table_id, fs[k].object_id)
    <3>1. CASE k \in 1..n
      BY <3>1, <1>6, <1>8 DEF CallsOK, SameRow, Atomic!RowOf
    <3>2. CASE k = n + 1
      BY <3>2, <1>4, <1>9 DEF SameRow
    <3> QED BY <3>1, <3>2, <1>2
  <2>3. ASSUME NEW k \in 1..(n + 1), NEW l \in 1..(n + 1), k < l
        PROVE  fs[k].table_id < fs[l].table_id
    <3>1. k \in 1..n
      BY <2>3, <1>2
    <3>2. CASE l \in 1..n
      BY <2>3, <3>1, <3>2, <1>6, <1>8 DEF CallsOK, SameRow
    <3>3. CASE l = n + 1
      <4>1. fs[l].table_id = c.table_id /\ fs[k].table_id = frames[k].table_id
        BY <3>1, <3>3, <1>8, <1>9 DEF SameRow
      <4>2. k = n \/ frames[k].table_id < Top.table_id
        BY <3>1, <1>2, <1>6 DEF CallsOK
      <4>3. /\ frames[k].table_id \in Int /\ Top.table_id \in Int /\ c.table_id \in Int
        <5>1. k \in DOMAIN frames
          BY <3>1, <1>2
        <5>2. {frames[k].table_id, Top.table_id, c.table_id} \subseteq TableIds
          BY <5>1, <1>1, <1>3, StackFacts DEF Frame, Cell
        <5> QED BY <5>2, SchemaFacts
      <4> QED BY <4>1, <4>2, <4>3, <1>2, <1>4
    <3> QED BY <3>2, <3>3, <1>2
  <2>4. ASSUME NEW k \in DOMAIN fs
        PROVE  /\ Live(fs[k].table_id, fs[k].object_id)
               /\ Atomic!RowOf(fs[k]) \in Atomic!Family(Root)'
               /\ fs[k].todo
                    \subseteq Atomic!Referrers(fs[k].table_id, fs[k].object_id)'
    BY <2>2, <1>4, <1>5, SameOld
  <2> QED BY <2>1, <2>3, <2>4, <1>3, <1>4 DEF CallsOK, Live
<1>11. ASSUME NEW x, NEW z, CalledFor(x), SameRow(x, z)
       PROVE  CalledFor(z)'
  <2>1. PICK y, d :
          /\ y \in Atomic!Family(Root)
          /\ d \in Atomic!Referrers(y.table_id, y.object_id)
          /\ SameRow(d, x)
          /\ \/ ~Live(y.table_id, y.object_id)
             \/ \E k \in DOMAIN frames : SameRow(y, frames[k]) /\ d \notin frames[k].todo
    BY <1>11 DEF CalledFor
  <2>2. /\ y \in Atomic!Family(Root)' /\ d \in Atomic!Referrers(y.table_id, y.object_id)'
        /\ SameRow(d, z)
    BY <2>1, <1>5, <1>11, SameOld DEF SameRow
  <2>3. ASSUME NEW k \in DOMAIN frames, SameRow(y, frames[k]), d \notin frames[k].todo
        PROVE  k \in DOMAIN fs /\ SameRow(y, fs[k]) /\ d \notin fs[k].todo
    BY <2>3, <1>2, <1>4, <1>8 DEF SameRow
  <2> QED BY <2>1, <2>2, <2>3, <1>3 DEF CalledFor, Live
<1>12. ASSUME NEW x \in Gone'
       PROVE  CalledFor(x)'
  BY <1>5, <1>11 DEF CascadeInv, SameRow
<1>13. ASSUME NEW k \in DOMAIN fs, k > 1
       PROVE  CalledFor(fs[k])'
  <2>1. CASE k \in 1..n
    BY <2>1, <1>2, <1>3, <1>8, <1>11, <1>13 DEF CascadeInv, SameRow
  <2>2. CASE k = n + 1
    <3>1. /\ n \in DOMAIN fs /\ SameRow(Atomic!RowOf(Top), fs[n])
          /\ c \notin fs[n].todo /\ SameRow(c, fs[k])
      BY <2>2, <1>2, <1>4 DEF SameRow, Atomic!RowOf
    <3>2. PICK y : y = Atomic!RowOf(Top)
      OBVIOUS
    <3>3. y \in Atomic!Family(Root)' /\ c \in Atomic!Referrers(y.table_id, y.object_id)'
      BY <3>2, <1>5, <1>7, SameOld DEF Atomic!RowOf
    <3> QED BY <3>1, <3>2, <3>3 DEF CalledFor
  <2> QED BY <2>1, <2>2, <1>2, <1>4
<1> QED BY <1>2, <1>3, <1>4, <1>5, <1>10, <1>12, <1>13, SameOld DEF CascadeInv

\* A cascade that finds a row gone gives up: the row refers to two rows of the family, or
\* to one by two columns, and what is gone leaves no reference to it.
LEMMA AbortDropStep ==
  ASSUME Inv, CascadeInv, AbortDrop, Shown
  PROVE  \E req \in Requests : Atomic!handle_request(req)
<1>1. PICK c \in NextCells(Top) : ~Live(c.table_id, c.object_id)
  BY DEF AbortDrop
<1>2. /\ frames # <<>>
      /\ Respond(call.request, Error(NOT_FOUND))
      /\ UNCHANGED <<content, row_count>>
  BY DEF AbortDrop
<1> DEFINE n == Len(frames)
<1>3. /\ n \in Nat \ {0} /\ DOMAIN frames = 1..n /\ Top = frames[n]
      /\ c \in Top.todo
  BY <1>2, StackFacts DEF NextCells
<1>4. /\ Root \in Atomic!LiveRows /\ Root \notin Gone
      /\ Root = Atomic!RowOf(call.request)
      /\ Kept /\ CallsOK
      /\ Gone \subseteq Atomic!Family(Root)
      /\ \A x \in Gone : CalledFor(x)
  BY <1>2, RootFacts DEF CascadeInv
<1>5. /\ Atomic!RowOf(Top) \in Atomic!Family(Root)
      /\ c \in Atomic!Referrers(Top.table_id, Top.object_id)
      /\ Live(Top.table_id, Top.object_id)
  BY <1>3, <1>4 DEF CallsOK
<1>6. Atomic!RowOf(c) \in Gone
  BY <1>1, <1>5, LaterReferrers, GoneRows DEF Atomic!RowOf
<1>7. Atomic!TwoWaysInto(Atomic!Family(Root))
  <2>1. PICK y, d :
          /\ y \in Atomic!Family(Root)
          /\ d \in Atomic!Referrers(y.table_id, y.object_id)
          /\ SameRow(d, Atomic!RowOf(c))
          /\ \/ ~Live(y.table_id, y.object_id)
             \/ \E k \in DOMAIN frames : SameRow(y, frames[k]) /\ d \notin frames[k].todo
    BY <1>4, <1>6 DEF CalledFor
  <2>2. SUFFICES ASSUME c = d PROVE FALSE
    BY <1>5, <2>1 DEF Atomic!TwoWaysInto, Atomic!RowOf, Atomic!SameRow, SameRow
  <2>3. y.table_id = Top.table_id /\ y.object_id = Top.object_id
    <3> DEFINE v == returned.content[c.table_id][c.object_id].row_values[c.column]
    <3>1. /\ Atomic!Refers(c, Top.table_id, Top.object_id)
          /\ Atomic!Refers(c, y.table_id, y.object_id)
      BY <1>5, <2>1, <2>2, OldReferrers
    <3>2. /\ Schema[c.table_id][c.column].c_ref = Top.table_id
          /\ v = [type |-> FOREIGN, val |-> Top.object_id]
      BY <3>1, OldRefers
    <3>3. /\ Schema[c.table_id][c.column].c_ref = y.table_id
          /\ v = [type |-> FOREIGN, val |-> y.object_id]
      BY <3>1, OldRefers
    <3>4. v.val = Top.object_id /\ v.val = y.object_id
      <4> HIDE DEF v
      <4> QED BY <3>2, <3>3
    <3> QED BY <3>2, <3>3, <3>4
  <2>4. PICK k \in DOMAIN frames : SameRow(y, frames[k]) /\ c \notin frames[k].todo
    BY <1>5, <2>1, <2>2, <2>3
  <2>5. frames[k].table_id = frames[n].table_id /\ n \in DOMAIN frames
    BY <1>3, <2>3, <2>4 DEF SameRow
  <2>6. frames[k].table_id \in Int
    BY <1>2, <2>4, StackFacts, SchemaFacts DEF Frame
  <2>7. k = n
    BY <1>3, <1>4, <2>4, <2>5, <2>6 DEF CallsOK
  <2> QED BY <1>3, <2>4, <2>7
<1>8. content = Atomic!Without(Gone) /\ Atomic!IsClosed(Gone)
  BY <1>4, KeptLessRows, IsWithout, GoneClosed
<1>9. Gone \in SUBSET (Atomic!Family(Root) \ {Root}) /\ Gone # {}
  BY <1>4, <1>6
<1>10. Atomic!Respond(call.request, Atomic!Error(Atomic!NOT_FOUND))
  BY <1>2, SameAnswers DEF NOT_FOUND, Atomic!NOT_FOUND
<1>11. returned'.content = Atomic!Without(Gone)
  BY <1>2, <1>8 DEF Shown
<1>12. Atomic!drop(call.request)
  BY <1>2, <1>4, <1>7, <1>8, <1>9, <1>10, <1>11 DEF Atomic!drop
<1> QED BY <1>12 DEF CascadeInv, Atomic!handle_request

\* The last removal of a cascade: with the object itself its whole family is gone.
LEMMA DropEndsStep ==
  ASSUME Inv, CascadeInv, RemoveObject, frames' = <<>>, Shown
  PROVE  \E req \in Requests : Atomic!handle_request(req)
<1>1. /\ frames # <<>> /\ Top.todo = {}
      /\ Respond(call.request, Dropped)
      /\ UNCHANGED row_count
  BY DEF RemoveObject
<1> DEFINE n == Len(frames)
<1>2. Removed(n, Top.table_id, Top.object_id) /\ Top.table_id \in TableIds
  BY StackAfterReturn
<1>3. n = 1 /\ Top = frames[1] /\ DOMAIN frames = {1}
  <2>1. n \in Nat /\ Len(frames') = n - 1 /\ Len(frames') = 0
    BY <1>1, <1>2, StackFacts DEF Removed
  <2>2. n = 1
    BY <2>1
  <2> QED BY <1>1, <2>2, StackFacts
<1>4. /\ Root \in Atomic!LiveRows /\ Root \notin Gone
      /\ Live(Root.table_id, Root.object_id)
      /\ Root = Atomic!RowOf(call.request) /\ Root = Atomic!RowOf(Top)
      /\ Kept
      /\ Gone \subseteq Atomic!Family(Root)
  BY <1>1, <1>3, RootFacts DEF CascadeInv
<1>5. Atomic!IsClosed({Root} \cup Gone)
  <2>1. ASSUME NEW c \in Atomic!Referrers(Root.table_id, Root.object_id)
        PROVE  Atomic!RowOf(c) \in Gone
    <3>1. Atomic!RowOf(c) \in Atomic!LiveRows
      BY LaterReferrers
    <3>2. ASSUME Live(c.table_id, c.object_id)
          PROVE  FALSE
      <4>1. c \in Referrers(Top.table_id, Top.object_id)
        BY <1>4, <2>1, <3>2, StillRefers DEF Atomic!RowOf
      <4> QED BY <4>1, <1>1, <1>3 DEF Inv, Covered
    <3> QED BY <3>1, <3>2, GoneRows DEF Atomic!RowOf
  <2>2. Atomic!IsClosed(Gone)
    BY <1>4, GoneClosed
  <2> QED BY <2>1, <2>2 DEF Atomic!IsClosed
<1>6. Atomic!Family(Root) = {Root} \cup Gone
  <2>1. Gone \subseteq Atomic!Later(Root)
    BY <1>4, FamilyOf
  <2>2. Atomic!Family(Root) \subseteq {Root} \cup Gone
    BY <1>5, <2>1, FamilyLeast
  <2>3. Root \in Atomic!Family(Root)
    BY DEF Atomic!Family
  <2> QED BY <1>4, <2>2, <2>3
<1>7. LessRows(content', {Root} \cup Gone)
  <2>1. content' = [t \in TableIds |-> content'[t]]
    BY <1>2 DEF Removed
  <2>2. ASSUME NEW t \in TableIds
        PROVE  /\ content'[t] = [o \in DOMAIN content'[t] |-> content'[t][o]]
               /\ \A o : o \in DOMAIN content'[t] <=>
                           o \in DOMAIN content[t] /\ [table_id |-> t, object_id |-> o] # Root
               /\ \A o \in DOMAIN content'[t] : content'[t][o] = content[t][o]
    <3>1. \A o : [table_id |-> t, object_id |-> o] = Root
                   <=> t = Top.table_id /\ o = Top.object_id
      BY <1>4 DEF Atomic!RowOf
    <3>2. content[t] = [o \in DOMAIN content[t] |-> content[t][o]]
      BY DEF Inv, TypeOK
    <3>3. CASE t = Top.table_id
      BY <3>1, <3>3, <1>2 DEF Removed
    <3>4. CASE t # Top.table_id
      BY <3>1, <3>2, <3>4, <1>2 DEF Removed
    <3> QED BY <3>3, <3>4
  <2>3. LessRows(content, Gone)
    BY <1>4, KeptLessRows
  <2> QED BY <2>1, <2>2, <2>3 DEF LessRows
<1>8. returned'.content = Atomic!Without(Atomic!Family(Root))
  BY <1>6, <1>7, IsWithout DEF Shown
<1>9. Atomic!Respond(call.request, Atomic!Dropped)
  BY <1>1, SameAnswers
<1>10. Atomic!drop(call.request)
  BY <1>1, <1>4, <1>8, <1>9 DEF Atomic!drop
<1> QED BY <1>10 DEF CascadeInv, Atomic!handle_request

\* A removal that returns to a caller: the row joins those that are gone, and the field
\* its call was made for refers to the object of that caller or to a row that is gone.
LEMMA RemoveObjectCascade ==
  ASSUME Inv, CascadeInv, RemoveObject, frames' # <<>>, UNCHANGED returned
  PROVE  CascadeInv'
<1> PICK n, fs : n = Len(frames) /\ fs = frames'
  OBVIOUS
<1> PICK t, o : t = Top.table_id /\ o = Top.object_id
  OBVIOUS
<1>1. frames # <<>> /\ UNCHANGED call
  BY DEF RemoveObject
<1>2. /\ n \in Nat \ {0} /\ DOMAIN frames = 1..n
      /\ Top = frames[n]
  BY <1>1, StackFacts
<1>3. /\ t \in TableIds
      /\ \A u \in TableIds : u # t => content'[u] = content[u]
      /\ content'[t] = [p \in DOMAIN content[t] \ {o} |-> content[t][p]]
      /\ DOMAIN content'[t] = DOMAIN content[t] \ {o}
  BY StackAfterReturn DEF Removed
<1>4. /\ fs \in Seq(Frame)
      /\ DOMAIN fs = 1..(n - 1)
      /\ \A k \in 1..(n - 1) : fs[k] = frames[k] /\ k \in DOMAIN frames
      /\ n > 1
  <2>1. /\ fs \in Seq(Frame) /\ Len(fs) = n - 1 /\ DOMAIN fs = 1..(n - 1)
        /\ \A k \in 1..(n - 1) : fs[k] = frames[k]
    BY StackAfterReturn DEF Removed
  <2>2. n - 1 # 0
    BY <2>1, EmptySeq
  <2> QED BY <2>1, <2>2, <1>2
<1>5. \A u, p : Live(u, p)' <=> Live(u, p) /\ ~(u = t /\ p = o)
  BY <1>3 DEF Live
<1>6. /\ Kept /\ CallsOK
      /\ Root = Atomic!RowOf(call.request)
      /\ Root \in Atomic!LiveRows
  BY <1>1, RootFacts DEF CascadeInv
<1>7. Root' = Root
  BY <1>1 DEF Root
<1>8. Kept'
  BY <1>3, <1>6 DEF Kept
<1>9. \A x : x \in Gone' <=> x \in Gone \/ x = Atomic!RowOf(Top)
  <2>1. Atomic!RowOf(Top) \in Atomic!LiveRows /\ Live(t, o)
    <3>1. Live(t, o)
      BY <1>2, <1>6 DEF CallsOK
    <3> QED BY <3>1, <1>6, OldLiveRows DEF Kept, Live, Atomic!RowOf
  <2>2. ASSUME NEW x
        PROVE  x \in Gone' <=> x \in Atomic!LiveRows /\ ~Live(x.table_id, x.object_id)'
    BY SameOld DEF Gone
  <2>3. ASSUME NEW x \in Atomic!LiveRows
        PROVE  x = Atomic!RowOf(Top) <=> x.table_id = t /\ x.object_id = o
    BY OldLiveRows DEF Atomic!RowOf
  <2> QED BY <2>1, <2>2, <2>3, <1>5, GoneRows
<1>10. CallsOK'
  <2>1. SameRow(fs[1], call'.request)
    BY <1>1, <1>4, <1>6 DEF CallsOK
  <2>2. ASSUME NEW k \in DOMAIN fs
        PROVE  /\ Live(fs[k].table_id, fs[k].object_id)'
               /\ Atomic!RowOf(fs[k]) \in Atomic!Family(Root)'
               /\ fs[k].todo \subseteq Atomic!Referrers(fs[k].table_id, fs[k].object_id)'
    <3>1. /\ Live(fs[k].table_id, fs[k].object_id)
          /\ Atomic!RowOf(fs[k]) \in Atomic!Family(Root)
          /\ fs[k].todo \subseteq Atomic!Referrers(fs[k].table_id, fs[k].object_id)
      BY <1>4, <1>6 DEF CallsOK
    <3>2. fs[k].table_id < t
      BY <1>2, <1>4, <1>6 DEF CallsOK
    <3>3. fs[k].table_id \in Int
      BY <3>1, SchemaFacts DEF Live
    <3> QED BY <3>1, <3>2, <3>3, <1>5, <1>7, SameOld
  <2>3. \A k, l \in DOMAIN fs : k < l => fs[k].table_id < fs[l].table_id
    <3>1. \A k, l \in DOMAIN frames : k < l => frames[k].table_id < frames[l].table_id
      BY <1>6 DEF CallsOK
    <3> QED BY ONLY <1>4, <3>1
  <2> QED BY <2>1, <2>2, <2>3 DEF CallsOK
<1>11. ASSUME NEW x, NEW z, CalledFor(x), SameRow(x, z)
       PROVE  CalledFor(z)'
  <2>1. PICK y, d :
          /\ y \in Atomic!Family(Root)
          /\ d \in Atomic!Referrers(y.table_id, y.object_id)
          /\ SameRow(d, x)
          /\ \/ ~Live(y.table_id, y.object_id)
             \/ \E k \in DOMAIN frames : SameRow(y, frames[k]) /\ d \notin frames[k].todo
    BY <1>11 DEF CalledFor
  <2>2. /\ y \in Atomic!Family(Root)' /\ d \in Atomic!Referrers(y.table_id, y.object_id)'
        /\ SameRow(d, z)
    BY <2>1, <1>7, <1>11, SameOld DEF SameRow
  <2>3. \/ ~Live(y.table_id, y.object_id)'
        \/ \E k \in DOMAIN fs : SameRow(y, fs[k]) /\ d \notin fs[k].todo
    <3>1. CASE ~Live(y.table_id, y.object_id)
      BY <3>1, <1>5
    <3>2. ASSUME NEW k \in 1..(n - 1), SameRow(y, frames[k]), d \notin frames[k].todo
          PROVE  k \in DOMAIN fs /\ SameRow(y, fs[k]) /\ d \notin fs[k].todo
      BY <3>2, <1>4
    <3>3. SameRow(y, frames[n]) => ~Live(y.table_id, y.object_id)'
      BY <1>2, <1>5 DEF SameRow
    <3> QED BY <2>1, <3>1, <3>2, <3>3, <1>2
  <2> QED BY <2>2, <2>3 DEF CalledFor
<1>12. ASSUME NEW x \in Gone'
       PROVE  CalledFor(x)'
  <2>1. CASE x \in Gone
    BY <2>1, <1>1, <1>11 DEF CascadeInv, SameRow
  <2>2. CASE x = Atomic!RowOf(Top)
    <3>1. CalledFor(frames[n]) /\ SameRow(frames[n], x)
      BY <2>2, <1>2, <1>4 DEF CascadeInv, SameRow, Atomic!RowOf
    <3> QED BY <3>1, <1>11
  <2> QED BY <2>1, <2>2, <1>9
<1>13. ASSUME NEW k \in DOMAIN fs, k > 1
       PROVE  CalledFor(fs[k])'
  <2>1. CalledFor(frames[k]) /\ SameRow(frames[k], fs[k])
    BY <1>4, <1>13 DEF CascadeInv, SameRow
  <2> QED BY <2>1, <1>11
<1>14. Gone' \subseteq Atomic!Family(Root)'
  <2>1. Atomic!RowOf(Top) \in Atomic!Family(Root)
    BY <1>2, <1>6 DEF CallsOK
  <2>2. ASSUME NEW x \in Gone'
        PROVE  x \in Atomic!Family(Root)
    BY <2>1, <1>9 DEF CascadeInv
  <2> QED BY <2>2, <1>7, SameOld
<1> QED BY <1>1, <1>8, <1>10, <1>12, <1>13, <1>14 DEF CascadeInv

\* A step that leaves everything alone.
LEMMA StutterCascade ==
  ASSUME CascadeInv, UNCHANGED <<content, frames, call, returned>>
  PROVE  CascadeInv'
<1>1. /\ Root' = Root /\ Gone' = Gone /\ (Kept => Kept')
  BY SameOld DEF Root, Gone, Kept, Live
<1>2. CallsOK => CallsOK'
  BY <1>1, SameOld DEF CallsOK, Live
<1>3. \A x : CalledFor(x) => CalledFor(x)'
  BY <1>1, SameOld DEF CalledFor, Live
<1> QED BY <1>1, <1>2, <1>3, SameOld DEF CascadeInv

-----------------------------------------------------------------------------
\* The theorem

\* At first no row is there and no client has seen one.
LEMMA InitRefines ==
  InitReturned => RefinementInv /\ Atomic!InitTables
<1> SUFFICES ASSUME InitReturned PROVE RefinementInv /\ Atomic!InitTables
  OBVIOUS
<1>1. /\ returned = [content |-> content, call |-> call]
      /\ InitTables /\ frames = <<>>
  BY DEF InitReturned, Init
<1>2. RefinementInv
  BY <1>1 DEF RefinementInv
<1>3. Atomic!InitTables
  BY <1>1 DEF InitTables, Atomic!InitTables, TableIds, Atomic!TableIds, NoRequest,
     Atomic!NoRequest, Pending, Atomic!Pending
<1> QED BY <1>2, <1>3

\* Every step of the program is one of AtomicDB or none that a client can see.
LEMMA StepRefines ==
  ASSUME Inv, RefinementInv, NextReturned
  PROVE  RefinementInv' /\ [Atomic!Next]_Atomic!vars
<1>1. ASSUME frames' = <<>>
      PROVE  /\ RefinementInv'
             /\ returned'.content = content' /\ returned'.call = call'
  <2>1. returned' = [content |-> content', call |-> call']
    BY <1>1 DEF NextReturned
  <2> QED BY <1>1, <2>1 DEF RefinementInv
<1>2. ASSUME frames' # <<>>, CascadeInv', UNCHANGED row_count
      PROVE  RefinementInv' /\ UNCHANGED Atomic!vars
  <2>1. returned' = returned
    BY <1>2 DEF NextReturned
  <2> QED BY <1>2, <2>1 DEF RefinementInv, Atomic!vars
<1>3. ASSUME frames # <<>>
      PROVE  CascadeInv
  BY <1>3 DEF RefinementInv
<1>4. ASSUME frames = <<>>, NEW req \in Requests, handle_request(req)
      PROVE  RefinementInv' /\ [Atomic!Next]_Atomic!vars
  <2>1. returned.content = content
    BY <1>4 DEF RefinementInv
  <2>2. CASE /\ req.command = "Drop"
             /\ Live(req.table_id, req.object_id)
             /\ frames' = <<NewFrame(req.table_id, req.object_id)>>
             /\ Respond(req, Pending)
             /\ UNCHANGED <<content, row_count>>
    <3>1. frames' # <<>>
      BY <2>2
    <3>2. UNCHANGED returned
      BY <3>1 DEF NextReturned
    <3>3. CascadeInv'
      BY <1>4, <2>1, <2>2, <3>2, BeginDropCascade
    <3> QED BY <1>2, <2>2, <3>1, <3>3
  <2>3. CASE /\ UNCHANGED frames
             /\ handle_in_one_step(req) \/ (req.command = "Drop" /\ refuse_drop(req))
    <3>1. frames' = <<>>
      BY <1>4, <2>3
    <3>2. Seen
      BY <1>1, <2>1, <3>1 DEF Seen, Shown
    <3>3. Atomic!handle_request(req)
      BY <2>3, <3>2, SameRequest
    <3> QED BY <1>1, <1>4, <3>1, <3>3 DEF Atomic!Next
  <2> QED BY <1>4, <2>2, <2>3 DEF handle_request, handle_drop
<1>5. CASE DropReferrer
  <2>1. frames # <<>> /\ UNCHANGED row_count
    BY <1>5 DEF DropReferrer
  <2>2. frames' # <<>>
    BY <1>5, StackAfterCall, StackFacts, <2>1 DEF Called
  <2>3. UNCHANGED returned
    BY <2>2 DEF NextReturned
  <2> QED BY <1>2, <1>3, <1>5, <2>1, <2>2, <2>3, DropReferrerCascade
<1>6. CASE AbortDrop
  <2>1. frames # <<>> /\ frames' = <<>> /\ UNCHANGED content
    BY <1>6 DEF AbortDrop
  <2>2. \E req \in Requests : Atomic!handle_request(req)
    BY <1>1, <1>3, <1>6, <2>1, AbortDropStep DEF Shown
  <2> QED BY <1>1, <2>1, <2>2 DEF Atomic!Next
<1>7. CASE RemoveObject
  <2>1. frames # <<>> /\ UNCHANGED row_count
    BY <1>7 DEF RemoveObject
  <2>2. CASE frames' = <<>>
    <3>1. \E req \in Requests : Atomic!handle_request(req)
      BY <1>1, <1>3, <1>7, <2>1, <2>2, DropEndsStep DEF Shown
    <3> QED BY <1>1, <2>2, <3>1 DEF Atomic!Next
  <2>3. CASE frames' # <<>>
    <3>1. UNCHANGED returned
      BY <2>3 DEF NextReturned
    <3> QED BY <1>2, <1>3, <1>7, <2>1, <2>3, <3>1, RemoveObjectCascade
  <2> QED BY <2>2, <2>3
<1> QED BY <1>4, <1>5, <1>6, <1>7 DEF NextReturned, Next, DropStep

\* Between two handlers the tables and the last response are those of AtomicDB: a handler,
\* the recursion of a drop with all its calls included, is one of its steps.
THEOREM DropIsAtomic == SpecReturned => ImplementsAtomicDB
<1>1. InitReturned => Inv /\ RefinementInv /\ Atomic!InitTables
  BY InitInv, InitRefines DEF InitReturned
<1>2. Inv /\ RefinementInv /\ [NextReturned]_<<vars, returned>>
        => /\ Inv' /\ RefinementInv'
           /\ [Atomic!Next]_Atomic!vars
  <2> SUFFICES ASSUME Inv, RefinementInv, [NextReturned]_<<vars, returned>>
               PROVE  /\ Inv' /\ RefinementInv'
                      /\ [Atomic!Next]_Atomic!vars
    OBVIOUS
  <2>1. CASE NextReturned
    BY <2>1, NextInv, StepRefines DEF NextReturned
  <2>2. CASE UNCHANGED <<vars, returned>>
    <3>1. Inv'
      BY <2>2, StutterInv
    <3>2. RefinementInv'
      <4>1. UNCHANGED <<content, row_count, frames, call, returned>>
        BY <2>2 DEF vars
      <4>2. CascadeInv => CascadeInv'
        BY <4>1, StutterCascade
      <4> QED BY <4>1, <4>2 DEF RefinementInv
    <3> QED BY <2>2, <3>1, <3>2 DEF vars, Atomic!vars
  <2> QED BY <2>1, <2>2
<1> QED BY <1>1, <1>2, PTL DEF SpecReturned, ImplementsAtomicDB, Atomic!Spec

-----------------------------------------------------------------------------
\* The server: its threads, the mutex and the places

\* What the threads carry from step to step; with the mutex it is inductive.
ThreadsOK ==
  /\ thread \in [Clients -> {"none", "hello", "receive", "endless", "bad", "lock",
                             "locked", "dropping", "respond", "unlock", "ended"}]
  /\ request \in [Clients -> Requests \cup {NoRequest}]
  /\ toServer \in [Clients -> Seq(Requests \cup {EXIT})]
  /\ \A c \in Clients : thread[c] \in {"lock", "locked"} => request[c] \in Requests

\* MutexHeld with "at most one" as a formula about members
Exclusive ==
  /\ holder = {c \in Clients : InSection(c)}
  /\ \A c, d \in holder : c = d
  /\ frames # <<>> <=> \E c \in Clients : thread[c] = "dropping"

AcceptorOK ==
  /\ acceptor \in [at : {"incoming", "panicked"}, client : {Nobody}]
               \cup [at : {"accepted", "shutdown"}, client : Clients]
  /\ backlog \in Seq(Clients)

\* A connection is accepted once: it is nowhere before it connects, once in the
\* backlog, and it has no thread when the accept loop gives it one.
AcceptedOnce ==
  /\ client \in [Clients -> {"idle", "connecting", "ready", "waiting", "refused",
                             "exited", "gone"}]
  /\ \A i \in DOMAIN backlog :
       /\ client[backlog[i]] # "idle" /\ thread[backlog[i]] = "none"
       /\ backlog[i] # acceptor.client
       /\ \A j \in DOMAIN backlog : backlog[i] = backlog[j] => i = j
  /\ \A c \in Clients :
       /\ client[c] = "idle" => thread[c] = "none" /\ acceptor.client # c
       /\ acceptor.at = "accepted" /\ acceptor.client = c => thread[c] = "none"

SectionInv == ThreadsOK /\ AcceptorOK /\ AcceptedOnce /\ Exclusive

PlacesInv == SectionInv /\ ServedBound

-----------------------------------------------------------------------------
\* The mutex

\* No request is EXIT or NoRequest where it matters: neither asks for a handler.
LEMMA NotRequests == NoRequest \notin Requests
BY RequestsAssumption DEF NoRequest, Request

\* The invariant of the critical section holds when the server starts.
LEMMA SectionInit == ServerInit => SectionInv
<1> SUFFICES ASSUME ServerInit PROVE SectionInv
  OBVIOUS
<1> USE DEF ServerInit, Init
<1>1. ThreadsOK
  BY DEF ThreadsOK
<1>2. Exclusive
  BY DEF Exclusive, InSection
<1>3. AcceptorOK /\ AcceptedOnce
  BY ServerAssumption DEF AcceptorOK, AcceptedOnce
<1> QED BY <1>1, <1>2, <1>3 DEF SectionInv

\* A step that leaves the whole server alone preserves the invariant of the section.
LEMMA SectionStutter == SectionInv /\ UNCHANGED allVars => SectionInv'
BY DEF SectionInv, ThreadsOK, AcceptorOK, AcceptedOnce, Exclusive, InSection, allVars, vars,
       serverVars

\* A step that moves at most one thread, neither into the section nor out of it
LEMMA SectionOutside ==
  ASSUME SectionInv, UNCHANGED <<frames, holder>>,
         \/ UNCHANGED thread
         \/ \E c \in Clients, s \in {"none", "hello", "receive", "endless", "bad",
                                     "lock", "ended"} :
              ~InSection(c) /\ thread' = [thread EXCEPT ![c] = s]
  PROVE  Exclusive'
<1>1. CASE UNCHANGED thread
  BY <1>1 DEF SectionInv, Exclusive, InSection
<1>2. ASSUME NEW c \in Clients,
             NEW s \in {"none", "hello", "receive", "endless", "bad", "lock", "ended"},
             ~InSection(c), thread' = [thread EXCEPT ![c] = s]
      PROVE  Exclusive'
  <2>1. \A d \in Clients : /\ InSection(d)' <=> InSection(d)
                           /\ thread'[d] = "dropping" <=> thread[d] = "dropping"
    BY <1>2 DEF SectionInv, ThreadsOK, InSection
  <2> QED BY <2>1 DEF SectionInv, Exclusive
<1> QED BY <1>1, <1>2

\* A step that moves one thread in the section, or out of it with the mutex
LEMMA SectionInside ==
  ASSUME SectionInv, NEW c \in Clients, InSection(c),
         NEW s \in {"locked", "dropping", "respond", "unlock", "receive", "ended"},
         thread' = [thread EXCEPT ![c] = s],
         holder' = IF s \in {"receive", "ended"} THEN {} ELSE {c},
         frames' # <<>> <=> s = "dropping"
  PROVE  Exclusive'
<1>1. holder = {c}
  BY DEF SectionInv, Exclusive
<1>2. \A d \in Clients : d # c => ~InSection(d)
  BY <1>1 DEF SectionInv, Exclusive
<1>3. thread'[c] = s /\ \A d \in Clients : d # c => thread'[d] = thread[d]
  BY DEF SectionInv, ThreadsOK
<1>4. \A d \in Clients : InSection(d)' <=> d = c /\ s \notin {"receive", "ended"}
  BY <1>2, <1>3 DEF InSection
<1>5. \A d \in Clients : thread'[d] = "dropping" <=> d = c /\ s = "dropping"
  BY <1>2, <1>3 DEF InSection
<1> QED BY <1>4, <1>5 DEF Exclusive

\* A step of handle_request by the thread that holds the mutex is a step of the
\* database: no cascade of another thread is in progress.
LEMMA HandleIsNext ==
  ASSUME SectionInv, NEW c \in Clients, Handle(c)
  PROVE  Next /\ InSection(c)
<1>1. CASE thread[c] = "locked" /\ handle_request(request[c])
  <2>1. request[c] \in Requests /\ InSection(c)
    BY <1>1 DEF SectionInv, ThreadsOK, InSection
  <2>2. frames = <<>>
    <3> SUFFICES ASSUME frames # <<>> PROVE FALSE
      OBVIOUS
    <3>1. PICK d \in Clients : thread[d] = "dropping"
      BY DEF SectionInv, Exclusive
    <3>2. c \in holder /\ d \in holder
      BY <2>1, <3>1 DEF SectionInv, Exclusive, InSection
    <3> QED BY <1>1, <3>1, <3>2 DEF SectionInv, Exclusive
  <2> QED BY <1>1, <2>1, <2>2 DEF Next
<1>2. CASE thread[c] = "dropping" /\ DropStep
  BY <1>2 DEF Next, InSection
<1> QED BY <1>1, <1>2 DEF Handle

\* Each program of a client appends what it sends, the kernel may discard it
LEMMA ClientThreadsOK ==
  ASSUME SectionInv, NEW c \in Clients, ClientStep(c) \/ Reset(c)
  PROVE  ThreadsOK'
<1>1. UNCHANGED <<thread, request>>
  BY DEF ClientStep, Connect, Send, Receive, Exit, Quit, Reset, ClientUnchanged
<1>2. toServer \in [Clients -> Seq(Requests \cup {EXIT})]
  BY DEF SectionInv, ThreadsOK
<1>3. CASE UNCHANGED toServer
  BY <1>1, <1>3 DEF SectionInv, ThreadsOK
<1>4. CASE \E r \in Requests \cup {EXIT} : toServer' = [toServer EXCEPT ![c] = Append(@, r)]
  <2>1. PICK r \in Requests \cup {EXIT} : toServer' = [toServer EXCEPT ![c] = Append(@, r)]
    BY <1>4
  <2>2. Append(toServer[c], r) \in Seq(Requests \cup {EXIT})
    BY <1>2, <2>1, AppendProperties
  <2> QED BY <1>1, <1>2, <2>1, <2>2 DEF SectionInv, ThreadsOK
<1>5. CASE toServer' = [toServer EXCEPT ![c] = <<>>]
  BY <1>1, <1>2, <1>5 DEF SectionInv, ThreadsOK
<1> QED BY <1>3, <1>4, <1>5
        DEF ClientStep, Connect, Send, Receive, Exit, Quit, Reset, ClientUnchanged

\* Connect is the one step of a client that the accept loop can tell
LEMMA ClientAcceptedOnce ==
  ASSUME SectionInv, NEW c \in Clients, ClientStep(c) \/ Reset(c)
  PROVE  AcceptorOK' /\ AcceptedOnce'
<1>1. UNCHANGED <<thread, acceptor>>
  BY DEF ClientStep, Connect, Send, Receive, Exit, Quit, Reset, ClientUnchanged
<1>2. backlog \in Seq(Clients) /\ DOMAIN backlog = 1..Len(backlog) /\ Len(backlog) \in Nat
  BY LenProperties DEF SectionInv, AcceptorOK
<1>3. CASE Connect(c)
  <2>1. backlog' \in Seq(Clients) /\ Len(backlog') = Len(backlog) + 1
    BY <1>2, <1>3, AppendProperties DEF Connect
  <2>2. \A i \in DOMAIN backlog' :
          backlog'[i] = IF i = Len(backlog) + 1 THEN c ELSE backlog[i]
    BY <1>2, <1>3, <2>1, AppendProperties, LenProperties DEF Connect
  <2>3. DOMAIN backlog' = 1..(Len(backlog) + 1)
    BY <2>1, LenProperties
  <2>4. /\ client[c] = "idle"
        /\ client' = [client EXCEPT ![c] = "connecting"]
    BY <1>3 DEF Connect
  <2>5. AcceptorOK'
    BY <1>1, <2>1 DEF SectionInv, AcceptorOK
  <2>6. AcceptedOnce'
    BY <1>1, <1>2, <2>2, <2>3, <2>4 DEF SectionInv, AcceptedOnce
  <2> QED BY <2>5, <2>6
<1>4. CASE ~Connect(c)
  <2>1. /\ UNCHANGED backlog
        /\ \/ UNCHANGED client
           \/ \E s \in {"ready", "waiting", "refused", "exited", "gone"} :
                client[c] # "idle" /\ client' = [client EXCEPT ![c] = s]
    BY <1>4 DEF ClientStep, Send, Receive, Exit, Quit, Reset
  <2>2. AcceptedOnce'
    BY <1>1, <1>2, <2>1 DEF SectionInv, AcceptedOnce
  <2> QED BY <1>1, <2>1, <2>2 DEF SectionInv, AcceptorOK
<1> QED BY <1>3, <1>4

\* What clients and the network do preserves the invariant of the section: it touches neither
\* threads nor the mutex.
LEMMA ClientInv ==
  ASSUME SectionInv, NEW c \in Clients, ClientStep(c) \/ Reset(c)
  PROVE  SectionInv'
<1>1. UNCHANGED <<frames, holder, thread>>
  BY DEF ClientStep, Connect, Send, Receive, Exit, Quit, Reset, ClientUnchanged, vars
<1> QED BY <1>1, ClientThreadsOK, ClientAcceptedOnce, SectionOutside DEF SectionInv

\* The accept loop gives a thread to a connection that has none
LEMMA AcceptorInv ==
  ASSUME SectionInv, AcceptorStep
  PROVE  SectionInv'
<1>1. UNCHANGED <<frames, holder, request, toServer, client>>
  BY DEF AcceptorStep, Accept, Spawn, Refuse, ShutdownRefused, AcceptorUnchanged, vars
<1>2. backlog \in Seq(Clients) /\ DOMAIN backlog = 1..Len(backlog) /\ Len(backlog) \in Nat
  BY LenProperties DEF SectionInv, AcceptorOK
<1>3. CASE Accept
  <2>1. /\ backlog' = Tail(backlog)
        /\ backlog # <<>>
        /\ acceptor' = [at |-> "accepted", client |-> Head(backlog)]
        /\ UNCHANGED thread
    BY <1>3 DEF Accept
  <2>2. /\ backlog' \in Seq(Clients)
        /\ DOMAIN backlog' = 1..(Len(backlog) - 1)
        /\ \A i \in 1..(Len(backlog) - 1) : backlog'[i] = backlog[i + 1]
        /\ Head(backlog) = backlog[1] /\ backlog[1] \in Clients
        /\ Len(backlog) > 0
    BY <1>2, <2>1, HeadTailProperties, LenProperties, EmptySeq
  <2>3. AcceptorOK'
    BY <2>1, <2>2 DEF AcceptorOK
  <2>4. AcceptedOnce'
    BY <1>1, <1>2, <2>1, <2>2 DEF SectionInv, AcceptedOnce
  <2>5. ThreadsOK'
    BY <1>1, <2>1 DEF SectionInv, ThreadsOK
  <2> QED BY <1>1, <2>1, <2>3, <2>4, <2>5, SectionOutside DEF SectionInv
<1>4. CASE Spawn
  <2>1. /\ acceptor.at = "accepted"
        /\ thread' = [thread EXCEPT ![acceptor.client] = "hello"]
        /\ acceptor' = [at |-> "incoming", client |-> Nobody]
        /\ UNCHANGED backlog
    BY <1>4 DEF Spawn
  <2>2. acceptor.client \in Clients /\ thread[acceptor.client] = "none"
    BY <2>1 DEF SectionInv, AcceptorOK, AcceptedOnce
  <2>3. ThreadsOK'
    BY <1>1, <2>1, <2>2 DEF SectionInv, ThreadsOK
  <2>4. AcceptorOK'
    BY <2>1 DEF SectionInv, AcceptorOK
  <2>5. AcceptedOnce'
    BY <1>1, <1>2, <2>1, <2>2, ServerAssumption DEF SectionInv, ThreadsOK, AcceptedOnce
  <2>6. ~InSection(acceptor.client)
    BY <2>2 DEF InSection
  <2> QED BY <1>1, <2>1, <2>2, <2>3, <2>4, <2>5, <2>6, SectionOutside DEF SectionInv
<1>5. CASE Refuse \/ ShutdownRefused
  <2>1. UNCHANGED <<backlog, thread>>
    BY <1>5 DEF Refuse, ShutdownRefused
  <2>2. \/ /\ acceptor.at = "accepted"
           /\ acceptor' = [acceptor EXCEPT !.at = "shutdown"]
        \/ acceptor' \in [at : {"incoming", "panicked"}, client : {Nobody}]
    BY <1>5 DEF Refuse, ShutdownRefused
  <2>3. AcceptorOK'
    BY <2>1, <2>2 DEF SectionInv, AcceptorOK
  <2>4. /\ acceptor'.at # "accepted"
        /\ acceptor'.client \in {acceptor.client, Nobody}
    BY <2>2 DEF SectionInv, AcceptorOK
  <2>5. AcceptedOnce'
    BY <1>1, <1>2, <2>1, <2>4, ServerAssumption, ElementOfSeq
       DEF SectionInv, AcceptorOK, AcceptedOnce
  <2>6. ThreadsOK'
    BY <1>1, <2>1 DEF SectionInv, ThreadsOK
  <2> QED BY <1>1, <2>1, <2>3, <2>5, <2>6, SectionOutside DEF SectionInv
<1> QED BY <1>3, <1>4, <1>5 DEF AcceptorStep

\* A step of a thread moves that thread and leaves the accept loop alone
LEMMA ThreadMoves ==
  ASSUME NEW c \in Clients, ThreadStep(c)
  PROVE  /\ UNCHANGED <<client, backlog, acceptor>>
         /\ thread[c] # "none"
         /\ \E s \in {"none", "receive", "endless", "bad", "lock", "locked", "dropping",
                      "respond", "unlock", "ended"} :
              thread' = [thread EXCEPT ![c] = s]
BY DEF ThreadStep, Hello, ReceivePacket, ReceiveError, ReceiveNothing, BadRequest, Lock,
       Handle, Answer, Unlock, DropArc, Write, GoTo, ThreadUnchanged

\* A step of a thread does not give its connection back to the accept loop.
LEMMA ThreadAcceptedOnce ==
  ASSUME SectionInv, NEW c \in Clients, ThreadStep(c)
  PROVE  AcceptorOK' /\ AcceptedOnce'
<1>1. PICK s : thread' = [thread EXCEPT ![c] = s]
  BY ThreadMoves
<1>2. UNCHANGED <<client, backlog, acceptor>> /\ thread[c] # "none"
  BY ThreadMoves
<1>3. \A i \in DOMAIN backlog : backlog[i] # c
  BY <1>2 DEF SectionInv, AcceptedOnce
<1>4. AcceptorOK'
  BY <1>2 DEF SectionInv, AcceptorOK
<1>5. AcceptedOnce'
  BY <1>1, <1>2, <1>3 DEF SectionInv, ThreadsOK, AcceptedOnce
<1> QED BY <1>4, <1>5

\* A step of a thread leaves it with a request of a client whenever it goes to the mutex.
LEMMA ThreadThreadsOK ==
  ASSUME SectionInv, NEW c \in Clients, ThreadStep(c)
  PROVE  ThreadsOK'
<1>1. CASE ReceivePacket(c)
  <2>1. toServer[c] \in Seq(Requests \cup {EXIT}) /\ toServer[c] # <<>>
    BY <1>1 DEF ReceivePacket, SectionInv, ThreadsOK
  <2>2. /\ Head(toServer[c]) \in Requests \cup {EXIT}
        /\ Tail(toServer[c]) \in Seq(Requests \cup {EXIT})
    BY <2>1, HeadTailProperties
  <2>3. toServer' \in [Clients -> Seq(Requests \cup {EXIT})]
    BY <1>1, <2>2 DEF ReceivePacket, SectionInv, ThreadsOK
  <2>4. CASE Head(toServer[c]).command = "Exit"
    BY <1>1, <2>3, <2>4 DEF ReceivePacket, GoTo, SectionInv, ThreadsOK
  <2>5. CASE Head(toServer[c]).command # "Exit"
    <3>1. Head(toServer[c]) \in Requests
      BY <2>2, <2>5 DEF EXIT
    <3> QED BY <1>1, <2>3, <2>5, <3>1 DEF ReceivePacket, GoTo, SectionInv, ThreadsOK
  <2> QED BY <2>4, <2>5
<1>2. CASE ReceiveNothing(c)
  <2>1. UNCHANGED toServer
    BY <1>2 DEF ReceiveNothing
  <2>2. CASE UNCHANGED request /\ \E s \in {"bad", "ended"} : GoTo(c, s)
    BY <2>1, <2>2 DEF GoTo, SectionInv, ThreadsOK
  <2>3. ASSUME NEW d \in Clients, request[d] # NoRequest,
               request' = [request EXCEPT ![c] = request[d]],
               NEW s \in {"endless", "lock"}, GoTo(c, s)
        PROVE  ThreadsOK'
    BY <2>1, <2>3 DEF GoTo, SectionInv, ThreadsOK
  <2> QED BY <1>2, <2>2, <2>3 DEF ReceiveNothing
<1>3. CASE Lock(c)
  BY <1>3 DEF Lock, GoTo, SectionInv, ThreadsOK
<1>4. CASE Hello(c) \/ ReceiveError(c) \/ BadRequest(c) \/ Handle(c) \/ Answer(c)
             \/ Unlock(c) \/ DropArc(c)
  <2>1. UNCHANGED <<request, toServer>>
    BY <1>4 DEF Hello, ReceiveError, BadRequest, Handle, Answer, Unlock, DropArc
  <2>2. \E s \in {"none", "receive", "bad", "dropping", "respond", "unlock", "ended"} :
          thread' = [thread EXCEPT ![c] = s]
    BY <1>4 DEF Hello, ReceiveError, BadRequest, Handle, Answer, Unlock, DropArc, Write, GoTo
  <2> QED BY <2>1, <2>2 DEF SectionInv, ThreadsOK
<1> QED BY <1>1, <1>2, <1>3, <1>4 DEF ThreadStep

\* The mutex is taken where nobody holds it and given back by who holds it
LEMMA ThreadExclusive ==
  ASSUME SectionInv, NEW c \in Clients, ThreadStep(c)
  PROVE  Exclusive'
<1> USE DEF GoTo
<1>1. CASE Hello(c) \/ ReceivePacket(c) \/ ReceiveError(c) \/ ReceiveNothing(c)
             \/ BadRequest(c) \/ DropArc(c)
  <2>1. ~InSection(c) /\ UNCHANGED <<frames, holder>>
    BY <1>1 DEF Hello, ReceivePacket, ReceiveError, ReceiveNothing, BadRequest, DropArc,
                InSection, vars
  <2>2. \E s \in {"none", "receive", "endless", "bad", "lock", "ended"} :
          thread' = [thread EXCEPT ![c] = s]
    BY <1>1 DEF Hello, ReceivePacket, ReceiveError, ReceiveNothing, BadRequest, DropArc, Write
  <2> QED BY <2>1, <2>2, SectionOutside
<1>2. CASE Lock(c)
  <2>1. /\ thread' = [thread EXCEPT ![c] = "locked"] /\ thread[c] = "lock"
        /\ holder = {} /\ holder' = {c} /\ UNCHANGED frames
    BY <1>2 DEF Lock, vars
  <2>2. \A d \in Clients : /\ InSection(d)' <=> d = c
                           /\ thread'[d] = "dropping" <=> thread[d] = "dropping"
    BY <2>1 DEF SectionInv, ThreadsOK, Exclusive, InSection
  <2> QED BY <2>1, <2>2 DEF SectionInv, Exclusive
<1>3. CASE Handle(c)
  <2>1. InSection(c)
    BY <1>3, HandleIsNext
  <2>2. holder' = {c}
    BY <1>3, <2>1 DEF Handle, SectionInv, Exclusive
  <2>3. \E s \in {"respond", "dropping"} :
          thread' = [thread EXCEPT ![c] = s] /\ (frames' # <<>> <=> s = "dropping")
    BY <1>3 DEF Handle
  <2> QED BY <2>1, <2>2, <2>3, SectionInside
<1>4. CASE Answer(c) \/ Unlock(c)
  <2>1. /\ InSection(c) /\ thread[c] # "dropping" /\ UNCHANGED frames
    BY <1>4 DEF Answer, Unlock, InSection, vars
  <2>2. holder = {c}
    BY <2>1 DEF SectionInv, Exclusive
  <2>3. frames' = <<>>
    BY <2>1, <2>2 DEF SectionInv, Exclusive, InSection
  <2>4. \E s \in {"unlock", "receive", "ended"} :
          /\ thread' = [thread EXCEPT ![c] = s]
          /\ holder' = IF s \in {"receive", "ended"} THEN {} ELSE {c}
    BY <1>4, <2>2 DEF Answer, Unlock, Write
  <2> QED BY <2>1, <2>3, <2>4, SectionInside
<1> QED BY <1>1, <1>2, <1>3, <1>4 DEF ThreadStep

\* Every step of the server preserves the invariant of the section.
LEMMA SectionNext ==
  ASSUME SectionInv, [ServerNext]_allVars
  PROVE  SectionInv'
<1>1. ASSUME NEW c \in Clients, ThreadStep(c)
      PROVE  SectionInv'
  BY <1>1, ThreadThreadsOK, ThreadAcceptedOnce, ThreadExclusive DEF SectionInv
<1> QED BY <1>1, ClientInv, AcceptorInv, SectionStutter DEF ServerNext

-----------------------------------------------------------------------------
\* The server is the database

\* Every step of the server is a step of the database, or none.
LEMMA StepIsSerial ==
  ASSUME SectionInv, [ServerNext]_allVars
  PROVE  [Next]_vars
<1>1. ASSUME NEW c \in Clients, ThreadStep(c)
      PROVE  [Next]_vars
  BY <1>1, HandleIsNext
     DEF ThreadStep, Hello, ReceivePacket, ReceiveError, ReceiveNothing, BadRequest, Lock,
         Answer, Unlock, DropArc
<1>2. ASSUME NEW c \in Clients, ClientStep(c) \/ Reset(c)
      PROVE  UNCHANGED vars
  BY <1>2 DEF ClientStep, Connect, Send, Receive, Exit, Quit, Reset, ClientUnchanged
<1>3. CASE AcceptorStep
  BY <1>3 DEF AcceptorStep, Accept, Spawn, Refuse, ShutdownRefused, AcceptorUnchanged
<1> QED BY <1>1, <1>2, <1>3 DEF ServerNext, allVars

\* What the invariant is made of holds in every state of the server.
THEOREM SectionInvariance == ServerSpec => []SectionInv
BY SectionInit, SectionNext, PTL DEF ServerSpec

\* However many connections there are and however their threads interleave, the
\* database behind the mutex serves one request at a time, cascades included.
THEOREM ServerIsSerial == ServerSpec => Serialised
<1>1. ServerInit => Init
  BY DEF ServerInit
<1> QED BY <1>1, StepIsSerial, SectionInvariance, PTL DEF ServerSpec, Serialised, Spec

\* So no thread ever sees, and no client is told of, a row that refers to a row
\* that is gone.
THEOREM ServedReferencesAreLive == ServerSpec => []ReferentialIntegrity
BY ServerIsSerial, ReferencesAreLive DEF Serialised

\* The mutex is held by at most one thread, exactly while it is between lock()
\* and the end of the loop's body, and every cascade runs under it.
THEOREM MutexIsHeld == ServerSpec => []MutexHeld
<1>1. SectionInv => MutexHeld
  <2> SUFFICES ASSUME SectionInv PROVE MutexHeld
    OBVIOUS
  <2>1. holder = {} \/ \E c \in Clients : holder = {c}
    BY DEF SectionInv, Exclusive
  <2>2. Cardinality(holder) \in {0, 1}
    <3>1. CASE holder = {}
      BY <3>1, FS_EmptySet
    <3>2. CASE \E c \in Clients : holder = {c}
      BY <3>2, FS_Singleton
    <3> QED BY <2>1, <3>1, <3>2
  <2> QED BY <2>2 DEF MutexHeld, SectionInv, Exclusive
<1> QED BY <1>1, SectionInvariance, PTL

-----------------------------------------------------------------------------
\* The places

\* There are finitely many threads.
LEMMA ThreadsFinite == IsFiniteSet(Threads) /\ Cardinality(Threads) \in Nat
<1>1. Threads \in SUBSET Clients
  BY DEF Threads
<1> QED BY <1>1, ServerAssumption, FS_Subset, FS_CardinalityType

\* A step after which there are no more threads than before keeps within the places.
LEMMA FewerThreads ==
  ASSUME PlacesInv, Threads' \subseteq Threads
  PROVE  ServedBound'
<1>1. Cardinality(Threads') <= Cardinality(Threads) /\ IsFiniteSet(Threads')
  BY ThreadsFinite, FS_Subset
<1>2. Cardinality(Threads') \in Nat
  BY <1>1, FS_CardinalityType
<1> QED BY <1>1, <1>2, ThreadsFinite, ServerAssumption DEF PlacesInv, ServedBound

\* The count is looked at before the thread is spawned and with the clone for it
LEMMA SpawnServed ==
  ASSUME PlacesInv, Spawn
  PROVE  ServedBound'
<1>1. acceptor.client \in Clients /\ thread[acceptor.client] = "none"
  BY DEF Spawn, PlacesInv, SectionInv, AcceptorOK, AcceptedOnce
<1>2. 2 + Cardinality(Threads) <= BusyThreshold
  BY <1>1, ThreadsFinite, ServerAssumption DEF Spawn, strong_count
<1>3. Threads' = Threads \cup {acceptor.client}
  BY <1>1 DEF Spawn, Threads, PlacesInv, SectionInv, ThreadsOK
<1>4. Cardinality(Threads') = Cardinality(Threads) + 1
  BY <1>1, <1>3, ThreadsFinite, FS_AddElement DEF Threads
<1> QED BY <1>2, <1>4, ThreadsFinite, ServerAssumption DEF ServedBound

\* Every step of the server keeps within the places.
LEMMA PlacesNext ==
  ASSUME PlacesInv, [ServerNext]_allVars
  PROVE  PlacesInv'
<1>1. SectionInv'
  BY SectionNext DEF PlacesInv
<1>2. CASE Spawn
  BY <1>1, <1>2, SpawnServed DEF PlacesInv
<1>3. CASE UNCHANGED thread
  BY <1>1, <1>3, FewerThreads DEF Threads, PlacesInv
<1>4. ASSUME NEW c \in Clients, ThreadStep(c)
      PROVE  ServedBound'
  <2>1. Threads' \subseteq Threads
    BY <1>4, ThreadMoves DEF Threads, PlacesInv, SectionInv, ThreadsOK
  <2> QED BY <2>1, FewerThreads
<1>5. \/ UNCHANGED thread \/ Spawn \/ \E c \in Clients : ThreadStep(c)
  BY DEF ServerNext, ClientStep, Connect, Send, Receive, Exit, Quit, Reset, ClientUnchanged,
         AcceptorStep, Accept, Refuse, ShutdownRefused, allVars, serverVars
<1> QED BY <1>1, <1>2, <1>3, <1>4, <1>5 DEF PlacesInv

\* Whatever the number of connections, never more than BusyThreshold - 1 of them
\* have a thread.
THEOREM ServedIsBounded == ServerSpec => []ServedBound
<1>1. ServerInit => PlacesInv
  <2> SUFFICES ASSUME ServerInit PROVE PlacesInv
    OBVIOUS
  <2>1. Threads = {}
    BY DEF ServerInit, Threads
  <2> QED BY <2>1, SectionInit, FS_EmptySet, ServerAssumption DEF PlacesInv, ServedBound
<1>2. PlacesInv => ServedBound
  BY DEF PlacesInv
<1> QED BY <1>1, <1>2, PlacesNext, PTL DEF ServerSpec

-----------------------------------------------------------------------------
\* AnswersMatch: every answer goes to whoever asked

LastSent(c) == sent[c][Len(sent[c])]

\* Connections the accept loop has still to give a thread to, or to refuse
Queued(c) ==
  \/ \E i \in DOMAIN backlog : backlog[i] = c
  \/ acceptor.at = "accepted" /\ acceptor.client = c

\* A client that connects: its thread, or the accept loop, greets it once
Connecting(c) ==
  /\ toServer[c] = <<>>
  /\ \/ toClient[c] = <<>> /\ thread[c] \in {"none", "hello"}
     \/ toClient[c] = <<CONNECTED>> /\ thread[c] = "receive"
     \/ toClient[c] = <<SERVER_BUSY>> /\ thread[c] = "none"

\* A request is in one place: on its way, with the thread, or on its way back
OnItsWay(c) ==
  /\ toServer[c] = <<LastSent(c)>>
  /\ toClient[c] = <<>>
  /\ thread[c] \in {"receive", "unlock"}

WithThread(c) ==
  /\ toServer[c] = <<>>
  /\ toClient[c] = <<>>
  /\ thread[c] \in {"endless", "lock", "locked", "dropping", "respond"}
  /\ request[c] = LastSent(c)

Answered(c) ==
  /\ toServer[c] = <<>>
  /\ toClient[c] # <<>> /\ toClient[c] = <<Head(toClient[c])>>
  /\ Head(toClient[c]).request = LastSent(c)
  /\ thread[c] \in {"receive", "unlock"}

Waiting(c) ==
  /\ sent[c] # <<>>
  /\ LastSent(c).command # "Exit"
  /\ OnItsWay(c) \/ WithThread(c) \/ Answered(c)

\* A client that closed its connection is owed nothing
Exited(c) ==
  /\ toClient[c] = <<>>
  /\ \/ toServer[c] = <<EXIT>> /\ thread[c] \in {"receive", "unlock"}
     \/ thread[c] \in {"ended", "none"}

\* Where the conversation with a client stands, as long as the client is there
Stands(c) ==
  /\ client[c] # "gone" => c \notin reset
  /\ client[c] = "idle" =>
       toServer[c] = <<>> /\ toClient[c] = <<>> /\ thread[c] = "none"
  /\ client[c] = "connecting" => Connecting(c)
  /\ client[c] = "ready" =>
       toServer[c] = <<>> /\ toClient[c] = <<>> /\ thread[c] \in {"receive", "unlock"}
  /\ client[c] = "waiting" => Waiting(c)
  /\ client[c] = "refused" => toClient[c] = <<>> /\ thread[c] = "none"
  /\ client[c] = "exited" => Exited(c)
  /\ Queued(c) => client[c] \in {"connecting", "gone"} /\ toClient[c] = <<>>

\* The call in handle_request is that of the thread that is in it
InHand(c) == thread[c] \in {"dropping", "respond"} => call.request = request[c]

\* The functions of the state the section's invariant leaves open
StreamsOK ==
  /\ sent \in [Clients -> Seq(Requests)]
  /\ toClient = [c \in Clients |-> toClient[c]]
  /\ reset \subseteq Clients

AnswersInv ==
  /\ SectionInv
  /\ StreamsOK
  /\ \A c \in Clients : Stands(c) /\ InHand(c)

-----------------------------------------------------------------------------
\* A stream that one message is put into, and taken out of
LEMMA OneMessage ==
  ASSUME NEW m
  PROVE  /\ Append(<<>>, m) = <<m>>
         /\ Len(<<m>>) = 1 /\ <<m>>[1] = m /\ <<m>> # <<>>
         /\ Head(<<m>>) = m /\ Tail(<<m>>) = <<>>
OBVIOUS

\* A greeting can be told from a refusal and from the answer to a request.
LEMMA Greetings ==
  /\ CONNECTED # SERVER_BUSY
  /\ CONNECTED.request \notin Requests /\ SERVER_BUSY.request \notin Requests
BY NotRequests DEF CONNECTED, SERVER_BUSY, Greeting, Error

\* Nothing stands anywhere before the first step.
LEMMA AnswersInit == ServerInit => AnswersInv
<1> SUFFICES ASSUME ServerInit PROVE AnswersInv
  OBVIOUS
<1>1. SectionInv
  BY SectionInit
<1>2. StreamsOK
  BY DEF ServerInit, StreamsOK
<1>3. ASSUME NEW c \in Clients PROVE Stands(c) /\ InHand(c)
  <2>1. ~Queued(c)
    BY ServerAssumption DEF ServerInit, Queued
  <2> QED BY <2>1 DEF ServerInit, Stands, InHand
<1> QED BY <1>1, <1>2, <1>3 DEF AnswersInv

\* A step that concerns another connection leaves this one where it stands.
LEMMA OthersStand ==
  ASSUME NEW c \in Clients, Stands(c), InHand(c),
         client'[c] = client[c], sent'[c] = sent[c], toServer'[c] = toServer[c],
         toClient'[c] = toClient[c], thread'[c] = thread[c], request'[c] = request[c],
         c \in reset' => c \in reset,
         Queued(c)' => Queued(c),
         thread[c] \in {"dropping", "respond"} => call'.request = call.request
  PROVE  Stands(c)' /\ InHand(c)'
BY DEF Stands, InHand, Connecting, Waiting, OnItsWay, WithThread, Answered, Exited, LastSent

\* What the section's invariant says of the functions of the state
LEMMA StateFunctions ==
  ASSUME AnswersInv
  PROVE  /\ client = [c \in Clients |-> client[c]]
         /\ thread = [c \in Clients |-> thread[c]]
         /\ request = [c \in Clients |-> request[c]]
         /\ toServer = [c \in Clients |-> toServer[c]]
         /\ toClient = [c \in Clients |-> toClient[c]]
         /\ sent = [c \in Clients |-> sent[c]]
         /\ reset \subseteq Clients
BY DEF AnswersInv, SectionInv, ThreadsOK, AcceptedOnce, StreamsOK

-----------------------------------------------------------------------------
\* The client and the network

\* Connecting queues the connection, which nobody knew.
LEMMA ConnectStands ==
  ASSUME AnswersInv, NEW c \in Clients, Connect(c)
  PROVE  StreamsOK' /\ \A d \in Clients : Stands(d)' /\ InHand(d)'
<1> USE DEF Connect, ClientUnchanged, vars
<1>1. StreamsOK'
  BY DEF AnswersInv, StreamsOK
<1>2. Stands(c)' /\ InHand(c)'
  BY StateFunctions DEF AnswersInv, Stands, InHand, Connecting
<1>3. backlog \in Seq(Clients)
  BY DEF AnswersInv, SectionInv, AcceptorOK
<1>4. ASSUME NEW d \in Clients, d # c PROVE Stands(d)' /\ InHand(d)'
  <2>1. Queued(d)' => Queued(d)
    <3>1. \A i \in DOMAIN backlog' : backlog'[i] = d => i \in DOMAIN backlog /\ backlog[i] = d
      BY <1>3, <1>4, AppendProperties, LenProperties
    <3> QED BY <3>1 DEF Queued
  <2> QED BY <1>4, <2>1, StateFunctions, OthersStand DEF AnswersInv
<1> QED BY <1>1, <1>2, <1>4

\* A request is on its way once it is sent.
LEMMA SendStands ==
  ASSUME AnswersInv, NEW c \in Clients, Send(c)
  PROVE  StreamsOK' /\ \A d \in Clients : Stands(d)' /\ InHand(d)'
<1> USE DEF Send, ClientUnchanged, vars
<1>1. PICK r \in Requests :
        /\ r.command # "Exit"
        /\ toServer' = [toServer EXCEPT ![c] = Append(@, r)]
        /\ sent' = [sent EXCEPT ![c] = Append(@, r)]
  OBVIOUS
<1>2. sent[c] \in Seq(Requests)
  BY DEF AnswersInv, StreamsOK
<1>3. /\ sent'[c] = Append(sent[c], r)
      /\ Append(sent[c], r) \in Seq(Requests)
      /\ Append(sent[c], r) # <<>>
      /\ LastSent(c)' = r
  BY <1>1, <1>2, StateFunctions, AppendProperties DEF LastSent
<1>4. StreamsOK'
  BY <1>1, <1>3, StateFunctions DEF AnswersInv, StreamsOK
<1>5. /\ toServer[c] = <<>> /\ toClient[c] = <<>> /\ thread[c] \in {"receive", "unlock"}
      /\ ~Queued(c) /\ c \notin reset
  BY DEF AnswersInv, Stands
<1>6. toServer'[c] = <<r>>
  BY <1>1, <1>5, StateFunctions, OneMessage
<1>7. client'[c] = "waiting"
  BY StateFunctions
<1>8. Waiting(c)'
  BY <1>1, <1>3, <1>5, <1>6 DEF Waiting, OnItsWay
<1>9. ~Queued(c)'
  BY <1>5 DEF Queued
<1>10. Stands(c)' /\ InHand(c)'
  BY <1>5, <1>7, <1>8, <1>9 DEF Stands, InHand
<1>11. ASSUME NEW d \in Clients, d # c PROVE Stands(d)' /\ InHand(d)'
  <2>1. Queued(d)' => Queued(d)
    BY DEF Queued
  <2> QED BY <1>1, <1>11, <2>1, StateFunctions, OthersStand DEF AnswersInv
<1> QED BY <1>4, <1>10, <1>11

\* What a client reads is all there is to read.
LEMMA ReceiveStands ==
  ASSUME AnswersInv, NEW c \in Clients, Receive(c)
  PROVE  StreamsOK' /\ \A d \in Clients : Stands(d)' /\ InHand(d)'
<1> USE DEF Receive, ClientUnchanged, vars
<1>1. StreamsOK'
  BY StateFunctions DEF AnswersInv, StreamsOK
<1>2. Stands(c) /\ InHand(c) /\ toClient[c] # <<>>
  BY DEF AnswersInv
<1>3. toServer[c] = <<>> /\ ~Queued(c) /\ c \notin reset
  BY <1>2 DEF Stands, Connecting, Waiting, OnItsWay, WithThread, Answered
<1>4. ~Queued(c)'
  BY <1>3 DEF Queued
<1>5. ASSUME client[c] = "connecting" PROVE Stands(c)' /\ InHand(c)'
  <2>1. Connecting(c)
    BY <1>2, <1>5 DEF Stands
  <2>2. CASE toClient[c] = <<CONNECTED>> /\ thread[c] = "receive"
    <3>1. client'[c] = "ready" /\ toServer'[c] = <<>> /\ toClient'[c] = <<>>
      BY <1>3, <2>2, StateFunctions, OneMessage, Greetings
    <3> QED BY <1>3, <1>4, <2>2, <3>1 DEF Stands, InHand
  <2>3. CASE toClient[c] = <<SERVER_BUSY>> /\ thread[c] = "none"
    <3>1. client'[c] = "refused" /\ toClient'[c] = <<>>
      BY <2>3, StateFunctions, OneMessage
    <3> QED BY <1>3, <1>4, <2>3, <3>1 DEF Stands, InHand
  <2> QED BY <1>2, <2>1, <2>2, <2>3 DEF Connecting
<1>6. ASSUME client[c] = "waiting" PROVE Stands(c)' /\ InHand(c)'
  <2>1. Answered(c) /\ sent[c] # <<>>
    BY <1>2, <1>6 DEF Stands, Waiting, OnItsWay, WithThread
  <2>2. LastSent(c) \in Requests
    BY <2>1, LenProperties, EmptySeq, ElementOfSeq DEF LastSent, AnswersInv, StreamsOK
  <2>3. Head(toClient[c]) # SERVER_BUSY
    BY <2>1, <2>2, Greetings DEF Answered
  <2>4. client'[c] = "ready" /\ toServer'[c] = <<>> /\ toClient'[c] = Tail(toClient[c])
    BY <1>3, <2>3, StateFunctions
  <2>5. Tail(toClient[c]) = <<>>
    <3>1. PICK m : m = Head(toClient[c])
      OBVIOUS
    <3>2. toClient[c] = <<m>>
      BY ONLY <2>1, <3>1 DEF Answered
    <3>3. Tail(<<m>>) = <<>>
      BY ONLY OneMessage
    <3> QED BY <3>2, <3>3
  <2>6. thread'[c] \in {"receive", "unlock"} /\ reset' = reset
    BY <2>1 DEF Answered
  <2>7. InHand(c)'
    BY ONLY <2>6 DEF InHand
  <2>8. client'[c] = "ready" /\ toServer'[c] = <<>> /\ toClient'[c] = <<>> /\ c \notin reset'
    BY ONLY <1>3, <2>4, <2>5, <2>6
  <2> QED BY ONLY <1>4, <2>6, <2>7, <2>8 DEF Stands
<1>7. Stands(c)' /\ InHand(c)'
  BY <1>5, <1>6
<1>8. ASSUME NEW d \in Clients, d # c PROVE Stands(d)' /\ InHand(d)'
  <2>1. Queued(d)' => Queued(d)
    BY DEF Queued
  <2> QED BY <1>8, <2>1, StateFunctions, OthersStand DEF AnswersInv
<1> QED BY <1>1, <1>7, <1>8

\* A client that leaves, in whatever way, was owed nothing or is gone.
LEMMA LeaveStands ==
  ASSUME AnswersInv, NEW c \in Clients, Exit(c) \/ Quit(c) \/ Reset(c)
  PROVE  StreamsOK' /\ \A d \in Clients : Stands(d)' /\ InHand(d)'
<1> USE DEF Exit, Quit, Reset, ClientUnchanged, vars
<1>1. StreamsOK'
  BY StateFunctions DEF AnswersInv, StreamsOK
<1>2. Stands(c) /\ InHand(c)
  BY DEF AnswersInv
<1>3. \A d \in Clients : Queued(d)' <=> Queued(d)
  BY DEF Queued
<1>4. ASSUME Exit(c) PROVE Stands(c)' /\ InHand(c)'
  <2>1. /\ toServer'[c] = <<EXIT>> /\ toClient'[c] = <<>>
        /\ thread'[c] \in {"receive", "unlock"} /\ client'[c] = "exited"
        /\ ~Queued(c) /\ c \notin reset'
    BY <1>2, <1>4, StateFunctions, OneMessage DEF Stands
  <2> QED BY <1>3, <2>1 DEF Stands, InHand, Exited
<1>5. ASSUME Quit(c) \/ Reset(c) PROVE Stands(c)' /\ InHand(c)'
  <2>1. client'[c] = "gone"
    BY <1>5, StateFunctions
  <2> QED BY <1>2, <1>3, <1>5, <2>1 DEF Stands, InHand
<1>6. ASSUME NEW d \in Clients, d # c PROVE Stands(d)' /\ InHand(d)'
  BY <1>3, <1>6, StateFunctions, OthersStand DEF AnswersInv
<1> QED BY <1>1, <1>4, <1>5, <1>6

-----------------------------------------------------------------------------
\* The accept loop

\* A connection that is accepted was queued, and no other one moves.
LEMMA AcceptStands ==
  ASSUME AnswersInv, Accept
  PROVE  StreamsOK' /\ \A d \in Clients : Stands(d)' /\ InHand(d)'
<1> USE DEF Accept, AcceptorUnchanged, vars
<1>1. StreamsOK'
  BY DEF AnswersInv, StreamsOK
<1>2. /\ backlog \in Seq(Clients) /\ backlog # <<>>
      /\ acceptor' = [at |-> "accepted", client |-> Head(backlog)]
      /\ backlog' = Tail(backlog)
  BY DEF AnswersInv, SectionInv, AcceptorOK
<1>3. /\ Head(backlog) = backlog[1] /\ 1 \in DOMAIN backlog
      /\ \A i \in DOMAIN backlog' : i + 1 \in DOMAIN backlog /\ backlog'[i] = backlog[i + 1]
  BY <1>2, HeadTailProperties, LenProperties, EmptySeq
<1>4. \A d \in Clients : Queued(d)' => Queued(d)
  BY <1>2, <1>3 DEF Queued
<1> QED BY <1>1, <1>4, OthersStand DEF AnswersInv

\* The connection that is given a thread, or refused, is queued no longer.
LEMMA SpawnStands ==
  ASSUME AnswersInv, Spawn \/ Refuse
  PROVE  StreamsOK' /\ \A d \in Clients : Stands(d)' /\ InHand(d)'
<1>0. PICK c \in Clients : c = acceptor.client
  BY DEF Spawn, Refuse, AnswersInv, SectionInv, AcceptorOK
<1>1. /\ Queued(c) /\ thread[c] = "none"
      /\ \A i \in DOMAIN backlog : backlog[i] # c
  BY <1>0 DEF Spawn, Refuse, Queued, AnswersInv, SectionInv, AcceptorOK, AcceptedOnce
<1>2. /\ client[c] \in {"connecting", "gone"} /\ toClient[c] = <<>>
      /\ client[c] = "connecting" => toServer[c] = <<>> /\ c \notin reset
  BY <1>1 DEF AnswersInv, Stands, Connecting
<1>3. /\ UNCHANGED <<client, sent, toServer, reset, request, call, backlog>>
      /\ \A d \in Clients : d # c => toClient'[d] = toClient[d] /\ thread'[d] = thread[d]
      /\ toClient' = [d \in Clients |-> toClient'[d]]
  BY <1>0, <1>1, StateFunctions DEF Spawn, Refuse, AcceptorUnchanged, vars
<1>4. /\ acceptor'.at # "accepted"
      /\ \A d \in Clients : Queued(d)' => d # c /\ Queued(d)
  <2>1. acceptor'.at # "accepted"
    BY DEF Spawn, Refuse, AnswersInv, SectionInv, AcceptorOK
  <2> QED BY <1>0, <1>1, <1>3, <2>1 DEF Queued
<1>5. StreamsOK'
  BY <1>3 DEF AnswersInv, StreamsOK
<1>6. \/ thread'[c] = "hello" /\ toClient'[c] = <<>>
      \/ thread'[c] = "none" /\ toClient'[c] = <<SERVER_BUSY>>
  <2>1. CASE Spawn
    BY <1>0, <1>2, <2>1, StateFunctions DEF Spawn
  <2>2. CASE Refuse
    <3>1. toClient = [d \in Clients |-> toClient[d]]
      BY StateFunctions
    <3>2. thread' = thread /\ toClient' = [toClient EXCEPT ![c] = Append(@, SERVER_BUSY)]
      BY <1>0, <2>2 DEF Refuse
    <3>3. toClient'[c] = Append(<<>>, SERVER_BUSY)
      BY ONLY <1>2, <3>1, <3>2, c \in Clients
    <3> QED BY <1>1, <3>2, <3>3, OneMessage
  <2> QED BY <2>1, <2>2
<1>7. Stands(c)' /\ InHand(c)'
  BY <1>1, <1>2, <1>3, <1>4, <1>6 DEF Stands, InHand, Connecting
<1>8. ASSUME NEW d \in Clients, d # c PROVE Stands(d)' /\ InHand(d)'
  BY <1>3, <1>4, <1>8, OthersStand DEF AnswersInv
<1> QED BY <1>5, <1>7, <1>8

\* No client is owed anything by the end of a connection that was refused.
LEMMA ShutdownStands ==
  ASSUME AnswersInv, ShutdownRefused
  PROVE  StreamsOK' /\ \A d \in Clients : Stands(d)' /\ InHand(d)'
<1>1. UNCHANGED <<client, sent, toServer, toClient, reset, request, thread, call, backlog>>
  BY DEF ShutdownRefused, AcceptorUnchanged, vars
<1>2. acceptor'.at # "accepted"
  BY DEF ShutdownRefused
<1>3. \A d \in Clients : Queued(d)' => Queued(d)
  BY <1>1, <1>2 DEF Queued
<1>4. StreamsOK'
  BY <1>1 DEF AnswersInv, StreamsOK
<1> QED BY <1>1, <1>3, <1>4, OthersStand DEF AnswersInv

-----------------------------------------------------------------------------
\* The threads

\* What a thread does is its own connection's business, but for the database's
\* call, which is its own while it has the mutex.
LEMMA ThreadOthers ==
  ASSUME AnswersInv, NEW c \in Clients, ThreadStep(c), NEW d \in Clients, d # c
  PROVE  Stands(d)' /\ InHand(d)'
<1>1. /\ UNCHANGED <<client, sent, reset, backlog, acceptor>>
      /\ thread'[d] = thread[d] /\ toServer'[d] = toServer[d]
      /\ toClient'[d] = toClient[d] /\ request'[d] = request[d]
  BY StateFunctions DEF ThreadStep, Hello, ReceivePacket, ReceiveError, ReceiveNothing,
     BadRequest, Lock, Handle, Answer, Unlock, DropArc, Write, GoTo, ThreadUnchanged
<1>2. Queued(d)' => Queued(d)
  BY <1>1 DEF Queued
<1>3. thread[d] \in {"dropping", "respond"} => call' = call
  <2>1. ASSUME Handle(c), InSection(d) PROVE FALSE
    <3>1. InSection(c)
      BY <2>1, HandleIsNext DEF AnswersInv
    <3>2. c \in holder /\ d \in holder
      BY <2>1, <3>1 DEF AnswersInv, SectionInv, Exclusive
    <3> QED BY <3>2 DEF AnswersInv, SectionInv, Exclusive
  <2>2. CASE ~Handle(c)
    BY <2>2 DEF ThreadStep, Hello, ReceivePacket, ReceiveError, ReceiveNothing,
       BadRequest, Lock, Answer, Unlock, DropArc, vars
  <2> QED BY <2>1, <2>2 DEF InSection
<1> QED BY <1>1, <1>2, <1>3, OthersStand DEF AnswersInv

\* A connection with a thread is not queued, before and after a step of the thread.
LEMMA NotQueued ==
  ASSUME AnswersInv, NEW c \in Clients, ThreadStep(c)
  PROVE  ~Queued(c)' /\ UNCHANGED <<client, sent, reset>> /\ Stands(c) /\ InHand(c)
<1>1. UNCHANGED <<client, backlog, acceptor>> /\ thread[c] # "none"
  BY ThreadMoves
<1>2. ~Queued(c)
  BY <1>1 DEF Queued, AnswersInv, SectionInv, AcceptedOnce
<1>3. UNCHANGED <<sent, reset>>
  BY DEF ThreadStep, Hello, ReceivePacket, ReceiveError, ReceiveNothing, BadRequest, Lock,
     Handle, Answer, Unlock, DropArc, ThreadUnchanged
<1> QED BY <1>1, <1>2, <1>3 DEF Queued, AnswersInv

\* A handler answers the request it was given.
LEMMA HandlerAnswers ==
  ASSUME NEW req, handle_request(req)
  PROVE  call'.request = req
<1>1. handle_insert(req) => call'.request = req
  BY DEF handle_insert, refuse_row, Respond
<1>2. handle_update(req) => call'.request = req
  BY DEF handle_update, refuse_row, Respond
<1>3. handle_get(req) \/ handle_query(req) => call'.request = req
  BY DEF handle_get, handle_query, Respond
<1>4. handle_drop(req) => call'.request = req
  BY DEF handle_drop, refuse_drop, Respond
<1>5. \A response : Respond(req, response) => call'.request = req
  BY DEF Respond
<1>6. handle_in_one_step(req) => call'.request = req
  BY <1>1, <1>2, <1>3, <1>5, Zenon DEF handle_in_one_step
<1> QED BY <1>4, <1>6, Zenon DEF handle_request

\* The response to a drop is one to the request that began it.
LEMMA CascadeAnswers ==
  ASSUME DropStep
  PROVE  call'.request = call.request
<1>1. \A response : Respond(call.request, response) => call'.request = call.request
  BY DEF Respond
<1>2. DropReferrer => call'.request = call.request
  BY DEF DropReferrer
<1>3. AbortDrop => call'.request = call.request
  BY <1>1, Zenon DEF AbortDrop
<1>4. RemoveObject => call'.request = call.request
  BY <1>1, Zenon DEF RemoveObject
<1> QED BY <1>2, <1>3, <1>4 DEF DropStep

\* The greeting is the first message.
LEMMA HelloStands ==
  ASSUME AnswersInv, NEW c \in Clients, Hello(c)
  PROVE  Stands(c)' /\ InHand(c)'
<1>1. /\ ~Queued(c)' /\ UNCHANGED <<client, sent, reset>> /\ Stands(c)
  BY NotQueued DEF ThreadStep
<1>2. thread[c] = "hello" /\ UNCHANGED toServer
  BY DEF Hello
<1>3. client[c] \in {"connecting", "gone"}
  BY <1>1, <1>2 DEF Stands, Waiting, OnItsWay, WithThread, Answered, Exited, AnswersInv,
     SectionInv, AcceptedOnce
<1>4. CASE client[c] = "gone"
  <2>1. thread'[c] \in {"ended", "receive"}
    BY StateFunctions DEF Hello, Write, GoTo
  <2> QED BY <1>1, <1>4, <2>1 DEF Stands, InHand
<1>5. CASE client[c] = "connecting"
  <2>1. toServer[c] = <<>> /\ toClient[c] = <<>> /\ c \notin reset
    BY <1>1, <1>2, <1>5 DEF Stands, Connecting
  <2>2. thread'[c] = "receive" /\ toClient'[c] = <<CONNECTED>>
    BY <2>1, StateFunctions, OneMessage DEF Hello, Write, GoTo
  <2> QED BY <1>1, <1>2, <1>5, <2>1, <2>2 DEF Stands, InHand, Connecting
<1> QED BY <1>3, <1>4, <1>5

\* A packet is taken off the stream: the client's last request, or its EXIT.
LEMMA PacketStands ==
  ASSUME AnswersInv, NEW c \in Clients, ReceivePacket(c)
  PROVE  Stands(c)' /\ InHand(c)'
<1> DEFINE m == Head(toServer[c])
<1>1. /\ ~Queued(c)' /\ UNCHANGED <<client, sent, reset, toClient>> /\ Stands(c)
      /\ thread[c] = "receive" /\ toServer[c] # <<>>
  BY NotQueued DEF ThreadStep, ReceivePacket
<1>2. /\ toServer'[c] = Tail(toServer[c])
      /\ m.command = "Exit" => thread'[c] = "ended"
      /\ m.command # "Exit" => thread'[c] \in {"endless", "lock"} /\ request'[c] = m
      /\ thread'[c] \in {"endless", "lock", "ended"}
  BY StateFunctions DEF ReceivePacket, GoTo
<1>3. InHand(c)'
  BY <1>2 DEF InHand
<1>4. client[c] \in {"waiting", "exited", "gone"}
  BY <1>1 DEF Stands, Connecting, AnswersInv, SectionInv, AcceptedOnce
<1>5. ASSUME client[c] = "waiting" PROVE Stands(c)'
  <2>1. toServer[c] = <<LastSent(c)>> /\ toClient[c] = <<>> /\ LastSent(c).command # "Exit"
        /\ sent[c] # <<>>
    BY <1>1, <1>5 DEF Stands, Waiting, OnItsWay, WithThread, Answered
  <2>2. m = LastSent(c) /\ toServer'[c] = <<>>
    BY <1>2, <2>1, OneMessage
  <2>3. LastSent(c)' = LastSent(c)
    BY <1>1 DEF LastSent
  <2>4. Waiting(c)'
    BY <1>1, <1>2, <2>1, <2>2, <2>3 DEF Waiting, WithThread
  <2> QED BY <1>1, <1>5, <2>4 DEF Stands
<1>6. ASSUME client[c] = "exited" PROVE Stands(c)'
  <2>1. toServer[c] = <<EXIT>> /\ toClient[c] = <<>>
    BY <1>1, <1>6 DEF Stands, Exited
  <2>2. thread'[c] = "ended"
    BY <1>2, <2>1, OneMessage DEF EXIT
  <2> QED BY <1>1, <1>6, <2>1, <2>2 DEF Stands, Exited
<1>7. ASSUME client[c] = "gone" PROVE Stands(c)'
  BY <1>1, <1>7 DEF Stands
<1> QED BY <1>3, <1>4, <1>5, <1>6, <1>7

\* Only a connection whose client is gone comes to nothing.
LEMMA NothingStands ==
  ASSUME AnswersInv, NEW c \in Clients,
         ReceiveError(c) \/ ReceiveNothing(c) \/ BadRequest(c) \/ DropArc(c)
  PROVE  Stands(c)' /\ InHand(c)'
<1>1. /\ ~Queued(c)' /\ UNCHANGED <<client, sent, reset>> /\ Stands(c)
  BY NotQueued DEF ThreadStep
<1>2. thread'[c] \in {"bad", "ended", "lock", "endless", "none"} /\ UNCHANGED toServer
  BY StateFunctions DEF ReceiveError, ReceiveNothing, BadRequest, DropArc, Write, GoTo
<1>3. InHand(c)'
  BY <1>2 DEF InHand
<1>4. CASE client[c] = "gone"
  BY <1>1, <1>3, <1>4 DEF Stands
<1>5. CASE client[c] # "gone"
  <2>1. DropArc(c) \/ BadRequest(c)
    BY <1>1, <1>5 DEF ReceiveError, ReceiveNothing, Stands
  <2>2. thread[c] \in {"ended", "bad"}
    BY <2>1 DEF DropArc, BadRequest
  <2>3. client[c] = "exited" /\ thread[c] = "ended"
    BY <1>1, <1>5, <2>2 DEF Stands, Connecting, Waiting, OnItsWay, WithThread, Answered,
       Exited, AnswersInv, SectionInv, AcceptedOnce
  <2>4. thread'[c] = "none" /\ UNCHANGED toClient
    BY <2>1, <2>3, StateFunctions DEF DropArc, BadRequest, GoTo
  <2> QED BY <1>1, <1>3, <2>3, <2>4 DEF Stands, Exited
<1> QED BY <1>4, <1>5

\* The request stays with its thread until it is handled.
LEMMA HandleStands ==
  ASSUME AnswersInv, NEW c \in Clients, Lock(c) \/ Handle(c)
  PROVE  Stands(c)' /\ InHand(c)'
<1>1. /\ ~Queued(c)' /\ UNCHANGED <<client, sent, reset, toClient, toServer, request>>
      /\ Stands(c) /\ InHand(c)
  BY NotQueued DEF ThreadStep, Lock, Handle
<1>2. /\ thread[c] \in {"lock", "locked", "dropping"}
      /\ thread'[c] \in {"locked", "dropping", "respond"}
      /\ Lock(c) => thread'[c] = "locked"
  BY StateFunctions DEF Lock, Handle, GoTo
<1>3. InHand(c)'
  <2>1. CASE Lock(c)
    BY <1>2, <2>1 DEF InHand
  <2>2. CASE Handle(c)
    <3>1. call'.request = request[c]
      BY <1>1, <2>2, HandlerAnswers, CascadeAnswers DEF Handle, InHand
    <3> QED BY <1>1, <3>1 DEF InHand
  <2> QED BY <2>1, <2>2
<1>4. LastSent(c)' = LastSent(c)
  BY <1>1 DEF LastSent
<1>5. client[c] \in {"waiting", "gone"}
  BY <1>1, <1>2 DEF Stands, Connecting, Exited, AnswersInv, SectionInv, AcceptedOnce
<1>6. ASSUME client[c] = "waiting" PROVE Waiting(c)'
  <2>1. WithThread(c) /\ sent[c] # <<>> /\ LastSent(c).command # "Exit"
    BY <1>1, <1>2, <1>6 DEF Stands, Waiting, OnItsWay, Answered
  <2> QED BY <1>1, <1>2, <1>4, <2>1 DEF Waiting, WithThread
<1> QED BY <1>1, <1>3, <1>5, <1>6 DEF Stands

\* The answer is that of the request the thread has, and the only message.
LEMMA AnswerStands ==
  ASSUME AnswersInv, NEW c \in Clients, Answer(c) \/ Unlock(c)
  PROVE  Stands(c)' /\ InHand(c)'
<1>1. /\ ~Queued(c)' /\ UNCHANGED <<client, sent, reset, toServer, request, call>>
      /\ Stands(c) /\ InHand(c)
  BY NotQueued DEF ThreadStep, Answer, Unlock, vars
<1>2. thread'[c] \in {"unlock", "receive", "ended"}
  BY StateFunctions DEF Answer, Unlock, Write, GoTo
<1>3. InHand(c)'
  BY <1>2 DEF InHand
<1>4. LastSent(c)' = LastSent(c)
  BY <1>1 DEF LastSent
<1>5. CASE client[c] = "gone"
  BY <1>1, <1>3, <1>5 DEF Stands
<1>6. CASE client[c] # "gone" /\ Answer(c)
  <2>1. thread[c] = "respond" /\ c \notin reset
    BY <1>1, <1>6 DEF Answer, Stands
  <2>2. client[c] = "waiting"
    BY <1>1, <1>6, <2>1 DEF Stands, Connecting, Exited, AnswersInv, SectionInv, AcceptedOnce
  <2>3. WithThread(c) /\ sent[c] # <<>> /\ LastSent(c).command # "Exit"
    BY <1>1, <2>1, <2>2 DEF Stands, Waiting, OnItsWay, Answered
  <2>4. thread'[c] = "unlock" /\ toClient'[c] = <<call>>
    BY <1>6, <2>1, <2>3, StateFunctions, OneMessage DEF Answer, Write, GoTo, WithThread
  <2>5. call.request = LastSent(c)
    BY <1>1, <2>1, <2>3 DEF InHand, WithThread
  <2>6. Answered(c)'
    BY <1>1, <1>4, <2>3, <2>4, <2>5, OneMessage DEF Answered, WithThread
  <2> QED BY <1>1, <1>3, <1>4, <2>2, <2>3, <2>6 DEF Stands, Waiting
<1>7. CASE client[c] # "gone" /\ Unlock(c)
  <2>1. thread[c] = "unlock" /\ thread'[c] = "receive" /\ UNCHANGED toClient
    BY <1>7, StateFunctions DEF Unlock, GoTo
  <2>2. client[c] \in {"ready", "waiting", "exited"}
    BY <1>1, <1>7, <2>1 DEF Stands, Connecting, AnswersInv, SectionInv, AcceptedOnce
  <2>3. ASSUME client[c] = "waiting" PROVE Waiting(c)'
    BY <1>1, <1>4, <2>1, <2>3 DEF Stands, Waiting, OnItsWay, WithThread, Answered
  <2> QED BY <1>1, <1>3, <2>1, <2>2, <2>3 DEF Stands, Exited
<1> QED BY <1>5, <1>6, <1>7

-----------------------------------------------------------------------------
\* Every step of the server keeps every conversation where it can go on.
LEMMA AnswersNext ==
  ASSUME AnswersInv, [ServerNext]_allVars
  PROVE  AnswersInv'
<1>1. SectionInv'
  BY SectionNext DEF AnswersInv
<1>2. ASSUME NEW c \in Clients, ClientStep(c) \/ Reset(c)
      PROVE  StreamsOK' /\ \A d \in Clients : Stands(d)' /\ InHand(d)'
  BY <1>2, ConnectStands, SendStands, ReceiveStands, LeaveStands DEF ClientStep
<1>3. ASSUME AcceptorStep
      PROVE  StreamsOK' /\ \A d \in Clients : Stands(d)' /\ InHand(d)'
  BY <1>3, AcceptStands, SpawnStands, ShutdownStands DEF AcceptorStep
<1>4. ASSUME NEW c \in Clients, ThreadStep(c)
      PROVE  StreamsOK' /\ \A d \in Clients : Stands(d)' /\ InHand(d)'
  <2>1. Stands(c)' /\ InHand(c)'
    BY <1>4, HelloStands, PacketStands, NothingStands, HandleStands, AnswerStands
       DEF ThreadStep
  <2>2. toClient' = toClient \/ \E m : toClient' = [toClient EXCEPT ![c] = m]
    BY <1>4 DEF ThreadStep, Hello, ReceivePacket, ReceiveError, ReceiveNothing, BadRequest,
       Lock, Handle, Answer, Unlock, DropArc, Write
  <2>3. StreamsOK'
    BY <1>4, <2>2, NotQueued DEF AnswersInv, StreamsOK
  <2> QED BY <1>4, <2>1, <2>3, ThreadOthers
<1>5. ASSUME UNCHANGED allVars
      PROVE  StreamsOK' /\ \A d \in Clients : Stands(d)' /\ InHand(d)'
  <2>1. UNCHANGED <<client, sent, toServer, toClient, reset, request, thread, call, backlog,
                    acceptor>>
    BY <1>5 DEF allVars, vars, serverVars
  <2>2. StreamsOK' /\ \A d \in Clients : Queued(d)' => Queued(d)
    BY <2>1 DEF StreamsOK, Queued, AnswersInv
  <2> QED BY <2>1, <2>2, OthersStand DEF AnswersInv
<1> QED BY <1>1, <1>2, <1>3, <1>4, <1>5 DEF ServerNext, AnswersInv

\* For any number of connections, whatever their threads and the accept loop do
\* in between and whoever leaves when: a client that waits is answered its own
\* last request, once, and one that connects is greeted or refused, once.
THEOREM AnswersGoToWhoAsked == ServerSpec => []AnswersMatch
<1>1. ASSUME AnswersInv PROVE AnswersMatch
  <2> SUFFICES ASSUME NEW c \in Clients, client[c] # "gone", toClient[c] # <<>>
               PROVE  /\ Len(toClient[c]) = 1
                      /\ \/ /\ client[c] = "connecting"
                            /\ Head(toClient[c]) \in {CONNECTED, SERVER_BUSY}
                         \/ /\ client[c] = "waiting"
                            /\ Head(toClient[c]).request = sent[c][Len(sent[c])]
    BY DEF AnswersMatch
  <2>1. Stands(c)
    BY <1>1 DEF AnswersInv
  <2>2. client[c] \in {"connecting", "waiting"}
    BY <1>1, <2>1 DEF Stands, Exited, AnswersInv, SectionInv, AcceptedOnce
  <2>3. CASE client[c] = "connecting"
    BY <2>1, <2>3, OneMessage DEF Stands, Connecting
  <2>4. CASE client[c] = "waiting"
    <3>1. Answered(c)
      BY <2>1, <2>4 DEF Stands, Waiting, OnItsWay, WithThread
    <3> QED BY <2>4, <3>1, OneMessage DEF Answered, LastSent
  <2> QED BY <2>2, <2>3, <2>4
<1>2. AnswersInv => AnswersMatch
  BY <1>1
<1> QED BY <1>2, AnswersInit, AnswersNext, PTL DEF ServerSpec
=============================================================================
