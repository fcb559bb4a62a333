----------------------------- MODULE ORMProofs -----------------------------
(***************************************************************************)
(* The properties of ORM for every schema, every number of programs and    *)
(* objects, and every script: no lost update, save changes one row, get    *)
(* fails on a conflict only, filter misses nothing, and the row a program  *)
(* wrote is known to it.                                                   *)
(*                                                                         *)
(* What the invariant says is written about arguments: rows and count are  *)
(* content and row_count, h and st the heap and the stack of a session.    *)
(* Most lemmas are then about data, before and after a step.               *)
(***************************************************************************)
EXTENDS ORM, SequenceFacts

-----------------------------------------------------------------------------
\* The database

\* Each row fits the schema, and is referred to by a row that is there
TablesOK(rows, count) ==
  /\ count \in [TableIds -> Nat]
  /\ rows = [t \in TableIds |-> rows[t]]
  /\ \A t \in TableIds :
       /\ rows[t] = [o \in DOMAIN rows[t] |-> rows[t][o]]
       /\ DOMAIN rows[t] \subseteq 1..count[t]
       /\ \A o \in DOMAIN rows[t] :
            /\ rows[t][o] \in Row
            /\ Fits(t, rows[t][o].row_values)
            /\ \A i \in Foreigns(t) :
                 rows[t][o].row_values[i].val \in DOMAIN rows[Schema[t][i].c_ref]

\* What a session relies on when the others write: a row there is as it was, or has a
\* later version, or an id that was not given out before.
OnlyForward(rows, count, rows2, count2) ==
  \A t \in TableIds :
    /\ count[t] <= count2[t]
    /\ \A o \in DOMAIN rows2[t] :
         \/ o > count[t]
         \/ o \in DOMAIN rows[t] /\ rows2[t][o] = rows[t][o]
         \/ o \in DOMAIN rows[t] /\ rows2[t][o].version > rows[t][o].version

\* The contents of the row under a version: they were read or written by a session,
\* and are those of the row while it has that version.
Known(rows, count, t, pk, version, values) ==
  /\ t \in TableIds
  /\ pk \in 1..count[t]
  /\ version \in Nat \ {0}
  /\ pk \in DOMAIN rows[t] =>
       /\ version <= rows[t][pk].version
       /\ version = rows[t][pk].version => values = rows[t][pk].row_values

-----------------------------------------------------------------------------
\* A session

PyObject == [table : TableIds, pk : Nat, version : Nat, fields : Seq(Int), seen : Seq(Value)]

SaveCall == [op : {"save"}, base : Nat, object : Nat, atomic : BOOLEAN, at : Nat]
GetCall  == [op : {"get"}, base : Nat, table : TableIds, pk : Nat, version : Nat,
             values : Seq(Value), refs : UNION {[d -> Nat] : d \in SUBSET Nat}]
FilterCall == [op : {"filter"}, base : Nat, table : TableIds, conditions : Seq(Condition),
               last : Condition, left : SUBSET Nat, result : SUBSET Nat, given : Nat]
Calls == SaveCall \cup GetCall \cup FilterCall

\* The objects that the program knows: the others were made by the call in progress
Base(h, st) == IF st = <<>> THEN Len(h) ELSE st[1].base

Undone(h, st) == SubSeq(h, 1, Base(h, st))

IsObject(h, o, t) == o \in DOMAIN h /\ h[o].table = t

\* A foreign field holds an object of the right class, one that the program knows if
\* it knows the object with the field.
Wired(h, base) ==
  \A o \in DOMAIN h :
    /\ DOMAIN h[o].fields = DOMAIN Schema[h[o].table]
    /\ \A i \in Foreigns(h[o].table) :
         \/ h[o].fields[i] = 0
         \/ /\ IsObject(h, h[o].fields[i], Schema[h[o].table][i].c_ref)
            /\ o <= base => h[o].fields[i] <= base

ObjectsKnown(rows, count, h) ==
  \A o \in DOMAIN h :
    h[o].pk # 0 => Known(rows, count, h[o].table, h[o].pk, h[o].version, h[o].seen)

\* One kind of calls at a time, and filter calls get only
Kinds(st) ==
  \A k \in DOMAIN st :
    /\ st[k].op = "save" <=> st[1].op = "save"
    /\ st[k].op = "filter" => k = 1

\* save calls itself for objects with no row yet, each of an earlier table
SaveCalls(h, st) ==
  st # <<>> /\ st[1].op = "save" =>
    /\ Len(h) = st[1].base
    /\ \A k \in DOMAIN st :
         /\ st[k].object \in DOMAIN h
         /\ k > 1 => h[st[k].object].pk = 0
         /\ \A j \in 1..(k - 1) : h[st[k].object].table < h[st[j].object].table

\* A call of get has read a row, and got objects for some of the references in it
GetOK(rows, count, h, f) ==
  /\ Known(rows, count, f.table, f.pk, f.version, f.values)
  /\ Fits(f.table, f.values)
  /\ DOMAIN f.refs \subseteq Foreigns(f.table)
  /\ \A i \in DOMAIN f.refs : IsObject(h, f.refs[i], Schema[f.table][i].c_ref)

\* A call f gets a row of the table t: for the next reference, or for a row of a scan.
CallsFor(f, t) ==
  IF f.op = "get"
  THEN Missing(f) # {} /\ t = Schema[f.table][Min(Missing(f))].c_ref
  ELSE t = f.table

GetCalls(rows, count, h, st) ==
  \A k \in DOMAIN st : st[k].op = "get" =>
    /\ GetOK(rows, count, h, st[k])
    /\ k > 1 => CallsFor(st[k - 1], st[k].table)

\* A filter of all rows accounts for each of them: it is newer than the scan, or left
\* to get, or being got, or has its object.
Listed(rows, h, st) ==
  \A id \in DOMAIN rows[st[1].table] :
    \/ id > st[1].given
    \/ id \in st[1].left
    \/ Len(st) > 1 /\ st[2].pk = id
    \/ \E o \in st[1].result : h[o].pk = id

FilterCalls(rows, count, h, st) ==
  st # <<>> /\ st[1].op = "filter" =>
    /\ st[1].given <= count[st[1].table]
    /\ st[1].result \subseteq DOMAIN h
    /\ st[1].conditions = <<>> /\ st[1].last.op = OP_AL => Listed(rows, h, st)

SessionOK(rows, count, h, st) ==
  /\ Base(h, st) <= Len(h)
  /\ Wired(h, Base(h, st))
  /\ ObjectsKnown(rows, count, h)
  /\ Kinds(st)
  /\ SaveCalls(h, st)
  /\ GetCalls(rows, count, h, st)
  /\ FilterCalls(rows, count, h, st)

-----------------------------------------------------------------------------
\* The invariant

Knows(obj, t, id, row) ==
  obj.table = t /\ obj.pk = id /\ obj.version = row.version /\ obj.seen = row.row_values

\* A program has an object for the row as it is, and none that an exception takes away
Remembers(h, st, t, id, row) ==
  \E o \in DOMAIN h : o <= Base(h, st) /\ Knows(h[o], t, id, row)

RemembersAll(h, st, h2, st2) ==
  \A t, id, row : Remembers(h, st, t, id, row) => Remembers(h2, st2, t, id, row)

WritersKeep(rows, heaps, stacks) ==
  \A t \in TableIds : \A id \in DOMAIN rows[t] :
    rows[t][id].version > 1 \/ id > Len(Stored[t])
      => \E s \in Sessions : Remembers(heaps[s], stacks[s], t, id, rows[t][id])

ORMTypes ==
  /\ heap \in [Sessions -> Seq(PyObject)]
  /\ stack \in [Sessions -> Seq(Calls)]
  /\ outcome = [s \in Sessions |-> outcome[s]]

ORMInv ==
  /\ ORMTypes
  /\ TablesOK(content, row_count)
  /\ \A s \in Sessions : SessionOK(content, row_count, heap[s], stack[s])
  /\ WritersKeep(content, heap, stack)

-----------------------------------------------------------------------------
\* Numbers and the schema

\* Min chooses an element.
LEMMA MinIn ==
  ASSUME NEW T \in SUBSET Nat, T # {}
  PROVE  Min(T) \in T
<1>1. PICK x \in T : \A y \in T : x <= y
  BY Least
<1> QED BY <1>1 DEF Min

\* Foreign columns are columns, and refer to earlier tables.
LEMMA SchemaFacts ==
  ASSUME NEW t \in TableIds
  PROVE  /\ t \in Nat
         /\ Foreigns(t) \subseteq DOMAIN Schema[t]
         /\ Foreigns(t) \subseteq Nat
         /\ \A i \in Foreigns(t) :
              Schema[t][i].c_ref \in TableIds /\ Schema[t][i].c_ref < t
         /\ \A i \in DOMAIN Schema[t] : Schema[t][i].c_type \in {INTEGER, FLOAT, TEXT, FOREIGN}
<1>1. Schema \in Seq(Seq(Column)) /\ Schema[t] \in Seq(Column)
  BY SchemaAssumption DEF TableIds
<1>2. t \in 1..Len(Schema) /\ Len(Schema) \in Nat
  BY <1>1 DEF TableIds
<1>3. Foreigns(t) \subseteq DOMAIN Schema[t] /\ DOMAIN Schema[t] \subseteq Nat
  BY <1>1 DEF Foreigns
<1>4. \A i \in DOMAIN Schema[t] : Schema[t][i] \in Column
  BY <1>1
<1>5. ASSUME NEW i \in Foreigns(t)
      PROVE  Schema[t][i].c_ref \in TableIds /\ Schema[t][i].c_ref < t
  <2>1. Schema[t][i].c_ref \in Nat /\ Schema[t][i].c_ref < t /\ Schema[t][i].c_ref # 0
    BY <1>3, <1>4, SchemaAssumption DEF Column, Foreigns
  <2> QED BY <1>1, <1>2, <2>1 DEF TableIds
<1>6. \A i \in DOMAIN Schema[t] : Schema[t][i].c_type \in {INTEGER, FLOAT, TEXT, FOREIGN}
  BY <1>4 DEF Column
<1> QED BY <1>2, <1>3, <1>5, <1>6

-----------------------------------------------------------------------------
\* Rows put and taken

TableOK(rows, count, t) ==
  /\ rows[t] = [o \in DOMAIN rows[t] |-> rows[t][o]]
  /\ DOMAIN rows[t] \subseteq 1..count[t]

RowOK(rows, t, row) ==
  /\ row \in Row
  /\ Fits(t, row.row_values)
  /\ \A i \in Foreigns(t) : row.row_values[i].val \in DOMAIN rows[Schema[t][i].c_ref]

LEMMA TablesParts ==
  ASSUME NEW rows, NEW count
  PROVE  TablesOK(rows, count) <=>
           /\ count \in [TableIds -> Nat]
           /\ rows = [t \in TableIds |-> rows[t]]
           /\ \A t \in TableIds : TableOK(rows, count, t)
           /\ \A t \in TableIds : \A o \in DOMAIN rows[t] : RowOK(rows, t, rows[t][o])
BY DEF TablesOK, TableOK, RowOK

Put(rows, t, id, row) ==
  [rows EXCEPT ![t] = [o \in DOMAIN rows[t] \cup {id} |-> IF o = id THEN row ELSE rows[t][o]]]

\* A row with references to rows that are there is inserted or replaced.
LEMMA PutRow ==
  ASSUME NEW rows, NEW count, TablesOK(rows, count),
         NEW t \in TableIds, NEW id \in Nat \ {0}, NEW row, RowOK(rows, t, row),
         NEW count2 \in [TableIds -> Nat], id <= count2[t],
         \A u \in TableIds : count[u] <= count2[u],
         NEW rows2, rows2 = Put(rows, t, id, row)
  PROVE  TablesOK(rows2, count2)
<1>1. /\ count \in [TableIds -> Nat]
      /\ rows = [u \in TableIds |-> rows[u]]
      /\ \A u \in TableIds : TableOK(rows, count, u)
      /\ \A u \in TableIds : \A o \in DOMAIN rows[u] : RowOK(rows, u, rows[u][o])
  BY TablesParts
<1>2. rows2 = [u \in TableIds |-> rows2[u]]
  BY <1>1 DEF Put
<1>3. \A u \in TableIds : u # t => rows2[u] = rows[u]
  BY <1>1 DEF Put
<1>4. rows2[t] = [o \in DOMAIN rows[t] \cup {id} |-> IF o = id THEN row ELSE rows[t][o]]
  BY <1>1 DEF Put
<1>5. \A u \in TableIds : DOMAIN rows[u] \subseteq DOMAIN rows2[u]
  BY <1>3, <1>4
<1>6. ASSUME NEW u \in TableIds
      PROVE  TableOK(rows2, count2, u)
  <2>1. DOMAIN rows[u] \subseteq 1..count[u] /\ count[u] \in Nat /\ count2[u] \in Nat
        /\ count[u] <= count2[u]
    BY <1>1 DEF TableOK
  <2>2. DOMAIN rows2[u] \subseteq 1..count2[u]
    BY <2>1, <1>3, <1>4
  <2>3. rows2[u] = [o \in DOMAIN rows2[u] |-> rows2[u][o]]
    <3>1. CASE u = t
      BY <3>1, <1>4
    <3>2. CASE u # t
      BY <3>2, <1>1, <1>3 DEF TableOK
    <3> QED BY <3>1, <3>2
  <2> QED BY <2>2, <2>3 DEF TableOK
<1>7. ASSUME NEW u \in TableIds, NEW r, RowOK(rows, u, r)
      PROVE  RowOK(rows2, u, r)
  BY <1>5, <1>7, SchemaFacts DEF RowOK
<1>8. ASSUME NEW u \in TableIds, NEW o \in DOMAIN rows2[u]
      PROVE  RowOK(rows2, u, rows2[u][o])
  <2>1. CASE u = t /\ o = id
    BY <2>1, <1>4, <1>7
  <2>2. CASE ~(u = t /\ o = id)
    <3>1. o \in DOMAIN rows[u] /\ rows2[u][o] = rows[u][o]
      BY <2>2, <1>3, <1>4
    <3> QED BY <3>1, <1>1, <1>7
  <2> QED BY <2>1, <2>2
<1> QED BY <1>2, <1>6, <1>8, TablesParts

\* Rows are taken away that no other refers to.
LEMMA TakeRows ==
  ASSUME NEW rows, NEW count, TablesOK(rows, count), NEW gone,
         NEW rows2,
         rows2 = [t \in TableIds |->
                    [o \in {p \in DOMAIN rows[t] :
                              [table_id |-> t, object_id |-> p] \notin gone} |-> rows[t][o]]],
         \A t \in TableIds : \A o \in DOMAIN rows2[t] : \A i \in Foreigns(t) :
           [table_id |-> Schema[t][i].c_ref, object_id |-> rows[t][o].row_values[i].val]
             \notin gone
  PROVE  TablesOK(rows2, count) /\ OnlyForward(rows, count, rows2, count)
<1>1. /\ count \in [TableIds -> Nat]
      /\ \A u \in TableIds : TableOK(rows, count, u)
      /\ \A u \in TableIds : \A o \in DOMAIN rows[u] : RowOK(rows, u, rows[u][o])
  BY TablesParts
<1>2. rows2 = [u \in TableIds |-> rows2[u]]
  OBVIOUS
<1>3. ASSUME NEW t \in TableIds
      PROVE  /\ rows2[t] = [o \in DOMAIN rows2[t] |-> rows2[t][o]]
             /\ DOMAIN rows2[t] \subseteq DOMAIN rows[t]
             /\ \A o \in DOMAIN rows[t] :
                  [table_id |-> t, object_id |-> o] \notin gone => o \in DOMAIN rows2[t]
             /\ \A o \in DOMAIN rows2[t] : rows2[t][o] = rows[t][o]
  OBVIOUS
<1>4. \A t \in TableIds : TableOK(rows2, count, t)
  BY <1>1, <1>3 DEF TableOK
<1>5. ASSUME NEW t \in TableIds, NEW o \in DOMAIN rows2[t]
      PROVE  RowOK(rows2, t, rows2[t][o])
  <2>1. o \in DOMAIN rows[t] /\ rows2[t][o] = rows[t][o] /\ RowOK(rows, t, rows[t][o])
    BY <1>1, <1>3
  <2>2. ASSUME NEW i \in Foreigns(t)
        PROVE  rows[t][o].row_values[i].val \in DOMAIN rows2[Schema[t][i].c_ref]
    <3>1. Schema[t][i].c_ref \in TableIds
      BY SchemaFacts
    <3>2. rows[t][o].row_values[i].val \in DOMAIN rows[Schema[t][i].c_ref]
      BY <2>1 DEF RowOK
    <3>3. [table_id |-> Schema[t][i].c_ref, object_id |-> rows[t][o].row_values[i].val]
             \notin gone
      OBVIOUS
    <3> QED BY <3>1, <3>2, <3>3, <1>3
  <2> QED BY <2>1, <2>2 DEF RowOK
<1>6. TablesOK(rows2, count)
  BY <1>1, <1>2, <1>4, <1>5, TablesParts
<1>7. OnlyForward(rows, count, rows2, count)
  BY <1>1, <1>3 DEF OnlyForward
<1> QED BY <1>6, <1>7

-----------------------------------------------------------------------------
\* Requests.  RowRequest: the values have the types of the columns; what Table sends.

RowRequest(req) ==
  req.table_id \in TableIds /\ req.values \in Seq(Value) /\ Fits(req.table_id, req.values)

\* Of such values the database refuses nothing but a reference to a row that is gone.
LEMMA OnlyBadForeign ==
  ASSUME NEW t \in TableIds, NEW values \in Seq(Value), Fits(t, values)
  PROVE  RowErrors(t, values) \subseteq {BAD_FOREIGN}
<1>1. DOMAIN values = DOMAIN Schema[t]
  <2>1. Schema[t] \in Seq(Column)
    BY SchemaAssumption DEF TableIds
  <2> QED BY <2>1 DEF Fits
<1>2. ASSUME NEW i \in DOMAIN values
      PROVE  check_value(Schema[t][i], values[i]) \in {OK, BAD_FOREIGN}
  <2>1. values[i].type = Schema[t][i].c_type
    BY DEF Fits
  <2>2. Schema[t][i].c_type = FOREIGN => Schema[t][i].c_ref # 0
    BY <1>1, SchemaAssumption
  <2> QED BY <2>1, <2>2 DEF check_value
<1>3. t \in TableIds /\ Len(values) = Len(Schema[t])
  BY DEF Fits
<1> QED BY <1>2, <1>3 DEF RowErrors

LEMMA ValidRowOK ==
  ASSUME NEW t \in TableIds, NEW values \in Seq(Value), Fits(t, values),
         ValidRow(t, values), NEW v \in Nat \ {0}
  PROVE  RowOK(content, t, [version |-> v, row_values |-> values])
<1>1. [version |-> v, row_values |-> values] \in Row
  BY DEF Row
<1>2. DOMAIN values = DOMAIN Schema[t]
  <2>1. Schema[t] \in Seq(Column)
    BY SchemaAssumption DEF TableIds
  <2> QED BY <2>1 DEF Fits
<1>3. ASSUME NEW i \in Foreigns(t)
      PROVE  values[i].val \in DOMAIN content[Schema[t][i].c_ref]
  <2>1. i \in DOMAIN values /\ values[i].type = FOREIGN
    BY <1>2 DEF Foreigns, Fits
  <2>2. check_value(Schema[t][i], values[i]) = OK
    BY <2>1 DEF ValidRow
  <2>3. Live(Schema[t][i].c_ref, values[i].val)
    BY <2>1, <2>2 DEF check_value, BAD_VALUE, BAD_FOREIGN, OK
  <2> QED BY <2>3 DEF Live
<1> QED BY <1>1, <1>3 DEF RowOK

\* The database after a request, for whoever did not send it
Served ==
  /\ TablesOK(content', row_count')
  /\ OnlyForward(content, row_count, content', row_count')

LEMMA SameTablesServed ==
  ASSUME TablesOK(content, row_count), UNCHANGED <<content, row_count>>
  PROVE  Served
<1>1. \A t \in TableIds : row_count[t] <= row_count[t]
  BY DEF TablesOK
<1> QED BY <1>1 DEF Served, OnlyForward

\* An insert that is not refused adds one row.
Inserts(t, values) ==
  LET id == row_count[t] + 1 IN
  /\ row_count' = [row_count EXCEPT ![t] = id]
  /\ content' = Put(content, t, id, [version |-> 1, row_values |-> values])
  /\ call'.response = Inserted(id, 1)

\* An update that is not refused changes one row.
Updates(t, id, values, version) ==
  /\ id \in DOMAIN content[t]
  /\ Matches(content[t][id], version)
  /\ UNCHANGED row_count
  /\ content' = Put(content, t, id,
                    [version |-> content[t][id].version + 1, row_values |-> values])
  /\ call'.response = Updated(content[t][id].version + 1)

Refused(codes) ==
  /\ UNCHANGED <<content, row_count>>
  /\ \E code \in codes : call'.response = Error(code)

LEMMA InsertServed ==
  ASSUME TablesOK(content, row_count), NEW req, req.command = "Insert", RowRequest(req),
         handle_request(req)
  PROVE  /\ Served
         /\ \/ Refused({BAD_FOREIGN})
            \/ Inserts(req.table_id, req.values)
<1> DEFINE t == req.table_id
<1>1. t \in TableIds /\ req.values \in Seq(Value) /\ Fits(t, req.values)
  BY DEF RowRequest
<1>2. handle_insert(req)
  BY DEF handle_request, handle_in_one_step
<1>3. CASE refuse_row(req)
  <2>1. Refused({BAD_FOREIGN})
    BY <1>1, <1>3, OnlyBadForeign DEF refuse_row, Respond, Refused
  <2> QED BY <2>1, SameTablesServed DEF Refused
<1>4. CASE ~refuse_row(req)
  <2>1. ValidRow(t, req.values) /\ Inserts(t, req.values)
    BY <1>2, <1>4 DEF handle_insert, Inserts, Put, NextId, Respond
  <2>2. row_count \in [TableIds -> Nat]
    BY DEF TablesOK
  <2>3. PICK id \in Nat \ {0} : id = row_count[t] + 1
    BY <1>1, <2>2
  <2>4. /\ row_count' \in [TableIds -> Nat]
        /\ \A u \in TableIds : row_count[u] <= row_count'[u]
        /\ row_count'[t] = id
    BY <1>1, <2>1, <2>2, <2>3 DEF Inserts
  <2>5. PICK row : row = [version |-> 1, row_values |-> req.values]
    OBVIOUS
  <2>6. RowOK(content, t, row)
    BY <1>1, <2>1, <2>5, ValidRowOK
  <2>7. content' = Put(content, t, id, row)
    BY <2>1, <2>3, <2>5 DEF Inserts
  <2>8. TablesOK(content', row_count')
    BY <1>1, <2>3, <2>4, <2>6, <2>7, PutRow
  <2>9. ASSUME NEW u \in TableIds, NEW o \in DOMAIN content'[u]
        PROVE  \/ o > row_count[u]
               \/ o \in DOMAIN content[u] /\ content'[u][o] = content[u][o]
    <3>1. content = [x \in TableIds |-> content[x]]
      BY DEF TablesOK
    <3>2. CASE u # t
      BY <3>1, <3>2, <2>7 DEF Put
    <3>3. CASE u = t /\ o = id
      BY <3>3, <2>2, <2>3
    <3>4. CASE u = t /\ o # id
      BY <3>1, <3>4, <2>7 DEF Put
    <3> QED BY <3>2, <3>3, <3>4
  <2> QED BY <2>1, <2>4, <2>8, <2>9 DEF Served, OnlyForward
<1> QED BY <1>3, <1>4

LEMMA UpdateServed ==
  ASSUME TablesOK(content, row_count), NEW req, req.command = "Update", RowRequest(req),
         handle_request(req)
  PROVE  /\ Served
         /\ \/ Refused({BAD_FOREIGN, NOT_FOUND, TXN_ABORT})
            \/ Updates(req.table_id, req.object_id, req.values, req.version)
<1> DEFINE t == req.table_id
           id == req.object_id
<1>1. t \in TableIds /\ req.values \in Seq(Value) /\ Fits(t, req.values)
  BY DEF RowRequest
<1>2. handle_update(req)
  BY DEF handle_request, handle_in_one_step
<1>3. CASE Refused({BAD_FOREIGN, NOT_FOUND, TXN_ABORT})
  BY <1>3, SameTablesServed DEF Refused
<1>4. CASE ~Refused({BAD_FOREIGN, NOT_FOUND, TXN_ABORT})
  <2>1. ~refuse_row(req)
    BY <1>1, <1>4, OnlyBadForeign DEF refuse_row, Respond, Refused
  <2>2. /\ ValidRow(t, req.values)
        /\ id \in DOMAIN content[t]
        /\ Matches(content[t][id], req.version)
        /\ UNCHANGED row_count
        /\ content' = [content EXCEPT ![t] =
             [@ EXCEPT ![id] = [version |-> content[t][id].version + 1,
                                row_values |-> req.values]]]
        /\ call'.response = Updated(content[t][id].version + 1)
    BY <1>2, <1>4, <2>1
       DEF handle_update, NextVersion, Respond, Refused, Live
  <2>3. /\ row_count \in [TableIds -> Nat]
        /\ content = [x \in TableIds |-> content[x]]
        /\ content[t] = [o \in DOMAIN content[t] |-> content[t][o]]
        /\ id \in 1..row_count[t]
        /\ content[t][id] \in Row
    BY <1>1, <2>2 DEF TablesOK
  <2>4. PICK row : row = [version |-> content[t][id].version + 1, row_values |-> req.values]
    OBVIOUS
  <2>5. RowOK(content, t, row)
    <3>1. content[t][id].version + 1 \in Nat \ {0}
      BY SMTT(30), <2>3 DEF Row
    <3> QED BY <1>1, <2>2, <2>4, <3>1, ValidRowOK
  <2>6. content' = Put(content, t, id, row)
    <3>1. [content[t] EXCEPT ![id] = row]
            = [o \in DOMAIN content[t] \cup {id} |-> IF o = id THEN row ELSE content[t][o]]
      BY <2>2, <2>3
    <3> QED BY <2>2, <2>4, <3>1 DEF Put
  <2>7. /\ row_count' \in [TableIds -> Nat]
        /\ \A u \in TableIds : row_count[u] <= row_count'[u]
        /\ id \in Nat \ {0} /\ id <= row_count'[t]
    BY <1>1, <2>2, <2>3
  <2>8. TablesOK(content', row_count')
    BY <1>1, <2>5, <2>6, <2>7, PutRow
  <2>9. ASSUME NEW u \in TableIds, NEW o \in DOMAIN content'[u]
        PROVE  \/ o \in DOMAIN content[u] /\ content'[u][o] = content[u][o]
               \/ o \in DOMAIN content[u] /\ content'[u][o].version > content[u][o].version
    <3>1. CASE u # t
      BY <3>1, <2>3, <2>6 DEF Put
    <3>2. CASE u = t /\ o = id
      <4>1. id \in DOMAIN content[t] /\ content'[t][id] = row
        BY <1>1, <2>2, <2>3, <2>6 DEF Put
      <4>2. content[t][id].version \in Nat
        BY <2>3 DEF Row
      <4>3. row.version = content[t][id].version + 1
        BY ONLY <2>4
      <4>4. content'[t][id].version > content[t][id].version
        BY ONLY <4>1, <4>2, <4>3
      <4> QED BY ONLY <3>2, <4>1, <4>4
    <3>3. CASE u = t /\ o # id
      BY <3>3, <2>3, <2>6 DEF Put
    <3> QED BY <3>1, <3>2, <3>3
  <2>10. Updates(t, id, req.values, req.version)
    BY <2>2, <2>4, <2>6 DEF Updates
  <2> QED BY <2>7, <2>8, <2>9, <2>10 DEF Served, OnlyForward
<1> QED BY <1>3, <1>4

LEMMA GetServed ==
  ASSUME TablesOK(content, row_count), NEW t \in TableIds, NEW pk,
         handle_request(KeyRequest("Get", t, pk))
  PROVE  /\ Served
         /\ UNCHANGED <<content, row_count>>
         /\ \/ call'.response = Error(NOT_FOUND) /\ pk \notin DOMAIN content[t]
            \/ /\ pk \in DOMAIN content[t]
               /\ call'.response = Got(content[t][pk].version, content[t][pk].row_values)
<1>1. SUFFICES ASSUME NEW req, req = KeyRequest("Get", t, pk), handle_request(req)
               PROVE  /\ UNCHANGED <<content, row_count>>
                      /\ \/ call'.response = Error(NOT_FOUND) /\ pk \notin DOMAIN content[t]
                         \/ /\ pk \in DOMAIN content[t]
                            /\ call'.response
                                 = Got(content[t][pk].version, content[t][pk].row_values)
  BY SameTablesServed
<1>2. req.command = "Get" /\ req.table_id = t /\ req.object_id = pk
  BY <1>1 DEF KeyRequest
<1>3. handle_get(req)
  BY <1>1, <1>2 DEF handle_request, handle_in_one_step
<1> QED BY <1>2, <1>3 DEF handle_get, Respond, Live

LEMMA ScanServed ==
  ASSUME TablesOK(content, row_count), NEW t \in TableIds, NEW op, NEW column, NEW value,
         handle_request(ScanRequest(t, op, column, value))
  PROVE  /\ Served
         /\ UNCHANGED <<content, row_count>>
         /\ \/ \E code : call'.response = Error(code)
            \/ \E ids \in SUBSET DOMAIN content[t] :
                 /\ call'.response = Queried(ids)
                 /\ op = OP_AL => ids = DOMAIN content[t]
<1>1. SUFFICES ASSUME NEW req, req = ScanRequest(t, op, column, value), handle_request(req)
               PROVE  /\ UNCHANGED <<content, row_count>>
                      /\ \/ \E code : call'.response = Error(code)
                         \/ \E ids \in SUBSET DOMAIN content[t] :
                              /\ call'.response = Queried(ids)
                              /\ op = OP_AL => ids = DOMAIN content[t]
  BY SameTablesServed
<1>2. /\ req.command = "Query" /\ req.table_id = t /\ req.operator = op
      /\ op = OP_AL => req.column_id = 0 /\ req.value = None
  BY <1>1 DEF ScanRequest
<1>3. handle_query(req)
  BY <1>1, <1>2 DEF handle_request, handle_in_one_step
<1>4. /\ UNCHANGED <<content, row_count>>
      /\ call'.response = QueryResponse(t, req.column_id, op, req.value)
  BY <1>2, <1>3 DEF handle_query, Respond
<1>5. CASE \E code : call'.response = Error(code)
  BY <1>4, <1>5
<1>6. CASE ~\E code : call'.response = Error(code)
  <2>1. call'.response = Queried({o \in DOMAIN content[t] :
                                    Selected(t, o, req.column_id, op, req.value)})
    BY <1>4, <1>6 DEF QueryResponse
  <2>2. op = OP_AL =>
          \A o \in DOMAIN content[t] : Selected(t, o, req.column_id, op, req.value)
    BY <1>2 DEF Selected, None
  <2> QED BY <1>4, <2>1, <2>2
<1> QED BY <1>5, <1>6

-----------------------------------------------------------------------------
\* A drop

\* A row with a reference to a row of a closed set is in it too.
LEMMA ClosedRefers ==
  ASSUME TablesOK(content, row_count), NEW S, IsClosed(S),
         NEW t \in TableIds, NEW o \in DOMAIN content[t], NEW i \in Foreigns(t),
         [table_id |-> Schema[t][i].c_ref, object_id |-> content[t][o].row_values[i].val] \in S
  PROVE  [table_id |-> t, object_id |-> o] \in S
<1> DEFINE c == [table_id |-> t, object_id |-> o, column |-> i]
           u == Schema[t][i].c_ref
           v == content[t][o].row_values[i]
<1>1. i \in DOMAIN Schema[t]
  BY SchemaFacts
<1>2. v = [type |-> FOREIGN, val |-> v.val]
  <2>1. RowOK(content, t, content[t][o])
    BY TablesParts
  <2>2. content[t][o].row_values \in Seq(Value)
        /\ Len(content[t][o].row_values) = Len(Schema[t])
        /\ Schema[t] \in Seq(Column)
    BY <2>1, SchemaAssumption DEF RowOK, Row, Fits, TableIds
  <2>3. i \in DOMAIN content[t][o].row_values
    BY <1>1, <2>2
  <2>4. v \in Value
    BY <2>2, <2>3
  <2>5. v.type = FOREIGN
    BY <2>1, <2>3 DEF RowOK, Fits, Foreigns
  <2> QED BY <2>4, <2>5 DEF Value
<1>3. Refers(c, u, v.val)
  BY <1>1, <1>2 DEF Refers, Live
<1>4. c \in UNION {[table_id : {x}, object_id : DOMAIN content[x],
                    column : DOMAIN Schema[x]] : x \in TableIds}
  BY <1>1
<1>5. c \in Referrers(u, v.val)
  BY <1>3, <1>4 DEF Referrers
<1>6. RowOf(c) \in S
  BY <1>5 DEF IsClosed
<1> QED BY <1>6 DEF RowOf

LEMMA FamilyIsClosed ==
  ASSUME NEW r, r.table_id \in TableIds
  PROVE  IsClosed(Family(r))
<1> SUFFICES ASSUME NEW x \in Family(r), NEW c \in Referrers(x.table_id, x.object_id)
             PROVE  RowOf(c) \in Family(r)
  BY DEF IsClosed
<1>1. /\ c.table_id \in TableIds /\ c.object_id \in DOMAIN content[c.table_id]
      /\ c.column \in DOMAIN Schema[c.table_id]
      /\ Schema[c.table_id][c.column].c_ref = x.table_id
  BY DEF Referrers, Refers, Live
<1>2. x.table_id < c.table_id /\ x.table_id \in TableIds \cup {r.table_id}
  BY <1>1, SchemaAssumption DEF Family, Later, LiveRows
<1>3. r.table_id = x.table_id \/ r.table_id < x.table_id
  BY DEF Family, Later
<1>4. r.table_id < c.table_id
  BY <1>1, <1>2, <1>3, SchemaFacts
<1>5. RowOf(c) \in Later(r) /\ RowOf(c) # r
  <2>1. RowOf(c) \in [table_id : {c.table_id}, object_id : DOMAIN content[c.table_id]]
    BY <1>1 DEF RowOf
  <2>2. RowOf(c) \in LiveRows
    BY <1>1, <2>1 DEF LiveRows
  <2>3. RowOf(c).table_id = c.table_id
    BY DEF RowOf
  <2> QED BY <1>1, <1>4, <2>2, <2>3, SchemaFacts DEF Later
<1>6. ASSUME NEW S \in SUBSET Later(r), IsClosed({r} \cup S)
      PROVE  RowOf(c) \in S
  <2>1. x \in {r} \cup S
    BY <1>6 DEF Family
  <2>2. RowOf(c) \in {r} \cup S
    BY <1>6, <2>1 DEF IsClosed
  <2> QED BY <1>5, <2>2
<1> QED BY <1>5, <1>6 DEF Family

LEMMA WithoutServed ==
  ASSUME TablesOK(content, row_count), NEW S, IsClosed(S),
         content' = Without(S), UNCHANGED row_count
  PROVE  /\ Served
         /\ \A t \in TableIds : \A o \in DOMAIN content'[t] :
              /\ o \in DOMAIN content[t] /\ content'[t][o] = content[t][o]
              /\ [table_id |-> t, object_id |-> o] \notin S
<1>1. content' = [t \in TableIds |->
                    [o \in {p \in DOMAIN content[t] :
                              [table_id |-> t, object_id |-> p] \notin S} |-> content[t][o]]]
  BY DEF Without, Restrict
<1>2. \A t \in TableIds : \A o \in DOMAIN content'[t] :
        /\ o \in DOMAIN content[t] /\ content'[t][o] = content[t][o]
        /\ [table_id |-> t, object_id |-> o] \notin S
  <2> SUFFICES ASSUME NEW t \in TableIds, NEW o \in DOMAIN content'[t]
               PROVE  /\ o \in DOMAIN content[t] /\ content'[t][o] = content[t][o]
                      /\ [table_id |-> t, object_id |-> o] \notin S
    OBVIOUS
  <2>1. content'[t] = [p \in {q \in DOMAIN content[t] :
                               [table_id |-> t, object_id |-> q] \notin S} |-> content[t][p]]
    BY <1>1
  <2> QED BY <2>1
<1>3. \A t \in TableIds : \A o \in DOMAIN content'[t] : \A i \in Foreigns(t) :
        [table_id |-> Schema[t][i].c_ref, object_id |-> content[t][o].row_values[i].val]
          \notin S
  BY <1>2, ClosedRefers
<1>4. TablesOK(content', row_count) /\ OnlyForward(content, row_count, content', row_count)
  BY <1>1, <1>3, TakeRows
<1> QED BY <1>2, <1>4 DEF Served

LEMMA DropServed ==
  ASSUME TablesOK(content, row_count), NEW t \in TableIds, NEW pk,
         handle_request(KeyRequest("Drop", t, pk))
  PROVE  /\ Served
         /\ UNCHANGED row_count
         /\ \A u \in TableIds : \A o \in DOMAIN content'[u] :
              o \in DOMAIN content[u] /\ content'[u][o] = content[u][o]
         /\ raises("Drop", call'.response) = "nothing" => pk \notin DOMAIN content'[t]
<1>1. SUFFICES ASSUME NEW req, req = KeyRequest("Drop", t, pk), handle_request(req)
               PROVE  /\ Served
                      /\ UNCHANGED row_count
                      /\ \A u \in TableIds : \A o \in DOMAIN content'[u] :
                           o \in DOMAIN content[u] /\ content'[u][o] = content[u][o]
                      /\ raises("Drop", call'.response) = "nothing"
                           => pk \notin DOMAIN content'[t]
  OBVIOUS
<1>2. req.command = "Drop" /\ req.table_id = t /\ req.object_id = pk
  BY <1>1 DEF KeyRequest
<1>3. drop(req)
  BY <1>1, <1>2 DEF handle_request, handle_in_one_step
<1> DEFINE r == RowOf(req)
<1>4. r = [table_id |-> t, object_id |-> pk]
  BY <1>2 DEF RowOf
<1>5. raises("Drop", Error(NOT_FOUND)) # "nothing"
  BY DEF raises, errorCheck, Error, NOT_FOUND, BAD_FOREIGN, BAD_QUERY, TXN_ABORT
<1>6. CASE refuse_drop(req)
  <2>1. UNCHANGED <<content, row_count>> /\ call'.response = Error(NOT_FOUND)
    BY <1>2, <1>6 DEF refuse_drop, Respond
  <2>2. Served
    BY <2>1, SameTablesServed
  <2> QED BY <1>5, <2>1, <2>2
<1>7. CASE /\ Respond(req, Dropped)
           /\ content' = Without(Family(r))
           /\ UNCHANGED row_count
  <2>1. IsClosed(Family(r))
    BY <1>4, FamilyIsClosed
  <2>2. r \in Family(r)
    BY DEF Family
  <2>3. /\ Served
        /\ \A u \in TableIds : \A o \in DOMAIN content'[u] :
             /\ o \in DOMAIN content[u] /\ content'[u][o] = content[u][o]
             /\ [table_id |-> u, object_id |-> o] \notin Family(r)
    BY <1>7, <2>1, WithoutServed
  <2>4. pk \notin DOMAIN content'[t]
    BY <1>4, <2>2, <2>3
  <2> QED BY <1>7, <2>3, <2>4
<1>8. CASE /\ Respond(req, Error(NOT_FOUND))
           /\ \E S \in SUBSET (Family(r) \ {r}) :
                S # {} /\ content' = Without(S) /\ IsClosed(S)
           /\ UNCHANGED row_count
  <2>1. PICK S : content' = Without(S) /\ IsClosed(S)
    BY <1>8
  <2>2. call'.response = Error(NOT_FOUND)
    BY <1>8 DEF Respond
  <2>3. UNCHANGED row_count
    BY <1>8
  <2>4. /\ Served
        /\ \A u \in TableIds : \A o \in DOMAIN content'[u] :
             o \in DOMAIN content[u] /\ content'[u][o] = content[u][o]
    BY <2>1, <2>3, WithoutServed
  <2> QED BY <1>5, <2>2, <2>3, <2>4
<1> QED BY <1>3, <1>6, <1>7, <1>8 DEF drop

-----------------------------------------------------------------------------
\* What others do to a session

LEMMA KnownStays ==
  ASSUME NEW rows, NEW count, NEW rows2, NEW count2,
         TablesOK(rows, count), TablesOK(rows2, count2),
         OnlyForward(rows, count, rows2, count2),
         NEW t, NEW pk, NEW v, NEW values, Known(rows, count, t, pk, v, values)
  PROVE  Known(rows2, count2, t, pk, v, values)
<1>1. /\ t \in TableIds /\ pk \in 1..count[t] /\ v \in Nat \ {0}
      /\ count[t] \in Nat /\ count2[t] \in Nat /\ count[t] <= count2[t]
  BY DEF Known, TablesOK, OnlyForward
<1>2. pk \in 1..count2[t]
  BY <1>1
<1>3. CASE pk \in DOMAIN rows2[t]
  <2>1. ~(pk > count[t])
    BY <1>1
  <2>2. pk \in DOMAIN rows[t]
    BY <1>1, <1>3, <2>1 DEF OnlyForward
  <2>3. rows[t][pk].version \in Nat /\ rows2[t][pk].version \in Nat
    BY <1>1, <1>3, <2>2 DEF TablesOK, Row
  <2>4. /\ v <= rows[t][pk].version
        /\ v = rows[t][pk].version => values = rows[t][pk].row_values
    BY <2>2 DEF Known
  <2>5. CASE rows2[t][pk] = rows[t][pk]
    BY <1>1, <1>2, <2>4, <2>5 DEF Known
  <2>6. CASE rows2[t][pk].version > rows[t][pk].version
    BY <1>1, <1>2, <2>3, <2>4, <2>6 DEF Known
  <2> QED BY <1>1, <1>3, <2>1, <2>5, <2>6 DEF OnlyForward
<1> QED BY <1>1, <1>2, <1>3 DEF Known

LEMMA ObjectsKnownStay ==
  ASSUME NEW rows, NEW count, NEW rows2, NEW count2,
         TablesOK(rows, count), TablesOK(rows2, count2),
         OnlyForward(rows, count, rows2, count2),
         NEW h, ObjectsKnown(rows, count, h)
  PROVE  ObjectsKnown(rows2, count2, h)
BY KnownStays DEF ObjectsKnown

LEMMA GetCallsStay ==
  ASSUME NEW rows, NEW count, NEW rows2, NEW count2,
         TablesOK(rows, count), TablesOK(rows2, count2),
         OnlyForward(rows, count, rows2, count2),
         NEW h, NEW st, GetCalls(rows, count, h, st)
  PROVE  GetCalls(rows2, count2, h, st)
BY KnownStays DEF GetCalls, GetOK

LEMMA FilterCallsStay ==
  ASSUME NEW rows, NEW count, NEW rows2, NEW count2,
         TablesOK(rows, count), TablesOK(rows2, count2),
         OnlyForward(rows, count, rows2, count2),
         NEW h, NEW st \in Seq(Calls), Kinds(st), FilterCalls(rows, count, h, st)
  PROVE  FilterCalls(rows2, count2, h, st)
<1> SUFFICES ASSUME st # <<>>, st[1].op = "filter"
             PROVE  /\ st[1].given <= count2[st[1].table]
                    /\ st[1].result \subseteq DOMAIN h
                    /\ st[1].conditions = <<>> /\ st[1].last.op = OP_AL => Listed(rows2, h, st)
  BY DEF FilterCalls
<1> DEFINE t == st[1].table
<1>1. st[1] \in Calls
  BY EmptySeq
<1>2. t \in TableIds /\ st[1].given \in Nat
  BY <1>1 DEF Calls, SaveCall, GetCall, FilterCall
<1>3. /\ st[1].given <= count[t] /\ count[t] <= count2[t]
      /\ count[t] \in Nat /\ count2[t] \in Nat
  BY <1>2 DEF FilterCalls, OnlyForward, TablesOK
<1>4. ASSUME Listed(rows, h, st)
      PROVE  Listed(rows2, h, st)
  <2> SUFFICES ASSUME NEW id \in DOMAIN rows2[t]
               PROVE  \/ id > st[1].given
                      \/ id \in st[1].left
                      \/ Len(st) > 1 /\ st[2].pk = id
                      \/ \E o \in st[1].result : h[o].pk = id
    BY DEF Listed
  <2>1. CASE id > count[t]
    <3>1. id \in Nat
      BY <1>2 DEF TablesOK
    <3> QED BY <1>2, <1>3, <2>1, <3>1
  <2>2. CASE id \in DOMAIN rows[t]
    BY <1>4, <2>2 DEF Listed
  <2> QED BY <1>2, <2>1, <2>2 DEF OnlyForward
<1> QED BY <1>2, <1>3, <1>4 DEF FilterCalls

LEMMA OtherSession ==
  ASSUME NEW rows, NEW count, NEW rows2, NEW count2,
         TablesOK(rows, count), TablesOK(rows2, count2),
         OnlyForward(rows, count, rows2, count2),
         NEW h, NEW st \in Seq(Calls), SessionOK(rows, count, h, st)
  PROVE  SessionOK(rows2, count2, h, st)
BY ObjectsKnownStay, GetCallsStay, FilterCallsStay DEF SessionOK

-----------------------------------------------------------------------------
\* A session that does nothing, and one that an exception brings back to that

LEMMA Idle ==
  ASSUME NEW rows, NEW count, NEW h \in Seq(PyObject)
  PROVE  SessionOK(rows, count, h, <<>>)
           <=> Wired(h, Len(h)) /\ ObjectsKnown(rows, count, h)
<1>1. Len(h) \in Nat /\ Base(h, <<>>) = Len(h)
  BY DEF Base
<1>2. /\ Kinds(<<>>) /\ SaveCalls(h, <<>>) /\ GetCalls(rows, count, h, <<>>)
      /\ FilterCalls(rows, count, h, <<>>)
  BY DEF Kinds, SaveCalls, GetCalls, FilterCalls
<1> QED BY <1>1, <1>2 DEF SessionOK

LEMMA Prefix ==
  ASSUME NEW T, NEW h \in Seq(T), NEW n \in Nat, n <= Len(h)
  PROVE  /\ SubSeq(h, 1, n) \in Seq(T)
         /\ Len(SubSeq(h, 1, n)) = n
         /\ DOMAIN SubSeq(h, 1, n) = {o \in DOMAIN h : o <= n}
         /\ \A o \in DOMAIN h : o <= n => SubSeq(h, 1, n)[o] = h[o]
OBVIOUS

LEMMA BaseType ==
  ASSUME NEW h \in Seq(PyObject), NEW st \in Seq(Calls)
  PROVE  Base(h, st) \in Nat
<1>1. CASE st = <<>>
  BY <1>1 DEF Base
<1>2. CASE st # <<>>
  <2>1. st[1] \in Calls
    BY <1>2, EmptySeq
  <2> QED BY <1>2, <2>1 DEF Base, Calls, SaveCall, GetCall, FilterCall
<1> QED BY <1>1, <1>2

\* The call is over, and the objects it made are gone.
LEMMA Abandon ==
  ASSUME NEW rows, NEW count, NEW h \in Seq(PyObject), NEW st \in Seq(Calls),
         SessionOK(rows, count, h, st),
         NEW h2, h2 = Undone(h, st)
  PROVE  /\ h2 \in Seq(PyObject)
         /\ SessionOK(rows, count, h2, <<>>)
         /\ RemembersAll(h, st, h2, <<>>)
<1> DEFINE n == Base(h, st)
<1>1. n \in Nat /\ n <= Len(h)
  BY BaseType DEF SessionOK
<1>2. /\ h2 \in Seq(PyObject)
      /\ Len(h2) = n
      /\ DOMAIN h2 = {o \in DOMAIN h : o <= n}
      /\ \A o \in DOMAIN h : o <= n => h2[o] = h[o]
  BY <1>1, Prefix DEF Undone
<1>3. Wired(h2, n)
  <2> SUFFICES ASSUME NEW o \in DOMAIN h2
               PROVE  /\ DOMAIN h2[o].fields = DOMAIN Schema[h2[o].table]
                      /\ \A i \in Foreigns(h2[o].table) :
                           \/ h2[o].fields[i] = 0
                           \/ /\ IsObject(h2, h2[o].fields[i], Schema[h2[o].table][i].c_ref)
                              /\ o <= n => h2[o].fields[i] <= n
    BY DEF Wired
  <2>1. o \in DOMAIN h /\ o <= n /\ h2[o] = h[o] /\ Wired(h, n)
    BY <1>2 DEF SessionOK
  <2>2. ASSUME NEW i \in Foreigns(h[o].table), h[o].fields[i] # 0
        PROVE  /\ IsObject(h2, h[o].fields[i], Schema[h[o].table][i].c_ref)
               /\ h[o].fields[i] <= n
    BY <1>2, <2>1, <2>2 DEF Wired, IsObject
  <2> QED BY <2>1, <2>2 DEF Wired
<1>4. ObjectsKnown(rows, count, h2)
  BY <1>2 DEF SessionOK, ObjectsKnown
<1>5. ASSUME NEW t, NEW id, NEW row, Remembers(h, st, t, id, row)
      PROVE  Remembers(h2, <<>>, t, id, row)
  BY <1>2, <1>5 DEF Remembers, Base
<1> QED BY <1>2, <1>3, <1>4, <1>5, Idle DEF RemembersAll

-----------------------------------------------------------------------------
\* One session moves

Moves(s, h2, st2) ==
  /\ heap' = [heap EXCEPT ![s] = h2]
  /\ stack' = [stack EXCEPT ![s] = st2]
  /\ outcome' = [outcome EXCEPT ![s] = outcome'[s]]

\* A row there is was there, and whoever remembered it does, or was just written by s.
WritersMove(s, h2, st2) ==
  \A t \in TableIds : \A id \in DOMAIN content'[t] :
    \/ /\ id \in DOMAIN content[t] /\ content'[t][id] = content[t][id]
       /\ Remembers(heap[s], stack[s], t, id, content[t][id])
            => Remembers(h2, st2, t, id, content[t][id])
    \/ Remembers(h2, st2, t, id, content'[t][id])

LEMMA Assemble ==
  ASSUME ORMInv, Served, NEW s \in Sessions,
         NEW h2 \in Seq(PyObject), NEW st2 \in Seq(Calls), Moves(s, h2, st2),
         SessionOK(content', row_count', h2, st2),
         WritersMove(s, h2, st2)
  PROVE  ORMInv'
<1>1. /\ heap'[s] = h2 /\ stack'[s] = st2
      /\ \A e \in Sessions : e # s => heap'[e] = heap[e] /\ stack'[e] = stack[e]
  BY DEF Moves, ORMInv, ORMTypes
<1>2. ORMTypes'
  <2>1. heap' \in [Sessions -> Seq(PyObject)]
    BY DEF Moves, ORMInv, ORMTypes
  <2>2. stack' \in [Sessions -> Seq(Calls)]
    BY DEF Moves, ORMInv, ORMTypes
  <2>3. outcome' = [e \in Sessions |-> outcome'[e]]
    BY DEF Moves, ORMInv, ORMTypes
  <2> QED BY <2>1, <2>2, <2>3 DEF ORMTypes
<1>3. ASSUME NEW e \in Sessions
      PROVE  SessionOK(content', row_count', heap'[e], stack'[e])
  <2>1. CASE e = s
    BY <2>1, <1>1
  <2>2. CASE e # s
    <3>1. /\ TablesOK(content, row_count) /\ TablesOK(content', row_count')
          /\ OnlyForward(content, row_count, content', row_count')
          /\ stack[e] \in Seq(Calls)
          /\ SessionOK(content, row_count, heap[e], stack[e])
      BY DEF ORMInv, ORMTypes, Served
    <3>2. SessionOK(content', row_count', heap[e], stack[e])
      BY <3>1, OtherSession
    <3> QED BY <3>2, <2>2, <1>1
  <2> QED BY <2>1, <2>2
<1>4. WritersKeep(content', heap', stack')
  <2> SUFFICES ASSUME NEW t \in TableIds, NEW id \in DOMAIN content'[t],
                      content'[t][id].version > 1 \/ id > Len(Stored[t])
               PROVE  \E e \in Sessions :
                        Remembers(heap'[e], stack'[e], t, id, content'[t][id])
    BY DEF WritersKeep
  <2>1. CASE Remembers(h2, st2, t, id, content'[t][id])
    BY <2>1, <1>1
  <2>2. CASE /\ id \in DOMAIN content[t] /\ content'[t][id] = content[t][id]
             /\ Remembers(heap[s], stack[s], t, id, content[t][id])
                  => Remembers(h2, st2, t, id, content[t][id])
    <3>1. PICK e \in Sessions : Remembers(heap[e], stack[e], t, id, content[t][id])
      BY <2>2 DEF ORMInv, WritersKeep
    <3>2. CASE e = s
      BY <3>1, <3>2, <2>2, <1>1
    <3>3. CASE e # s
      BY <3>1, <3>3, <2>2, <1>1
    <3> QED BY <3>2, <3>3
  <2> QED BY <2>1, <2>2 DEF WritersMove
<1> QED BY <1>2, <1>3, <1>4 DEF ORMInv, Served

\* The rows are as they were, or fewer.
LEMMA FewerRows ==
  ASSUME NEW s, NEW h2, NEW st2,
         \A t \in TableIds : \A id \in DOMAIN content'[t] :
           id \in DOMAIN content[t] /\ content'[t][id] = content[t][id],
         RemembersAll(heap[s], stack[s], h2, st2)
  PROVE  WritersMove(s, h2, st2)
BY DEF WritersMove, RemembersAll

\* The objects that the program knows are those it knew, and they keep their rows.
LEMMA StillRemembers ==
  ASSUME NEW h, NEW st, NEW h2, NEW st2,
         \A o \in DOMAIN h : o <= Base(h, st) =>
           /\ o \in DOMAIN h2 /\ o <= Base(h2, st2)
           /\ h2[o].table = h[o].table /\ h2[o].pk = h[o].pk
           /\ h2[o].version = h[o].version /\ h2[o].seen = h[o].seen
  PROVE  RemembersAll(h, st, h2, st2)
BY DEF RemembersAll, Remembers, Knows

\* What there is of a session
LEMMA SessionFacts ==
  ASSUME ORMInv, NEW s \in Sessions
  PROVE  /\ heap[s] \in Seq(PyObject) /\ stack[s] \in Seq(Calls)
         /\ SessionOK(content, row_count, heap[s], stack[s])
         /\ TablesOK(content, row_count)
BY DEF ORMInv, ORMTypes

\* A step that leaves the database and the objects alone
LEMMA StackMoves ==
  ASSUME ORMInv, NEW s \in Sessions, UNCHANGED <<database, heap>>,
         NEW st2 \in Seq(Calls), stack' = [stack EXCEPT ![s] = st2],
         outcome' = [outcome EXCEPT ![s] = outcome'[s]],
         Base(heap[s], st2) = Base(heap[s], stack[s]),
         SessionOK(content, row_count, heap[s], st2)
  PROVE  ORMInv'
<1>1. UNCHANGED <<content, row_count>> /\ UNCHANGED heap
  BY DEF database
<1>2. PICK h2 \in Seq(PyObject) : h2 = heap[s]
  BY SessionFacts
<1>3. Moves(s, h2, st2)
  <2>1. heap' = [heap EXCEPT ![s] = h2]
    BY <1>1, <1>2 DEF ORMInv, ORMTypes
  <2> QED BY <2>1 DEF Moves
<1>4. Served
  BY <1>1, SessionFacts, SameTablesServed
<1>5. RemembersAll(heap[s], stack[s], h2, st2)
  BY <1>2, StillRemembers
<1>6. WritersMove(s, h2, st2)
  BY <1>1, <1>5, FewerRows
<1>7. SessionOK(content', row_count', h2, st2)
  BY <1>1, <1>2
<1> QED BY <1>3, <1>4, <1>6, <1>7, Assemble

\* An exception: whatever was asked of the database was refused or only read.
LEMMA RaiseInv ==
  ASSUME ORMInv, NEW s \in Sessions, UNCHANGED <<content, row_count>>,
         heap' = [heap EXCEPT ![s] = Undone(@, stack[s])],
         stack' = [stack EXCEPT ![s] = <<>>],
         outcome' = [outcome EXCEPT ![s] = outcome'[s]]
  PROVE  ORMInv'
<1>1. PICK h2 : h2 = Undone(heap[s], stack[s])
  OBVIOUS
<1>2. /\ h2 \in Seq(PyObject)
      /\ SessionOK(content, row_count, h2, <<>>)
      /\ RemembersAll(heap[s], stack[s], h2, <<>>)
  <2>1. /\ heap[s] \in Seq(PyObject) /\ stack[s] \in Seq(Calls)
        /\ SessionOK(content, row_count, heap[s], stack[s])
    BY SessionFacts
  <2> QED BY <1>1, <2>1, Abandon
<1>3. Moves(s, h2, <<>>)
  BY <1>1 DEF Moves, ORMInv, ORMTypes
<1>4. Served
  BY SessionFacts, SameTablesServed
<1>5. WritersMove(s, h2, <<>>)
  BY <1>2, FewerRows
<1>6. SessionOK(content', row_count', h2, <<>>)
  BY <1>2
<1>7. <<>> \in Seq(Calls)
  OBVIOUS
<1> QED BY <1>2, <1>3, <1>4, <1>5, <1>6, <1>7, Assemble

-----------------------------------------------------------------------------
\* Objects made and changed

\* The fields of an object, but for what the program knows
FieldsOK(h, obj) ==
  /\ DOMAIN obj.fields = DOMAIN Schema[obj.table]
  /\ \A i \in Foreigns(obj.table) :
       obj.fields[i] = 0 \/ IsObject(h, obj.fields[i], Schema[obj.table][i].c_ref)

LEMMA Pushed ==
  ASSUME NEW T, NEW h \in Seq(T), NEW x \in T
  PROVE  /\ Append(h, x) \in Seq(T)
         /\ Len(Append(h, x)) = Len(h) + 1
         /\ DOMAIN Append(h, x) = DOMAIN h \cup {Len(h) + 1}
         /\ \A o \in DOMAIN h : o <= Len(h) /\ Append(h, x)[o] = h[o]
         /\ Append(h, x)[Len(h) + 1] = x
         /\ Append(h, x) # <<>>
         /\ Len(h) \in Nat
OBVIOUS

LEMMA Replaced ==
  ASSUME NEW T, NEW h \in Seq(T), NEW o \in DOMAIN h, NEW x \in T,
         NEW h2, h2 = [h EXCEPT ![o] = x]
  PROVE  /\ h2 \in Seq(T)
         /\ Len(h2) = Len(h)
         /\ DOMAIN h2 = DOMAIN h
         /\ h2[o] = x
         /\ \A p \in DOMAIN h : p <= Len(h) /\ (p # o => h2[p] = h[p])
OBVIOUS

LEMMA WiredFields ==
  ASSUME NEW h, NEW n, Wired(h, n), NEW o \in DOMAIN h
  PROVE  FieldsOK(h, h[o])
BY DEF Wired, FieldsOK

LEMMA FieldsWired ==
  ASSUME NEW h \in Seq(PyObject), \A o \in DOMAIN h : FieldsOK(h, h[o])
  PROVE  Wired(h, Len(h))
BY DEF Wired, FieldsOK, IsObject

LEMMA AppendWired ==
  ASSUME NEW h \in Seq(PyObject), NEW n, n <= Len(h), n \in Nat, Wired(h, n),
         NEW obj \in PyObject, FieldsOK(h, obj)
  PROVE  Wired(Append(h, obj), n)
<1>1. PICK h2 : h2 = Append(h, obj)
  OBVIOUS
<1>2. /\ DOMAIN h2 = DOMAIN h \cup {Len(h) + 1}
      /\ \A o \in DOMAIN h : o <= Len(h) /\ h2[o] = h[o]
      /\ h2[Len(h) + 1] = obj
      /\ Len(h) \in Nat
  BY <1>1, Pushed
<1>3. ~(Len(h) + 1 <= n)
  BY <1>2
<1>4. \A o, t : IsObject(h, o, t) => IsObject(h2, o, t)
  BY <1>2 DEF IsObject
<1>5. ASSUME NEW o \in DOMAIN h
      PROVE  /\ DOMAIN h2[o].fields = DOMAIN Schema[h2[o].table]
             /\ \A i \in Foreigns(h2[o].table) :
                  \/ h2[o].fields[i] = 0
                  \/ /\ IsObject(h2, h2[o].fields[i], Schema[h2[o].table][i].c_ref)
                     /\ o <= n => h2[o].fields[i] <= n
  <2>1. h2[o] = h[o]
    BY <1>2
  <2> QED BY <1>4, <2>1 DEF Wired
<1>6. /\ DOMAIN obj.fields = DOMAIN Schema[obj.table]
      /\ \A i \in Foreigns(obj.table) :
           \/ obj.fields[i] = 0
           \/ IsObject(h2, obj.fields[i], Schema[obj.table][i].c_ref)
  BY <1>4 DEF FieldsOK
<1>7. Wired(h2, n)
  BY <1>2, <1>3, <1>5, <1>6 DEF Wired
<1> QED BY <1>1, <1>7

LEMMA AppendKnown ==
  ASSUME NEW rows, NEW count, NEW h \in Seq(PyObject), ObjectsKnown(rows, count, h),
         NEW obj \in PyObject,
         obj.pk # 0 => Known(rows, count, obj.table, obj.pk, obj.version, obj.seen)
  PROVE  ObjectsKnown(rows, count, Append(h, obj))
<1>1. PICK h2 : h2 = Append(h, obj)
  OBVIOUS
<1>2. /\ DOMAIN h2 = DOMAIN h \cup {Len(h) + 1}
      /\ \A o \in DOMAIN h : h2[o] = h[o]
      /\ h2[Len(h) + 1] = obj
  BY <1>1, Pushed
<1> QED BY <1>1, <1>2 DEF ObjectsKnown

LEMMA ReplaceKnown ==
  ASSUME NEW rows, NEW count, NEW h \in Seq(PyObject), ObjectsKnown(rows, count, h),
         NEW o \in DOMAIN h, NEW obj \in PyObject, NEW h2, h2 = [h EXCEPT ![o] = obj],
         obj.pk # 0 => Known(rows, count, obj.table, obj.pk, obj.version, obj.seen)
  PROVE  ObjectsKnown(rows, count, h2)
<1>1. /\ DOMAIN h2 = DOMAIN h
      /\ \A p \in DOMAIN h : p # o => h2[p] = h[p]
      /\ h2[o] = obj
  BY Replaced
<1> QED BY <1>1 DEF ObjectsKnown

\* An object whose row was written or dropped: its fields stay.
LEMMA ReplaceWired ==
  ASSUME NEW h \in Seq(PyObject), NEW n, Wired(h, n),
         NEW o \in DOMAIN h, NEW obj \in PyObject, NEW h2, h2 = [h EXCEPT ![o] = obj],
         obj.table = h[o].table, obj.fields = h[o].fields
  PROVE  Wired(h2, n)
<1>1. /\ DOMAIN h2 = DOMAIN h
      /\ \A p \in DOMAIN h : p # o => h2[p] = h[p]
      /\ h2[o] = obj
  BY Replaced
<1>2. \A p \in DOMAIN h : h2[p].table = h[p].table /\ h2[p].fields = h[p].fields
  BY <1>1
<1>3. \A p, t : IsObject(h, p, t) => IsObject(h2, p, t)
  BY <1>1, <1>2 DEF IsObject
<1>4. ASSUME NEW p \in DOMAIN h
      PROVE  /\ DOMAIN h2[p].fields = DOMAIN Schema[h2[p].table]
             /\ \A i \in Foreigns(h2[p].table) :
                  \/ h2[p].fields[i] = 0
                  \/ /\ IsObject(h2, h2[p].fields[i], Schema[h2[p].table][i].c_ref)
                     /\ p <= n => h2[p].fields[i] <= n
  <2>1. PICK t, f : t = h[p].table /\ f = h[p].fields /\ h2[p].table = t /\ h2[p].fields = f
    BY <1>2
  <2>2. /\ DOMAIN f = DOMAIN Schema[t]
        /\ \A i \in Foreigns(t) :
             f[i] = 0 \/ (IsObject(h, f[i], Schema[t][i].c_ref) /\ (p <= n => f[i] <= n))
    BY <2>1 DEF Wired
  <2> QED BY <1>3, <2>1, <2>2
<1> QED BY <1>1, <1>4 DEF Wired

\* A program between two operations: its objects change, not what they know of rows.
LEMMA IdleMoves ==
  ASSUME ORMInv, NEW s \in Sessions, stack[s] = <<>>, UNCHANGED <<database, stack, outcome>>,
         NEW h2 \in Seq(PyObject), heap' = [heap EXCEPT ![s] = h2],
         Wired(h2, Len(h2)), ObjectsKnown(content, row_count, h2),
         \A o \in DOMAIN heap[s] :
           /\ o \in DOMAIN h2
           /\ h2[o].table = heap[s][o].table /\ h2[o].pk = heap[s][o].pk
           /\ h2[o].version = heap[s][o].version /\ h2[o].seen = heap[s][o].seen
  PROVE  ORMInv'
<1>1. UNCHANGED <<content, row_count>> /\ stack' = stack /\ outcome' = outcome
  BY DEF database
<1>2. Moves(s, h2, <<>>)
  <2>1. stack = [e \in Sessions |-> stack[e]] /\ outcome = [e \in Sessions |-> outcome[e]]
    BY DEF ORMInv, ORMTypes
  <2>2. stack' = [stack EXCEPT ![s] = <<>>] /\ outcome' = [outcome EXCEPT ![s] = outcome'[s]]
    BY <1>1, <2>1
  <2> QED BY <2>2 DEF Moves
<1>3. Served
  BY <1>1, SessionFacts, SameTablesServed
<1>4. RemembersAll(heap[s], stack[s], h2, <<>>)
  <2>1. \A o \in DOMAIN h2 : o <= Base(h2, <<>>)
    BY DEF Base
  <2> QED BY <2>1, StillRemembers
<1>5. WritersMove(s, h2, <<>>)
  BY <1>1, <1>4, FewerRows
<1>6. SessionOK(content', row_count', h2, <<>>)
  BY <1>1, Idle
<1>7. <<>> \in Seq(Calls)
  OBVIOUS
<1> QED BY <1>2, <1>3, <1>5, <1>6, <1>7, Assemble

LEMMA IdleFacts ==
  ASSUME ORMInv, NEW s \in Sessions, stack[s] = <<>>
  PROVE  /\ heap[s] \in Seq(PyObject)
         /\ Wired(heap[s], Len(heap[s]))
         /\ ObjectsKnown(content, row_count, heap[s])
<1>1. heap[s] \in Seq(PyObject) /\ SessionOK(content, row_count, heap[s], <<>>)
  BY SessionFacts
<1> QED BY <1>1, Idle

LEMMA ConstructInv ==
  ASSUME ORMInv, NEW s \in Sessions, Construct(s)
  PROVE  ORMInv'
<1>1. stack[s] = <<>> /\ UNCHANGED <<database, stack, outcome>>
  BY DEF Construct, Begin
<1>2. PICK t \in TableIds : \E fields \in [DOMAIN Schema[t] -> Data \cup DOMAIN heap[s] \cup {0}] :
        /\ \A i \in DOMAIN fields :
             \/ fields[i] \in Candidates(s, t, i)
             \/ fields[i] = 0 /\ <<t, i>> \in Blank
        /\ heap' = [heap EXCEPT ![s] =
             Append(@, [table |-> t, pk |-> 0, version |-> 0, fields |-> fields,
                        seen |-> <<>>])]
  BY DEF Construct
<1>3. PICK fields \in [DOMAIN Schema[t] -> Data \cup DOMAIN heap[s] \cup {0}] :
        /\ \A i \in DOMAIN fields :
             \/ fields[i] \in Candidates(s, t, i)
             \/ fields[i] = 0 /\ <<t, i>> \in Blank
        /\ heap' = [heap EXCEPT ![s] =
             Append(@, [table |-> t, pk |-> 0, version |-> 0, fields |-> fields,
                        seen |-> <<>>])]
  BY <1>2
<1>4. PICK obj : obj = [table |-> t, pk |-> 0, version |-> 0, fields |-> fields, seen |-> <<>>]
  OBVIOUS
<1>5. obj \in PyObject
  <2>1. Schema[t] \in Seq(Column)
    BY SchemaAssumption DEF TableIds
  <2>2. DOMAIN heap[s] \subseteq Int
    BY SessionFacts
  <2>3. fields \in [1..Len(Schema[t]) -> Int]
    BY <2>1, <2>2, DataAssumption
  <2>4. fields \in Seq(Int)
    BY <2>1, <2>3
  <2> QED BY <1>4, <2>4 DEF PyObject
<1>6. FieldsOK(heap[s], obj)
  <2>1. \A i \in Foreigns(t) :
          fields[i] = 0 \/ IsObject(heap[s], fields[i], Schema[t][i].c_ref)
    BY <1>3, SchemaFacts DEF Candidates, IsObject
  <2> QED BY <1>4, <2>1 DEF FieldsOK
<1>7. PICK h2 : h2 = Append(heap[s], obj)
  OBVIOUS
<1>8. /\ heap[s] \in Seq(PyObject)
      /\ Wired(heap[s], Len(heap[s]))
      /\ ObjectsKnown(content, row_count, heap[s])
  BY <1>1, IdleFacts
<1>9. /\ h2 \in Seq(PyObject)
      /\ DOMAIN h2 = DOMAIN heap[s] \cup {Len(heap[s]) + 1}
      /\ \A o \in DOMAIN heap[s] : h2[o] = heap[s][o]
      /\ Len(heap[s]) \in Nat
  BY <1>5, <1>7, <1>8, Pushed
<1>10. Wired(h2, Len(h2))
  <2>1. Wired(h2, Len(heap[s]))
    BY <1>5, <1>6, <1>7, <1>8, <1>9, AppendWired
  <2> QED BY <1>9, <2>1, WiredFields, FieldsWired
<1>11. ObjectsKnown(content, row_count, h2)
  BY <1>4, <1>5, <1>7, <1>8, AppendKnown
<1>12. heap' = [heap EXCEPT ![s] = h2]
  BY <1>3, <1>4, <1>7
<1> QED BY <1>1, <1>9, <1>10, <1>11, <1>12, IdleMoves

LEMMA AssignInv ==
  ASSUME ORMInv, NEW s \in Sessions, Assign(s)
  PROVE  ORMInv'
<1>1. stack[s] = <<>> /\ UNCHANGED <<database, stack, outcome>>
  BY DEF Assign, Begin
<1>o. PICK o \in DOMAIN heap[s] : \E i \in DOMAIN heap[s][o].fields :
        \E v \in Candidates(s, heap[s][o].table, i) :
          heap' = [heap EXCEPT ![s][o].fields[i] = v]
  BY DEF Assign
<1>i. PICK i \in DOMAIN heap[s][o].fields : \E v \in Candidates(s, heap[s][o].table, i) :
        heap' = [heap EXCEPT ![s][o].fields[i] = v]
  BY <1>o
<1>2. PICK v \in Candidates(s, heap[s][o].table, i) :
        heap' = [heap EXCEPT ![s][o].fields[i] = v]
  BY <1>i
<1>3. /\ heap[s] \in Seq(PyObject)
      /\ Wired(heap[s], Len(heap[s]))
      /\ ObjectsKnown(content, row_count, heap[s])
  BY <1>1, IdleFacts
<1>4. PICK obj : obj = [heap[s][o] EXCEPT !.fields = [heap[s][o].fields EXCEPT ![i] = v]]
  OBVIOUS
<1>5. heap[s][o] \in PyObject
  BY <1>3
<1>6. /\ heap[s][o].fields \in Seq(Int)
      /\ heap[s][o] = [table |-> heap[s][o].table, pk |-> heap[s][o].pk,
                       version |-> heap[s][o].version, fields |-> heap[s][o].fields,
                       seen |-> heap[s][o].seen]
  BY <1>5 DEF PyObject
<1>7. v \in Int
  <2>1. DOMAIN heap[s] \subseteq Int
    BY <1>3
  <2> QED BY <2>1, DataAssumption DEF Candidates
<1>8. /\ obj.table = heap[s][o].table /\ obj.pk = heap[s][o].pk
      /\ obj.version = heap[s][o].version /\ obj.seen = heap[s][o].seen
      /\ obj.fields = [heap[s][o].fields EXCEPT ![i] = v]
  BY <1>4, <1>6
<1>9. obj \in PyObject
  <2>1. [heap[s][o].fields EXCEPT ![i] = v] \in Seq(Int)
    BY <1>6, <1>7, Replaced
  <2>2. obj = [table |-> heap[s][o].table, pk |-> heap[s][o].pk,
               version |-> heap[s][o].version,
               fields |-> [heap[s][o].fields EXCEPT ![i] = v], seen |-> heap[s][o].seen]
    BY <1>4, <1>6
  <2> QED BY <1>5, <2>1, <2>2 DEF PyObject
<1>10. FieldsOK(heap[s], heap[s][o])
  BY <1>3, WiredFields
<1>11. FieldsOK(heap[s], obj)
  <2>1. DOMAIN obj.fields = DOMAIN Schema[obj.table]
    BY <1>8, <1>10 DEF FieldsOK
  <2>2. ASSUME NEW j \in Foreigns(obj.table)
        PROVE  obj.fields[j] = 0 \/ IsObject(heap[s], obj.fields[j], Schema[obj.table][j].c_ref)
    <3>1. obj.table \in TableIds
      BY <1>9 DEF PyObject
    <3>2. j \in DOMAIN heap[s][o].fields
      BY <1>8, <1>10, <3>1, SchemaFacts DEF FieldsOK
    <3>3. CASE j = i
      <4>1. obj.fields[j] = v
        BY <1>8, <3>2, <3>3
      <4> QED BY <1>8, <3>3, <4>1 DEF Candidates, IsObject
    <3>4. CASE j # i
      <4>1. obj.fields[j] = heap[s][o].fields[j]
        BY <1>8, <3>2, <3>4
      <4> QED BY <1>8, <1>10, <4>1 DEF FieldsOK
    <3> QED BY <3>3, <3>4
  <2> QED BY <2>1, <2>2 DEF FieldsOK
<1>12. PICK h2 : h2 = [heap[s] EXCEPT ![o] = obj]
  OBVIOUS
<1>13. /\ h2 \in Seq(PyObject)
       /\ Len(h2) = Len(heap[s]) /\ DOMAIN h2 = DOMAIN heap[s]
       /\ h2[o] = obj
       /\ \A p \in DOMAIN heap[s] : p # o => h2[p] = heap[s][p]
  BY <1>3, <1>9, <1>12, Replaced
<1>14. \A p \in DOMAIN heap[s] :
         /\ p \in DOMAIN h2
         /\ h2[p].table = heap[s][p].table /\ h2[p].pk = heap[s][p].pk
         /\ h2[p].version = heap[s][p].version /\ h2[p].seen = heap[s][p].seen
  BY <1>8, <1>13
<1>15. ASSUME NEW p \in DOMAIN h2
       PROVE  FieldsOK(h2, h2[p])
  <2>1. FieldsOK(heap[s], h2[p])
    BY <1>3, <1>11, <1>13, WiredFields
  <2>2. \A q, t : IsObject(heap[s], q, t) => IsObject(h2, q, t)
    BY <1>13, <1>14 DEF IsObject
  <2> QED BY <2>1, <2>2 DEF FieldsOK
<1>16. Wired(h2, Len(h2))
  BY <1>13, <1>15, FieldsWired
<1>17. ObjectsKnown(content, row_count, h2)
  <2>1. obj.pk # 0 => Known(content, row_count, obj.table, obj.pk, obj.version, obj.seen)
    BY <1>3, <1>8 DEF ObjectsKnown
  <2> QED BY <1>3, <1>9, <1>12, <2>1, ReplaceKnown
<1>18. heap' = [heap EXCEPT ![s] = h2]
  BY <1>2, <1>4, <1>12
<1> QED BY <1>1, <1>13, <1>14, <1>16, <1>17, <1>18, IdleMoves

LEMMA DeleteInv ==
  ASSUME ORMInv, NEW s \in Sessions, Delete(s)
  PROVE  ORMInv'
<1>1. stack[s] = <<>> /\ UNCHANGED stack
  BY DEF Delete, Begin
<1>2. /\ heap[s] \in Seq(PyObject)
      /\ Wired(heap[s], Len(heap[s]))
      /\ ObjectsKnown(content, row_count, heap[s])
      /\ SessionOK(content, row_count, heap[s], <<>>)
  BY <1>1, IdleFacts, SessionFacts
<1>3. PICK o \in DOMAIN heap[s] :
        \/ /\ heap[s][o].pk = 0
           /\ outcome' = [outcome EXCEPT ![s] = "PacketError"]
           /\ UNCHANGED <<database, heap>>
        \/ /\ heap[s][o].pk # 0
           /\ handle_request(KeyRequest("Drop", heap[s][o].table, heap[s][o].pk))
           /\ outcome' = [outcome EXCEPT ![s] = raises("Drop", call'.response)]
           /\ IF raises("Drop", call'.response) = "nothing"
              THEN heap' = [heap EXCEPT ![s][o].pk = 0, ![s][o].version = 0]
              ELSE UNCHANGED heap
  BY DEF Delete
<1>4. /\ stack' = [stack EXCEPT ![s] = <<>>]
      /\ outcome' = [outcome EXCEPT ![s] = outcome'[s]]
      /\ <<>> \in Seq(Calls)
  <2>1. stack = [e \in Sessions |-> stack[e]] /\ outcome = [e \in Sessions |-> outcome[e]]
    BY DEF ORMInv, ORMTypes
  <2> QED BY <1>1, <1>3, <2>1
<1>5. CASE UNCHANGED <<database, heap>>
  <2>1. Base(heap[s], <<>>) = Base(heap[s], stack[s])
    BY <1>1
  <2> QED BY <1>2, <1>4, <1>5, <2>1, StackMoves
<1>6. CASE handle_request(KeyRequest("Drop", heap[s][o].table, heap[s][o].pk))
  <2> DEFINE t == heap[s][o].table
             pk == heap[s][o].pk
  <2>1. heap[s][o] \in PyObject
    BY <1>2
  <2>2. t \in TableIds
    BY <2>1 DEF PyObject
  <2>3. /\ Served
        /\ \A u \in TableIds : \A p \in DOMAIN content'[u] :
             p \in DOMAIN content[u] /\ content'[u][p] = content[u][p]
        /\ raises("Drop", call'.response) = "nothing" => pk \notin DOMAIN content'[t]
    BY <1>6, <2>2, SessionFacts, DropServed
  <2>4. SessionOK(content', row_count', heap[s], <<>>)
    BY <1>2, <1>4, <2>3, SessionFacts, OtherSession DEF Served
  <2>5. CASE UNCHANGED heap
    <3>1. PICK h2 \in Seq(PyObject) : h2 = heap[s]
      BY <1>2
    <3>2. Moves(s, h2, <<>>)
      BY <1>4, <2>5, <3>1 DEF Moves, ORMInv, ORMTypes
    <3>3. RemembersAll(heap[s], stack[s], h2, <<>>)
      BY <1>1, <3>1 DEF RemembersAll
    <3>4. WritersMove(s, h2, <<>>)
      BY <2>3, <3>3, FewerRows
    <3> QED BY <1>4, <2>3, <2>4, <3>1, <3>2, <3>4, Assemble
  <2>6. CASE /\ raises("Drop", call'.response) = "nothing"
             /\ heap' = [heap EXCEPT ![s][o].pk = 0, ![s][o].version = 0]
    <3>1. PICK obj : obj = [heap[s][o] EXCEPT !.pk = 0, !.version = 0]
      OBVIOUS
    <3>2. obj = [table |-> t, pk |-> 0, version |-> 0, fields |-> heap[s][o].fields,
                 seen |-> heap[s][o].seen]
      BY <2>1, <3>1 DEF PyObject
    <3>3. obj \in PyObject
      BY <2>1, <3>2 DEF PyObject
    <3>4. PICK h2 : h2 = [heap[s] EXCEPT ![o] = obj]
      OBVIOUS
    <3>5. /\ h2 \in Seq(PyObject)
          /\ Len(h2) = Len(heap[s]) /\ DOMAIN h2 = DOMAIN heap[s]
          /\ \A p \in DOMAIN heap[s] : p <= Len(heap[s]) /\ (p # o => h2[p] = heap[s][p])
      BY <1>2, <3>3, <3>4, Replaced
    <3>6. Moves(s, h2, <<>>)
      <4>1. heap' = [heap EXCEPT ![s] = h2]
        BY <2>1, <2>6, <3>1, <3>4 DEF PyObject
      <4> QED BY <1>4, <4>1 DEF Moves
    <3>7. SessionOK(content', row_count', h2, <<>>)
      <4>1. ObjectsKnown(content', row_count', heap[s])
        BY <1>2, <2>4, Idle
      <4>2. obj.pk = 0 /\ obj.table = heap[s][o].table /\ obj.fields = heap[s][o].fields
        BY <3>2
      <4>3. Wired(h2, Len(h2))
        BY <1>2, <3>3, <3>4, <3>5, <4>2, ReplaceWired
      <4>4. ObjectsKnown(content', row_count', h2)
        BY <1>2, <3>3, <3>4, <4>1, <4>2, ReplaceKnown
      <4> QED BY <3>5, <4>3, <4>4, Idle
    <3>8. WritersMove(s, h2, <<>>)
      <4> SUFFICES ASSUME NEW u \in TableIds, NEW id \in DOMAIN content'[u],
                          Remembers(heap[s], stack[s], u, id, content[u][id])
                   PROVE  Remembers(h2, <<>>, u, id, content[u][id])
        BY <2>3 DEF WritersMove
      <4>1. PICK p \in DOMAIN heap[s] : Knows(heap[s][p], u, id, content[u][id])
        BY DEF Remembers
      <4>2. p # o
        BY <2>3, <2>6, <4>1 DEF Knows
      <4>3. p \in DOMAIN h2 /\ p <= Len(h2) /\ h2[p] = heap[s][p]
        BY <3>5, <4>2
      <4> QED BY <4>1, <4>3 DEF Remembers, Base
    <3> QED BY <1>4, <2>3, <3>5, <3>6, <3>7, <3>8, Assemble
  <2> QED BY <1>3, <1>6, <2>5, <2>6
<1> QED BY <1>3, <1>5, <1>6

-----------------------------------------------------------------------------
\* Stacks

LEMMA TopFacts ==
  ASSUME NEW T, NEW st \in Seq(T), st # <<>>
  PROVE  /\ Len(st) \in Nat /\ Len(st) >= 1
         /\ st[Len(st)] \in T /\ st[1] \in T
         /\ Len(st) \in DOMAIN st /\ 1 \in DOMAIN st
OBVIOUS

LEMMA PopFacts ==
  ASSUME NEW T, NEW st \in Seq(T), st # <<>>, NEW st2, st2 = SubSeq(st, 1, Len(st) - 1)
  PROVE  /\ st2 \in Seq(T)
         /\ Len(st2) = Len(st) - 1
         /\ DOMAIN st2 = DOMAIN st \ {Len(st)}
         /\ \A k \in DOMAIN st2 : st2[k] = st[k]
<1>1. PICK n \in Nat : n = Len(st) - 1
  OBVIOUS
<1>2. n <= Len(st) /\ Len(st) = n + 1 /\ DOMAIN st = 1..Len(st) /\ st2 = SubSeq(st, 1, n)
  BY <1>1
<1>3. /\ st2 \in Seq(T) /\ Len(st2) = n
      /\ DOMAIN st2 = {o \in DOMAIN st : o <= n}
      /\ \A o \in DOMAIN st : o <= n => st2[o] = st[o]
  BY <1>2, Prefix
<1> QED BY <1>1, <1>2, <1>3

LEMMA ReplaceTop ==
  ASSUME NEW T, NEW st \in Seq(T), st # <<>>, NEW f \in T,
         NEW st2, st2 = Append(SubSeq(st, 1, Len(st) - 1), f)
  PROVE  /\ st2 \in Seq(T)
         /\ st2 # <<>>
         /\ Len(st2) = Len(st)
         /\ DOMAIN st2 = DOMAIN st
         /\ st2[Len(st)] = f
         /\ \A k \in DOMAIN st : k # Len(st) => st2[k] = st[k]
<1>1. PICK b : b = SubSeq(st, 1, Len(st) - 1)
  OBVIOUS
<1>2. /\ b \in Seq(T)
      /\ Len(b) = Len(st) - 1
      /\ DOMAIN b = DOMAIN st \ {Len(st)}
      /\ \A k \in DOMAIN b : b[k] = st[k]
  BY ZenonT(30), <1>1, PopFacts
<1>3. /\ st2 \in Seq(T)
      /\ Len(st2) = Len(b) + 1
      /\ DOMAIN st2 = DOMAIN b \cup {Len(b) + 1}
      /\ \A o \in DOMAIN b : st2[o] = b[o]
      /\ st2[Len(b) + 1] = f
  BY <1>1, <1>2, Pushed
<1>4. Len(st) \in Nat /\ Len(st) \in DOMAIN st
  BY TopFacts
<1>5. Len(b) + 1 = Len(st)
  BY <1>2, <1>4
<1>6. st2 # <<>>
  BY <1>3, <1>4, <1>5
<1> QED BY <1>2, <1>3, <1>4, <1>5, <1>6

-----------------------------------------------------------------------------
\* save

LEMMA SaveCallType ==
  ASSUME NEW f \in Calls, f.op = "save"
  PROVE  f \in SaveCall
BY DEF Calls, SaveCall, GetCall, FilterCall

\* All calls are of save: there is nothing else to say of them.
LEMMA SaveSession ==
  ASSUME NEW rows, NEW count, NEW h \in Seq(PyObject), NEW st \in Seq(Calls), st # <<>>,
         \A k \in DOMAIN st : st[k].op = "save",
         Wired(h, st[1].base), ObjectsKnown(rows, count, h), SaveCalls(h, st)
  PROVE  SessionOK(rows, count, h, st)
<1>1. 1 \in DOMAIN st /\ st[1].op = "save"
  BY TopFacts
<1>2. Base(h, st) = st[1].base /\ Len(h) = st[1].base
  BY <1>1 DEF Base, SaveCalls
<1>3. Base(h, st) <= Len(h)
  BY <1>2
<1>4. Kinds(st)
  BY <1>1 DEF Kinds
<1>5. GetCalls(rows, count, h, st) /\ FilterCalls(rows, count, h, st)
  BY <1>1 DEF GetCalls, FilterCalls
<1> QED BY <1>2, <1>3, <1>4, <1>5 DEF SessionOK

LEMMA SaveTop ==
  ASSUME NEW h, NEW st \in Seq(Calls), st # <<>>, Kinds(st), st[Len(st)].op = "save"
  PROVE  \A k \in DOMAIN st : st[k].op = "save"
BY TopFacts DEF Kinds

LEMMA SaveInv ==
  ASSUME ORMInv, NEW s \in Sessions, Save(s)
  PROVE  ORMInv'
<1>1. stack[s] = <<>> /\ UNCHANGED <<database, heap, outcome>>
  BY DEF Save, Begin
<1>o. PICK o \in DOMAIN heap[s] :
        \E atomic \in BOOLEAN : Push(s, <<>>, SaveFrame(s, o, atomic))
  BY DEF Save
<1>2. PICK atomic \in BOOLEAN : Push(s, <<>>, SaveFrame(s, o, atomic))
  BY <1>o
<1>3. PICK f : f = SaveFrame(s, o, atomic)
  OBVIOUS
<1>4. /\ heap[s] \in Seq(PyObject)
      /\ Wired(heap[s], Len(heap[s]))
      /\ ObjectsKnown(content, row_count, heap[s])
  BY <1>1, IdleFacts
<1>5. Len(heap[s]) \in Nat /\ o \in Nat
  BY <1>4
<1>6. f \in Calls /\ f.op = "save" /\ f.base = Len(heap[s]) /\ f.object = o
  BY <1>3, <1>5 DEF SaveFrame, Calls, SaveCall
<1>7. PICK st : st = <<f>>
  OBVIOUS
<1>8. /\ st \in Seq(Calls) /\ st # <<>> /\ st[1] = f /\ DOMAIN st = {1}
      /\ stack' = [stack EXCEPT ![s] = st]
  BY <1>2, <1>3, <1>6, <1>7 DEF Push
<1>9. SaveCalls(heap[s], st)
  BY <1>6, <1>8 DEF SaveCalls
<1>10. SessionOK(content, row_count, heap[s], st)
  BY <1>4, <1>6, <1>8, <1>9, SaveSession
<1>11. Base(heap[s], st) = Base(heap[s], stack[s])
  BY <1>1, <1>6, <1>8 DEF Base
<1>12. outcome' = [outcome EXCEPT ![s] = outcome'[s]]
  BY <1>1 DEF ORMInv, ORMTypes
<1> QED BY <1>1, <1>8, <1>10, <1>11, <1>12, StackMoves

\* What there is of a call of save
LEMMA SaveFacts ==
  ASSUME ORMInv, NEW s \in Sessions, stack[s] # <<>>, Top(s).op = "save"
  PROVE  /\ heap[s] \in Seq(PyObject) /\ stack[s] \in Seq(Calls)
         /\ \A k \in DOMAIN stack[s] : stack[s][k].op = "save"
         /\ Len(heap[s]) = stack[s][1].base
         /\ Wired(heap[s], stack[s][1].base)
         /\ ObjectsKnown(content, row_count, heap[s])
         /\ SaveCalls(heap[s], stack[s])
         /\ Top(s) \in SaveCall
         /\ Top(s).object \in DOMAIN heap[s]
<1>1. /\ heap[s] \in Seq(PyObject) /\ stack[s] \in Seq(Calls)
      /\ SessionOK(content, row_count, heap[s], stack[s])
  BY SessionFacts
<1>2. /\ Len(stack[s]) \in DOMAIN stack[s] /\ 1 \in DOMAIN stack[s]
      /\ Top(s) \in Calls /\ Top(s) = stack[s][Len(stack[s])]
  BY <1>1, TopFacts DEF Top
<1>3. \A k \in DOMAIN stack[s] : stack[s][k].op = "save"
  BY <1>1, <1>2, SaveTop DEF SessionOK
<1>4. /\ SaveCalls(heap[s], stack[s]) /\ ObjectsKnown(content, row_count, heap[s])
      /\ Wired(heap[s], stack[s][1].base)
  BY <1>1 DEF SessionOK, Base
<1>5. Len(heap[s]) = stack[s][1].base /\ Top(s).object \in DOMAIN heap[s]
  BY <1>2, <1>3, <1>4 DEF SaveCalls
<1> QED BY <1>1, <1>2, <1>3, <1>4, <1>5, SaveCallType

LEMMA SaveReferenceInv ==
  ASSUME ORMInv, NEW s \in Sessions, SaveReference(s)
  PROVE  ORMInv'
<1> DEFINE h == heap[s]
           old == stack[s]
           n == Len(stack[s])
           f == Top(s)
           T == Unsaved(s, Top(s))
<1>1. /\ stack[s] # <<>> /\ Top(s).op = "save" /\ T # {}
      /\ stack' = [stack EXCEPT ![s] =
           Append(Append(Below(s), [f EXCEPT !.at = Min(T) + 1]),
                  SaveFrame(s, h[f.object].fields[Min(T)], f.atomic))]
      /\ UNCHANGED <<database, heap, outcome>>
  BY DEF SaveReference, Push
<1>2. /\ h \in Seq(PyObject) /\ old \in Seq(Calls)
      /\ \A k \in DOMAIN old : old[k].op = "save"
      /\ Len(h) = old[1].base
      /\ Wired(h, old[1].base)
      /\ ObjectsKnown(content, row_count, h)
      /\ SaveCalls(h, old)
      /\ f \in SaveCall
      /\ f.object \in DOMAIN h
  BY <1>1, SaveFacts
<1>3. n \in Nat /\ n >= 1 /\ n \in DOMAIN old /\ 1 \in DOMAIN old /\ f = old[n]
      /\ DOMAIN old = 1..n
  BY <1>1, <1>2, TopFacts DEF Top
<1>4. PICK obj \in PyObject : obj = h[f.object]
  BY <1>2
<1>5. PICK i \in Foreigns(obj.table) : i = Min(T) /\ i \in Nat /\ obj.fields[i] # 0
                                       /\ h[obj.fields[i]].pk = 0
  <2>1. obj.table \in TableIds
    BY DEF PyObject
  <2>2. T \in SUBSET Nat
    BY <1>4, <2>1, SchemaFacts DEF Unsaved
  <2>3. Min(T) \in T
    BY <1>1, <2>2, MinIn
  <2> QED BY <1>4, <2>2, <2>3 DEF Unsaved
<1>6. PICK o : o = obj.fields[i]
  OBVIOUS
<1>7. /\ o \in DOMAIN h /\ h[o].table = Schema[obj.table][i].c_ref /\ h[o].pk = 0
      /\ h[o].table < obj.table
      /\ obj.table \in Nat /\ h[o].table \in Nat
  <2>1. FieldsOK(h, obj)
    BY <1>2, <1>4, WiredFields
  <2>2. obj.table \in TableIds
    BY DEF PyObject
  <2>3. o \in DOMAIN h /\ h[o].table = Schema[obj.table][i].c_ref
    BY <1>5, <1>6, <2>1 DEF FieldsOK, IsObject
  <2>4. h[o].table \in TableIds /\ h[o].table < obj.table
    BY <2>2, <2>3, SchemaFacts
  <2> QED BY <1>5, <1>6, <2>2, <2>3, <2>4, SchemaFacts
<1>8. PICK f2 : f2 = [f EXCEPT !.at = i + 1]
  OBVIOUS
<1>9. f2 \in Calls /\ f2.op = "save" /\ f2.object = f.object /\ f2.base = f.base
  BY <1>2, <1>5, <1>8 DEF SaveCall, Calls
<1>10. PICK g : g = SaveFrame(s, o, f.atomic)
  OBVIOUS
<1>11. g \in Calls /\ g.op = "save" /\ g.object = o
  <2>1. Len(h) \in Nat /\ o \in Nat
    BY <1>2, <1>7
  <2>2. f.atomic \in BOOLEAN
    BY <1>2 DEF SaveCall
  <2> QED BY <1>10, <2>1, <2>2 DEF SaveFrame, Calls, SaveCall
<1>12. PICK st1 : st1 = Append(Below(s), f2)
  OBVIOUS
<1>13. /\ st1 \in Seq(Calls) /\ st1 # <<>> /\ Len(st1) = n
       /\ DOMAIN st1 = DOMAIN old
       /\ st1[n] = f2
       /\ \A k \in DOMAIN old : k # n => st1[k] = old[k]
  BY SMTT(30), <1>1, <1>2, <1>9, <1>12, ReplaceTop DEF Below
<1>14. \A k \in DOMAIN old :
         /\ st1[k].op = "save" /\ st1[k].object = old[k].object
         /\ st1[k].base = old[k].base
  BY <1>2, <1>3, <1>9, <1>13
<1>15. PICK st : st = Append(st1, g)
  OBVIOUS
<1>16. /\ st \in Seq(Calls)
       /\ DOMAIN st = DOMAIN old \cup {n + 1}
       /\ \A k \in DOMAIN old : st[k] = st1[k]
       /\ st[n + 1] = g
       /\ Len(st) = n + 1
  BY <1>11, <1>13, <1>15, Pushed
<1>17. /\ st # <<>>
       /\ \A k \in DOMAIN old : /\ st[k].op = "save" /\ st[k].object = old[k].object
                                /\ st[k].base = old[k].base
       /\ \A k \in DOMAIN st : st[k].op = "save"
       /\ st[1].base = old[1].base
  <2>1. st # <<>>
    BY <1>11, <1>13, <1>15, Pushed
  <2>2. \A k \in DOMAIN old : /\ st[k].op = "save" /\ st[k].object = old[k].object
                              /\ st[k].base = old[k].base
    BY <1>14, <1>16
  <2>3. \A k \in DOMAIN st : st[k].op = "save"
    BY <2>2, <1>11, <1>16
  <2> QED BY <1>3, <2>1, <2>2, <2>3
<1>18. SaveCalls(h, st)
  <2>1. ASSUME NEW k \in DOMAIN old
        PROVE  /\ old[k].object \in DOMAIN h
               /\ k > 1 => h[old[k].object].pk = 0
               /\ \A j \in 1..(k - 1) : h[old[k].object].table < h[old[j].object].table
    BY <1>1, <1>2, <1>3 DEF SaveCalls
  <2>2. ASSUME NEW k \in DOMAIN old
        PROVE  /\ st[k].object \in DOMAIN h
               /\ k > 1 => h[st[k].object].pk = 0
               /\ \A j \in 1..(k - 1) : h[st[k].object].table < h[st[j].object].table
    <3>1. 1..(k - 1) \subseteq DOMAIN old
      BY <1>3
    <3> QED BY <2>1, <3>1, <1>17
  <2>3. ASSUME NEW j \in 1..n
        PROVE  h[o].table < h[st[j].object].table
    <3>1. j \in DOMAIN old /\ st[j].object = old[j].object
      BY <1>3, <1>17
    <3>2. CASE j = n
      BY <1>3, <1>4, <1>7, <3>1, <3>2
    <3>3. CASE j # n
      <4>1. h[old[n].object].table < h[old[j].object].table
        BY <1>3, <2>1, <3>3
      <4>2. h[old[j].object] \in PyObject
        BY <1>2, <2>1, <3>1
      <4>3. h[old[j].object].table \in Nat
        BY <4>2, SchemaFacts DEF PyObject
      <4>4. h[o].table < h[old[n].object].table /\ h[old[n].object].table \in Nat
        BY <1>3, <1>4, <1>7
      <4> QED BY <1>7, <3>1, <4>1, <4>3, <4>4
    <3> QED BY <3>2, <3>3
  <2>4. st[n + 1].object \in DOMAIN h /\ h[st[n + 1].object].pk = 0 /\ (n + 1) - 1 = n
        /\ h[st[n + 1].object].table = h[o].table
    BY <1>3, <1>7, <1>11, <1>16
  <2>5. \A k \in DOMAIN st :
          /\ st[k].object \in DOMAIN h
          /\ k > 1 => h[st[k].object].pk = 0
          /\ \A j \in 1..(k - 1) : h[st[k].object].table < h[st[j].object].table
    BY <1>16, <2>2, <2>3, <2>4
  <2> QED BY <1>2, <1>17, <2>5 DEF SaveCalls
<1>19. SessionOK(content, row_count, h, st)
  BY <1>2, <1>16, <1>17, <1>18, SaveSession
<1>20. Base(h, st) = Base(h, old)
  BY <1>1, <1>17 DEF Base
<1>21. stack' = [stack EXCEPT ![s] = st]
  BY <1>1, <1>4, <1>5, <1>6, <1>8, <1>10, <1>12, <1>15
<1>22. outcome' = [outcome EXCEPT ![s] = outcome'[s]]
  BY <1>1 DEF ORMInv, ORMTypes
<1> QED BY <1>1, <1>16, <1>19, <1>20, <1>21, <1>22, StackMoves

-----------------------------------------------------------------------------
\* The values that save sends

LEMMA FormatValues ==
  ASSUME NEW s, heap[s] \in Seq(PyObject), NEW n, Wired(heap[s], n), NEW o \in DOMAIN heap[s]
  PROVE  format(s, o) \in Seq(Value)
<1>1. PICK obj \in PyObject : obj = heap[s][o]
  OBVIOUS
<1>2. obj.fields \in Seq(Int)
  BY DEF PyObject
<1>3. FieldsOK(heap[s], obj)
  BY <1>1, WiredFields
<1>4. None \in Value /\ \A v \in Int : Py(v) \in Value
  BY DEF None, Py, Value, NULL, INTEGER, FOREIGN
<1>5. PICK values : values = format(s, o)
  OBVIOUS
<1>6. values = [i \in DOMAIN obj.fields |->
                  IF i \notin Foreigns(obj.table) THEN Py(obj.fields[i])
                  ELSE IF obj.fields[i] = 0 \/ heap[s][obj.fields[i]].pk = 0 THEN None
                  ELSE Py(heap[s][obj.fields[i]].pk)]
  BY <1>1, <1>5 DEF format
<1>7. ASSUME NEW i \in DOMAIN obj.fields
      PROVE  values[i] \in Value
  <2>1. CASE i \notin Foreigns(obj.table)
    BY <1>2, <1>4, <1>6, <2>1
  <2>2. CASE i \in Foreigns(obj.table)
    <3>1. CASE obj.fields[i] = 0
      BY <1>4, <1>6, <2>2, <3>1
    <3>2. CASE obj.fields[i] # 0
      <4>1. heap[s][obj.fields[i]] \in PyObject
        BY <1>3, <2>2, <3>2 DEF FieldsOK, IsObject
      <4>2. \A ref \in PyObject : ref.pk \in Int
        BY DEF PyObject
      <4> QED BY <1>4, <1>6, <2>2, <4>1, <4>2
    <3> QED BY <3>1, <3>2
  <2> QED BY <2>1, <2>2
<1>8. PICK m \in Nat : m = Len(obj.fields) /\ DOMAIN obj.fields = 1..m
  BY <1>2
<1>9. values = [i \in 1..m |-> values[i]]
  BY <1>6, <1>8
<1>10. values \in [1..m -> Value]
  BY <1>7, <1>8, <1>9
<1>11. values \in Seq(Value)
  BY <1>10
<1> QED BY <1>5, <1>11

LEMMA RowStructFits ==
  ASSUME NEW t, NEW values \in Seq(Value), check_values(t, values)
  PROVE  /\ t \in TableIds
         /\ rowStruct(t, values) \in Seq(Value)
         /\ Fits(t, rowStruct(t, values))
<1>1. t \in TableIds /\ Len(values) = Len(Schema[t])
  BY DEF check_values
<1>2. Schema[t] \in Seq(Column)
  BY <1>1, SchemaAssumption DEF TableIds
<1>3. PICK m \in Nat : m = Len(values) /\ DOMAIN values = 1..m /\ DOMAIN Schema[t] = 1..m
  BY <1>1, <1>2
<1>4. PICK row : row = rowStruct(t, values)
  OBVIOUS
<1>5. row = [i \in 1..m |-> [type |-> Schema[t][i].c_type, val |-> values[i].val]]
  BY <1>3, <1>4 DEF rowStruct
<1>6. ASSUME NEW i \in 1..m
      PROVE  [type |-> Schema[t][i].c_type, val |-> values[i].val] \in Value
  <2>1. values[i] \in Value
    BY <1>3
  <2>2. Schema[t][i].c_type \in NULL..FOREIGN
    BY <1>1, <1>3, SchemaFacts DEF INTEGER, FLOAT, TEXT, FOREIGN, NULL
  <2> QED BY <2>1, <2>2 DEF Value
<1>7. row \in [1..m -> Value]
  BY <1>5, <1>6
<1>8. row \in Seq(Value) /\ Len(row) = m
  BY <1>7
<1>9. \A i \in DOMAIN row : row[i].type = Schema[t][i].c_type
  BY <1>5
<1> QED BY <1>1, <1>3, <1>4, <1>8, <1>9 DEF Fits

LEMMA PutFacts ==
  ASSUME NEW rows, rows = [u \in TableIds |-> rows[u]],
         NEW t \in TableIds, NEW id, NEW row, NEW rows2, rows2 = Put(rows, t, id, row)
  PROVE  /\ id \in DOMAIN rows2[t] /\ rows2[t][id] = row
         /\ \A u \in TableIds : \A p \in DOMAIN rows2[u] :
              \/ u = t /\ p = id
              \/ p \in DOMAIN rows[u] /\ rows2[u][p] = rows[u][p]
         /\ \A u \in TableIds : DOMAIN rows[u] \subseteq DOMAIN rows2[u]
<1>1. rows2[t] = [o \in DOMAIN rows[t] \cup {id} |-> IF o = id THEN row ELSE rows[t][o]]
  BY DEF Put
<1>2. \A u \in TableIds : u # t => rows2[u] = rows[u]
  BY DEF Put
<1> QED BY <1>1, <1>2

-----------------------------------------------------------------------------
\* The row that save writes

\* The row id of t is the only one that is changed, and obj is up to date with it.
Wrote(t, id, obj) ==
  /\ id \in DOMAIN content'[t]
  /\ Known(content', row_count', t, id, obj.version, obj.seen)
  /\ Knows(obj, t, id, content'[t][id])
  /\ \A u \in TableIds : \A p \in DOMAIN content'[u] :
       \/ u = t /\ p = id
       \/ p \in DOMAIN content[u] /\ content'[u][p] = content[u][p]
  /\ \A u \in TableIds : DOMAIN content[u] \subseteq DOMAIN content'[u]

LEMMA WrittenType ==
  ASSUME NEW obj \in PyObject, NEW response, NEW values \in Seq(Value),
         response.kind = "Insert" => response.id \in Nat,
         response.kind # "Error" => response.version \in Nat,
         NEW obj2, obj2 = Written(obj, response, values)
  PROVE  /\ obj2 \in PyObject
         /\ obj2.table = obj.table /\ obj2.fields = obj.fields
         /\ obj2.pk = (IF response.kind = "Insert" THEN response.id ELSE obj.pk)
         /\ obj2.version = (IF response.kind = "Error" THEN 0 ELSE response.version)
         /\ obj2.seen = values
<1>1. obj2 = [table |-> obj.table,
              pk |-> IF response.kind = "Insert" THEN response.id ELSE obj.pk,
              version |-> IF response.kind = "Error" THEN 0 ELSE response.version,
              fields |-> obj.fields, seen |-> values]
  BY DEF Written, PyObject
<1> QED BY <1>1 DEF PyObject

LEMMA InsertWrote ==
  ASSUME TablesOK(content, row_count), TablesOK(content', row_count'),
         NEW t \in TableIds, NEW values \in Seq(Value), Inserts(t, values),
         NEW obj \in PyObject, obj.table = t,
         NEW obj2, obj2 = Written(obj, call'.response, values)
  PROVE  /\ obj2 \in PyObject /\ obj2.table = t /\ obj2.fields = obj.fields
         /\ row_count[t] + 1 \in Nat \ {0}
         /\ Wrote(t, row_count[t] + 1, obj2)
<1>1. PICK id \in Nat \ {0} : id = row_count[t] + 1
  BY DEF TablesOK
<1>2. /\ call'.response = Inserted(id, 1)
      /\ row_count'[t] = id
      /\ content' = Put(content, t, id, [version |-> 1, row_values |-> values])
      /\ content = [u \in TableIds |-> content[u]]
  BY <1>1 DEF Inserts, TablesOK
<1>3. PICK response : response = call'.response
  OBVIOUS
<1>4. response.kind = "Insert" /\ response.id = id /\ response.version = 1
  BY <1>2, <1>3 DEF Inserted
<1>5. /\ obj2 \in PyObject /\ obj2.table = t /\ obj2.fields = obj.fields
      /\ obj2.pk = id /\ obj2.version = 1 /\ obj2.seen = values
  BY <1>3, <1>4, WrittenType
<1>6. /\ id \in DOMAIN content'[t]
      /\ content'[t][id] = [version |-> 1, row_values |-> values]
      /\ \A u \in TableIds : \A p \in DOMAIN content'[u] :
           \/ u = t /\ p = id
           \/ p \in DOMAIN content[u] /\ content'[u][p] = content[u][p]
      /\ \A u \in TableIds : DOMAIN content[u] \subseteq DOMAIN content'[u]
  BY <1>2, PutFacts
<1>7. Known(content', row_count', t, id, 1, values)
  BY <1>1, <1>2, <1>6 DEF Known
<1> QED BY <1>1, <1>5, <1>6, <1>7 DEF Wrote, Knows

LEMMA UpdateWrote ==
  ASSUME TablesOK(content, row_count), TablesOK(content', row_count'),
         NEW t \in TableIds, NEW values \in Seq(Value), NEW id, NEW version,
         Updates(t, id, values, version),
         NEW obj \in PyObject, obj.table = t, obj.pk = id,
         NEW obj2, obj2 = Written(obj, call'.response, values)
  PROVE  /\ obj2 \in PyObject /\ obj2.table = t /\ obj2.fields = obj.fields
         /\ Wrote(t, id, obj2)
<1>1. id \in DOMAIN content[t]
  BY DEF Updates
<1>2. PICK v \in Nat \ {0} : v = content[t][id].version + 1
  BY <1>1 DEF TablesOK, Row
<1>3. /\ call'.response = Updated(v)
      /\ row_count' = row_count
      /\ content' = Put(content, t, id, [version |-> v, row_values |-> values])
      /\ content = [u \in TableIds |-> content[u]]
      /\ id \in 1..row_count[t]
  BY <1>1, <1>2 DEF Updates, TablesOK
<1>4. PICK response : response = call'.response
  OBVIOUS
<1>5. response.kind = "Update" /\ response.version = v
  BY <1>3, <1>4 DEF Updated
<1>6. /\ obj2 \in PyObject /\ obj2.table = t /\ obj2.fields = obj.fields
      /\ obj2.pk = id /\ obj2.version = v /\ obj2.seen = values
  BY <1>4, <1>5, WrittenType
<1>7. /\ id \in DOMAIN content'[t]
      /\ content'[t][id] = [version |-> v, row_values |-> values]
      /\ \A u \in TableIds : \A p \in DOMAIN content'[u] :
           \/ u = t /\ p = id
           \/ p \in DOMAIN content[u] /\ content'[u][p] = content[u][p]
      /\ \A u \in TableIds : DOMAIN content[u] \subseteq DOMAIN content'[u]
  BY <1>3, PutFacts
<1>8. Known(content', row_count', t, id, v, values)
  BY <1>2, <1>3, <1>7 DEF Known
<1> QED BY <1>6, <1>7, <1>8 DEF Wrote, Knows

\* What save does once the references have rows: refused, with an exception, or written.
SaveRefused(s) ==
  /\ UNCHANGED <<content, row_count>>
  /\ outcome'[s] # "nothing"
  /\ \E exception : Raise(s, exception)

SaveDone(s) ==
  LET obj == heap[s][Top(s).object] IN
  \E id \in Nat \ {0} : \E obj2 \in PyObject :
    /\ Served
    /\ obj2.table = obj.table /\ obj2.fields = obj.fields
    /\ Wrote(obj.table, id, obj2)
    /\ obj.pk # 0 => /\ obj.pk = id /\ id \in DOMAIN content[obj.table]
                     /\ Matches(content[obj.table][id], SentVersion(Top(s), obj))
    /\ obj.pk = 0 => id = row_count[obj.table] + 1
    /\ heap' = [heap EXCEPT ![s] = [heap[s] EXCEPT ![Top(s).object] = obj2]]
    /\ stack' = [stack EXCEPT ![s] = Below(s)]
    /\ outcome' = [outcome EXCEPT ![s] = "nothing"]

\* No exception means that the row was written.
LEMMA RefusedRaises ==
  ASSUME NEW command, NEW response,
         \E code \in {BAD_FOREIGN, NOT_FOUND, TXN_ABORT} : response = Error(code)
  PROVE  raises(command, response) # "nothing"
<1>1. PICK code \in {BAD_FOREIGN, NOT_FOUND, TXN_ABORT} : response = Error(code)
  OBVIOUS
<1>2. response.kind = "Error" /\ response.code = code
  BY <1>1 DEF Error
<1>3. errorCheck(code) # "nothing"
  BY <1>1 DEF errorCheck, BAD_FOREIGN, BAD_QUERY, TXN_ABORT, NOT_FOUND
<1> QED BY <1>2, <1>3 DEF raises

LEMMA WrittenRaisesNothing ==
  ASSUME NEW command, NEW response, response.kind # "Error"
  PROVE  raises(command, response) = "nothing"
BY DEF raises

LEMMA RowServed ==
  ASSUME TablesOK(content, row_count), NEW f, NEW obj \in PyObject,
         NEW values \in Seq(Value), check_values(obj.table, values),
         NEW req, req = save_request(f, obj, values), handle_request(req)
  PROVE  /\ req.values \in Seq(Value)
         /\ \/ /\ UNCHANGED <<content, row_count>>
               /\ raises(req.command, call'.response) # "nothing"
            \/ /\ Served
               /\ raises(req.command, call'.response) = "nothing"
               /\ obj.pk = 0 => Inserts(obj.table, req.values)
               /\ obj.pk # 0 => Updates(obj.table, obj.pk, req.values, SentVersion(f, obj))
<1>1. /\ obj.table \in TableIds
      /\ rowStruct(obj.table, values) \in Seq(Value)
      /\ Fits(obj.table, rowStruct(obj.table, values))
  BY RowStructFits
<1>2. /\ req.values = rowStruct(obj.table, values)
      /\ req.table_id = obj.table
      /\ obj.pk = 0 => req.command = "Insert"
      /\ obj.pk # 0 => /\ req.command = "Update" /\ req.object_id = obj.pk
                       /\ req.version = SentVersion(f, obj)
  BY DEF save_request, InsertRequest, UpdateRequest
<1>3. RowRequest(req)
  BY <1>1, <1>2 DEF RowRequest
<1>4. PICK response : response = call'.response
  OBVIOUS
<1>5. \/ /\ UNCHANGED <<content, row_count>>
         /\ raises(req.command, response) # "nothing"
      \/ /\ Served
         /\ raises(req.command, response) = "nothing"
         /\ obj.pk = 0 => Inserts(obj.table, req.values)
         /\ obj.pk # 0 => Updates(obj.table, obj.pk, req.values, SentVersion(f, obj))
  <2>1. CASE obj.pk = 0
    <3>1. Served /\ (Refused({BAD_FOREIGN}) \/ Inserts(obj.table, req.values))
      BY <1>2, <1>3, <2>1, InsertServed
    <3>2. CASE Refused({BAD_FOREIGN})
      <4>1. /\ UNCHANGED <<content, row_count>>
            /\ \E code \in {BAD_FOREIGN} : response = Error(code)
        BY <1>4, <3>2 DEF Refused
      <4>2. \E code \in {BAD_FOREIGN, NOT_FOUND, TXN_ABORT} : response = Error(code)
        BY <4>1
      <4> QED BY <4>1, <4>2, RefusedRaises
    <3>3. CASE Inserts(obj.table, req.values)
      <4>1. response.kind = "Insert"
        BY <1>4, <3>3 DEF Inserts, Inserted
      <4> QED BY <2>1, <3>1, <3>3, <4>1, WrittenRaisesNothing
    <3> QED BY <3>1, <3>2, <3>3
  <2>2. CASE obj.pk # 0
    <3>1. /\ Served
          /\ \/ Refused({BAD_FOREIGN, NOT_FOUND, TXN_ABORT})
             \/ Updates(obj.table, obj.pk, req.values, SentVersion(f, obj))
      BY <1>2, <1>3, <2>2, UpdateServed
    <3>2. CASE Refused({BAD_FOREIGN, NOT_FOUND, TXN_ABORT})
      <4>1. /\ UNCHANGED <<content, row_count>>
            /\ \E code \in {BAD_FOREIGN, NOT_FOUND, TXN_ABORT} : response = Error(code)
        BY <1>4, <3>2 DEF Refused
      <4> QED BY <4>1, RefusedRaises
    <3>3. CASE Updates(obj.table, obj.pk, req.values, SentVersion(f, obj))
      <4>1. response.kind = "Update"
        BY <1>4, <3>3 DEF Updates, Updated
      <4> QED BY <2>2, <3>1, <3>3, <4>1, WrittenRaisesNothing
    <3> QED BY <3>1, <3>2, <3>3
  <2> QED BY <2>1, <2>2
<1> QED BY <1>1, <1>2, <1>4, <1>5

LEMMA SaveRowCases ==
  ASSUME ORMInv, NEW s \in Sessions, SaveRow(s)
  PROVE  SaveRefused(s) \/ SaveDone(s)
<1> DEFINE h == heap[s]
           f == Top(s)
<1>1. stack[s] # <<>> /\ Top(s).op = "save" /\ Unsaved(s, Top(s)) = {}
  BY DEF SaveRow
<1>2. /\ h \in Seq(PyObject)
      /\ Wired(h, stack[s][1].base)
      /\ f.object \in DOMAIN h
  BY <1>1, SaveFacts
<1>3. PICK obj \in PyObject : obj = h[f.object]
  BY <1>2
<1>4. PICK values \in Seq(Value) : values = format(s, f.object)
  BY <1>2, FormatValues
<1>5. PICK req : req = save_request(f, obj, values)
  OBVIOUS
<1>6. \/ Raise(s, "PacketError") /\ UNCHANGED database
      \/ /\ check_values(obj.table, values)
         /\ handle_request(req)
         /\ raises(req.command, call'.response) # "nothing"
         /\ Raise(s, raises(req.command, call'.response))
      \/ /\ check_values(obj.table, values)
         /\ handle_request(req)
         /\ raises(req.command, call'.response) = "nothing"
         /\ heap' = [heap EXCEPT ![s][f.object] = Written(obj, call'.response, req.values)]
         /\ stack' = [stack EXCEPT ![s] = Below(s)]
         /\ outcome' = [outcome EXCEPT ![s] = "nothing"]
  BY <1>3, <1>4, <1>5 DEF SaveRow
<1>7. ASSUME NEW exception, Raise(s, exception)
      PROVE  outcome'[s] = exception
  BY <1>7 DEF Raise, ORMInv, ORMTypes
<1>8. CASE Raise(s, "PacketError") /\ UNCHANGED database
  BY <1>7, <1>8 DEF SaveRefused, database
<1>9. CASE check_values(obj.table, values) /\ handle_request(req)
  <2>1. TablesOK(content, row_count)
    BY SessionFacts
  <2>2. /\ req.values \in Seq(Value)
        /\ \/ /\ UNCHANGED <<content, row_count>>
              /\ raises(req.command, call'.response) # "nothing"
           \/ /\ Served
              /\ raises(req.command, call'.response) = "nothing"
              /\ obj.pk = 0 => Inserts(obj.table, req.values)
              /\ obj.pk # 0 => Updates(obj.table, obj.pk, req.values, SentVersion(f, obj))
    BY <1>5, <1>9, <2>1, RowServed
  <2>3. CASE /\ raises(req.command, call'.response) # "nothing"
             /\ Raise(s, raises(req.command, call'.response))
    BY <1>7, <2>2, <2>3 DEF SaveRefused
  <2>4. CASE /\ raises(req.command, call'.response) = "nothing"
             /\ heap' = [heap EXCEPT ![s][f.object] = Written(obj, call'.response, req.values)]
             /\ stack' = [stack EXCEPT ![s] = Below(s)]
             /\ outcome' = [outcome EXCEPT ![s] = "nothing"]
    <3>1. PICK obj2 : obj2 = Written(obj, call'.response, req.values)
      OBVIOUS
    <3>2. Served /\ TablesOK(content', row_count') /\ obj.table \in TableIds
      BY <2>2, <2>4 DEF Served, PyObject
    <3>3. heap' = [heap EXCEPT ![s] = [heap[s] EXCEPT ![f.object] = obj2]]
      BY <2>4, <3>1
    <3>4. CASE obj.pk = 0
      <4>1. Inserts(obj.table, req.values)
        BY <2>2, <2>4, <3>4
      <4>2. PICK id : id = row_count[obj.table] + 1
        OBVIOUS
      <4>3. /\ obj2 \in PyObject /\ obj2.table = obj.table /\ obj2.fields = obj.fields
            /\ id \in Nat \ {0} /\ Wrote(obj.table, id, obj2)
        BY <2>1, <2>2, <3>1, <3>2, <4>1, <4>2, InsertWrote
      <4> QED BY <1>3, <2>4, <3>2, <3>3, <3>4, <4>2, <4>3 DEF SaveDone
    <3>5. CASE obj.pk # 0
      <4>1. Updates(obj.table, obj.pk, req.values, SentVersion(f, obj))
        BY <2>2, <2>4, <3>5
      <4>2. /\ obj2 \in PyObject /\ obj2.table = obj.table /\ obj2.fields = obj.fields
            /\ Wrote(obj.table, obj.pk, obj2)
        BY <2>1, <2>2, <3>1, <3>2, <4>1, UpdateWrote
      <4>3. /\ obj.pk \in DOMAIN content[obj.table]
            /\ Matches(content[obj.table][obj.pk], SentVersion(f, obj))
            /\ obj.pk \in Nat \ {0}
        BY <3>5, <4>1 DEF Updates, PyObject
      <4> QED BY <1>3, <2>4, <3>2, <3>3, <3>5, <4>2, <4>3 DEF SaveDone
    <3> QED BY <3>4, <3>5
  <2> QED BY <1>6, <1>9, <2>3, <2>4, <1>8
<1> QED BY <1>6, <1>8, <1>9

LEMMA RaiseFacts ==
  ASSUME ORMInv, NEW s \in Sessions, stack[s] # <<>>, NEW exception, Raise(s, exception)
  PROVE  /\ heap' = [heap EXCEPT ![s] = Undone(@, stack[s])]
         /\ stack' = [stack EXCEPT ![s] = <<>>]
         /\ outcome' = [outcome EXCEPT ![s] = outcome'[s]]
BY DEF Raise, Undone, Base, ORMInv, ORMTypes

LEMMA SaveRefusedInv ==
  ASSUME ORMInv, NEW s \in Sessions, stack[s] # <<>>, SaveRefused(s)
  PROVE  ORMInv'
<1>1. PICK exception : Raise(s, exception)
  BY DEF SaveRefused
<1>2. UNCHANGED <<content, row_count>>
  BY DEF SaveRefused
<1> QED BY <1>1, <1>2, RaiseFacts, RaiseInv

LEMMA SaveDoneInv ==
  ASSUME ORMInv, NEW s \in Sessions, stack[s] # <<>>, Top(s).op = "save", SaveDone(s)
  PROVE  ORMInv'
<1> DEFINE n == Len(stack[s])
           o == Top(s).object
<1>1. PICK h \in Seq(PyObject), old \in Seq(Calls) : h = heap[s] /\ old = stack[s]
  BY SessionFacts
<1>2. /\ old # <<>>
      /\ \A k \in DOMAIN old : old[k].op = "save"
      /\ Len(h) = old[1].base
      /\ Wired(h, Len(h))
      /\ ObjectsKnown(content, row_count, h)
      /\ SaveCalls(h, old)
      /\ o \in DOMAIN h
  BY <1>1, SaveFacts
<1>3. n \in Nat /\ n >= 1 /\ n \in DOMAIN old /\ 1 \in DOMAIN old /\ o = old[n].object
      /\ DOMAIN old = 1..n
  BY <1>1, <1>2, TopFacts DEF Top
<1>4. PICK obj : obj = h[o]
  OBVIOUS
<1>5. PICK id \in Nat \ {0} : \E obj2 \in PyObject :
        /\ Served
        /\ obj2.table = obj.table /\ obj2.fields = obj.fields
        /\ Wrote(obj.table, id, obj2)
        /\ obj.pk # 0 => obj.pk = id
        /\ heap' = [heap EXCEPT ![s] = [h EXCEPT ![o] = obj2]]
        /\ stack' = [stack EXCEPT ![s] = Below(s)]
        /\ outcome' = [outcome EXCEPT ![s] = "nothing"]
  BY <1>1, <1>4 DEF SaveDone
<1>6. PICK obj2 \in PyObject :
        /\ Served
        /\ obj2.table = obj.table /\ obj2.fields = obj.fields
        /\ Wrote(obj.table, id, obj2)
        /\ obj.pk # 0 => obj.pk = id
        /\ heap' = [heap EXCEPT ![s] = [h EXCEPT ![o] = obj2]]
        /\ stack' = [stack EXCEPT ![s] = Below(s)]
        /\ outcome' = [outcome EXCEPT ![s] = "nothing"]
  BY <1>5
<1>7. PICK h2, st2 : h2 = [h EXCEPT ![o] = obj2] /\ st2 = Below(s)
  OBVIOUS
<1>8. /\ h2 \in Seq(PyObject) /\ Len(h2) = Len(h) /\ DOMAIN h2 = DOMAIN h
      /\ h2[o] = obj2
      /\ \A p \in DOMAIN h : p <= Len(h) /\ (p # o => h2[p] = h[p])
  BY <1>2, <1>7, Replaced
<1>9. /\ st2 \in Seq(Calls) /\ DOMAIN st2 = DOMAIN old \ {n}
      /\ \A k \in DOMAIN st2 : st2[k] = old[k]
  BY <1>1, <1>2, <1>7, PopFacts DEF Below
<1>10. Moves(s, h2, st2)
  <2>1. outcome' = [outcome EXCEPT ![s] = outcome'[s]]
    BY <1>6 DEF ORMInv, ORMTypes
  <2> QED BY <1>6, <1>7, <2>1 DEF Moves
<1>11. Wired(h2, Len(h2))
  <2>1. obj2.table = h[o].table /\ obj2.fields = h[o].fields
    BY <1>4, <1>6
  <2>2. Wired(h2, Len(h))
    BY <1>2, <1>7, <2>1, ReplaceWired
  <2> QED BY <1>8, <2>2
<1>12. ObjectsKnown(content', row_count', h2)
  <2>1. ObjectsKnown(content', row_count', h)
    BY <1>2, <1>6, SessionFacts, ObjectsKnownStay DEF Served
  <2>2. Known(content', row_count', obj2.table, obj2.pk, obj2.version, obj2.seen)
    BY <1>6 DEF Wrote, Knows
  <2> QED BY <1>2, <1>7, <2>1, <2>2, ReplaceKnown
<1>13. /\ SessionOK(content', row_count', h2, st2)
       /\ Base(h2, st2) = Len(h)
  <2>1. CASE st2 = <<>>
    BY <1>8, <1>11, <1>12, <2>1, Idle DEF Base
  <2>2. CASE st2 # <<>>
    <3>1. 1 \in DOMAIN st2 /\ st2[1] = old[1]
      BY <1>9, <2>2, TopFacts
    <3>2. \A k \in DOMAIN st2 : st2[k].op = "save"
      BY <1>2, <1>9
    <3>3. \A p \in DOMAIN h : h2[p].table = h[p].table
      BY <1>4, <1>6, <1>8
    <3>4. SaveCalls(h2, st2)
      <4>1. ASSUME NEW k \in DOMAIN st2
            PROVE  /\ st2[k].object \in DOMAIN h2
                   /\ k > 1 => h2[st2[k].object].pk = 0
                   /\ \A j \in 1..(k - 1) :
                        h2[st2[k].object].table < h2[st2[j].object].table
        <5>1. k \in 1..n /\ k # n /\ st2[k] = old[k]
          BY <1>3, <1>9
        <5>2. /\ old[k].object \in DOMAIN h
              /\ k > 1 => h[old[k].object].pk = 0
              /\ \A j \in 1..(k - 1) : h[old[k].object].table < h[old[j].object].table
          BY <1>2, <1>3, <5>1 DEF SaveCalls
        <5>3. h[o].table < h[old[k].object].table
          <6>1. k \in 1..(n - 1)
            BY <1>3, <5>1
          <6>2. \A j \in 1..(n - 1) : h[old[n].object].table < h[old[j].object].table
            BY <1>2, <1>3 DEF SaveCalls
          <6> QED BY <1>3, <6>1, <6>2
        <5>4. old[k].object # o
          <6>1. h[o] \in PyObject
            BY <1>2
          <6>2. h[o].table \in Nat
            BY <6>1, SchemaFacts DEF PyObject
          <6> QED BY <5>3, <6>2
        <5>5. \A j \in 1..(k - 1) : st2[j] = old[j] /\ old[j].object \in DOMAIN h
          <6>1. \A j \in 1..(k - 1) : j \in DOMAIN st2 /\ j \in DOMAIN old
            BY <1>3, <1>9, <5>1
          <6> QED BY <6>1, <1>2, <1>9 DEF SaveCalls
        <5>6. k \in DOMAIN st2 /\ old[k].object \in DOMAIN h2 /\ h2[old[k].object] = h[old[k].object]
          BY <1>8, <5>2, <5>4
        <5>7. st2[k].object \in DOMAIN h2 /\ (k > 1 => h2[st2[k].object].pk = 0)
          BY ONLY <5>1, <5>2, <5>6
        <5>8. ASSUME NEW j \in 1..(k - 1)
              PROVE  h2[st2[k].object].table < h2[st2[j].object].table
          <6>1. st2[j] = old[j] /\ h2[old[j].object].table = h[old[j].object].table
            BY <3>3, <5>5
          <6>2. h[old[k].object].table < h[old[j].object].table
            BY <5>2
          <6> QED BY ONLY <5>1, <5>6, <6>1, <6>2
        <5> QED BY ONLY <5>7, <5>8
      <4>2. Len(h2) = st2[1].base
        BY <1>2, <1>8, <3>1
      <4> QED BY <4>1, <4>2 DEF SaveCalls
    <3>5. st2[1].base = Len(h2)
      BY <1>2, <1>8, <3>1
    <3> QED BY <1>8, <1>9, <1>11, <1>12, <2>2, <3>2, <3>4, <3>5, SaveSession DEF Base
  <2> QED BY <2>1, <2>2
<1>14. WritersMove(s, h2, st2)
  <2>1. ASSUME NEW u \in TableIds, NEW p \in DOMAIN content'[u], u = obj.table /\ p = id
        PROVE  Remembers(h2, st2, u, p, content'[u][p])
    <3>1. Knows(h2[o], u, p, content'[u][p])
      BY <1>6, <1>8, <2>1 DEF Wrote
    <3>2. o \in DOMAIN h2 /\ o <= Base(h2, st2)
      BY <1>2, <1>8, <1>13
    <3> QED BY <3>1, <3>2 DEF Remembers
  <2>2. ASSUME NEW u \in TableIds, NEW p \in DOMAIN content'[u], ~(u = obj.table /\ p = id)
        PROVE  /\ p \in DOMAIN content[u] /\ content'[u][p] = content[u][p]
               /\ Remembers(heap[s], stack[s], u, p, content[u][p])
                    => Remembers(h2, st2, u, p, content[u][p])
    <3>1. p \in DOMAIN content[u] /\ content'[u][p] = content[u][p]
      BY <1>6, <2>2 DEF Wrote
    <3>2. ASSUME Remembers(heap[s], stack[s], u, p, content[u][p])
          PROVE  Remembers(h2, st2, u, p, content[u][p])
      <4>1. PICK q \in DOMAIN h : Knows(h[q], u, p, content[u][p])
        BY <1>1, <3>2 DEF Remembers
      <4>2. p # 0
        <5>1. DOMAIN content[u] \subseteq 1..row_count[u]
          BY SessionFacts DEF TablesOK
        <5> QED BY <3>1, <5>1
      <4>3. q # o
        BY <1>4, <1>6, <2>2, <4>1, <4>2 DEF Knows
      <4>4. h2[q] = h[q] /\ q \in DOMAIN h2 /\ q <= Base(h2, st2)
        BY <1>8, <1>13, <4>3
      <4> QED BY <4>1, <4>4 DEF Remembers
    <3> QED BY <3>1, <3>2
  <2> QED BY <2>1, <2>2 DEF WritersMove
<1> QED BY <1>6, <1>8, <1>9, <1>10, <1>13, <1>14, Assemble

-----------------------------------------------------------------------------
\* get

LEMMA GetCallType ==
  ASSUME NEW f \in Calls, f.op = "get"
  PROVE  f \in GetCall
BY DEF Calls, SaveCall, GetCall, FilterCall

LEMMA FilterCallType ==
  ASSUME NEW f \in Calls, f.op = "filter"
  PROVE  f \in FilterCall
BY DEF Calls, SaveCall, GetCall, FilterCall

\* A call of get on top of others
LEMMA GetSession ==
  ASSUME NEW rows, NEW count, NEW h \in Seq(PyObject), NEW st \in Seq(Calls),
         NEW g \in Calls, g.op = "get", GetOK(rows, count, h, g),
         NEW st2, st2 = Append(st, g),
         Base(h, st2) <= Len(h), Wired(h, Base(h, st2)), ObjectsKnown(rows, count, h),
         Kinds(st), GetCalls(rows, count, h, st),
         st # <<>> => st[1].op # "save" /\ CallsFor(st[Len(st)], g.table),
         FilterCalls(rows, count, h, st2)
  PROVE  SessionOK(rows, count, h, st2)
<1>1. /\ st2 # <<>>
      /\ DOMAIN st2 = DOMAIN st \cup {Len(st) + 1}
      /\ \A k \in DOMAIN st : k <= Len(st) /\ st2[k] = st[k]
      /\ st2[Len(st) + 1] = g
      /\ Len(st) \in Nat /\ DOMAIN st = 1..Len(st)
  BY Pushed
<1>2. st2[1].op # "save"
  <2>1. CASE st = <<>>
    <3>1. Len(st) + 1 = 1
      BY <2>1
    <3> QED BY <1>1, <3>1
  <2>2. CASE st # <<>>
    BY <1>1, <2>2, TopFacts
  <2> QED BY <2>1, <2>2
<1>3. \A k \in DOMAIN st : /\ st[k].op # "save"
                           /\ st[k].op = "filter" => k = 1
  <2>1. st # <<>> => st[1].op # "save"
    OBVIOUS
  <2>2. \A k \in DOMAIN st : st # <<>>
    OBVIOUS
  <2> QED BY <2>1, <2>2 DEF Kinds
<1>4. Kinds(st2)
  BY <1>1, <1>2, <1>3 DEF Kinds
<1>5. SaveCalls(h, st2)
  BY <1>2 DEF SaveCalls
<1>6. ASSUME NEW k \in DOMAIN st2, st2[k].op = "get"
      PROVE  /\ GetOK(rows, count, h, st2[k])
             /\ k > 1 => CallsFor(st2[k - 1], st2[k].table)
  <2>1. CASE k \in DOMAIN st
    <3>1. /\ st2[k] = st[k] /\ GetOK(rows, count, h, st[k])
          /\ k > 1 => CallsFor(st[k - 1], st[k].table)
      BY <1>1, <1>6, <2>1 DEF GetCalls
    <3>2. k > 1 => k - 1 \in DOMAIN st
      BY <1>1, <2>1
    <3> QED BY <1>1, <3>1, <3>2
  <2>2. CASE k = Len(st) + 1
    <3>1. st2[k] = g
      BY <1>1, <2>2
    <3>2. ASSUME k > 1
          PROVE  CallsFor(st2[k - 1], g.table)
      <4>1. Len(st) \in DOMAIN st /\ k - 1 = Len(st)
        BY <1>1, <2>2, <3>2
      <4>2. st # <<>>
        BY <4>1
      <4> QED BY <1>1, <4>1, <4>2
    <3> QED BY <3>1, <3>2
  <2> QED BY <1>1, <2>1, <2>2
<1>7. GetCalls(rows, count, h, st2)
  BY <1>6 DEF GetCalls
<1> QED BY <1>4, <1>5, <1>7 DEF SessionOK

LEMMA NewGetCall ==
  ASSUME NEW base \in Nat, NEW t \in TableIds, NEW pk \in Nat, NEW version \in Nat,
         NEW values \in Seq(Value), NEW refs \in UNION {[d -> Nat] : d \in SUBSET Nat}
  PROVE  [op |-> "get", base |-> base, table |-> t, pk |-> pk, version |-> version,
          values |-> values, refs |-> refs] \in GetCall
<1> DEFINE R == UNION {[d -> Nat] : d \in SUBSET Nat}
<1> HIDE DEF R
<1>1. refs \in R
  BY DEF R
<1>2. GetCall = [op : {"get"}, base : Nat, table : TableIds, pk : Nat, version : Nat,
                 values : Seq(Value), refs : R]
  BY DEF GetCall, R
<1> QED BY <1>1, <1>2

\* The frame of a call that has read a row that is there
LEMMA GetFrameOK ==
  ASSUME NEW rows, NEW count, TablesOK(rows, count), NEW h \in Seq(PyObject),
         NEW t \in TableIds, NEW pk \in DOMAIN rows[t],
         NEW g, g = [op |-> "get", base |-> Len(h), table |-> t, pk |-> pk,
                     version |-> rows[t][pk].version, values |-> rows[t][pk].row_values,
                     refs |-> [i \in {} |-> 0]]
  PROVE  g \in Calls /\ GetOK(rows, count, h, g)
<1>1. /\ pk \in 1..count[t] /\ count[t] \in Nat
      /\ rows[t][pk] \in Row
      /\ Fits(t, rows[t][pk].row_values)
  BY DEF TablesOK
<1>2. rows[t][pk].version \in Nat \ {0} /\ rows[t][pk].row_values \in Seq(Value)
  BY <1>1 DEF Row
<1>3. Known(rows, count, t, pk, rows[t][pk].version, rows[t][pk].row_values)
  BY <1>1, <1>2 DEF Known
<1>4. g.refs \in [{} -> Nat] /\ DOMAIN g.refs = {}
  OBVIOUS
<1>5. g.refs \in UNION {[d -> Nat] : d \in SUBSET Nat}
  BY <1>4
<1>6. g \in GetCall
  <2>1. Len(h) \in Nat /\ pk \in Nat
    BY <1>1
  <2>2. PICK refs : refs = [i \in {} |-> 0]
    OBVIOUS
  <2>3. refs \in UNION {[d -> Nat] : d \in SUBSET Nat}
    BY <1>5, <2>2
  <2> QED BY <1>2, <2>1, <2>2, <2>3, NewGetCall
<1>7. GetOK(rows, count, h, g)
  BY <1>1, <1>3, <1>4 DEF GetOK
<1> QED BY <1>6, <1>7 DEF Calls

LEMMA RequestRow ==
  ASSUME ORMInv, NEW s \in Sessions, NEW frames \in Seq(Calls),
         NEW t \in TableIds, NEW pk, Request_row(s, frames, t, pk),
         Base(heap[s], frames) = Base(heap[s], stack[s]),
         Kinds(frames), GetCalls(content, row_count, heap[s], frames),
         frames # <<>> => frames[1].op # "save" /\ CallsFor(frames[Len(frames)], t),
         \A g \in Calls : g.op = "get" /\ g.pk = pk
           => FilterCalls(content, row_count, heap[s], Append(frames, g))
  PROVE  ORMInv'
<1>1. PICK h \in Seq(PyObject) : h = heap[s]
  BY SessionFacts
<1>2. /\ TablesOK(content, row_count)
      /\ SessionOK(content, row_count, h, stack[s])
  BY <1>1, SessionFacts
<1>3. handle_request(KeyRequest("Get", t, pk))
  BY DEF Request_row
<1>4. /\ UNCHANGED <<content, row_count>>
      /\ \/ call'.response = Error(NOT_FOUND)
         \/ /\ pk \in DOMAIN content[t]
            /\ call'.response = Got(content[t][pk].version, content[t][pk].row_values)
  BY <1>2, <1>3, GetServed
<1>5. CASE /\ call'.response.kind = "Get"
           /\ Push(s, frames, GetFrame(s, t, pk, call'.response))
           /\ UNCHANGED <<heap, outcome>>
  <2>1. /\ pk \in DOMAIN content[t]
        /\ call'.response = Got(content[t][pk].version, content[t][pk].row_values)
    BY <1>4, <1>5 DEF Error
  <2>2. PICK g : g = [op |-> "get", base |-> Len(h), table |-> t, pk |-> pk,
                      version |-> content[t][pk].version,
                      values |-> content[t][pk].row_values, refs |-> [i \in {} |-> 0]]
    OBVIOUS
  <2>3. g \in Calls /\ GetOK(content, row_count, h, g)
    BY <1>2, <2>1, <2>2, GetFrameOK
  <2>4. g.op = "get" /\ g.pk = pk /\ g.table = t /\ g.base = Len(h)
    BY <2>2
  <2>5. stack' = [stack EXCEPT ![s] = Append(frames, g)]
    BY <1>1, <1>5, <2>1, <2>2 DEF Push, GetFrame, Got
  <2>6. PICK st2 : st2 = Append(frames, g)
    OBVIOUS
  <2>7. /\ st2 \in Seq(Calls) /\ st2 # <<>>
        /\ \A k \in DOMAIN frames : st2[k] = frames[k]
        /\ st2[Len(frames) + 1] = g
    BY <2>3, <2>6, Pushed
  <2>8. Base(h, st2) = Base(h, frames)
    <3>1. CASE frames = <<>>
      <4>1. Len(frames) + 1 = 1
        BY <3>1
      <4>2. st2[1].base = Len(h)
        BY <2>4, <2>7, <4>1
      <4> QED BY <2>7, <3>1, <4>2 DEF Base
    <3>2. CASE frames # <<>>
      <4>1. st2[1] = frames[1]
        BY <2>7, <3>2, TopFacts
      <4> QED BY <2>7, <3>2, <4>1 DEF Base
    <3> QED BY <3>1, <3>2
  <2>9. /\ Base(h, st2) <= Len(h) /\ Wired(h, Base(h, st2))
        /\ ObjectsKnown(content, row_count, h)
    BY <1>1, <1>2, <2>8 DEF SessionOK
  <2>10. SessionOK(content, row_count, h, st2)
    <3>1. FilterCalls(content, row_count, h, st2)
      BY <1>1, <2>3, <2>4, <2>6
    <3>2. /\ GetCalls(content, row_count, h, frames)
          /\ frames # <<>> => frames[1].op # "save" /\ CallsFor(frames[Len(frames)], g.table)
      BY <1>1, <2>4
    <3> QED BY <2>3, <2>4, <2>6, <2>9, <3>1, <3>2, GetSession
  <2>11. Moves(s, h, st2)
    BY <1>1, <1>5, <2>5, <2>6 DEF Moves, ORMInv, ORMTypes
  <2>12. RemembersAll(heap[s], stack[s], h, st2)
    BY <1>1, <2>8 DEF RemembersAll, Remembers
  <2>13. WritersMove(s, h, st2)
    BY <1>4, <2>12, FewerRows
  <2>14. Served
    BY <1>2, <1>4, SameTablesServed
  <2> QED BY <1>4, <2>7, <2>10, <2>11, <2>13, <2>14, Assemble
<1>6. CASE /\ stack' = [stack EXCEPT ![s] = <<>>]
           /\ outcome' = [outcome EXCEPT ![s] = raises("Get", call'.response)]
           /\ heap' = [heap EXCEPT ![s] =
                SubSeq(@, 1, IF frames = <<>> THEN Len(@) ELSE frames[1].base)]
  <2>1. heap' = [heap EXCEPT ![s] = Undone(@, stack[s])]
    BY <1>6 DEF Undone, Base
  <2>2. outcome' = [outcome EXCEPT ![s] = outcome'[s]]
    BY <1>6 DEF ORMInv, ORMTypes
  <2> QED BY <1>4, <1>6, <2>1, <2>2, RaiseInv
<1> QED BY <1>5, <1>6 DEF Request_row

LEMMA GetInv ==
  ASSUME ORMInv, NEW s \in Sessions, Get(s)
  PROVE  ORMInv'
<1>1. stack[s] = <<>>
  BY DEF Get, Begin
<1>t. PICK t \in TableIds : \E pk \in 1..MaxId : Request_row(s, <<>>, t, pk)
  BY DEF Get
<1>2. PICK pk : Request_row(s, <<>>, t, pk)
  BY <1>t
<1>3. PICK frames \in Seq(Calls) : frames = <<>>
  <2>1. <<>> \in Seq(Calls)
    OBVIOUS
  <2> QED BY <2>1
<1>4. Kinds(frames) /\ GetCalls(content, row_count, heap[s], frames)
  BY <1>3 DEF Kinds, GetCalls
<1>5. ASSUME NEW g \in Calls, g.op = "get"
      PROVE  FilterCalls(content, row_count, heap[s], Append(frames, g))
  <2>1. Append(frames, g)[1] = g
    BY <1>3
  <2> QED BY <1>5, <2>1 DEF FilterCalls
<1>6. Base(heap[s], frames) = Base(heap[s], stack[s])
  BY <1>1, <1>3
<1> QED BY <1>2, <1>3, <1>4, <1>5, <1>6, RequestRow

\* What there is of a call of get
LEMMA GetFacts ==
  ASSUME ORMInv, NEW s \in Sessions, stack[s] # <<>>, Top(s).op = "get"
  PROVE  /\ heap[s] \in Seq(PyObject) /\ stack[s] \in Seq(Calls)
         /\ Kinds(stack[s]) /\ stack[s][1].op # "save"
         /\ GetCalls(content, row_count, heap[s], stack[s])
         /\ FilterCalls(content, row_count, heap[s], stack[s])
         /\ Top(s) \in GetCall /\ Top(s) = stack[s][Len(stack[s])]
         /\ GetOK(content, row_count, heap[s], Top(s))
<1>1. /\ heap[s] \in Seq(PyObject) /\ stack[s] \in Seq(Calls)
      /\ SessionOK(content, row_count, heap[s], stack[s])
  BY SessionFacts
<1>2. /\ Len(stack[s]) \in DOMAIN stack[s]
      /\ Top(s) \in Calls /\ Top(s) = stack[s][Len(stack[s])]
  BY <1>1, TopFacts DEF Top
<1>3. /\ Kinds(stack[s]) /\ GetCalls(content, row_count, heap[s], stack[s])
      /\ FilterCalls(content, row_count, heap[s], stack[s])
  BY <1>1 DEF SessionOK
<1>4. stack[s][1].op # "save"
  BY <1>2, <1>3 DEF Kinds
<1>5. GetOK(content, row_count, heap[s], Top(s))
  BY <1>2, <1>3 DEF GetCalls
<1> QED BY <1>1, <1>2, <1>3, <1>4, <1>5, GetCallType

\* The next reference of a call of get
LEMMA MissingFacts ==
  ASSUME NEW f \in GetCall, Missing(f) # {}
  PROVE  /\ Min(Missing(f)) \in Foreigns(f.table)
         /\ Min(Missing(f)) \notin DOMAIN f.refs
         /\ Min(Missing(f)) \in Nat
         /\ f.table \in TableIds
         /\ Schema[f.table][Min(Missing(f))].c_ref \in TableIds
<1>1. f.table \in TableIds
  BY DEF GetCall
<1>2. Missing(f) \in SUBSET Nat
  BY <1>1, SchemaFacts DEF Missing
<1>3. Min(Missing(f)) \in Missing(f)
  BY <1>2, MinIn
<1> QED BY <1>1, <1>2, <1>3, SchemaFacts DEF Missing

LEMMA GetReferenceInv ==
  ASSUME ORMInv, NEW s \in Sessions, GetReference(s)
  PROVE  ORMInv'
<1>1. /\ stack[s] # <<>> /\ Top(s).op = "get" /\ Missing(Top(s)) # {}
  BY DEF GetReference
<1>2. PICK t, pk, frames :
        /\ t = Schema[Top(s).table][Min(Missing(Top(s)))].c_ref
        /\ frames = stack[s]
        /\ Request_row(s, frames, t, pk)
  BY DEF GetReference
<1>3. /\ frames \in Seq(Calls) /\ Kinds(frames) /\ frames[1].op # "save"
      /\ GetCalls(content, row_count, heap[s], frames)
      /\ FilterCalls(content, row_count, heap[s], frames)
      /\ Top(s) \in GetCall /\ Top(s) = frames[Len(frames)]
  BY <1>1, <1>2, GetFacts
<1>4. t \in TableIds
  BY <1>1, <1>2, <1>3, MissingFacts
<1>5. CallsFor(frames[Len(frames)], t)
  BY <1>1, <1>2, <1>3 DEF CallsFor
<1>6. ASSUME NEW g \in Calls
      PROVE  FilterCalls(content, row_count, heap[s], Append(frames, g))
  <2>1. PICK st2 : st2 = Append(frames, g)
    OBVIOUS
  <2>2. /\ st2 # <<>> /\ Len(st2) = Len(frames) + 1
        /\ \A k \in DOMAIN frames : st2[k] = frames[k]
        /\ Len(frames) \in Nat /\ Len(frames) >= 1 /\ 1 \in DOMAIN frames
        /\ DOMAIN frames = 1..Len(frames)
    <3>1. frames \in Seq(Calls) /\ frames # <<>>
      BY <1>1, <1>2, <1>3
    <3> QED BY ONLY <2>1, <3>1, g \in Calls, Pushed, TopFacts
  <2>3. st2[1] = frames[1]
    BY <2>2
  <2>4. ASSUME st2[1].op = "filter", Listed(content, heap[s], frames)
        PROVE  Listed(content, heap[s], st2)
    <3>1. frames[1].op # frames[Len(frames)].op
      BY <1>1, <1>3, <2>3, <2>4
    <3>2. Len(frames) # 1
      BY <3>1
    <3>3. Len(frames) > 1 /\ Len(st2) > 1 /\ 2 \in DOMAIN frames
      BY <2>2, <3>2
    <3>4. st2[2] = frames[2]
      BY <2>2, <3>3
    <3> QED BY <2>3, <2>4, <3>3, <3>4 DEF Listed
  <2>5. FilterCalls(content, row_count, heap[s], st2)
    BY <1>1, <1>2, <1>3, <2>3, <2>4 DEF FilterCalls
  <2> QED BY <2>1, <2>5
<1> QED BY <1>2, <1>3, <1>4, <1>5, <1>6, RequestRow

LEMMA ReceiveGet ==
  ASSUME NEW f \in GetCall, Missing(f) # {}, NEW o \in Nat, NEW f2, f2 = Receive(f, o)
  PROVE  /\ f2 \in Calls /\ f2.op = "get" /\ f2.table = f.table /\ f2.base = f.base
         /\ f2.pk = f.pk /\ f2.version = f.version /\ f2.values = f.values
         /\ DOMAIN f2.refs = DOMAIN f.refs \cup {Min(Missing(f))}
         /\ f2.refs[Min(Missing(f))] = o
         /\ \A i \in DOMAIN f.refs : f2.refs[i] = f.refs[i]
<1>1. PICK m \in Nat : m = Min(Missing(f)) /\ m \notin DOMAIN f.refs
  BY MissingFacts
<1>2. PICK refs : refs = [i \in DOMAIN f.refs \cup {m} |->
                            IF i \in DOMAIN f.refs THEN f.refs[i] ELSE o]
  OBVIOUS
<1>3. f.op = "get" /\ f.refs \in UNION {[d -> Nat] : d \in SUBSET Nat}
  BY DEF GetCall
<1>4. PICK d \in SUBSET Nat : f.refs \in [d -> Nat]
  BY <1>3
<1>5. refs \in [d \cup {m} -> Nat] /\ d \cup {m} \in SUBSET Nat
  BY <1>2, <1>4
<1>6. refs \in UNION {[e -> Nat] : e \in SUBSET Nat}
  BY <1>5
<1>7. f2 = [f EXCEPT !.refs = refs]
  BY <1>1, <1>2, <1>3 DEF Receive
<1>8. /\ f.base \in Nat /\ f.table \in TableIds /\ f.pk \in Nat /\ f.version \in Nat
      /\ f.values \in Seq(Value)
      /\ f2 = [op |-> "get", base |-> f.base, table |-> f.table, pk |-> f.pk,
               version |-> f.version, values |-> f.values, refs |-> refs]
  BY <1>7 DEF GetCall
<1>9. f2 \in GetCall
  BY <1>6, <1>8, NewGetCall
<1> QED BY <1>1, <1>2, <1>8, <1>9 DEF Calls

LEMMA ReceiveFilter ==
  ASSUME NEW f \in FilterCall, NEW o \in Nat, NEW f2, f2 = Receive(f, o)
  PROVE  /\ f2 \in Calls /\ f2.op = "filter" /\ f2.table = f.table /\ f2.base = f.base
         /\ f2.conditions = f.conditions /\ f2.last = f.last /\ f2.left = f.left
         /\ f2.given = f.given /\ f2.result = f.result \cup {o}
<1>1. f.op = "filter"
  BY DEF FilterCall
<1>2. f2 = [f EXCEPT !.result = f.result \cup {o}]
  BY <1>1 DEF Receive
<1>3. f2 = [op |-> "filter", base |-> f.base, table |-> f.table,
            conditions |-> f.conditions, last |-> f.last, left |-> f.left,
            result |-> f.result \cup {o}, given |-> f.given]
  BY <1>2 DEF FilterCall
<1>4. f2 \in FilterCall
  BY <1>3 DEF FilterCall
<1> QED BY <1>3, <1>4 DEF Calls

\* The object that a call of get has made, and the calls below it
Made(h, f, obj) ==
  /\ obj \in PyObject /\ FieldsOK(h, obj)
  /\ obj.table = f.table /\ obj.pk = f.pk /\ obj.version = f.version /\ obj.seen = f.values

Received(old, st, o) ==
  /\ Len(st) = Len(old) - 1
  /\ \A k \in 1..(Len(old) - 1) :
       st[k] = IF k = Len(old) - 1 THEN Receive(old[k], o) ELSE old[k]

LEMMA MadeObject ==
  ASSUME NEW rows, NEW count, NEW h, NEW f \in GetCall, GetOK(rows, count, h, f), Missing(f) = {},
         NEW obj,
         obj = [table |-> f.table, pk |-> f.pk, version |-> f.version,
                fields |-> [i \in DOMAIN f.values |->
                              IF i \in Foreigns(f.table) THEN f.refs[i] ELSE f.values[i].val],
                seen |-> f.values]
  PROVE  Made(h, f, obj)
<1>1. f.table \in TableIds /\ f.pk \in Nat /\ f.version \in Nat /\ f.values \in Seq(Value)
  BY DEF GetCall
<1>2. Schema[f.table] \in Seq(Column) /\ Len(f.values) = Len(Schema[f.table])
  BY <1>1, SchemaAssumption DEF TableIds, GetOK, Fits
<1>3. PICK m \in Nat : m = Len(f.values) /\ DOMAIN f.values = 1..m
                       /\ DOMAIN Schema[f.table] = 1..m
  BY <1>1, <1>2
<1>4. DOMAIN f.refs = Foreigns(f.table)
  BY DEF Missing, GetOK
<1>5. \A i \in Foreigns(f.table) : f.refs[i] \in Nat
  <2>1. f.refs \in UNION {[d -> Nat] : d \in SUBSET Nat}
    BY DEF GetCall
  <2> QED BY <1>4, <2>1
<1>6. PICK fields : fields = [i \in 1..m |->
                                IF i \in Foreigns(f.table) THEN f.refs[i] ELSE f.values[i].val]
  OBVIOUS
<1>7. ASSUME NEW i \in 1..m
      PROVE  fields[i] \in Int
  <2>1. f.values[i] \in Value
    BY <1>1, <1>3
  <2> QED BY <1>5, <1>6, <2>1 DEF Value
<1>8. fields \in [1..m -> Int]
  BY <1>6, <1>7
<1>9. fields \in Seq(Int)
  BY <1>8
<1>10. obj = [table |-> f.table, pk |-> f.pk, version |-> f.version, fields |-> fields,
              seen |-> f.values]
  BY <1>3, <1>6
<1>11. obj \in PyObject
  BY <1>1, <1>9, <1>10 DEF PyObject
<1>12. FieldsOK(h, obj)
  <2>1. DOMAIN obj.fields = DOMAIN Schema[obj.table]
    BY <1>3, <1>6, <1>10
  <2>2. ASSUME NEW i \in Foreigns(obj.table)
        PROVE  IsObject(h, obj.fields[i], Schema[obj.table][i].c_ref)
    <3>1. i \in 1..m /\ i \in Foreigns(f.table)
      BY <1>1, <1>3, <1>10, SchemaFacts
    <3>2. obj.fields[i] = f.refs[i]
      BY <1>6, <1>10, <3>1
    <3> QED BY <1>4, <1>10, <3>1, <3>2 DEF GetOK
  <2> QED BY <2>1, <2>2 DEF FieldsOK
<1> QED BY <1>10, <1>11, <1>12 DEF Made

LEMMA ReturnedSession ==
  ASSUME NEW rows, NEW count, NEW h \in Seq(PyObject), NEW old \in Seq(Calls), old # <<>>,
         SessionOK(rows, count, h, old),
         NEW f, f = old[Len(old)], f \in GetCall, f.op = "get",
         NEW obj, Made(h, f, obj),
         NEW h2, h2 = Append(h, obj), NEW st, Received(old, st, Len(h) + 1),
         st = [k \in 1..(Len(old) - 1) |-> st[k]]
  PROVE  /\ h2 \in Seq(PyObject) /\ st \in Seq(Calls)
         /\ SessionOK(rows, count, h2, st)
         /\ RemembersAll(h, old, h2, st)
<1> DEFINE n == Len(old)
           o == Len(h) + 1
<1>1. /\ n \in Nat /\ n >= 1 /\ n \in DOMAIN old /\ 1 \in DOMAIN old /\ DOMAIN old = 1..n
      /\ o \in Nat /\ Len(h) \in Nat
  BY TopFacts
<1>2. PICK m \in Nat : m = n - 1 /\ m < n
  BY <1>1
<1>3. /\ h2 \in Seq(PyObject) /\ Len(h2) = o /\ DOMAIN h2 = DOMAIN h \cup {o}
      /\ \A p \in DOMAIN h : p <= Len(h) /\ h2[p] = h[p]
      /\ h2[o] = obj
  BY Pushed DEF Made
<1>4. \A p, t : IsObject(h, p, t) => IsObject(h2, p, t)
  BY <1>3 DEF IsObject
<1>5. Kinds(old) /\ GetCalls(rows, count, h, old) /\ FilterCalls(rows, count, h, old)
  BY DEF SessionOK
<1>6. \A k \in DOMAIN old : /\ old[k].op # "save" /\ old[k] \in Calls
                            /\ old[k].op = "filter" => k = 1
                            /\ old[k].op \in {"get", "filter"}
  <2>1. old[n].op = "get" /\ old[1].op # "save"
    <3>1. old[n].op = "save" <=> old[1].op = "save"
      BY <1>1, <1>5 DEF Kinds
    <3> QED BY <3>1
  <2>2. ASSUME NEW k \in DOMAIN old
        PROVE  /\ old[k].op # "save" /\ old[k] \in Calls
               /\ old[k].op = "filter" => k = 1
               /\ old[k].op \in {"get", "filter"}
    <3>1. old[k].op # "save" /\ (old[k].op = "filter" => k = 1)
      BY <1>5, <2>1 DEF Kinds
    <3>2. old[k] \in Calls
      OBVIOUS
    <3>3. PICK c \in Calls : c = old[k]
      BY <3>2
    <3>4. c.op \in {"save", "get", "filter"}
      BY DEF Calls, SaveCall, GetCall, FilterCall
    <3> QED BY <3>1, <3>2, <3>3, <3>4
  <2> QED BY <2>2
<1>7. \A k \in 1..m : st[k] = IF k = m THEN Receive(old[k], o) ELSE old[k]
  BY <1>2 DEF Received
<1>8. /\ IsObject(h2, o, f.table)
      /\ obj.pk = f.pk
  BY <1>3 DEF IsObject, Made
<1>9. GetOK(rows, count, h, f)
  BY <1>1, <1>5 DEF GetCalls
<1>m. m \in Nat
  OBVIOUS
\* The call below has what it waited for.
<1>10. ASSUME NEW k \in 1..m
       PROVE  /\ st[k] \in Calls /\ st[k].op = old[k].op /\ st[k].base = old[k].base
              /\ st[k].table = old[k].table
              /\ old[k].op = "get" => GetOK(rows, count, h2, st[k])
              /\ k < m => st[k] = old[k]
  <2>1. k \in DOMAIN old /\ k + 1 \in DOMAIN old
    BY <1>1, <1>2
  <2>2. CASE k # m
    <3>1. st[k] = old[k]
      BY <1>7, <2>2
    <3>2. old[k].op = "get" => GetOK(rows, count, h2, old[k])
      BY <1>4, <1>5, <2>1 DEF GetCalls, GetOK
    <3> QED BY <1>6, <2>1, <3>1, <3>2
  <2>3. CASE k = m /\ old[k].op = "get"
    <3>1. old[k] \in GetCall
      BY <1>6, <2>1, <2>3, GetCallType
    <3>2. old[n] = f /\ k + 1 = n /\ n > 1 /\ n - 1 = k
      BY <1>1, <1>2, <2>3
    <3>3. CallsFor(old[k], f.table)
      BY <1>1, <1>5, <3>2 DEF GetCalls
    <3>4. Missing(old[k]) # {} /\ f.table = Schema[old[k].table][Min(Missing(old[k]))].c_ref
      BY <2>3, <3>3 DEF CallsFor
    <3>a. PICK c \in GetCall : c \in GetCall /\ c = old[k]
      BY <3>1
    <3>b. PICK q \in Nat : q \in Nat /\ q = o
      BY <1>1
    <3>5. PICK g : g = st[k] /\ g = Receive(c, q)
      BY <1>7, <2>3, <3>a, <3>b
    <3>c. Missing(c) # {}
      BY <3>4, <3>a
    <3>6. /\ g \in Calls /\ g.op = "get" /\ g.table = c.table /\ g.base = c.base
          /\ g.pk = c.pk /\ g.version = c.version /\ g.values = c.values
          /\ DOMAIN g.refs = DOMAIN c.refs \cup {Min(Missing(c))}
          /\ g.refs[Min(Missing(c))] = q
          /\ \A i \in DOMAIN c.refs : g.refs[i] = c.refs[i]
      BY ONLY <3>a, <3>b, <3>c, <3>5, ReceiveGet
    <3>7. GetOK(rows, count, h, c)
      BY <1>5, <2>1, <2>3, <3>a DEF GetCalls
    <3>8. Min(Missing(c)) \in Foreigns(c.table)
      BY <3>c, MissingFacts
    <3>d. IsObject(h2, q, Schema[c.table][Min(Missing(c))].c_ref)
      BY <1>8, <3>4, <3>a, <3>b
    <3>9. GetOK(rows, count, h2, g)
      <4>1. Known(rows, count, g.table, g.pk, g.version, g.values) /\ Fits(g.table, g.values)
        BY <3>6, <3>7 DEF GetOK
      <4>2. DOMAIN g.refs \subseteq Foreigns(g.table)
        BY <3>6, <3>7, <3>8 DEF GetOK
      <4>3. ASSUME NEW i \in DOMAIN g.refs
            PROVE  IsObject(h2, g.refs[i], Schema[g.table][i].c_ref)
        <5>1. CASE i \in DOMAIN c.refs
          BY <1>4, <3>6, <3>7, <5>1 DEF GetOK
        <5>2. CASE i = Min(Missing(c))
          BY <3>6, <3>d, <5>2
        <5> QED BY <3>6, <5>1, <5>2
      <4> QED BY <4>1, <4>2, <4>3 DEF GetOK
    <3> QED BY <2>3, <3>5, <3>6, <3>9, <3>a
  <2>4. CASE k = m /\ old[k].op = "filter"
    <3>1. old[k] \in FilterCall
      BY <1>6, <2>1, <2>4, FilterCallType
    <3>2. PICK g : g = st[k] /\ g = Receive(old[k], o)
      BY <1>7, <2>4
    <3> QED BY <1>1, <2>4, <3>1, <3>2, ReceiveFilter
  <2> QED BY <1>6, <2>1, <2>2, <2>3, <2>4
<1>11. st \in [1..m -> Calls]
  BY <1>2, <1>10
<1>12. st \in Seq(Calls) /\ Len(st) = m /\ DOMAIN st = 1..m
  BY <1>11
<1>13. Base(h2, st) = IF m = 0 THEN o ELSE Base(h, old)
  <2>1. CASE m = 0
    BY <1>3, <1>12, <2>1 DEF Base
  <2>2. CASE m # 0
    <3>1. 1 \in 1..m /\ st # <<>>
      BY <1>12, <2>2
    <3> QED BY <1>10, <2>2, <3>1 DEF Base
  <2> QED BY <2>1, <2>2
<1>14. /\ Base(h, old) \in Nat /\ Base(h, old) <= Len(h)
       /\ Wired(h, Base(h, old)) /\ ObjectsKnown(rows, count, h)
  BY BaseType DEF SessionOK
<1>15. Base(h2, st) <= Len(h2)
  BY <1>1, <1>3, <1>13, <1>14
<1>16. Wired(h2, Base(h2, st))
  <2>1. Wired(h2, Base(h, old))
    BY <1>14, AppendWired DEF Made
  <2> QED BY <1>3, <1>13, <2>1, WiredFields, FieldsWired
<1>17. ObjectsKnown(rows, count, h2)
  <2>1. Known(rows, count, obj.table, obj.pk, obj.version, obj.seen)
    BY <1>9 DEF Made, GetOK
  <2> QED BY <1>14, <2>1, AppendKnown DEF Made
<1>18. Kinds(st) /\ SaveCalls(h2, st)
  <2>1. ASSUME NEW k \in DOMAIN st
        PROVE  k \in DOMAIN old /\ 1 \in DOMAIN st /\ st[k].op = old[k].op
    BY <1>1, <1>2, <1>10, <1>12
  <2>2. \A k \in DOMAIN st : st[k].op # "save" /\ (st[k].op = "filter" => k = 1)
    BY <1>6, <2>1
  <2>3. Kinds(st)
    BY <2>1, <2>2 DEF Kinds
  <2>4. st # <<>> => 1 \in DOMAIN st
    BY <1>12, TopFacts
  <2> QED BY <2>2, <2>3, <2>4 DEF SaveCalls
<1>19. GetCalls(rows, count, h2, st)
  <2>1. ASSUME NEW k \in 1..m, st[k].op = "get"
        PROVE  /\ GetOK(rows, count, h2, st[k])
               /\ k > 1 => CallsFor(st[k - 1], st[k].table)
    <3>1. k \in DOMAIN old /\ old[k].op = "get"
      BY <1>1, <1>2, <1>10, <2>1
    <3>2. ASSUME k > 1
          PROVE  CallsFor(st[k - 1], st[k].table)
      <4>1. k - 1 \in 1..m /\ k - 1 < m
        BY <3>2
      <4>2. st[k - 1] = old[k - 1] /\ st[k].table = old[k].table
        BY <1>10, <4>1
      <4> QED BY <1>5, <3>1, <3>2, <4>2 DEF GetCalls
    <3> QED BY <1>10, <3>1, <3>2
  <2> QED BY <1>12, <2>1 DEF GetCalls
<1>20. FilterCalls(rows, count, h2, st)
  <2> SUFFICES ASSUME st # <<>>, st[1].op = "filter"
               PROVE  /\ st[1].given <= count[st[1].table]
                      /\ st[1].result \subseteq DOMAIN h2
                      /\ st[1].conditions = <<>> /\ st[1].last.op = OP_AL
                           => Listed(rows, h2, st)
    BY DEF FilterCalls
  <2>1. 1 \in 1..m /\ 1 \in DOMAIN old
    BY <1>1, <1>12, TopFacts
  <2>2. PICK c : c = old[1]
    OBVIOUS
  <2>3. c \in FilterCall
    BY <1>6, <1>10, <2>1, <2>2, FilterCallType
  <2>4. /\ st[1].table = c.table /\ st[1].conditions = c.conditions
        /\ st[1].last = c.last /\ st[1].left = c.left /\ st[1].given = c.given
        /\ st[1].result = IF m = 1 THEN c.result \cup {o} ELSE c.result
    <3>1. CASE m = 1
      <4>1. PICK g : g = st[1] /\ g = Receive(c, o)
        BY <1>7, <2>1, <2>2, <3>1
      <4> QED BY SMTT(30), <1>1, <2>3, <3>1, <4>1, ReceiveFilter
    <3>2. CASE m # 1
      BY <1>7, <2>1, <2>2, <3>2
    <3> QED BY <3>1, <3>2
  <2>5. /\ c.given <= count[c.table] /\ c.result \subseteq DOMAIN h
        /\ c.conditions = <<>> /\ c.last.op = OP_AL => Listed(rows, h, old)
    <3>1. c.op = "filter"
      BY <2>3 DEF FilterCall
    <3> QED BY <1>5, <2>2, <3>1 DEF FilterCalls
  <2>6. ASSUME Listed(rows, h, old)
        PROVE  Listed(rows, h2, st)
    <3> SUFFICES ASSUME NEW id \in DOMAIN rows[c.table]
                 PROVE  \/ id > c.given
                        \/ id \in c.left
                        \/ Len(st) > 1 /\ st[2].pk = id
                        \/ \E p \in st[1].result : h2[p].pk = id
      BY <2>4 DEF Listed
    <3>1. \/ id > c.given
          \/ id \in c.left
          \/ Len(old) > 1 /\ old[2].pk = id
          \/ \E p \in c.result : h[p].pk = id
      BY <2>2, <2>6 DEF Listed
    <3>2. CASE old[2].pk = id
      <4>1. CASE m = 1
        <5>1. f = old[2]
          BY <1>2, <4>1
        <5>2. o \in st[1].result /\ h2[o].pk = f.pk
          BY <1>3, <1>8, <2>4, <4>1
        <5> QED BY <3>2, <5>1, <5>2
      <4>2. CASE m # 1
        <5>1. m > 1 /\ 2 \in 1..m /\ 2 \in DOMAIN old
          <6>1. m >= 1
            BY <1>2, <2>1
          <6>2. m > 1 /\ 2 \in 1..m
            BY ONLY <1>m, <4>2, <6>1
          <6> QED BY <1>1, <1>2, <6>2
        <5>2. st[2].pk = old[2].pk
          <6>1. CASE m # 2
            BY <1>7, <5>1, <6>1
          <6>2. CASE m = 2
            <7>1. old[2].op = "get"
              BY <1>6, <5>1
            <7>2. old[2] \in GetCall
              BY <1>6, <5>1, <7>1, GetCallType
            <7>3. CallsFor(old[2], old[3].table)
              <8>1. 3 \in DOMAIN old /\ old[3] = f /\ 3 - 1 = 2 /\ 3 > 1
                BY <1>1, <1>2, <6>2
              <8> QED BY <1>5, <8>1 DEF GetCalls
            <7>4. Missing(old[2]) # {}
              BY <7>1, <7>3 DEF CallsFor
            <7>5. PICK g : g = st[2] /\ g = Receive(old[2], o)
              BY <1>7, <5>1, <6>2
            <7> QED BY <1>1, <7>2, <7>4, <7>5, ReceiveGet
          <6> QED BY <6>1, <6>2
        <5> QED BY <1>12, <3>2, <5>1, <5>2
      <4> QED BY <4>1, <4>2
    <3>3. CASE \E p \in c.result : h[p].pk = id
      <4>1. PICK p \in c.result : h[p].pk = id
        BY <3>3
      <4>2. p \in DOMAIN h /\ h2[p] = h[p] /\ p \in st[1].result
        BY <1>3, <2>4, <2>5, <4>1
      <4> QED BY <4>1, <4>2
    <3> QED BY <3>1, <3>2, <3>3
  <2>7. st[1].result \subseteq DOMAIN h2
    BY <1>3, <2>4, <2>5
  <2> QED BY <2>4, <2>5, <2>6, <2>7
<1>21. SessionOK(rows, count, h2, st)
  BY <1>15, <1>16, <1>17, <1>18, <1>19, <1>20 DEF SessionOK
<1>22. RemembersAll(h, old, h2, st)
  <2>1. ASSUME NEW p \in DOMAIN h, p <= Base(h, old)
        PROVE  p <= Base(h2, st)
    BY <1>1, <1>3, <1>13, <2>1
  <2> QED BY <1>3, <2>1, StillRemembers
<1> QED BY <1>3, <1>12, <1>21, <1>22

LEMMA GetReturnsInv ==
  ASSUME ORMInv, NEW s \in Sessions, GetReturns(s)
  PROVE  ORMInv'
<1>1. /\ stack[s] # <<>> /\ Top(s).op = "get" /\ Missing(Top(s)) = {}
      /\ UNCHANGED <<content, row_count>>
      /\ outcome' = [outcome EXCEPT ![s] = "nothing"]
  BY DEF GetReturns, database
<1>2. PICK f, h, old :
        /\ f = Top(s) /\ h = heap[s] /\ old = stack[s]
  OBVIOUS
<1>3. /\ h \in Seq(PyObject) /\ old \in Seq(Calls) /\ old # <<>>
      /\ f \in GetCall /\ f.op = "get" /\ f = old[Len(old)] /\ Missing(f) = {}
      /\ GetOK(content, row_count, h, f)
  BY <1>1, <1>2, GetFacts
<1>4. PICK obj :
        obj = [table |-> f.table, pk |-> f.pk, version |-> f.version,
               fields |-> [i \in DOMAIN f.values |->
                             IF i \in Foreigns(f.table) THEN f.refs[i] ELSE f.values[i].val],
               seen |-> f.values]
  OBVIOUS
<1>5. PICK st : st = [k \in 1..(Len(old) - 1) |->
                        IF k = Len(old) - 1 THEN Receive(old[k], Len(h) + 1) ELSE old[k]]
  OBVIOUS
<1>6. PICK h2 : h2 = Append(h, obj)
  OBVIOUS
<1>7. heap' = [heap EXCEPT ![s] = h2] /\ stack' = [stack EXCEPT ![s] = st]
  <2>1. heap' = [heap EXCEPT ![s] = h2]
    BY <1>2, <1>4, <1>6 DEF GetReturns
  <2>2. stack' = [stack EXCEPT ![s] = st]
    BY <1>2, <1>5 DEF GetReturns
  <2> QED BY <2>1, <2>2
<1>8. Made(h, f, obj)
  BY <1>3, <1>4, MadeObject
<1>9. Len(old) \in Nat /\ Len(old) >= 1
  BY <1>3, TopFacts
<1>10. Len(st) = Len(old) - 1 /\ Received(old, st, Len(h) + 1)
  <2>1. PICK m \in Nat : m = Len(old) - 1
    BY <1>9
  <2>2. Len(st) = m /\ \A k \in 1..m : st[k] = IF k = m THEN Receive(old[k], Len(h) + 1) ELSE old[k]
    BY <1>5, <2>1
  <2> QED BY <2>1, <2>2 DEF Received
<1>11. st = [k \in 1..(Len(old) - 1) |-> st[k]]
  BY <1>5
<1>12. SessionOK(content, row_count, h, old)
  BY <1>2, SessionFacts
<1>13. /\ h2 \in Seq(PyObject) /\ st \in Seq(Calls)
       /\ SessionOK(content, row_count, h2, st)
       /\ RemembersAll(h, old, h2, st)
  BY <1>3, <1>6, <1>8, <1>10, <1>11, <1>12, ReturnedSession
<1>14. Moves(s, h2, st)
  BY <1>1, <1>7 DEF Moves, ORMInv, ORMTypes
<1>15. Served
  BY <1>1, SessionFacts, SameTablesServed
<1>16. WritersMove(s, h2, st)
  BY <1>1, <1>2, <1>13, FewerRows
<1>17. SessionOK(content', row_count', h2, st)
  BY <1>1, <1>13
<1> QED BY <1>13, <1>14, <1>15, <1>16, <1>17, Assemble

-----------------------------------------------------------------------------
\* filter

\* What there is of a call of filter that is on top: it is the only one
LEMMA FilterFacts ==
  ASSUME ORMInv, NEW s \in Sessions, stack[s] # <<>>, Top(s).op = "filter"
  PROVE  /\ heap[s] \in Seq(PyObject) /\ stack[s] \in Seq(Calls)
         /\ Len(stack[s]) = 1 /\ stack[s] = <<Top(s)>> /\ stack[s][1] = Top(s)
         /\ Top(s) \in FilterCall
         /\ Top(s).table \in TableIds
         /\ Top(s).base \in Nat /\ Top(s).base <= Len(heap[s])
         /\ Wired(heap[s], Top(s).base)
         /\ ObjectsKnown(content, row_count, heap[s])
         /\ FilterCalls(content, row_count, heap[s], stack[s])
<1>1. /\ heap[s] \in Seq(PyObject) /\ stack[s] \in Seq(Calls)
      /\ SessionOK(content, row_count, heap[s], stack[s])
  BY SessionFacts
<1>2. /\ Len(stack[s]) \in DOMAIN stack[s]
      /\ Top(s) \in Calls /\ Top(s) = stack[s][Len(stack[s])]
  BY <1>1, TopFacts DEF Top
<1>3. Len(stack[s]) = 1
  <2>1. Kinds(stack[s])
    BY <1>1 DEF SessionOK
  <2>2. stack[s][Len(stack[s])].op = "filter"
    BY <1>2
  <2> QED BY <1>2, <2>1, <2>2 DEF Kinds
<1>4. stack[s] = <<Top(s)>> /\ stack[s][1] = Top(s)
  <2>1. PICK st \in Seq(Calls) : st = stack[s] /\ st \in Seq(Calls)
    BY <1>1
  <2>2. Len(st) = 1 /\ st[1] = Top(s)
    BY <1>2, <1>3, <2>1
  <2>3. st = <<st[1]>>
    BY <2>1, <2>2
  <2> QED BY <2>1, <2>2, <2>3
<1>5. Top(s) \in FilterCall
  BY <1>2, FilterCallType
<1>6. Top(s).table \in TableIds /\ Top(s).base \in Nat
  BY <1>5 DEF FilterCall
<1>7. Base(heap[s], stack[s]) = Top(s).base
  BY <1>4 DEF Base
<1> QED BY <1>1, <1>3, <1>4, <1>5, <1>6, <1>7 DEF SessionOK

\* A call of filter alone
LEMMA FilterSession ==
  ASSUME NEW rows, NEW count, NEW h \in Seq(PyObject), NEW g \in Calls, g.op = "filter",
         NEW st, st = <<g>>,
         g.base <= Len(h), Wired(h, g.base), ObjectsKnown(rows, count, h),
         FilterCalls(rows, count, h, st)
  PROVE  st \in Seq(Calls) /\ SessionOK(rows, count, h, st)
<1>1. st \in Seq(Calls) /\ st # <<>> /\ st[1] = g /\ DOMAIN st = {1}
  OBVIOUS
<1>2. Base(h, st) = g.base
  BY <1>1 DEF Base
<1>3. Kinds(st) /\ SaveCalls(h, st) /\ GetCalls(rows, count, h, st)
  BY <1>1 DEF Kinds, SaveCalls, GetCalls
<1> QED BY <1>1, <1>2, <1>3 DEF SessionOK

LEMMA FilterInv ==
  ASSUME ORMInv, NEW s \in Sessions, Filter(s)
  PROVE  ORMInv'
<1>1. stack[s] = <<>> /\ UNCHANGED <<database, heap, outcome>>
  BY DEF Filter, Begin
<1>2. PICK q \in Filters :
        Push(s, <<>>, [op |-> "filter", base |-> Len(heap[s]), table |-> q.table,
                       conditions |-> q.conditions, last |-> Head(q.conditions),
                       left |-> {}, result |-> {}, given |-> row_count[q.table]])
  BY DEF Filter
<1>3. PICK g : g = [op |-> "filter", base |-> Len(heap[s]), table |-> q.table,
                    conditions |-> q.conditions, last |-> Head(q.conditions),
                    left |-> {}, result |-> {}, given |-> row_count[q.table]]
  OBVIOUS
<1>4. /\ heap[s] \in Seq(PyObject)
      /\ Wired(heap[s], Len(heap[s]))
      /\ ObjectsKnown(content, row_count, heap[s])
  BY <1>1, IdleFacts
<1>5. q.table \in TableIds /\ q.conditions \in Seq(Condition) /\ q.conditions # <<>>
  BY FiltersAssumption
<1>6. Head(q.conditions) \in Condition
  BY <1>5
<1>7. row_count[q.table] \in Nat
  BY <1>5, SessionFacts DEF TablesOK
<1>8. g \in FilterCall
  BY <1>3, <1>4, <1>5, <1>6, <1>7 DEF FilterCall
<1>9. g \in Calls /\ g.op = "filter" /\ g.base = Len(heap[s])
      /\ g.table = q.table /\ g.conditions # <<>> /\ g.given = row_count[q.table]
      /\ g.result = {}
  BY <1>3, <1>5, <1>8 DEF Calls
<1>10. PICK st : st = <<g>> /\ stack' = [stack EXCEPT ![s] = st]
  <2>1. Append(<<>>, g) = <<g>>
    OBVIOUS
  <2>2. stack' = [stack EXCEPT ![s] = Append(<<>>, g)]
    BY <1>2, <1>3 DEF Push
  <2> QED BY <2>1, <2>2
<1>11. FilterCalls(content, row_count, heap[s], st)
  BY <1>7, <1>9, <1>10 DEF FilterCalls
<1>12. Len(heap[s]) \in Nat /\ g.base <= Len(heap[s])
  BY <1>4, <1>9
<1>13. st \in Seq(Calls) /\ SessionOK(content, row_count, heap[s], st)
  BY <1>4, <1>9, <1>10, <1>11, <1>12, FilterSession
<1>14. Base(heap[s], st) = Base(heap[s], stack[s])
  BY <1>1, <1>9, <1>10 DEF Base
<1>15. outcome' = [outcome EXCEPT ![s] = outcome'[s]]
  BY <1>1 DEF ORMInv, ORMTypes
<1> QED BY <1>1, <1>10, <1>13, <1>14, <1>15, StackMoves

Scanned(f, cs, c, ids, n) ==
  [f EXCEPT !.conditions = cs, !.last = c, !.result = {}, !.left = ids, !.given = n]

ScanCall(g, f, cs, c, ids, n) ==
  /\ g \in Calls /\ g.op = "filter" /\ g.base = f.base /\ g.table = f.table
  /\ g.conditions = cs /\ g.last = c /\ g.left = ids /\ g.result = {}
  /\ g.given = n

LEMMA ScanFrame ==
  ASSUME NEW f \in FilterCall, NEW cs \in Seq(Condition), NEW c \in Condition,
         NEW ids \in SUBSET Nat, NEW n \in Nat,
         NEW g, g = Scanned(f, cs, c, ids, n)
  PROVE  ScanCall(g, f, cs, c, ids, n)
<1>1. PICK e : e = [f EXCEPT !.conditions = cs, !.last = c]
  OBVIOUS
<1>2. e = [op |-> "filter", base |-> f.base, table |-> f.table, conditions |-> cs,
           last |-> c, left |-> f.left, result |-> f.result, given |-> f.given]
  BY <1>1 DEF FilterCall
<1>3. e \in FilterCall
  BY <1>2 DEF FilterCall
<1>4. PICK d : d = [e EXCEPT !.result = {}, !.left = ids]
  OBVIOUS
<1>5. d = [op |-> "filter", base |-> e.base, table |-> e.table, conditions |-> e.conditions,
           last |-> e.last, left |-> ids, result |-> {}, given |-> e.given]
  BY <1>3, <1>4 DEF FilterCall
<1>6. d \in FilterCall
  BY <1>3, <1>5 DEF FilterCall
<1>7. g = [d EXCEPT !.given = n]
  BY <1>1, <1>4 DEF Scanned
<1>8. g = [op |-> "filter", base |-> d.base, table |-> d.table, conditions |-> d.conditions,
           last |-> d.last, left |-> d.left, result |-> d.result, given |-> n]
  BY <1>6, <1>7 DEF FilterCall
<1>9. g \in FilterCall
  BY <1>6, <1>8 DEF FilterCall
<1>10. /\ d.base = f.base /\ d.table = f.table /\ d.conditions = cs /\ d.last = c
       /\ d.left = ids /\ d.result = {}
  BY <1>2, <1>5
<1> QED BY <1>8, <1>9, <1>10 DEF Calls, ScanCall

LEMMA FilterScanInv ==
  ASSUME ORMInv, NEW s \in Sessions, FilterScan(s)
  PROVE  ORMInv'
<1>1. /\ stack[s] # <<>> /\ Top(s).op = "filter"
      /\ Top(s).left = {} /\ Top(s).conditions # <<>>
  BY DEF FilterScan
<1>2. PICK f : f = Top(s)
  OBVIOUS
<1>3. PICK c : c = Head(f.conditions)
  OBVIOUS
<1>4. /\ f \in FilterCall /\ f.table \in TableIds /\ f.conditions # <<>>
      /\ stack[s] = <<f>> /\ heap[s] \in Seq(PyObject) /\ stack[s] \in Seq(Calls)
  BY <1>1, <1>2, FilterFacts
<1>5. /\ f.conditions \in Seq(Condition) /\ f.base \in Nat
      /\ f = [op |-> "filter", base |-> f.base, table |-> f.table,
              conditions |-> f.conditions, last |-> f.last, left |-> f.left,
              result |-> f.result, given |-> f.given]
  BY <1>4 DEF FilterCall
<1>6. Tail(f.conditions) \in Seq(Condition) /\ c \in Condition
  BY <1>3, <1>4, <1>5
<1>7. TablesOK(content, row_count) /\ SessionOK(content, row_count, heap[s], stack[s])
  BY SessionFacts
<1>8. CASE UNCHANGED <<content, row_count>> /\ \E exception : Raise(s, exception)
  <2>1. PICK exception : Raise(s, exception)
    BY <1>8
  <2> QED BY <1>1, <1>8, <2>1, RaiseFacts, RaiseInv
<1>9. CASE /\ handle_request(ScanRequest(f.table, c.op, c.column, c.value))
           /\ call'.response.kind = "Query"
           /\ stack' = [stack EXCEPT ![s] =
                <<[f EXCEPT !.conditions = Tail(@), !.last = c, !.result = {},
                            !.left = call'.response.ids, !.given = row_count[f.table]]>>]
           /\ heap' = [heap EXCEPT ![s] = SubSeq(@, 1, f.base)]
           /\ UNCHANGED <<outcome, ops>>
  <2>1. PICK op, column, value : op = c.op /\ column = c.column /\ value = c.value
    OBVIOUS
  <2>2. /\ UNCHANGED <<content, row_count>> /\ Served
        /\ \/ \E code : call'.response = Error(code)
           \/ \E ids \in SUBSET DOMAIN content[f.table] :
                /\ call'.response = Queried(ids)
                /\ op = OP_AL => ids = DOMAIN content[f.table]
    BY <1>4, <1>7, <1>9, <2>1, ScanServed
  <2>3. PICK ids \in SUBSET DOMAIN content[f.table] :
          /\ call'.response = Queried(ids)
          /\ op = OP_AL => ids = DOMAIN content[f.table]
    <3>1. call'.response.kind = "Query"
      BY <1>9
    <3>2. \A code : call'.response # Error(code)
      BY <3>1 DEF Error
    <3> QED BY <2>2, <3>2
  <2>4. PICK g : g = Scanned(f, Tail(f.conditions), c, ids, row_count[f.table])
    OBVIOUS
  <2>5. call'.response.ids = ids
    BY <2>3 DEF Queried
  <2>6. PICK st : st = <<g>> /\ stack' = [stack EXCEPT ![s] = st]
    BY <1>9, <2>4, <2>5 DEF Scanned
  <2>7. row_count[f.table] \in Nat /\ ids \in SUBSET Nat
    BY <1>4, <1>7 DEF TablesOK
  <2>8. PICK cs \in Seq(Condition), n \in Nat :
          cs = Tail(f.conditions) /\ n = row_count[f.table]
    BY <1>6, <2>7
  <2>9. g = Scanned(f, cs, c, ids, n)
    BY <2>4, <2>8
  <2>10. /\ g \in Calls /\ g.op = "filter" /\ g.base = f.base /\ g.table = f.table
         /\ g.conditions = cs /\ g.last = c /\ g.left = ids /\ g.result = {}
         /\ g.given = n
    <3>1. ScanCall(g, f, cs, c, ids, n)
      BY <1>4, <1>6, <2>7, <2>9, ScanFrame
    <3> QED BY <3>1 DEF ScanCall
  <2>11. PICK h2 : h2 = Undone(heap[s], stack[s])
    OBVIOUS
  <2>12. Base(heap[s], stack[s]) = f.base /\ f.base <= Len(heap[s])
    BY <1>4, <1>7 DEF Base, SessionOK
  <2>13. heap' = [heap EXCEPT ![s] = h2]
    BY <1>9, <2>11, <2>12 DEF Undone
  <2>14. /\ h2 \in Seq(PyObject)
         /\ SessionOK(content, row_count, h2, <<>>)
         /\ RemembersAll(heap[s], stack[s], h2, <<>>)
    BY <1>4, <1>7, <2>11, Abandon
  <2>15. Wired(h2, Len(h2)) /\ ObjectsKnown(content, row_count, h2)
    BY <2>14, Idle
  <2>16. Len(h2) = f.base
    BY <1>4, <1>5, <2>11, <2>12, Prefix DEF Undone
  <2>17. FilterCalls(content, row_count, h2, st)
    <3>1. st[1] = g
      BY <2>6
    <3>2. g.last.op = OP_AL => Listed(content, h2, st)
      BY <2>1, <2>3, <2>10, <3>1 DEF Listed
    <3> QED BY <2>6, <2>7, <2>8, <2>10, <3>1, <3>2 DEF FilterCalls
  <2>18. st \in Seq(Calls) /\ SessionOK(content, row_count, h2, st)
    <3>1. g.base <= Len(h2) /\ Wired(h2, g.base)
      BY <1>5, <2>10, <2>15, <2>16
    <3> QED BY <2>6, <2>10, <2>14, <2>15, <2>17, <3>1, FilterSession
  <2>19. Base(h2, st) = Base(h2, <<>>)
    BY <2>6, <2>10, <2>16 DEF Base
  <2>20. RemembersAll(heap[s], stack[s], h2, st)
    BY <2>14, <2>19 DEF RemembersAll, Remembers
  <2>21. Moves(s, h2, st)
    BY <1>9, <2>6, <2>13 DEF Moves, ORMInv, ORMTypes
  <2>22. WritersMove(s, h2, st)
    BY <2>2, <2>20, FewerRows
  <2>23. SessionOK(content', row_count', h2, st)
    BY <2>2, <2>18
  <2> QED BY <2>2, <2>14, <2>18, <2>21, <2>22, <2>23, Assemble
<1>10. \/ UNCHANGED database /\ \E exception : Raise(s, exception)
       \/ /\ handle_request(ScanRequest(f.table, c.op, c.column, c.value))
          /\ \E exception : Raise(s, exception)
       \/ /\ handle_request(ScanRequest(f.table, c.op, c.column, c.value))
          /\ call'.response.kind = "Query"
          /\ stack' = [stack EXCEPT ![s] =
               <<[f EXCEPT !.conditions = Tail(@), !.last = c, !.result = {},
                           !.left = call'.response.ids, !.given = row_count[f.table]]>>]
          /\ heap' = [heap EXCEPT ![s] = SubSeq(@, 1, f.base)]
          /\ UNCHANGED <<outcome, ops>>
  BY <1>2, <1>3 DEF FilterScan
<1>11. CASE /\ handle_request(ScanRequest(f.table, c.op, c.column, c.value))
            /\ \E exception : Raise(s, exception)
  <2>1. PICK op, column, value : op = c.op /\ column = c.column /\ value = c.value
    OBVIOUS
  <2>2. UNCHANGED <<content, row_count>>
    BY <1>4, <1>7, <1>11, <2>1, ScanServed
  <2> QED BY <1>8, <1>11, <2>2
<1>12. CASE UNCHANGED database /\ \E exception : Raise(s, exception)
  BY <1>8, <1>12 DEF database
<1> QED BY <1>9, <1>10, <1>11, <1>12

LEMMA FilterGetInv ==
  ASSUME ORMInv, NEW s \in Sessions, FilterGet(s)
  PROVE  ORMInv'
<1>1. stack[s] # <<>> /\ Top(s).op = "filter"
  BY DEF FilterGet
<1>2. PICK f, h : f = Top(s) /\ h = heap[s]
  OBVIOUS
<1>3. /\ f \in FilterCall /\ f.table \in TableIds /\ f.op = "filter"
      /\ stack[s] = <<f>> /\ h \in Seq(PyObject) /\ stack[s] \in Seq(Calls)
      /\ FilterCalls(content, row_count, h, stack[s])
  BY <1>1, <1>2, FilterFacts
<1>4. PICK pk \in f.left :
        Request_row(s, Append(Below(s), [f EXCEPT !.left = f.left \ {pk}]), f.table, pk)
  BY <1>2 DEF FilterGet
<1>5. PICK g : g = [f EXCEPT !.left = f.left \ {pk}]
  OBVIOUS
<1>6. /\ g \in Calls /\ g.op = "filter" /\ g.table = f.table /\ g.base = f.base
      /\ g.conditions = f.conditions /\ g.last = f.last /\ g.left = f.left \ {pk}
      /\ g.given = f.given /\ g.result = f.result
  <2>1. g = [op |-> "filter", base |-> f.base, table |-> f.table,
             conditions |-> f.conditions, last |-> f.last, left |-> f.left \ {pk},
             result |-> f.result, given |-> f.given]
    BY <1>3, <1>5 DEF FilterCall
  <2>2. g \in FilterCall
    BY <1>3, <2>1 DEF FilterCall
  <2> QED BY <2>1, <2>2 DEF Calls
<1>7. PICK frames : frames = Append(Below(s), g)
  OBVIOUS
<1>8. /\ frames = <<g>> /\ frames \in Seq(Calls) /\ frames # <<>> /\ Len(frames) = 1
      /\ frames[1] = g /\ DOMAIN frames = {1}
  <2>1. Below(s) = <<>>
    BY <1>3 DEF Below
  <2>2. frames = <<g>>
    BY <1>7, <2>1
  <2> QED BY <1>6, <2>2
<1>9. Request_row(s, frames, f.table, pk)
  BY <1>4, <1>5, <1>7
<1>10. Base(heap[s], frames) = Base(heap[s], stack[s])
  BY <1>3, <1>6, <1>8 DEF Base
<1>11. Kinds(frames) /\ GetCalls(content, row_count, heap[s], frames)
  BY <1>6, <1>8 DEF Kinds, GetCalls
<1>12. frames[1].op # "save" /\ CallsFor(frames[Len(frames)], f.table)
  BY <1>6, <1>8 DEF CallsFor
<1>13. ASSUME NEW x \in Calls, x.pk = pk
       PROVE  FilterCalls(content, row_count, heap[s], Append(frames, x))
  <2>1. PICK st : st = Append(frames, x)
    OBVIOUS
  <2>2. st # <<>> /\ Len(st) > 1 /\ st[1] = g /\ st[2] = x
    BY <1>8, <2>1
  <2>3. /\ f.given <= row_count[f.table] /\ f.result \subseteq DOMAIN h
        /\ f.conditions = <<>> /\ f.last.op = OP_AL
             => \A id \in DOMAIN content[f.table] :
                  \/ id > f.given
                  \/ id \in f.left
                  \/ \E o \in f.result : h[o].pk = id
    BY <1>3 DEF FilterCalls, Listed
  <2>4. f.conditions = <<>> /\ f.last.op = OP_AL => Listed(content, h, st)
    BY <1>6, <1>13, <2>2, <2>3 DEF Listed
  <2>5. FilterCalls(content, row_count, h, st)
    BY <1>6, <2>2, <2>3, <2>4 DEF FilterCalls
  <2> QED BY <1>2, <2>1, <2>5
<1>14. PICK t \in TableIds : t = f.table
  BY <1>3
<1> QED BY ZenonT(30), <1>8, <1>9, <1>10, <1>11, <1>12, <1>13, <1>14, RequestRow

LEMMA FilterReturnsInv ==
  ASSUME ORMInv, NEW s \in Sessions, FilterReturns(s)
  PROVE  ORMInv'
<1>1. /\ stack[s] # <<>> /\ Top(s).op = "filter"
      /\ stack' = [stack EXCEPT ![s] = Below(s)]
      /\ outcome' = [outcome EXCEPT ![s] = "nothing"]
      /\ UNCHANGED <<content, row_count>> /\ heap' = heap
  BY DEF FilterReturns, database
<1>2. PICK h, f : h = heap[s] /\ f = Top(s)
  OBVIOUS
<1>3. /\ h \in Seq(PyObject) /\ stack[s] = <<f>>
      /\ f.base \in Nat /\ f.base <= Len(h) /\ Wired(h, f.base)
      /\ ObjectsKnown(content, row_count, h)
  BY <1>1, <1>2, FilterFacts
<1>4. PICK st \in Seq(Calls) : st = <<>>
  <2>1. <<>> \in Seq(Calls)
    OBVIOUS
  <2> QED BY <2>1
<1>5. Below(s) = st
  BY <1>3, <1>4 DEF Below
<1>6. Wired(h, Len(h))
  BY <1>3, WiredFields, FieldsWired
<1>7. SessionOK(content, row_count, h, st)
  BY <1>3, <1>4, <1>6, Idle
<1>8. RemembersAll(h, stack[s], h, st)
  <2>1. Base(h, st) = Len(h)
    BY <1>4 DEF Base
  <2>2. \A o \in DOMAIN h : o <= Base(h, st)
    BY <1>3, <2>1
  <2> QED BY <2>2, StillRemembers
<1>9. Moves(s, h, st)
  BY <1>1, <1>2, <1>5 DEF Moves, ORMInv, ORMTypes
<1>10. WritersMove(s, h, st)
  BY <1>1, <1>2, <1>8, FewerRows
<1>11. Served
  BY <1>1, SessionFacts, SameTablesServed
<1>12. SessionOK(content', row_count', h, st)
  BY <1>1, <1>7
<1> QED BY <1>3, <1>4, <1>9, <1>10, <1>11, <1>12, Assemble

-----------------------------------------------------------------------------
\* The invariant holds

LEMMA InitInv == ORMInit => ORMInv
<1> SUFFICES ASSUME ORMInit
             PROVE  ORMInv
  OBVIOUS
<1>1. PICK none : none = <<>> /\ none \in Seq(PyObject)
  <2>1. <<>> \in Seq(PyObject)
    OBVIOUS
  <2> QED BY <2>1
<1>2. PICK idle : idle = <<>> /\ idle \in Seq(Calls)
  <2>1. <<>> \in Seq(Calls)
    OBVIOUS
  <2> QED BY <2>1
<1>3. heap = [s \in Sessions |-> none] /\ stack = [s \in Sessions |-> idle]
  BY <1>1, <1>2 DEF ORMInit
<1>4. ORMTypes
  BY <1>1, <1>2, <1>3 DEF ORMTypes, ORMInit
<1>5. /\ Stored \in [TableIds -> Seq(Seq(Value))]
      /\ \A t \in TableIds : \A o \in DOMAIN Stored[t] :
           /\ Fits(t, Stored[t][o])
           /\ \A i \in Foreigns(t) : Stored[t][o][i].val \in DOMAIN Stored[Schema[t][i].c_ref]
  BY StoredAssumption
<1>6. /\ content = [t \in TableIds |-> content[t]]
      /\ \A t \in TableIds :
           content[t] = [o \in DOMAIN Stored[t] |-> [version |-> 1, row_values |-> Stored[t][o]]]
      /\ row_count = [t \in TableIds |-> Len(Stored[t])]
  BY DEF ORMInit
<1>7. TablesOK(content, row_count)
  <2>1. row_count \in [TableIds -> Nat]
    BY <1>5, <1>6
  <2>2. ASSUME NEW t \in TableIds
        PROVE  /\ content[t] = [o \in DOMAIN content[t] |-> content[t][o]]
               /\ DOMAIN content[t] \subseteq 1..row_count[t]
    <3>1. Stored[t] \in Seq(Seq(Value)) /\ row_count[t] = Len(Stored[t])
      BY <1>5, <1>6
    <3>2. DOMAIN content[t] = DOMAIN Stored[t] /\ DOMAIN Stored[t] = 1..row_count[t]
      BY <1>6, <3>1
    <3> QED BY <1>6, <3>2
  <2>3. ASSUME NEW t \in TableIds, NEW o \in DOMAIN content[t]
        PROVE  /\ content[t][o] \in Row
               /\ Fits(t, content[t][o].row_values)
               /\ \A i \in Foreigns(t) :
                    content[t][o].row_values[i].val \in DOMAIN content[Schema[t][i].c_ref]
    <3>1. o \in DOMAIN Stored[t] /\ content[t][o] = [version |-> 1, row_values |-> Stored[t][o]]
      BY <1>6
    <3>2. Stored[t][o] \in Seq(Value)
      BY <1>5, <3>1
    <3>3. content[t][o] \in Row /\ content[t][o].row_values = Stored[t][o]
      BY <3>1, <3>2 DEF Row
    <3>4. \A i \in Foreigns(t) :
            DOMAIN content[Schema[t][i].c_ref] = DOMAIN Stored[Schema[t][i].c_ref]
      BY <1>6, SchemaFacts
    <3> QED BY <1>5, <3>1, <3>3, <3>4
  <2> QED BY <1>6, <2>1, <2>2, <2>3 DEF TablesOK
<1>8. SessionOK(content, row_count, none, <<>>)
  <2>1. Wired(none, Len(none)) /\ ObjectsKnown(content, row_count, none)
    BY <1>1 DEF Wired, ObjectsKnown
  <2> QED BY <1>1, <2>1, Idle
<1>9. WritersKeep(content, heap, stack)
  <2>1. ASSUME NEW t \in TableIds, NEW id \in DOMAIN content[t]
        PROVE  ~(content[t][id].version > 1 \/ id > Len(Stored[t]))
    <3>1. content[t][id].version = 1
      BY <1>6, <2>1
    <3>2. id \in 1..Len(Stored[t]) /\ Len(Stored[t]) \in Nat
      BY <1>5, <1>6
    <3> QED BY <3>1, <3>2
  <2> QED BY <2>1 DEF WritersKeep
<1> QED BY <1>2, <1>3, <1>4, <1>7, <1>8, <1>9 DEF ORMInv

LEMMA SaveRowInv ==
  ASSUME ORMInv, NEW s \in Sessions, SaveRow(s)
  PROVE  ORMInv'
<1>1. stack[s] # <<>> /\ Top(s).op = "save"
  BY DEF SaveRow
<1> QED BY <1>1, SaveRowCases, SaveRefusedInv, SaveDoneInv

LEMMA NextInv ==
  ASSUME ORMInv, [ORMNext]_ormVars
  PROVE  ORMInv'
<1>1. ASSUME NEW s \in Sessions, Start(s)
      PROVE  ORMInv'
  BY <1>1, ConstructInv, AssignInv, SaveInv, DeleteInv, GetInv, FilterInv DEF Start
<1>2. ASSUME NEW s \in Sessions, Continue(s)
      PROVE  ORMInv'
  BY <1>2, SaveReferenceInv, SaveRowInv, GetReferenceInv, GetReturnsInv, FilterScanInv,
     FilterGetInv, FilterReturnsInv DEF Continue
<1>3. CASE UNCHANGED ormVars
  BY <1>3 DEF ormVars, ORMInv, ORMTypes
<1> QED BY <1>1, <1>2, <1>3 DEF ORMNext

\* A typed state with sound sessions and tables: the invariant of the others below
THEOREM ORMInvariance == ORMSpec => []ORMInv
<1>1. ORMInit => ORMInv
  BY InitInv
<1>2. ORMInv /\ [ORMNext]_ormVars => ORMInv'
  BY NextInv
<1> QED BY <1>1, <1>2, PTL DEF ORMSpec

-----------------------------------------------------------------------------
\* The properties

\* The row that a program wrote is known to it, and as it is: nobody changed it since
\* without having it in an object of their own.
THEOREM WritersStayUpToDate == ORMSpec => []WritersUpToDate
<1>1. ORMInv => WritersUpToDate
  <2> SUFFICES ASSUME ORMInv, NEW t \in TableIds, NEW id \in DOMAIN content[t],
                      content[t][id].version > 1 \/ id > Len(Stored[t])
               PROVE  \E r \in Objects :
                        /\ Obj(r).table = t /\ Obj(r).pk = id
                        /\ Obj(r).version = content[t][id].version
                        /\ Obj(r).seen = content[t][id].row_values
    BY DEF WritersUpToDate
  <2>1. PICK s \in Sessions : Remembers(heap[s], stack[s], t, id, content[t][id])
    BY DEF ORMInv, WritersKeep
  <2>2. PICK o \in DOMAIN heap[s] : Knows(heap[s][o], t, id, content[t][id])
    BY <2>1 DEF Remembers
  <2>3. PICK r : r = [session |-> s, object |-> o]
    OBVIOUS
  <2>4. r \in [session : {s}, object : DOMAIN heap[s]]
    BY <2>3
  <2>5. r \in Objects
    BY <2>4 DEF Objects
  <2>6. Obj(r) = heap[s][o]
    BY <2>3 DEF Obj
  <2> QED BY <2>2, <2>5, <2>6 DEF Knows
<1> QED BY <1>1, ORMInvariance, PTL

\* A filter of all rows that is about to return has an object for each row there is,
\* those inserted after its scan apart, though others insert, change and drop rows
\* between its requests.
THEOREM FilterFindsAll == ORMSpec => []FilterMissesNothing
<1>1. ORMInv => FilterMissesNothing
  <2> SUFFICES ASSUME ORMInv, NEW s \in Sessions,
                      stack[s] # <<>>, Top(s).op = "filter",
                      Top(s).conditions = <<>>, Top(s).left = {}, Top(s).last.op = OP_AL,
                      NEW id \in DOMAIN content[Top(s).table]
               PROVE  \/ id > Top(s).given
                      \/ \E o \in Top(s).result : heap[s][o].pk = id
    BY DEF FilterMissesNothing
  <2>1. /\ Len(stack[s]) = 1 /\ stack[s][1] = Top(s)
        /\ FilterCalls(content, row_count, heap[s], stack[s])
    BY FilterFacts
  <2>2. Listed(content, heap[s], stack[s])
    BY <2>1 DEF FilterCalls
  <2> QED BY <2>1, <2>2 DEF Listed
<1> QED BY <1>1, ORMInvariance, PTL

\* Only the stack of the session that moves is changed.
LEMMA OneMoves ==
  ASSUME ORMTypes, NEW s \in Sessions, Start(s) \/ Continue(s),
         NEW e \in Sessions, e # s
  PROVE  stack'[e] = stack[e]
<1>1. CASE Construct(s) \/ Assign(s) \/ Delete(s)
  BY <1>1 DEF Construct, Assign, Delete
<1>2. CASE Save(s) \/ Filter(s) \/ SaveReference(s)
  BY <1>2 DEF Save, Filter, SaveReference, Push, ORMTypes
<1>3. CASE SaveRow(s)
  BY <1>3 DEF SaveRow, Raise, ORMTypes
<1>4. ASSUME NEW frames, NEW t, NEW pk, Request_row(s, frames, t, pk)
      PROVE  stack'[e] = stack[e]
  BY <1>4 DEF Request_row, Push, ORMTypes
<1>5. CASE Get(s) \/ GetReference(s) \/ FilterGet(s)
  BY <1>4, <1>5 DEF Get, GetReference, FilterGet
<1>6. CASE GetReturns(s) \/ FilterReturns(s)
  BY <1>6 DEF GetReturns, FilterReturns, ORMTypes
<1>7. CASE FilterScan(s)
  BY <1>7 DEF FilterScan, Raise, ORMTypes
<1> QED BY <1>1, <1>2, <1>3, <1>5, <1>6, <1>7 DEF Start, Continue

\* A session with a call whose stack is changed goes on with the call on top.
LEMMA CallMoves ==
  ASSUME ORMTypes, [ORMNext]_ormVars, NEW s \in Sessions, stack[s] # <<>>,
         stack'[s] # stack[s]
  PROVE  /\ Top(s).op = "save" => SaveReference(s) \/ SaveRow(s)
         /\ Top(s).op = "get" => GetReference(s) \/ GetReturns(s)
<1>1. ORMNext
  BY DEF ormVars
<1>2. PICK e \in Sessions : Start(e) \/ Continue(e)
  BY <1>1 DEF ORMNext
<1>3. e = s
  BY <1>2, OneMoves
<1>4. ~Start(s)
  BY DEF Start, Construct, Assign, Save, Delete, Get, Filter, Begin
<1>5. Continue(s)
  BY <1>2, <1>3, <1>4
<1>6. SaveReference(s) \/ SaveRow(s) => Top(s).op = "save"
  BY DEF SaveReference, SaveRow
<1>7. GetReference(s) \/ GetReturns(s) => Top(s).op = "get"
  BY DEF GetReference, GetReturns
<1>8. FilterScan(s) \/ FilterGet(s) \/ FilterReturns(s) => Top(s).op = "filter"
  BY DEF FilterScan, FilterGet, FilterReturns
<1> QED BY <1>5, <1>6, <1>7, <1>8 DEF Continue

\* A step of save writes one row or none.
LEMMA SaveMoves ==
  ASSUME ORMInv, [ORMNext]_ormVars, NEW s \in Sessions, stack[s] # <<>>,
         Top(s).op = "save", stack'[s] # stack[s]
  PROVE  content' = content \/ SaveDone(s)
<1>1. ORMTypes
  BY DEF ORMInv
<1>2. SaveReference(s) \/ SaveRow(s)
  BY <1>1, CallMoves
<1>3. CASE SaveReference(s)
  BY <1>3 DEF SaveReference, database
<1>4. CASE SaveRow(s)
  BY <1>4, SaveRowCases DEF SaveRefused
<1> QED BY <1>2, <1>3, <1>4

LEMMA SaveReplaces ==
  ASSUME ORMInv, [ORMNext]_ormVars, NEW s \in Sessions, stack'[s] # stack[s]
  PROVE  ReplacesWhatWasSeen(s)
<1>1. SUFFICES ASSUME stack[s] # <<>>, Top(s).op = "save", Top(s).atomic,
                      NEW obj, obj = heap[s][Top(s).object],
                      HasRow(obj), obj.pk \in DOMAIN content'[obj.table]
               PROVE  \/ content'[obj.table][obj.pk] = RowOfObject(obj)
                      \/ RowOfObject(obj).row_values = obj.seen
  BY DEF ReplacesWhatWasSeen
<1>2. CASE content' = content
  BY <1>2 DEF RowOfObject
<1>3. CASE SaveDone(s)
  <2>1. obj.pk # 0 /\ obj.pk \in DOMAIN content[obj.table]
    BY <1>1 DEF HasRow, Live
  <2>2. Matches(content[obj.table][obj.pk], obj.version)
    BY <1>1, <1>3, <2>1 DEF SaveDone, SentVersion
  <2>3. Known(content, row_count, obj.table, obj.pk, obj.version, obj.seen)
    BY <1>1, <2>1, SaveFacts DEF ObjectsKnown
  <2>4. obj.version # 0
    BY <2>3 DEF Known
  <2>5. obj.version = content[obj.table][obj.pk].version
    BY <2>2, <2>4 DEF Matches
  <2> QED BY <2>1, <2>3, <2>5 DEF Known, RowOfObject
<1> QED BY <1>1, <1>2, <1>3, SaveMoves

\* An atomic save overwrites nothing but what its object has seen, though others write
\* the row between the read and the save.
THEOREM AtomicSavesLoseNothing == ORMSpec => NoLostUpdate
<1>1. ORMInv /\ [ORMNext]_ormVars
        => \A s \in Sessions : stack'[s] # stack[s] => ReplacesWhatWasSeen(s)
  BY SaveReplaces
<1>2. (\A s \in Sessions : stack'[s] # stack[s] => ReplacesWhatWasSeen(s))
        => [\A s \in Sessions : stack'[s] # stack[s] => ReplacesWhatWasSeen(s)]_ormVars
  OBVIOUS
<1> QED BY <1>1, ORMInvariance, PTL DEF ORMSpec, NoLostUpdate

LEMMA SaveChanges ==
  ASSUME ORMInv, [ORMNext]_ormVars, NEW s \in Sessions, stack[s] # <<>>,
         Top(s).op = "save", stack'[s] # stack[s]
  PROVE  ChangesOwnRowOnly(s)
<1>1. CASE content' = content
  BY <1>1 DEF ChangesOwnRowOnly
<1>2. CASE SaveDone(s)
  <2>1. PICK obj : obj = heap[s][Top(s).object]
    OBVIOUS
  <2>2. PICK id \in Nat \ {0}, obj2 \in PyObject :
          /\ Wrote(obj.table, id, obj2)
          /\ obj.pk # 0 => obj.pk = id
          /\ obj.pk = 0 => id = row_count[obj.table] + 1
          /\ outcome' = [outcome EXCEPT ![s] = "nothing"]
    BY <1>2, <2>1 DEF SaveDone
  <2>3. /\ outcome'[s] = "nothing" /\ obj \in PyObject /\ obj.table \in TableIds
    <3>1. outcome'[s] = "nothing"
      BY <2>2 DEF ORMInv, ORMTypes
    <3>2. obj \in PyObject
      BY <2>1, SaveFacts
    <3> QED BY <3>1, <3>2 DEF PyObject
  <2>4. \A u \in TableIds : \A p \in DOMAIN content[u] :
          \/ u = obj.table /\ p = id
          \/ p \in DOMAIN content'[u] /\ content'[u][p] = content[u][p]
    BY <2>2 DEF Wrote
  <2>5. CASE obj.pk = 0
    <3>1. row_count[obj.table] \in Nat /\ DOMAIN content[obj.table] \subseteq 1..row_count[obj.table]
      BY <2>3, SessionFacts DEF TablesOK
    <3>2. id \notin DOMAIN content[obj.table]
      BY <2>2, <2>5, <3>1
    <3> QED BY <2>4, <3>2 DEF ChangesOwnRowOnly
  <2>6. CASE obj.pk # 0
    <3>1. /\ stack[s] \in Seq(Calls)
          /\ SaveCalls(heap[s], stack[s])
          /\ \A k \in DOMAIN stack[s] : stack[s][k].op = "save"
      BY SaveFacts
    <3>2. /\ Len(stack[s]) \in Nat /\ Len(stack[s]) >= 1
          /\ Len(stack[s]) \in DOMAIN stack[s] /\ 1 \in DOMAIN stack[s]
      BY <3>1, TopFacts
    <3>3. Len(stack[s]) > 1 => heap[s][Top(s).object].pk = 0
      BY <3>1, <3>2 DEF SaveCalls, Top
    <3>4. Len(stack[s]) = 1
      <4>1. ~(Len(stack[s]) > 1)
        BY <2>1, <2>6, <3>3
      <4>2. PICK n \in Nat : n = Len(stack[s]) /\ n >= 1
        BY <3>2
      <4>3. n \in Nat /\ n >= 1 /\ ~(n > 1)
        BY <4>1, <4>2
      <4>4. n = 1
        BY ONLY <4>3
      <4> QED BY <4>2, <4>4
    <3>5. obj = heap[s][stack[s][1].object]
      BY <2>1, <3>4 DEF Top
    <3> QED BY <2>2, <2>3, <2>4, <2>6, <3>5 DEF ChangesOwnRowOnly
  <2> QED BY <2>5, <2>6
<1> QED BY <1>1, <1>2, SaveMoves

\* Whatever save inserts on its way and wherever it fails, the only row that was there
\* and is changed is that of the object it was called for.
THEOREM SavesChangeOneRow == ORMSpec => SaveChangesOneRow
<1>1. ORMInv /\ [ORMNext]_ormVars
        => \A s \in Sessions :
             stack[s] # <<>> /\ stack'[s] # stack[s] /\ Top(s).op = "save"
               => ChangesOwnRowOnly(s)
  BY SaveChanges
<1> QED BY <1>1, ORMInvariance, PTL DEF ORMSpec, SaveChangesOneRow

LEMMA GetFails ==
  ASSUME ORMInv, [ORMNext]_ormVars, NEW s \in Sessions, stack[s] # <<>>,
         Top(s).op = "get", stack'[s] = <<>>, outcome'[s] # "nothing",
         Live(Top(s).table, Top(s).pk),
         content[Top(s).table][Top(s).pk].version = Top(s).version
  PROVE  FALSE
<1>1. ORMTypes
  BY DEF ORMInv
<1>2. GetReference(s) \/ GetReturns(s)
  BY <1>1, CallMoves
<1>3. CASE GetReturns(s)
  BY <1>1, <1>3 DEF GetReturns, ORMTypes
<1>4. CASE GetReference(s)
  <2>1. PICK f : f = Top(s)
    OBVIOUS
  <2>2. PICK i : i = Min(Missing(f))
    OBVIOUS
  <2>3. PICK t, pk : /\ t = Schema[f.table][i].c_ref /\ pk = f.values[i].val
                     /\ Request_row(s, stack[s], t, pk)
    BY <1>4, <2>1, <2>2 DEF GetReference
  <2>4. f \in GetCall /\ Missing(f) # {} /\ GetOK(content, row_count, heap[s], f)
    BY <1>4, <2>1, GetFacts DEF GetReference
  <2>5. i \in Foreigns(f.table) /\ f.table \in TableIds /\ t \in TableIds
    BY <2>2, <2>3, <2>4, MissingFacts
  <2>6. f.pk \in DOMAIN content[f.table] /\ content[f.table][f.pk].version = f.version
    BY <2>1 DEF Live
  <2>7. f.values = content[f.table][f.pk].row_values
    BY <2>4, <2>6 DEF GetOK, Known
  <2>8. TablesOK(content, row_count)
    BY SessionFacts
  <2>9. pk \in DOMAIN content[t]
    BY <2>3, <2>5, <2>6, <2>7, <2>8 DEF TablesOK
  <2>10. handle_request(KeyRequest("Get", t, pk))
    BY <2>3 DEF Request_row
  <2>11. call'.response = Got(content[t][pk].version, content[t][pk].row_values)
    BY <2>5, <2>8, <2>9, <2>10, GetServed
  <2>12. call'.response.kind = "Get"
    BY <2>11 DEF Got
  <2>13. PICK g : stack'[s] = Append(stack[s], g)
    BY <1>1, <2>3, <2>12 DEF Request_row, Push, ORMTypes
  <2>14. stack[s] \in Seq(Calls)
    BY <1>1 DEF ORMTypes
  <2> QED BY <2>13, <2>14
<1> QED BY <1>2, <1>3, <1>4

\* A reference of a row that is there unchanged is always found: get raises
\* ObjectDoesNotExist for one only after the row was dropped or changed.
THEOREM GetsFailOnConflictOnly == ORMSpec => GetFailsOnConflict
<1>1. ORMInv /\ [ORMNext]_ormVars
        => \A s \in Sessions :
             /\ stack[s] # <<>> /\ Top(s).op = "get"
             /\ stack'[s] = <<>> /\ outcome'[s] # "nothing"
             => ~(/\ Live(Top(s).table, Top(s).pk)
                  /\ content[Top(s).table][Top(s).pk].version = Top(s).version)
  <2> SUFFICES ASSUME ORMInv, [ORMNext]_ormVars, NEW s \in Sessions,
                      stack[s] # <<>>, Top(s).op = "get",
                      stack'[s] = <<>>, outcome'[s] # "nothing",
                      Live(Top(s).table, Top(s).pk),
                      content[Top(s).table][Top(s).pk].version = Top(s).version
               PROVE  FALSE
    OBVIOUS
  <2> QED BY GetFails
<1> QED BY <1>1, ORMInvariance, PTL DEF ORMSpec, GetFailsOnConflict
=============================================================================
