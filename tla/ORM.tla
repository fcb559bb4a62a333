-------------------------------- MODULE ORM --------------------------------
(***************************************************************************)
(* The object-relational mapper, asst2/orm: programs hold objects, local   *)
(* copies of rows with the id and version they were read or written under, *)
(* and read and write the rows of one database through them.               *)
(*                                                                         *)
(* A session is one such program.  Each request to the database is a step  *)
(* (AtomicDB, what the server promises), so between two requests of one    *)
(* operation another session may change the rows it is about.              *)
(*                                                                         *)
(* Columns that are not foreign are of type int here.  The numbers of      *)
(* objects stand for Python references; 0 is None, for a pk too.           *)
(***************************************************************************)
EXTENDS AtomicDB, EasyDBRequests, FiniteSetsExt

CONSTANTS
  Sessions,     \* the programs, each with a connection of its own
  Stored,       \* table -> the rows that are there when the programs start
  Blank,        \* <<table, column>>: the foreign fields with blank=True
  Data,         \* the ints that programs put in fields
  Filters,      \* table and conditions of the filters that programs ask for
  Script        \* bound: session -> sets of the operations it may start, in order

Foreigns(t) == {i \in DOMAIN Schema[t] : Schema[t][i].c_type = FOREIGN}

\* A value of the type of its column in each column, none of them NULL
Fits(t, values) ==
  /\ Len(values) = Len(Schema[t])
  /\ \A i \in DOMAIN values : values[i].type = Schema[t][i].c_type

\* The rows were saved by such programs: they fit the schema, and refer to each other.
ASSUME StoredAssumption ==
  /\ Stored \in [TableIds -> Seq(Seq(Value))]
  /\ \A t \in TableIds : \A o \in DOMAIN Stored[t] :
       /\ Fits(t, Stored[t][o])
       /\ \A i \in Foreigns(t) : Stored[t][o][i].val \in DOMAIN Stored[Schema[t][i].c_ref]

ASSUME DataAssumption == Data \subseteq Int

\* A filter with no condition has one with the operator AL.
Condition == [op : Int, column : Int, value : Value]

ASSUME FiltersAssumption ==
  Filters \subseteq [table : TableIds, conditions : Seq(Condition) \ {<<>>}]

VARIABLES
  heap,      \* session -> its objects
  stack,     \* session -> its calls of save, get and filter, the outermost first
  outcome,   \* session -> what its last operation raised, or "nothing"
  ops        \* session -> operations started

ormVars == <<content, row_count, call, heap, stack, outcome, ops>>

ORMInit ==
  /\ content = [t \in TableIds |->
       [o \in DOMAIN Stored[t] |-> [version |-> 1, row_values |-> Stored[t][o]]]]
  /\ row_count = [t \in TableIds |-> Len(Stored[t])]
  /\ call = [request |-> NoRequest, response |-> Pending]
  /\ heap = [s \in Sessions |-> <<>>]
  /\ stack = [s \in Sessions |-> <<>>]
  /\ outcome = [s \in Sessions |-> "nothing"]
  /\ ops = [s \in Sessions |-> 0]

-----------------------------------------------------------------------------
\* _get_field_values(format=True): references as primary keys
format(s, o) ==
  LET obj == heap[s][o] IN
  [i \in DOMAIN obj.fields |->
     IF i \notin Foreigns(obj.table) THEN Py(obj.fields[i])
     ELSE IF obj.fields[i] = 0 \/ heap[s][obj.fields[i]].pk = 0 THEN None
     ELSE Py(heap[s][obj.fields[i]].pk)]

\* What a field of a class may hold: an int, or an object of exactly its class
Candidates(s, t, i) ==
  IF i \in Foreigns(t)
  THEN {o \in DOMAIN heap[s] : heap[s][o].table = Schema[t][i].c_ref}
  ELSE Data

-----------------------------------------------------------------------------
\* The call on top, its return, and an exception, which no call catches.  Objects
\* made since the outermost call began are not known to the program then.
Top(s) == stack[s][Len(stack[s])]
Below(s) == SubSeq(stack[s], 1, Len(stack[s]) - 1)

Raise(s, exception) ==
  /\ stack' = [stack EXCEPT ![s] = <<>>]
  /\ outcome' = [outcome EXCEPT ![s] = exception]
  /\ heap' = [heap EXCEPT ![s] = SubSeq(@, 1, stack[s][1].base)]
  /\ UNCHANGED ops

Push(s, frames, frame) == stack' = [stack EXCEPT ![s] = Append(frames, frame)]

Begin(s, operation) ==
  /\ stack[s] = <<>>
  /\ ops[s] < Len(Script[s])
  /\ operation \in Script[s][ops[s] + 1]
  /\ ops' = [ops EXCEPT ![s] = @ + 1]

database == <<content, row_count, call>>

-----------------------------------------------------------------------------
\* Table.__init__; a blank field may be left out
Construct(s) ==
  /\ Begin(s, "Construct")
  /\ \E t \in TableIds :
     \E fields \in [DOMAIN Schema[t] -> Data \cup DOMAIN heap[s] \cup {0}] :
       /\ \A i \in DOMAIN fields :
            \/ fields[i] \in Candidates(s, t, i)
            \/ fields[i] = 0 /\ <<t, i>> \in Blank
       /\ heap' = [heap EXCEPT ![s] =
            Append(@, [table |-> t, pk |-> 0, version |-> 0, fields |-> fields,
                       seen |-> <<>>])]
  /\ UNCHANGED <<database, stack, outcome>>

\* Field.__set__ on an object that has the field: None is refused
Assign(s) ==
  /\ Begin(s, "Assign")
  /\ \E o \in DOMAIN heap[s] : \E i \in DOMAIN heap[s][o].fields :
     \E v \in Candidates(s, heap[s][o].table, i) :
       heap' = [heap EXCEPT ![s][o].fields[i] = v]
  /\ UNCHANGED <<database, stack, outcome>>

-----------------------------------------------------------------------------
SaveFrame(s, o, atomic) ==
  [op |-> "save", base |-> Len(heap[s]), object |-> o, atomic |-> atomic, at |-> 1]

Save(s) ==
  /\ Begin(s, "Save")
  /\ \E o \in DOMAIN heap[s], atomic \in BOOLEAN : Push(s, <<>>, SaveFrame(s, o, atomic))
  /\ UNCHANGED <<database, heap, outcome>>

\* Mutant: a referenced object is saved whether it has a primary key or not
EveryReference(s, f) ==
  LET obj == heap[s][f.object] IN
  {i \in Foreigns(obj.table) : i >= f.at /\ obj.fields[i] # 0}

\* The references that the loop of save still has to follow
Unsaved(s, f) ==
  LET obj == heap[s][f.object] IN
  {i \in Foreigns(obj.table) :
     i >= f.at /\ obj.fields[i] # 0 /\ heap[s][obj.fields[i]].pk = 0}

SaveReference(s) ==
  /\ stack[s] # <<>> /\ Top(s).op = "save"
  /\ Unsaved(s, Top(s)) # {}
  /\ LET i == Min(Unsaved(s, Top(s)))
         f == Top(s)
     IN  Push(s, Append(Below(s), [f EXCEPT !.at = i + 1]),
              SaveFrame(s, heap[s][f.object].fields[i], f.atomic))
  /\ UNCHANGED <<database, heap, outcome, ops>>

\* Mutant: save sends version 0 whether it is atomic or not
NoVersion(f, obj) == 0

SentVersion(f, obj) == IF f.atomic THEN obj.version ELSE 0

save_request(f, obj, values) ==
  IF obj.pk = 0 THEN InsertRequest(obj.table, values)
  ELSE UpdateRequest(obj.table, obj.pk, values, SentVersion(f, obj))

\* Mutant: the version that the database returns is not stored
VersionForgotten(obj, response, values) ==
  [obj EXCEPT !.pk = IF response.kind = "Insert" THEN response.id ELSE @,
              !.seen = values]

\* The object after its insert or update
Written(obj, response, values) ==
  [obj EXCEPT !.pk = IF response.kind = "Insert" THEN response.id ELSE @,
              !.version = IF response.kind = "Error" THEN 0 ELSE response.version,
              !.seen = values]

\* The references of the object are saved: insert or update its row
SaveRow(s) ==
  /\ stack[s] # <<>> /\ Top(s).op = "save"
  /\ Unsaved(s, Top(s)) = {}
  /\ LET f      == Top(s)
         obj    == heap[s][f.object]
         values == format(s, f.object)
         req    == save_request(f, obj, values)
     IN  \/ /\ ~check_values(obj.table, values)
            /\ Raise(s, "PacketError")
            /\ UNCHANGED database
         \/ /\ check_values(obj.table, values)
            /\ handle_request(req)
            /\ raises(req.command, call'.response) # "nothing"
            /\ Raise(s, raises(req.command, call'.response))
         \/ /\ check_values(obj.table, values)
            /\ handle_request(req)
            /\ raises(req.command, call'.response) = "nothing"
            /\ heap' = [heap EXCEPT ![s][f.object] =
                          Written(obj, call'.response, req.values)]
            /\ stack' = [stack EXCEPT ![s] = Below(s)]
            /\ outcome' = [outcome EXCEPT ![s] = "nothing"]
            /\ UNCHANGED ops

\* Table.delete: the primary key is forgotten when the drop has not raised
Delete(s) ==
  /\ Begin(s, "Delete")
  /\ UNCHANGED stack
  /\ \E o \in DOMAIN heap[s] :
       LET obj == heap[s][o] IN
       \/ /\ obj.pk = 0
          /\ outcome' = [outcome EXCEPT ![s] = "PacketError"]
          /\ UNCHANGED <<database, heap>>
       \/ /\ obj.pk # 0
          /\ handle_request(KeyRequest("Drop", obj.table, obj.pk))
          /\ outcome' = [outcome EXCEPT ![s] = raises("Drop", call'.response)]
          /\ IF raises("Drop", call'.response) = "nothing"
             THEN heap' = [heap EXCEPT ![s][o].pk = 0, ![s][o].version = 0]
             ELSE UNCHANGED heap

-----------------------------------------------------------------------------
\* A call of get that has its row and is to follow its references
GetFrame(s, t, pk, row) ==
  [op |-> "get", base |-> Len(heap[s]), table |-> t, pk |-> pk,
   version |-> row.version, values |-> row.values, refs |-> [i \in {} |-> 0]]

\* The request of get, called by the program (frames is empty) or by another call
Request_row(s, frames, t, pk) ==
  /\ handle_request(KeyRequest("Get", t, pk))
  /\ \/ /\ call'.response.kind = "Get"
        /\ Push(s, frames, GetFrame(s, t, pk, call'.response))
        /\ UNCHANGED <<heap, outcome>>
     \/ /\ call'.response.kind = "Error"
        /\ stack' = [stack EXCEPT ![s] = <<>>]
        /\ outcome' = [outcome EXCEPT ![s] = raises("Get", call'.response)]
        /\ heap' = [heap EXCEPT ![s] =
             SubSeq(@, 1, IF frames = <<>> THEN Len(@) ELSE frames[1].base)]

Get(s) ==
  /\ Begin(s, "Get")
  /\ \E t \in TableIds : \E pk \in 1..MaxId : Request_row(s, <<>>, t, pk)

\* The foreign columns whose objects a call of get has not got yet
Missing(f) == Foreigns(f.table) \ DOMAIN f.refs

GetReference(s) ==
  /\ stack[s] # <<>> /\ Top(s).op = "get"
  /\ Missing(Top(s)) # {}
  /\ LET i == Min(Missing(Top(s)))
     IN  Request_row(s, stack[s], Schema[Top(s).table][i].c_ref, Top(s).values[i].val)
  /\ UNCHANGED ops

\* Mutant: filter keeps the last object only
LastObjectOnly(frame, o) ==
  IF frame.op = "get"
  THEN [frame EXCEPT !.refs = [i \in DOMAIN @ \cup {Min(Missing(frame))} |->
                                 IF i \in DOMAIN @ THEN @[i] ELSE o]]
  ELSE [frame EXCEPT !.result = {o}]

\* The caller of get goes on with the object: a call of get for a reference of its
\* own, or one of filter, which lists it
Receive(frame, o) ==
  IF frame.op = "get"
  THEN [frame EXCEPT !.refs = [i \in DOMAIN @ \cup {Min(Missing(frame))} |->
                                 IF i \in DOMAIN @ THEN @[i] ELSE o]]
  ELSE [frame EXCEPT !.result = @ \cup {o}]

\* cls(db, **kwargs), then pk and version
GetReturns(s) ==
  /\ stack[s] # <<>> /\ Top(s).op = "get"
  /\ Missing(Top(s)) = {}
  /\ LET f == Top(s)
         o == Len(heap[s]) + 1
         field(i) == IF i \in Foreigns(f.table) THEN f.refs[i] ELSE f.values[i].val
     IN  /\ heap' = [heap EXCEPT ![s] =
              Append(@, [table |-> f.table, pk |-> f.pk, version |-> f.version,
                         fields |-> [i \in DOMAIN f.values |-> field(i)],
                         seen |-> f.values])]
         /\ stack' = [stack EXCEPT ![s] =
              [k \in 1..(Len(@) - 1) |->
                 IF k = Len(@) - 1 THEN Receive(@[k], o) ELSE @[k]]]
         /\ outcome' = [outcome EXCEPT ![s] = "nothing"]
  /\ UNCHANGED <<database, ops>>

-----------------------------------------------------------------------------
\* filter and count, its length: the conditions are looked at one by one, and AL
\* stands for none.  `last' and `given' remember the scan, for the properties.
Filter(s) ==
  /\ Begin(s, "Filter")
  /\ \E q \in Filters :
       Push(s, <<>>, [op |-> "filter", base |-> Len(heap[s]), table |-> q.table,
                      conditions |-> q.conditions, last |-> Head(q.conditions),
                      left |-> {}, result |-> {}, given |-> row_count[q.table]])
  /\ UNCHANGED <<database, heap, outcome>>

\* The scan of the next condition; what the one before has listed is dropped
FilterScan(s) ==
  /\ stack[s] # <<>> /\ Top(s).op = "filter"
  /\ Top(s).left = {} /\ Top(s).conditions # <<>>
  /\ LET f == Top(s)
         c == Head(f.conditions)
     IN  \/ /\ ~check_scan(f.table, c.op, c.column, c.value)
            /\ Raise(s, "PacketError")
            /\ UNCHANGED database
         \/ /\ check_scan(f.table, c.op, c.column, c.value)
            /\ handle_request(ScanRequest(f.table, c.op, c.column, c.value))
            /\ call'.response.kind = "Error"
            /\ Raise(s, raises("Query", call'.response))
         \/ /\ check_scan(f.table, c.op, c.column, c.value)
            /\ handle_request(ScanRequest(f.table, c.op, c.column, c.value))
            /\ call'.response.kind = "Query"
            /\ stack' = [stack EXCEPT ![s] =
                 <<[f EXCEPT !.conditions = Tail(@), !.last = c, !.result = {},
                             !.left = call'.response.ids, !.given = row_count[f.table]]>>]
            /\ heap' = [heap EXCEPT ![s] = SubSeq(@, 1, f.base)]
            /\ UNCHANGED <<outcome, ops>>

\* cls.get for a row that the scan listed
FilterGet(s) ==
  /\ stack[s] # <<>> /\ Top(s).op = "filter"
  /\ \E pk \in Top(s).left :
       Request_row(s, Append(Below(s), [Top(s) EXCEPT !.left = @ \ {pk}]),
                   Top(s).table, pk)
  /\ UNCHANGED ops

FilterReturns(s) ==
  /\ stack[s] # <<>> /\ Top(s).op = "filter"
  /\ Top(s).left = {} /\ Top(s).conditions = <<>>
  /\ stack' = [stack EXCEPT ![s] = Below(s)]
  /\ outcome' = [outcome EXCEPT ![s] = "nothing"]
  /\ UNCHANGED <<database, heap, ops>>

-----------------------------------------------------------------------------
\* The operations a program starts, and what one that was started goes on with
Start(s) == Construct(s) \/ Assign(s) \/ Save(s) \/ Delete(s) \/ Get(s) \/ Filter(s)

Continue(s) ==
  \/ SaveReference(s) \/ SaveRow(s)
  \/ GetReference(s) \/ GetReturns(s)
  \/ FilterScan(s) \/ FilterGet(s) \/ FilterReturns(s)

ORMNext == \E s \in Sessions : Start(s) \/ Continue(s)

ORMSpec == ORMInit /\ [][ORMNext]_ormVars

-----------------------------------------------------------------------------
(***************************************************************************)
(* Properties.  `seen' of an object is the row it was last read from or    *)
(* written to; the program does not keep it.                               *)
(***************************************************************************)
Objects == UNION {[session : {s}, object : DOMAIN heap[s]] : s \in Sessions}
Obj(r) == heap[r.session][r.object]

HasRow(obj) == obj.pk # 0 /\ Live(obj.table, obj.pk)
RowOfObject(obj) == content[obj.table][obj.pk]

\* Every row a session wrote is known, with its last version and contents, to an
\* object: no save leaves a row behind that no program can reach, and none
\* leaves its own object stale.
WritersUpToDate ==
  \A t \in TableIds : \A id \in DOMAIN content[t] :
    content[t][id].version > 1 \/ id > Len(Stored[t])
      => \E r \in Objects :
           /\ Obj(r).table = t /\ Obj(r).pk = id
           /\ Obj(r).version = content[t][id].version
           /\ Obj(r).seen = content[t][id].row_values

\* An atomic save replaces exactly what its object last read or wrote, never a
\* change of somebody else.
ReplacesWhatWasSeen(s) ==
  stack[s] # <<>> /\ Top(s).op = "save" /\ Top(s).atomic =>
    LET obj == heap[s][Top(s).object] IN
    HasRow(obj) /\ obj.pk \in DOMAIN content'[obj.table]
      => \/ content'[obj.table][obj.pk] = RowOfObject(obj)
         \/ RowOfObject(obj).row_values = obj.seen

NoLostUpdate ==
  [][\A s \in Sessions : stack'[s] # stack[s] => ReplacesWhatWasSeen(s)]_ormVars

\* save inserts the objects it refers to that have no row yet, and changes no row
\* but that of the object it was called for: not those of objects referred to
\* that were assigned to, and none at all when it raises.
ChangesOwnRowOnly(s) ==
  \A t \in TableIds : \A id \in DOMAIN content[t] :
    \/ id \in DOMAIN content'[t] /\ content'[t][id] = content[t][id]
    \/ LET obj == heap[s][stack[s][1].object] IN
       /\ obj.table = t /\ obj.pk = id
       /\ outcome'[s] = "nothing"

SaveChangesOneRow ==
  [][\A s \in Sessions :
       stack[s] # <<>> /\ stack'[s] # stack[s] /\ Top(s).op = "save"
         => ChangesOwnRowOnly(s)]_ormVars

\* While the row that a call of get has read is there unchanged, so are the rows it
\* refers to: a get of an object that exists raises ObjectDoesNotExist for a
\* reference only when another session dropped or changed the row meanwhile.
GetFailsOnConflict ==
  [][\A s \in Sessions :
       /\ stack[s] # <<>> /\ Top(s).op = "get"
       /\ stack'[s] = <<>> /\ outcome'[s] # "nothing"
       => ~(/\ Live(Top(s).table, Top(s).pk)
            /\ content[Top(s).table][Top(s).pk].version = Top(s).version)]_ormVars

\* A filter that asked for all rows and returns has an object for every row that
\* is there, though it asked for them one by one: a row it misses was inserted
\* after its scan, so its id is greater than those given out by then.
FilterMissesNothing ==
  \A s \in Sessions :
    /\ stack[s] # <<>> /\ Top(s).op = "filter"
    /\ Top(s).conditions = <<>> /\ Top(s).left = {} /\ Top(s).last.op = OP_AL
    => \A id \in DOMAIN content[Top(s).table] :
         \/ id > Top(s).given
         \/ \E o \in Top(s).result : heap[s][o].pk = id
=============================================================================
