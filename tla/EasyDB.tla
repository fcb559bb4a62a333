------------------------------- MODULE EasyDB -------------------------------
(***************************************************************************)
(* The in-memory database of EasyDB, asst3/database.rs, with the recursion *)
(* of handle_drop.  It first collects every field that refers to its       *)
(* object, then calls itself for the row of each of them and only then     *)
(* removes the object, so it is one step per call and per return, with the *)
(* recursion stack in `frames'.                                            *)
(***************************************************************************)
EXTENDS EasyDBTables

VARIABLE frames   \* calls of handle_drop in progress, the outermost first

vars == <<content, row_count, frames, call>>

\* A field that refers to the object of a call: a recursive call for its row
Cell == [table_id : TableIds, object_id : 1..MaxId, column : Nat]

\* A call of handle_drop: its object, the fields left in table_list, and the
\* field its last recursive call was for (the object itself before the first)
Frame == [table_id : TableIds, object_id : 1..MaxId, todo : SUBSET Cell, last : Cell]

Init == InitTables /\ frames = <<>>

-----------------------------------------------------------------------------
\* Mutant: the search for referring rows stops at the first one
FirstReferrerOnly(t, o) ==
  [table_id |-> t, object_id |-> o,
   todo |-> IF Referrers(t, o) = {} THEN {} ELSE {CHOOSE c \in Referrers(t, o) : TRUE},
   last |-> [table_id |-> t, object_id |-> o, column |-> 0]]

NewFrame(t, o) ==
  [table_id |-> t, object_id |-> o, todo |-> Referrers(t, o),
   last |-> [table_id |-> t, object_id |-> o, column |-> 0]]

\* The call of handle_drop by handle_request
handle_drop(req) ==
  \/ refuse_drop(req) /\ UNCHANGED frames
  \/ /\ Live(req.table_id, req.object_id)
     /\ frames' = <<NewFrame(req.table_id, req.object_id)>>
     /\ Respond(req, Pending)
     /\ UNCHANGED <<content, row_count>>

Top == frames[Len(frames)]

\* table_list is a HashMap of vectors filled from HashMaps: tables in any order,
\* the rows of a table together in any order, the fields of a row together
NextCells(f) ==
  {c \in f.todo :
     /\ (\E d \in f.todo : d.table_id = f.last.table_id) => c.table_id = f.last.table_id
     /\ (\E d \in f.todo : SameRow(d, f.last)) => SameRow(c, f.last)}

\* Mutant: a field is not taken off the list, nor its row looked up, before the call
DropReferrerAgain ==
  /\ frames # <<>>
  /\ \E c \in NextCells(Top) :
       frames' = Append(frames, NewFrame(c.table_id, c.object_id))
  /\ UNCHANGED <<content, row_count, call>>

\* The recursive call for a row that is still there
DropReferrer ==
  /\ frames # <<>>
  /\ \E c \in NextCells(Top) :
       /\ Live(c.table_id, c.object_id)
       /\ frames' = Append([frames EXCEPT ![Len(frames)] =
                              [Top EXCEPT !.todo = @ \ {c}, !.last = c]],
                           NewFrame(c.table_id, c.object_id))
  /\ UNCHANGED <<content, row_count, call>>

\* The recursive call for a row that an earlier one dropped: its NOT_FOUND is
\* returned by every call on the stack
AbortDrop ==
  /\ frames # <<>>
  /\ \E c \in NextCells(Top) : ~Live(c.table_id, c.object_id)
  /\ frames' = <<>>
  /\ Respond(call.request, Error(NOT_FOUND))
  /\ UNCHANGED <<content, row_count>>

\* Mutant: the object is removed before the rows that refer to it
RemoveObjectFirst ==
  /\ frames # <<>>
  /\ content' = [content EXCEPT ![Top.table_id] =
                    Restrict(@, DOMAIN @ \ {Top.object_id})]
  /\ frames' = SubSeq(frames, 1, Len(frames) - 1)
  /\ IF frames' = <<>> THEN Respond(call.request, Dropped) ELSE UNCHANGED call
  /\ UNCHANGED row_count

\* Nothing refers to the object any more: remove it and return to the caller
RemoveObject ==
  /\ frames # <<>>
  /\ Top.todo = {}
  /\ content' = [content EXCEPT ![Top.table_id] =
                    Restrict(@, DOMAIN @ \ {Top.object_id})]
  /\ frames' = SubSeq(frames, 1, Len(frames) - 1)
  /\ IF frames' = <<>> THEN Respond(call.request, Dropped) ELSE UNCHANGED call
  /\ UNCHANGED row_count

DropStep == DropReferrer \/ AbortDrop \/ RemoveObject

-----------------------------------------------------------------------------
\* handle_request, up to its return or its first recursive call
handle_request(req) ==
  \/ handle_in_one_step(req) /\ UNCHANGED frames
  \/ req.command = "Drop" /\ handle_drop(req)

\* The database serves one request at a time
Next ==
  \/ frames = <<>> /\ \E req \in Requests : handle_request(req)
  \/ DropStep

Spec == Init /\ [][Next]_vars

\* A thread that runs handle_drop runs it to its end
FairSpec == Spec /\ WF_vars(DropStep)

-----------------------------------------------------------------------------
(***************************************************************************)
(* Properties                                                              *)
(***************************************************************************)
\* The type of the state; ids of live rows have been given out by row_count.
TypeOK ==
  /\ content = [t \in TableIds |-> content[t]]
  /\ row_count \in [TableIds -> 0..MaxId]
  /\ \A t \in TableIds : /\ content[t] \in [DOMAIN content[t] -> Row]
                         /\ DOMAIN content[t] \subseteq 1..row_count[t]
  /\ frames \in Seq(Frame)
  /\ call \in [request : Requests \cup {NoRequest}, response : Response]

\* Every row has a value for each column of its table, NULL or of the type of
\* the column: `cols[index]' in handle_drop and `row_values[column_id-1]' in
\* handle_query stay in range, and `_' arms of the matches are for NULL only.
RowsFitSchema ==
  \A t \in TableIds : \A o \in DOMAIN content[t] :
    LET values == content[t][o].row_values IN
    /\ Len(values) = Len(Schema[t])
    /\ \A i \in DOMAIN values : values[i].type \in {NULL, Schema[t][i].c_type}

\* A field that refers to a row refers to a live one, in every state, those in
\* the middle of a cascade and those after a cascade that failed included:
\* handle_drop removes the referring rows before the row they refer to.
ReferentialIntegrity ==
  \A t \in TableIds : \A o \in DOMAIN content[t] :
    \A i \in DOMAIN content[t][o].row_values :
      LET v == content[t][o].row_values[i]
      IN  v.type = FOREIGN => Live(Schema[t][i].c_ref, v.val)

\* The recursion of handle_drop goes from a table to one declared after it, so
\* it is never deeper than there are tables, whatever rows the tables hold.
RecursionBounded ==
  /\ Len(frames) <= Len(Schema)
  /\ \A k \in DOMAIN frames : k <= frames[k].table_id
  /\ \A k \in DOMAIN frames : \A c \in frames[k].todo :
       frames[k].table_id < c.table_id

\* What the recursion relies on: a row that refers to the object of a call in
\* progress is either still to be dropped by this call or being dropped by it.
Covered ==
  \A k \in DOMAIN frames :
    LET f == frames[k] IN
    \A c \in Referrers(f.table_id, f.object_id) :
      \/ c \in f.todo
      \/ /\ k < Len(frames)
         /\ SameRow(c, frames[k + 1])

\* NOT_FOUND is the answer to a request about a row that is not in the table
\* (packet.rs, "id not found"), for each of Update, Drop and Get.
NotFoundMeansAbsent ==
  call.response = Error(NOT_FOUND) =>
    ~Live(call.request.table_id, call.request.object_id)

\* An id that was given out and is no longer in its table never comes back,
\* neither for a new row nor after a drop: row_count only grows.
RowsStayGone ==
  \A t \in TableIds : \A o \in 1..row_count[t] :
    o \notin DOMAIN content[t] => o \notin DOMAIN content'[t]

GoneForever == [][RowsStayGone]_vars

\* Two different contents of a row never carry the same version: what a client
\* read under a version is what its update with that version replaces.
ChangesRaiseVersion ==
  \A t \in TableIds : \A o \in DOMAIN content[t] \cap DOMAIN content'[t] :
    content'[t][o] # content[t][o] => content'[t][o].version > content[t][o].version

VersionIdentifiesValues == [][ChangesRaiseVersion]_vars

\* The operators agree with each other on every column: of the queries of a
\* column by a value, those answered split the rows the way their names say,
\* and < and >=, > and <= are answered or refused together.
QueriesPartition ==
  \A q \in {<<r.table_id, r.column_id, r.value>> :
              r \in {s \in Requests : s.command = "Query"}} :
    LET R(op)        == QueryResponse(q[1], q[2], op, q[3])
        All          == DOMAIN content[q[1]]
        Answered(op) == R(op).kind = "Query"
    IN  q[1] \in TableIds /\ q[3].type # NULL =>
          /\ Answered(OP_EQ) /\ Answered(OP_NE) => R(OP_EQ).ids = All \ R(OP_NE).ids
          /\ Answered(OP_LT) <=> Answered(OP_GE)
          /\ Answered(OP_GT) <=> Answered(OP_LE)
          /\ Answered(OP_LT) /\ Answered(OP_GT) =>
               /\ R(OP_GE).ids = All \ R(OP_LT).ids
               /\ R(OP_LE).ids = All \ R(OP_GT).ids
               /\ R(OP_NE).ids = R(OP_LT).ids \cup R(OP_GT).ids
               /\ R(OP_LT).ids \cap R(OP_GT).ids = {}

\* A drop that was begun is answered: the cascade ends.
DropTerminates == (frames # <<>>) ~> (frames = <<>>)
=============================================================================
