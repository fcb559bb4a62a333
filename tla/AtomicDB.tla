------------------------------ MODULE AtomicDB ------------------------------
(***************************************************************************)
(* What the database promises of a drop, with no recursion and in no       *)
(* particular order: the object goes together with every row that refers   *)
(* to it, to one of those, and so on, in one step.                         *)
(*                                                                         *)
(* There is one exception.  Where a row of that family refers to two of    *)
(* its members, or to one by two columns, the drop may give up with        *)
(* NOT_FOUND.  The object is then still there, and so is everything it     *)
(* refers to, but a part of its family is gone, one that leaves no row     *)
(* with a reference to a row that is gone.                                 *)
(***************************************************************************)
EXTENDS EasyDBTables

vars == <<content, row_count, call>>

RowOf(c) == [table_id |-> c.table_id, object_id |-> c.object_id]

LiveRows == UNION {[table_id : {t}, object_id : DOMAIN content[t]] : t \in TableIds}

\* A set of rows with every row that refers to one of them
IsClosed(S) ==
  \A r \in S : \A c \in Referrers(r.table_id, r.object_id) : RowOf(c) \in S

\* Mutant: the rows that refer to r are left where they are
ItselfOnly(r) == {r}

\* The rows that refer to r, directly or not, and r itself: the least closed set
\* with r in it.  References are to earlier tables, so the others are of later ones.
Later(r) == {s \in LiveRows : s.table_id > r.table_id}

Family(r) ==
  {r} \cup {s \in Later(r) : \A S \in SUBSET Later(r) : IsClosed({r} \cup S) => s \in S}

Without(S) ==
  [t \in TableIds |->
     Restrict(content[t], {o \in DOMAIN content[t] :
                             [table_id |-> t, object_id |-> o] \notin S})]

\* Two fields of one row refer to rows of S
TwoWaysInto(S) ==
  \E r, s \in S : \E c \in Referrers(r.table_id, r.object_id),
                     d \in Referrers(s.table_id, s.object_id) :
    c # d /\ SameRow(c, d)

drop(req) ==
  LET r == RowOf(req) IN
  \/ refuse_drop(req)
  \/ /\ r \in LiveRows
     /\ Respond(req, Dropped)
     /\ content' = Without(Family(r))
     /\ UNCHANGED row_count
  \/ /\ r \in LiveRows
     /\ Respond(req, Error(NOT_FOUND))
     /\ TwoWaysInto(Family(r))
     /\ \E S \in SUBSET (Family(r) \ {r}) :
          S # {} /\ content' = Without(S) /\ IsClosed(S)
     /\ UNCHANGED row_count

handle_request(req) ==
  \/ handle_in_one_step(req)
  \/ req.command = "Drop" /\ drop(req)

Next == \E req \in Requests : handle_request(req)

Spec == InitTables /\ [][Next]_vars
=============================================================================
