--------------------------- MODULE MCEasyDBValues ---------------------------
(***************************************************************************)
(* Columns, values and requests, for the instances of EasyDB that TLC      *)
(* checks.  The codes of the types are those of packet.rs.                 *)
(***************************************************************************)
EXTENDS Integers

Col(type)  == [c_type |-> type, c_ref |-> 0]
Ref(table) == [c_type |-> 4, c_ref |-> table]

Null       == [type |-> 0, val |-> 0]
Int1(i)    == [type |-> 1, val |-> i]
Float(i)   == [type |-> 2, val |-> i]
Text(i)    == [type |-> 3, val |-> i]
Foreign(i) == [type |-> 4, val |-> i]

Inserts(t, rows) == [command : {"Insert"}, table_id : {t}, values : rows]
Updates(t, ids, versions, rows) ==
  [command : {"Update"}, table_id : {t}, object_id : ids, version : versions,
   values : rows]
Drops(tables, ids) == [command : {"Drop"}, table_id : tables, object_id : ids]
Gets(tables, ids)  == [command : {"Get"}, table_id : tables, object_id : ids]
Queries(t, cols, ops, vals) ==
  [command : {"Query"}, table_id : {t}, column_id : cols, operator : ops,
   value : vals]

=============================================================================
