--------------------------- MODULE MCSchemaParser ---------------------------
(***************************************************************************)
(* Texts of two tables over few names, and programs of one or two classes. *)
(***************************************************************************)
EXTENDS SchemaParser

Field(kinds, names) == [name : names, kind : kinds, table : {"a", "integer"}]

First  == [name : {"a", "integer"},
           fields : {<<>>} \cup {<<f>> : f \in Field({"integer", "Coordinate"}, {"x", "id"})}]
Second == [name : {"a", "b"},
           fields : {<<f, g>> : f \in Field({"Foreign", "DateTime"}, {"x"}),
                                g \in Field({"Foreign", "string"}, {"x", "y"})}]

Programs == {<<c>> : c \in First} \cup {<<c, d>> : c \in First, d \in Second}
=============================================================================
