------------------------- MODULE MCEasyDBRefinement -------------------------
(***************************************************************************)
(* Three tables where a row of the third can refer to a row of the first   *)
(* and to one of the second, which refers to the first as well.  The first *)
(* table has a column of every other type.                                 *)
(***************************************************************************)
EXTENDS EasyDBRefinement, MCEasyDBValues

DiamondSchema == << <<Col(INTEGER), Col(FLOAT), Col(TEXT)>>, <<Ref(1)>>, <<Ref(1), Ref(2)>> >>

\* A column of each type by a value of it
DiamondQueries ==
  UNION { Queries(1, {1}, {OP_LE}, {Int1(1)}),
          Queries(1, {2}, {OP_GT}, {Float(1)}),
          Queries(1, {3}, {OP_LT}, {Text(1)}),
          Queries(2, {1}, {OP_EQ}, {Foreign(1)}) }

DiamondRequests ==
  UNION { Inserts(1, {<<Int1(1), Float(1), Text(1)>>}),
          Inserts(2, {<<Foreign(1)>>, <<Null, Null>>}),
          Inserts(3, {<<Foreign(1), Foreign(1)>>, <<Null, Foreign(1)>>,
                      <<Foreign(2), Null>>, <<Foreign(1), Text(1)>>}),
          Updates(1, {1}, {1}, {<<Int1(2), Float(2), Null>>}),
          Updates(2, {1, 2}, {0}, {<<Foreign(2)>>}),
          Drops(1..2, {1, 2}),
          DiamondQueries }
=============================================================================
