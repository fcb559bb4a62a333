------------------------------- MODULE MCORM -------------------------------
(***************************************************************************)
(* Two programs on one database of two tables: a row of the second refers  *)
(* to two rows of the first, or twice to one.                              *)
(***************************************************************************)
EXTENDS ORM, MCEasyDBValues

CONSTANTS s1, s2

PairSchema == << <<Col(INTEGER)>>, <<Ref(1), Ref(1)>> >>

PairStored == << << <<Int1(0)>>, <<Int1(0)>> >>, << <<Foreign(1), Foreign(2)>> >> >>

SecondBlank == {<<2, 2>>}

When(op, column, value) == [op |-> op, column |-> column, value |-> value]
Every == When(OP_AL, -1, None)

\* No condition, two conditions, one on ids, and one on a column there is not
PairFilters ==
  { [table |-> 1, conditions |-> <<Every>>],
    [table |-> 2, conditions |-> <<When(OP_EQ, 1, Py(2)), When(OP_EQ, 2, Py(2))>>],
    [table |-> 1, conditions |-> <<When(OP_EQ, 0, Py(1))>>],
    [table |-> 1, conditions |-> <<When(OP_EQ, -1, Py(1))>>] }

PairScript ==
  [s \in {s1, s2} |->
     IF s = s1
     THEN << {"Construct", "Get"}, {"Construct", "Assign", "Filter"}, {"Save"} >>
     ELSE << {"Get"}, {"Assign", "Delete"}, {"Save"} >>]
=============================================================================
