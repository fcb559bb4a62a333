------------------------- MODULE SchemaParserProofs -------------------------
(***************************************************************************)
(* Theorems about SchemaParser, for every text and every program.          *)
(*                                                                         *)
(* The references go back whatever is read (SchemaInv).  Nothing is lost,  *)
(* for what has been read, written again, is what was taken of the text    *)
(* (ReadOK).  And a text that a program has exported is read as what it    *)
(* has exported: where the parser is in the schema says what the next      *)
(* token is, and that this token is the one it wants (Follows).            *)
(***************************************************************************)
EXTENDS SchemaParser, SequenceFacts

\* The identifiers there can be: those of any text, and those of the text that is read
Tokens == Names \cup Punctuation \cup {text[i] : i \in DOMAIN text} \cup {NoName}

ColumnRead == [c_name : Tokens, c_type : Tokens \cup Native \cup {"foreign"}, c_ref : Nat]
TableRead  == [t_name : Tokens, t_cols : Seq(ColumnRead)]

\* What the parser holds
HoldsOK ==
  /\ tables \in Seq(TableRead) /\ columns \in Seq(ColumnRead)
  /\ table \in Tokens /\ column \in Tokens /\ type \in Tokens

\* The columns of the t-th table refer to tables before it.
GoBack(cols, t) ==
  \A i \in 1..Len(cols) :
    /\ cols[i].c_ref < t
    /\ cols[i].c_type = "foreign" <=> cols[i].c_ref # 0

SchemaInv ==
  /\ HoldsOK
  /\ \A t \in 1..Len(tables) : tables[t].t_cols # <<>> /\ GoBack(tables[t].t_cols, t)
  /\ GoBack(columns, Len(tables) + 1)

-----------------------------------------------------------------------------
\* The empty sequence is a sequence without anything.
LEMMA NoElements == \A T : <<>> \in Seq(T) /\ Len(<<>>) = 0
BY EmptySeq

\* The parser starts with nothing.
LEMMA SchemaInitially == SchemaInit => SchemaInv
BY NoElements DEF SchemaInit, SchemaInv, HoldsOK, GoBack, Tokens

\* What leaves tables and columns alone leaves the references alone.
LEMMA SameReferences ==
  ASSUME SchemaInv, text' = text, tables' = tables, columns' = columns \/ columns' = <<>>,
         table' \in Tokens, column' \in Tokens, type' \in Tokens
  PROVE  SchemaInv'
<1>1. Tokens' = Tokens /\ TableRead' = TableRead /\ ColumnRead' = ColumnRead
  BY DEF Tokens, TableRead, ColumnRead
<1>2. columns' \in Seq(ColumnRead)
  BY NoElements DEF SchemaInv, HoldsOK
<1>3. GoBack(columns, Len(tables) + 1)'
  BY NoElements DEF SchemaInv, GoBack
<1>4. \A t \in 1..Len(tables) : (tables[t].t_cols # <<>> /\ GoBack(tables[t].t_cols, t))'
  BY DEF SchemaInv, GoBack
<1> QED BY <1>1, <1>2, <1>3, <1>4 DEF SchemaInv, HoldsOK

\* A table that is closed has columns, and they go back from where it is now.
LEMMA CloseTable ==
  ASSUME SchemaInv, text' = text, columns # <<>>,
         tables' = Append(tables, [t_name |-> table, t_cols |-> columns]),
         UNCHANGED <<table, columns, column, type>>
  PROVE  SchemaInv'
<1>1. Tokens' = Tokens /\ TableRead' = TableRead /\ ColumnRead' = ColumnRead
  BY DEF Tokens, TableRead, ColumnRead
<1>2. [t_name |-> table, t_cols |-> columns] \in TableRead
  BY DEF SchemaInv, HoldsOK, TableRead
<1>3. tables \in Seq(TableRead) /\ Len(tables) \in Nat
  BY LenProperties DEF SchemaInv, HoldsOK
<1>4. /\ tables' \in Seq(TableRead) /\ Len(tables') = Len(tables) + 1
      /\ \A t \in 1..Len(tables) : tables'[t] = tables[t]
      /\ tables'[Len(tables) + 1] = [t_name |-> table, t_cols |-> columns]
  BY <1>2, <1>3, AppendProperties
<1>5. HoldsOK'
  BY <1>1, <1>4 DEF SchemaInv, HoldsOK
<1>6. ASSUME NEW t \in 1..Len(tables')
      PROVE  tables'[t].t_cols # <<>> /\ GoBack(tables'[t].t_cols, t)
  <2>1. CASE t \in 1..Len(tables)
    BY <1>4, <2>1 DEF SchemaInv
  <2>2. CASE t = Len(tables) + 1
    <3>1. tables'[t].t_cols = columns
      BY <1>4, <2>2
    <3>2. columns # <<>> /\ GoBack(columns, Len(tables) + 1)
      BY DEF SchemaInv
    <3> QED BY <2>2, <3>1, <3>2
  <2> QED BY <1>3, <1>4, <2>1, <2>2
<1>7. GoBack(columns', Len(tables') + 1)
  <2>1. columns \in Seq(ColumnRead)
    BY DEF SchemaInv, HoldsOK
  <2>2. ASSUME NEW i \in 1..Len(columns) PROVE columns[i].c_ref \in Nat
    <3>1. columns[i] \in ColumnRead
      BY <2>1, ElementOfSeq
    <3> QED BY <3>1 DEF ColumnRead
  <2>3. /\ columns' = columns
        /\ \A i \in 1..Len(columns) :
             /\ columns[i].c_ref < Len(tables) + 1
             /\ columns[i].c_type = "foreign" <=> columns[i].c_ref # 0
    BY DEF SchemaInv, GoBack
  <2> QED BY <1>3, <1>4, <2>2, <2>3 DEF GoBack
<1> QED BY <1>5, <1>6, <1>7 DEF SchemaInv, GoBack

\* A column is native, or refers to a table that has been read.
LEMMA EndColumn ==
  ASSUME SchemaInv, text' = text, NEW col \in ColumnRead, col.c_ref <= Len(tables),
         col.c_type = "foreign" <=> col.c_ref # 0,
         columns' = Append(columns, col), UNCHANGED <<tables, table, column, type>>
  PROVE  SchemaInv'
<1>1. Tokens' = Tokens /\ TableRead' = TableRead /\ ColumnRead' = ColumnRead
  BY DEF Tokens, TableRead, ColumnRead
<1>2. columns \in Seq(ColumnRead) /\ Len(columns) \in Nat /\ Len(tables) \in Nat
  BY LenProperties DEF SchemaInv, HoldsOK
<1>3. /\ columns' \in Seq(ColumnRead) /\ Len(columns') = Len(columns) + 1
      /\ \A i \in 1..Len(columns) : columns'[i] = columns[i]
      /\ columns'[Len(columns) + 1] = col
  BY <1>2, AppendProperties
<1>4. HoldsOK'
  BY <1>1, <1>3 DEF SchemaInv, HoldsOK
<1>5. ASSUME NEW i \in 1..Len(columns')
      PROVE  /\ columns'[i].c_ref < Len(tables) + 1
             /\ columns'[i].c_type = "foreign" <=> columns'[i].c_ref # 0
  <2>1. CASE i \in 1..Len(columns)
    BY <1>3, <2>1 DEF SchemaInv, GoBack
  <2>2. CASE i = Len(columns) + 1
    <3>1. col.c_ref \in Nat
      BY DEF ColumnRead
    <3> QED BY <1>2, <1>3, <2>2, <3>1
  <2> QED BY <1>2, <1>3, <2>1, <2>2
<1>6. GoBack(columns, Len(tables) + 1)'
  BY <1>5 DEF GoBack
<1>7. \A t \in 1..Len(tables) : (tables[t].t_cols # <<>> /\ GoBack(tables[t].t_cols, t))'
  BY DEF SchemaInv, GoBack
<1> QED BY <1>4, <1>6, <1>7 DEF SchemaInv

\* Every step of the parser keeps the references going back.
LEMMA SchemaNextKeeps ==
  ASSUME SchemaInv, [SchemaNext]_schemaVars
  PROVE  SchemaInv'
<1>0. table \in Tokens /\ column \in Tokens /\ type \in Tokens
  BY DEF SchemaInv, HoldsOK
<1>1. ASSUME Read PROVE SchemaInv'
  <2>1. PICK tok \in Names \cup Punctuation \cup {text[i] : i \in DOMAIN text} :
          /\ Token(tok)
          /\ \/ parse_table(tok) \/ parse_column(tok) \/ column_type(tok) \/ end_column(tok)
             \/ Expect("{", "column", tok, "expecting '{' after table name")
             \/ Expect(":", "type", tok, "expecting ':' after column name")
    BY <1>1 DEF Read
  <2>2. text' = text /\ tok \in Tokens
    BY <2>1 DEF Token, Tokens
  <2>3. \A error : Fail(error) => SchemaInv'
    BY <1>0, <2>2, SameReferences DEF Fail
  <2>4. CASE parse_table(tok)
    BY <1>0, <2>2, <2>3, <2>4, SameReferences DEF parse_table
  <2>5. CASE parse_column(tok)
    <3>1. CASE close_table(table, columns)
      BY <2>2, <2>3, <3>1, CloseTable DEF close_table
    <3>2. CASE ~close_table(table, columns)
      BY <1>0, <2>2, <2>3, <2>5, <3>2, SameReferences DEF parse_column
    <3> QED BY <3>1, <3>2
  <2>6. CASE column_type(tok)
    BY <1>0, <2>2, <2>6, SameReferences DEF column_type
  <2>7. CASE end_column(tok)
    <3>1. Len(tables) \in Nat /\ DOMAIN tables = 1..Len(tables)
      BY LenProperties DEF SchemaInv, HoldsOK
    <3>2. ASSUME type \in Native,
                 columns' = Append(columns, [c_name |-> column, c_type |-> type, c_ref |-> 0]),
                 UNCHANGED <<tables, table, column, type>>
          PROVE  SchemaInv'
      <4> DEFINE col == [c_name |-> column, c_type |-> type, c_ref |-> 0]
      <4>1. /\ col \in ColumnRead /\ col.c_ref <= Len(tables)
            /\ col.c_type = "foreign" <=> col.c_ref # 0
        BY <1>0, <3>1, <3>2 DEF ColumnRead, Native
      <4> QED BY <2>2, <3>2, <4>1, EndColumn
    <3>3. ASSUME NEW t \in position(type),
                 columns' = Append(columns, [c_name |-> column, c_type |-> "foreign",
                                             c_ref |-> t]),
                 UNCHANGED <<tables, table, column, type>>
          PROVE  SchemaInv'
      <4> DEFINE col == [c_name |-> column, c_type |-> "foreign", c_ref |-> t]
      <4>1. t \in 1..Len(tables)
        BY <3>1 DEF position
      <4>2. /\ col \in ColumnRead /\ col.c_ref <= Len(tables)
            /\ col.c_type = "foreign" <=> col.c_ref # 0
        BY <1>0, <3>1, <4>1 DEF ColumnRead
      <4> QED BY <2>2, <3>3, <4>2, EndColumn
    <3> QED BY <2>3, <2>7, <3>2, <3>3 DEF end_column
  <2>8. ASSUME NEW mark, NEW next, NEW error, Expect(mark, next, tok, error)
        PROVE  SchemaInv'
    BY <1>0, <2>2, <2>3, <2>8, SameReferences DEF Expect
  <2> QED BY <2>1, <2>4, <2>5, <2>6, <2>7, <2>8
<1>2. ASSUME EndOfFile PROVE SchemaInv'
  BY <1>0, <1>2, SameReferences DEF EndOfFile
<1>3. ASSUME BadIdentifier PROVE SchemaInv'
  BY <1>0, <1>3, SameReferences DEF BadIdentifier, Fail
<1>4. ASSUME UNCHANGED schemaVars PROVE SchemaInv'
  BY <1>0, <1>4, SameReferences DEF schemaVars
<1> QED BY <1>1, <1>2, <1>3, <1>4 DEF SchemaNext

\* Whatever the text, exported or not and of any length, each foreign column refers to
\* a table that was read before its own: the rows of a database that is made of the
\* tables cannot refer to each other in a circle.
THEOREM ReferencesAlwaysGoBack == SchemaSpec => []ReferencesGoBack
<1>1. ASSUME SchemaInv PROVE ReferencesGoBack
  <2> DEFINE all == Append(tables, [t_name |-> table, t_cols |-> columns])
  <2>1. [t_name |-> table, t_cols |-> columns] \in TableRead
    BY <1>1 DEF SchemaInv, HoldsOK, TableRead
  <2>2. tables \in Seq(TableRead) /\ Len(tables) \in Nat
    BY <1>1, LenProperties DEF SchemaInv, HoldsOK
  <2>3. /\ all \in Seq(TableRead) /\ Len(all) = Len(tables) + 1
        /\ \A t \in 1..Len(tables) : all[t] = tables[t]
        /\ all[Len(tables) + 1] = [t_name |-> table, t_cols |-> columns]
    BY <2>1, <2>2, AppendProperties
  <2>4. DOMAIN all = 1..(Len(tables) + 1)
    BY <2>3, LenProperties
  <2> HIDE DEF all
  <2>5. ASSUME NEW t \in DOMAIN all
        PROVE  GoBack(all[t].t_cols, t) /\ all[t].t_cols \in Seq(ColumnRead)
               /\ (t # Len(tables) + 1 => all[t].t_cols # <<>>)
    <3>1. CASE t \in 1..Len(tables)
      <4>1. all[t] = tables[t] /\ tables[t] \in TableRead /\ t # Len(tables) + 1
        BY <2>2, <2>3, <3>1, ElementOfSeq
      <4>2. tables[t].t_cols \in Seq(ColumnRead)
        BY <4>1 DEF TableRead
      <4>3. tables[t].t_cols # <<>> /\ GoBack(tables[t].t_cols, t)
        BY <1>1, <3>1 DEF SchemaInv
      <4> QED BY <4>1, <4>2, <4>3
    <3>2. CASE t = Len(tables) + 1
      BY <1>1, <2>3, <3>2 DEF SchemaInv, HoldsOK
    <3> QED BY <2>2, <2>4, <3>1, <3>2
  <2>6. ASSUME NEW t \in DOMAIN all, NEW i \in DOMAIN all[t].t_cols
        PROVE  /\ all[t].t_cols[i].c_ref < t
               /\ all[t].t_cols[i].c_type = "foreign" <=> all[t].t_cols[i].c_ref # 0
               /\ all[t].t_cols[i].c_ref # 0 => all[all[t].t_cols[i].c_ref].t_cols # <<>>
    <3>1. DOMAIN all[t].t_cols = 1..Len(all[t].t_cols)
      BY <2>5, LenProperties
    <3>2. all[t].t_cols[i] \in ColumnRead
      BY <2>5, <3>1, ElementOfSeq
    <3>3. all[t].t_cols[i].c_ref \in Nat
      BY <3>2 DEF ColumnRead
    <3>4. /\ all[t].t_cols[i].c_ref < t
          /\ all[t].t_cols[i].c_type = "foreign" <=> all[t].t_cols[i].c_ref # 0
      BY <2>5, <3>1 DEF GoBack
    <3>5. ASSUME NEW u \in Nat, u # 0, u < t PROVE all[u].t_cols # <<>>
      BY <2>2, <2>4, <2>5, <3>5
    <3> QED BY <3>3, <3>4, <3>5
  <2> QED BY <2>6 DEF ReferencesGoBack, all
<1>2. SchemaInv => ReferencesGoBack
  BY <1>1
<1> QED BY <1>2, SchemaInitially, SchemaNextKeeps, PTL DEF SchemaSpec

-----------------------------------------------------------------------------
\* What is exported

Column(U) == [name : U, type : U, foreign : BOOLEAN]
Table(U)  == [name : U, columns : Seq(Column(U))]

ColumnsText(cols) == FlattenSeq([i \in DOMAIN cols |-> export_column(cols[i])])
TableText(t) == <<t.name, "{">> \o ColumnsText(t.columns) \o <<"}">>

\* A column is four tokens.
LEMMA ColumnText ==
  ASSUME NEW U, Punctuation \subseteq U, NEW c \in Column(U)
  PROVE  export_column(c) \in Seq(U) /\ Len(export_column(c)) = 4
<1>1. c.name \in U /\ c.type \in U /\ ":" \in U /\ ";" \in U
  BY DEF Column, Punctuation
<1>2. PICK a, b, d, e : a = c.name /\ b = ":" /\ d = c.type /\ e = ";"
  OBVIOUS
<1>3. a \in U /\ b \in U /\ d \in U /\ e \in U
  BY <1>1, <1>2
<1>4. <<a, b, d, e>> \in Seq(U) /\ Len(<<a, b, d, e>>) = 4
  BY ONLY <1>3
<1> QED BY <1>2, <1>4 DEF export_column

\* The texts of columns, one by one
LEMMA ColumnTexts ==
  ASSUME NEW U, Punctuation \subseteq U, NEW cols \in Seq(Column(U))
  PROVE  [i \in DOMAIN cols |-> export_column(cols[i])] \in Seq(Seq(U))
<1>1. PICK m : m = [i \in DOMAIN cols |-> export_column(cols[i])]
  OBVIOUS
<1>2. \A i \in DOMAIN cols : cols[i] \in Column(U)
  BY LenProperties, ElementOfSeq
<1>3. \A i \in DOMAIN cols : m[i] \in Seq(U)
  BY <1>1, <1>2, ColumnText
<1>4. m = [i \in DOMAIN cols |-> m[i]]
  BY <1>1
<1>5. m \in Seq(Seq(U))
  BY <1>3, <1>4, Mapped
<1> QED BY <1>1, <1>5

\* The text of columns is that of all but the last, and that of the last.
LEMMA ColumnsTexts ==
  ASSUME NEW U, Punctuation \subseteq U
  PROVE  /\ ColumnsText(<<>>) = <<>>
         /\ \A cols \in Seq(Column(U)) : ColumnsText(cols) \in Seq(U)
         /\ \A cols \in Seq(Column(U)), c \in Column(U) :
              ColumnsText(Append(cols, c)) = ColumnsText(cols) \o export_column(c)
<1>1. ColumnsText(<<>>) = <<>>
  <2>1. [i \in DOMAIN <<>> |-> export_column(<<>>[i])] = <<>>
    OBVIOUS
  <2> QED BY <2>1, Flatten DEF ColumnsText
<1>2. \A cols \in Seq(Column(U)) : ColumnsText(cols) \in Seq(U)
  BY ColumnTexts, Flatten DEF ColumnsText
<1>3. ASSUME NEW cols \in Seq(Column(U)), NEW c \in Column(U)
      PROVE  ColumnsText(Append(cols, c)) = ColumnsText(cols) \o export_column(c)
  <2>1. PICK all : all = Append(cols, c)
    OBVIOUS
  <2>2. PICK n \in Nat : n = Len(cols) /\ DOMAIN cols = 1..n
    BY LenProperties
  <2>3. /\ all \in Seq(Column(U)) /\ DOMAIN all = 1..(n + 1) /\ all[n + 1] = c
        /\ \A i \in 1..n : all[i] = cols[i]
    BY <2>1, <2>2, AppendProperties, LenProperties
  <2>4. PICK m, m2 : /\ m = [i \in DOMAIN cols |-> export_column(cols[i])]
                     /\ m2 = [i \in DOMAIN all |-> export_column(all[i])]
    OBVIOUS
  <2>5. m \in Seq(Seq(U)) /\ m2 \in Seq(Seq(U)) /\ export_column(c) \in Seq(U)
    BY <2>3, <2>4, ColumnTexts, ColumnText
  <2>6. Len(m) = n /\ Len(m2) = n + 1 /\ DOMAIN m = 1..n
    <3>1. DOMAIN m = 1..n /\ DOMAIN m2 = 1..(n + 1)
      BY <2>2, <2>3, <2>4
    <3>2. Len(m) \in Nat /\ Len(m2) \in Nat /\ 1..Len(m) = 1..n /\ 1..Len(m2) = 1..(n + 1)
      BY <2>5, <3>1, LenProperties
    <3> QED BY <3>1, <3>2
  <2>7. m2[n + 1] = export_column(c) /\ \A i \in DOMAIN m : m2[i] = m[i]
    BY <2>2, <2>3, <2>4, <2>6
  <2>8. m2 = Append(m, export_column(c))
    BY <2>5, <2>6, <2>7, OneMore
  <2>9. FlattenSeq(m2) = FlattenSeq(m) \o export_column(c)
    BY <2>5, <2>8, Flatten
  <2> QED BY <2>1, <2>4, <2>9 DEF ColumnsText
<1> QED BY <1>1, <1>2, <1>3

\* A table is written in the words it is made of.
LEMMA TableTextType ==
  ASSUME NEW U, Punctuation \subseteq U, NEW t \in Table(U)
  PROVE  TableText(t) \in Seq(U)
<1>1. <<t.name, "{">> \in Seq(U) /\ <<"}">> \in Seq(U)
  <2>1. t.name \in U /\ "{" \in U /\ "}" \in U
    BY DEF Table, Punctuation
  <2>2. PICK a, b, d : a = t.name /\ b = "{" /\ d = "}"
    OBVIOUS
  <2>3. a \in U /\ b \in U /\ d \in U
    BY <2>1, <2>2
  <2>4. <<a, b>> \in Seq(U) /\ <<d>> \in Seq(U)
    BY ONLY <2>3
  <2> QED BY <2>2, <2>4
<1>2. ColumnsText(t.columns) \in Seq(U)
  BY ColumnsTexts DEF Table
<1> QED BY <1>1, <1>2, ConcatProperties DEF TableText

\* The texts of tables, one by one
LEMMA TableTexts ==
  ASSUME NEW U, Punctuation \subseteq U, NEW schema \in Seq(Table(U))
  PROVE  [t \in DOMAIN schema |-> TableText(schema[t])] \in Seq(Seq(U))
<1>1. PICK m : m = [t \in DOMAIN schema |-> TableText(schema[t])]
  OBVIOUS
<1>2. \A t \in DOMAIN schema : schema[t] \in Table(U)
  BY LenProperties, ElementOfSeq
<1>3. \A t \in DOMAIN schema : m[t] \in Seq(U)
  BY <1>1, <1>2, TableTextType
<1>4. m = [t \in DOMAIN schema |-> m[t]]
  BY <1>1
<1>5. m \in Seq(Seq(U))
  BY <1>3, <1>4, Mapped
<1> QED BY <1>1, <1>5

\* What is exported is that of all tables but the last, and that of the last.
LEMMA Exports ==
  ASSUME NEW U, Punctuation \subseteq U
  PROVE  /\ export(<<>>) = <<>>
         /\ \A schema \in Seq(Table(U)) : export(schema) \in Seq(U)
         /\ \A schema \in Seq(Table(U)), t \in Table(U) :
              export(Append(schema, t)) = export(schema) \o TableText(t)
<1>0. \A schema : export(schema) = FlattenSeq([t \in DOMAIN schema |-> TableText(schema[t])])
  BY DEF export, TableText, ColumnsText
<1>1. export(<<>>) = <<>>
  <2>1. [t \in DOMAIN <<>> |-> TableText(<<>>[t])] = <<>>
    OBVIOUS
  <2> QED BY <1>0, <2>1, Flatten
<1>2. \A schema \in Seq(Table(U)) : export(schema) \in Seq(U)
  BY <1>0, TableTexts, Flatten
<1>3. ASSUME NEW schema \in Seq(Table(U)), NEW c \in Table(U)
      PROVE  export(Append(schema, c)) = export(schema) \o TableText(c)
  <2>1. PICK all : all = Append(schema, c)
    OBVIOUS
  <2>2. PICK n \in Nat : n = Len(schema) /\ DOMAIN schema = 1..n
    BY LenProperties
  <2>3. /\ all \in Seq(Table(U)) /\ DOMAIN all = 1..(n + 1) /\ all[n + 1] = c
        /\ \A i \in 1..n : all[i] = schema[i]
    BY <2>1, <2>2, AppendProperties, LenProperties
  <2>4. PICK m, m2 : /\ m = [i \in DOMAIN schema |-> TableText(schema[i])]
                     /\ m2 = [i \in DOMAIN all |-> TableText(all[i])]
    OBVIOUS
  <2>5. m \in Seq(Seq(U)) /\ m2 \in Seq(Seq(U)) /\ TableText(c) \in Seq(U)
    BY <2>3, <2>4, TableTexts, TableTextType
  <2>6. Len(m) = n /\ Len(m2) = n + 1 /\ DOMAIN m = 1..n
    <3>1. DOMAIN m = 1..n /\ DOMAIN m2 = 1..(n + 1)
      BY <2>2, <2>3, <2>4
    <3>2. Len(m) \in Nat /\ Len(m2) \in Nat /\ 1..Len(m) = 1..n /\ 1..Len(m2) = 1..(n + 1)
      BY <2>5, <3>1, LenProperties
    <3> QED BY <3>1, <3>2
  <2>7. m2[n + 1] = TableText(c) /\ \A i \in DOMAIN m : m2[i] = m[i]
    BY <2>2, <2>3, <2>4, <2>6
  <2>8. m2 = Append(m, TableText(c))
    BY <2>5, <2>6, <2>7, OneMore
  <2>9. FlattenSeq(m2) = FlattenSeq(m) \o TableText(c)
    BY <2>5, <2>8, Flatten
  <2> QED BY <1>0, <2>1, <2>4, <2>9
<1> QED BY <1>1, <1>2, <1>3

-----------------------------------------------------------------------------
\* What has been read, written again

WrittenColumn(ts, c) ==
  [name |-> c.c_name, foreign |-> c.c_ref # 0,
   type |-> IF c.c_ref = 0 THEN c.c_type ELSE ts[c.c_ref].t_name]

WrittenColumns(ts, cols) == [i \in DOMAIN cols |-> WrittenColumn(ts, cols[i])]

WrittenTable(ts, t) ==
  [name |-> t.t_name, columns |-> WrittenColumns(ts, t.t_cols)]

WrittenTables(ts) == [t \in DOMAIN ts |-> WrittenTable(ts, ts[t])]

\* The tokens that tables are written with
Words == Tokens \cup Native \cup {"foreign"}

\* The table that is begun, as far as it has been read
TableBegun == <<table, "{">> \o ColumnsText(WrittenColumns(tables, columns))

ColumnBegun ==
  CASE at = "column" -> <<>>
    [] at = ":"      -> <<column>>
    [] at = "type"   -> <<column, ":">>
    [] at = ";"      -> <<column, ":", type>>

Begun ==
  CASE at = "table" -> <<>>
    [] at = "{"     -> <<table>>
    [] OTHER        -> TableBegun \o ColumnBegun

\* As long as there is no error, the tables and what is begun of the next one are the
\* tokens that were read.
ReadOK ==
  result \in {"none", "tables"} =>
    /\ at \in {"table", "{", "column", ":", "type", ";"}
    /\ result = "tables" => at = "table"
    /\ at = "{" => columns = <<>>
    /\ read = export(WrittenTables(tables)) \o Begun

\* Written is what is defined here of any tables, of those that were read.
LEMMA WrittenIs == Written = WrittenTables(tables)
BY DEF Written, written, WrittenTables, WrittenTable, WrittenColumns, WrittenColumn

\* What words there are
LEMMA WordsFacts ==
  /\ Punctuation \subseteq Words /\ Tokens \subseteq Words /\ Native \subseteq Words
  /\ "foreign" \in Words
BY DEF Words, Tokens

\* A column that refers to a table that was read can be written.
LEMMA WrittenColumnType ==
  ASSUME NEW ts \in Seq(TableRead), NEW c \in ColumnRead, c.c_ref <= Len(ts)
  PROVE  WrittenColumn(ts, c) \in Column(Words)
<1>1. c.c_name \in Words /\ c.c_type \in Words /\ c.c_ref \in Nat
  BY DEF ColumnRead, Words
<1>2. ASSUME c.c_ref # 0 PROVE ts[c.c_ref].t_name \in Words
  <2>1. c.c_ref \in 1..Len(ts)
    BY <1>1, <1>2, LenProperties
  <2>2. ts[c.c_ref] \in TableRead
    BY <2>1, ElementOfSeq
  <2> QED BY <2>2 DEF TableRead, Words
<1>3. PICK type2 \in Words : type2 = IF c.c_ref = 0 THEN c.c_type ELSE ts[c.c_ref].t_name
  BY <1>1, <1>2
<1>4. PICK f \in BOOLEAN : f = (c.c_ref # 0)
  OBVIOUS
<1>5. [name |-> c.c_name, foreign |-> f, type |-> type2] \in Column(Words)
  BY <1>1 DEF Column
<1> QED BY <1>3, <1>4, <1>5 DEF WrittenColumn

\* The columns of a table that go back are written with the tables before it.
LEMMA WrittenColumnsType ==
  ASSUME NEW ts \in Seq(TableRead), NEW cols \in Seq(ColumnRead), GoBack(cols, Len(ts) + 1)
  PROVE  /\ WrittenColumns(ts, cols) \in Seq(Column(Words))
         /\ Len(WrittenColumns(ts, cols)) = Len(cols)
         /\ \A i \in DOMAIN cols : WrittenColumns(ts, cols)[i] = WrittenColumn(ts, cols[i])
<1>1. PICK m : m = WrittenColumns(ts, cols)
  OBVIOUS
<1>2. \A i \in DOMAIN cols : m[i] = WrittenColumn(ts, cols[i])
  BY <1>1 DEF WrittenColumns
<1>3. m = [i \in DOMAIN cols |-> m[i]]
  BY <1>1 DEF WrittenColumns
<1>4. ASSUME NEW i \in DOMAIN cols PROVE m[i] \in Column(Words)
  <2>1. i \in 1..Len(cols) /\ cols[i] \in ColumnRead /\ Len(ts) \in Nat
    BY <1>4, LenProperties, ElementOfSeq
  <2>2. cols[i].c_ref \in Nat
    BY <2>1 DEF ColumnRead
  <2>3. cols[i].c_ref <= Len(ts)
    BY <2>1, <2>2 DEF GoBack
  <2> QED BY <1>2, <2>1, <2>3, WrittenColumnType
<1>5. m \in Seq(Column(Words)) /\ Len(m) = Len(cols)
  BY <1>3, <1>4, Mapped
<1> QED BY <1>1, <1>2, <1>5

\* They are written in the same way when there are more tables.
LEMMA WrittenStays ==
  ASSUME NEW ts \in Seq(TableRead), NEW ts2 \in Seq(TableRead), Len(ts) <= Len(ts2),
         \A t \in 1..Len(ts) : ts2[t] = ts[t],
         NEW cols \in Seq(ColumnRead), NEW n \in 1..(Len(ts) + 1), GoBack(cols, n)
  PROVE  WrittenColumns(ts2, cols) = WrittenColumns(ts, cols)
<1>1. ASSUME NEW i \in DOMAIN cols PROVE WrittenColumn(ts2, cols[i]) = WrittenColumn(ts, cols[i])
  <2>1. i \in 1..Len(cols) /\ cols[i] \in ColumnRead /\ Len(ts) \in Nat
    BY <1>1, LenProperties, ElementOfSeq
  <2>2. cols[i].c_ref \in Nat
    BY <2>1 DEF ColumnRead
  <2>3. cols[i].c_ref <= Len(ts)
    BY <2>1, <2>2 DEF GoBack
  <2>4. cols[i].c_ref # 0 => ts2[cols[i].c_ref] = ts[cols[i].c_ref]
    BY <2>1, <2>2, <2>3
  <2> QED BY <2>4 DEF WrittenColumn
<1> QED BY <1>1 DEF WrittenColumns

Good(ts) == ts \in Seq(TableRead) /\ \A t \in 1..Len(ts) : GoBack(ts[t].t_cols, t)

\* Columns that refer to tables before the n-th are written with any later ones.
LEMMA WrittenTableType ==
  ASSUME NEW ts \in Seq(TableRead), NEW t \in TableRead, NEW n \in 1..(Len(ts) + 1),
         GoBack(t.t_cols, n)
  PROVE  WrittenTable(ts, t) \in Table(Words)
<1>1. t.t_cols \in Seq(ColumnRead) /\ t.t_name \in Words /\ Len(ts) \in Nat
  BY LenProperties DEF TableRead, Words
<1>2. GoBack(t.t_cols, Len(ts) + 1)
  <2>1. ASSUME NEW i \in 1..Len(t.t_cols) PROVE t.t_cols[i].c_ref < Len(ts) + 1
    <3>1. t.t_cols[i] \in ColumnRead
      BY <1>1, ElementOfSeq
    <3>2. t.t_cols[i].c_ref \in Nat /\ t.t_cols[i].c_ref < n
      BY <3>1 DEF ColumnRead, GoBack
    <3> QED BY <1>1, <3>2
  <2> QED BY <2>1 DEF GoBack
<1>3. WrittenColumns(ts, t.t_cols) \in Seq(Column(Words))
  BY <1>1, <1>2, WrittenColumnsType
<1> QED BY <1>1, <1>3 DEF WrittenTable, Table

\* Tables whose references go back can be written.
LEMMA WrittenTablesType ==
  ASSUME NEW ts, Good(ts)
  PROVE  WrittenTables(ts) \in Seq(Table(Words)) /\ Len(WrittenTables(ts)) = Len(ts)
<1>1. PICK m : m = WrittenTables(ts)
  OBVIOUS
<1>2. \A t \in DOMAIN ts : m[t] = WrittenTable(ts, ts[t])
  BY <1>1 DEF WrittenTables
<1>3. m = [t \in DOMAIN ts |-> m[t]]
  BY <1>1 DEF WrittenTables
<1>4. ASSUME NEW t \in DOMAIN ts PROVE m[t] \in Table(Words)
  <2>1. /\ ts \in Seq(TableRead) /\ t \in 1..Len(ts) /\ ts[t] \in TableRead /\ Len(ts) \in Nat
    BY <1>4, LenProperties, ElementOfSeq DEF Good
  <2>2. t \in 1..(Len(ts) + 1) /\ GoBack(ts[t].t_cols, t)
    BY <2>1 DEF Good
  <2> QED BY <1>2, <2>1, <2>2, WrittenTableType
<1>5. m \in Seq(Table(Words)) /\ Len(m) = Len(ts)
  BY <1>3, <1>4, Mapped DEF Good
<1> QED BY <1>1, <1>5

\* A table more is written after the others, which do not change.
LEMMA WrittenMore ==
  ASSUME NEW ts, Good(ts), NEW t \in TableRead, GoBack(t.t_cols, Len(ts) + 1)
  PROVE  /\ WrittenTable(ts, t) \in Table(Words)
         /\ WrittenTables(Append(ts, t)) = Append(WrittenTables(ts), WrittenTable(ts, t))
<1>1. PICK n \in Nat : n = Len(ts)
  BY LenProperties DEF Good
<1>2. PICK ts2 : ts2 = Append(ts, t)
  OBVIOUS
<1>3. /\ ts \in Seq(TableRead) /\ ts2 \in Seq(TableRead) /\ Len(ts2) = n + 1
      /\ DOMAIN ts = 1..n /\ DOMAIN ts2 = 1..(n + 1)
      /\ \A k \in 1..n : ts2[k] = ts[k]
      /\ ts2[n + 1] = t
  BY <1>1, <1>2, AppendProperties, LenProperties DEF Good
<1>4. n + 1 \in 1..(Len(ts) + 1) /\ Len(ts) <= Len(ts2) /\ n + 1 = Len(ts) + 1
  BY <1>1, <1>3
<1>5. WrittenTable(ts, t) \in Table(Words)
  BY <1>3, <1>4, WrittenTableType
<1>6. t.t_cols \in Seq(ColumnRead)
  BY DEF TableRead
<1>7. WrittenTable(ts2, t) = WrittenTable(ts, t)
  <2>1. WrittenColumns(ts2, t.t_cols) = WrittenColumns(ts, t.t_cols)
    BY <1>1, <1>3, <1>4, <1>6, WrittenStays
  <2> QED BY <2>1 DEF WrittenTable
<1>8. Good(ts2)
  <2>1. ASSUME NEW k \in 1..(n + 1) PROVE GoBack(ts2[k].t_cols, k)
    <3>1. CASE k \in 1..n
      BY <1>1, <1>3, <3>1 DEF Good
    <3>2. CASE k = n + 1
      BY <1>1, <1>3, <3>2
    <3> QED BY <3>1, <3>2
  <2> QED BY <1>3, <2>1 DEF Good
<1>9. ASSUME NEW k \in 1..n PROVE WrittenTable(ts2, ts2[k]) = WrittenTable(ts, ts[k])
  <2>1. ts[k] \in TableRead /\ GoBack(ts[k].t_cols, k) /\ k \in 1..(Len(ts) + 1)
    BY <1>1, <1>3, ElementOfSeq DEF Good
  <2>2. ts[k].t_cols \in Seq(ColumnRead)
    BY <2>1 DEF TableRead
  <2>3. WrittenColumns(ts2, ts[k].t_cols) = WrittenColumns(ts, ts[k].t_cols)
    BY <1>1, <1>3, <1>4, <2>1, <2>2, WrittenStays
  <2> QED BY <1>3, <2>3 DEF WrittenTable
<1>10. PICK w, w2 : w = WrittenTables(ts) /\ w2 = WrittenTables(ts2)
  OBVIOUS
<1>11. /\ w \in Seq(Table(Words)) /\ Len(w) = n /\ DOMAIN w = 1..n
       /\ w2 \in Seq(Table(Words)) /\ Len(w2) = n + 1
  BY <1>1, <1>3, <1>8, <1>10, WrittenTablesType, LenProperties
<1>12. /\ \A k \in 1..n : w[k] = WrittenTable(ts, ts[k])
       /\ \A k \in 1..(n + 1) : w2[k] = WrittenTable(ts2, ts2[k])
  BY <1>3, <1>10 DEF WrittenTables
<1>13. w2[n + 1] = WrittenTable(ts, t) /\ \A k \in 1..n : w2[k] = w[k]
  BY <1>3, <1>7, <1>9, <1>12
<1>14. w2 = Append(w, WrittenTable(ts, t))
  BY <1>5, <1>11, <1>13, OneMore
<1> QED BY <1>2, <1>5, <1>10, <1>14

\* Whatever the parser holds can be written.
LEMMA ReadTypes ==
  ASSUME SchemaInv
  PROVE  /\ Good(tables) /\ columns \in Seq(ColumnRead) /\ GoBack(columns, Len(tables) + 1)
         /\ WrittenColumns(tables, columns) \in Seq(Column(Words))
         /\ ColumnsText(WrittenColumns(tables, columns)) \in Seq(Words)
         /\ export(WrittenTables(tables)) \in Seq(Words)
         /\ TableBegun \in Seq(Words)
         /\ table \in Words /\ column \in Words /\ type \in Words
<1>1. /\ Good(tables) /\ columns \in Seq(ColumnRead) /\ GoBack(columns, Len(tables) + 1)
      /\ table \in Words /\ column \in Words /\ type \in Words
  BY DEF SchemaInv, HoldsOK, Good, Words
<1>2. WrittenColumns(tables, columns) \in Seq(Column(Words))
  BY <1>1, WrittenColumnsType DEF Good
<1>3. ColumnsText(WrittenColumns(tables, columns)) \in Seq(Words)
  BY <1>2, WordsFacts, ColumnsTexts
<1>4. WrittenTables(tables) \in Seq(Table(Words))
  BY <1>1, WrittenTablesType
<1>5. export(WrittenTables(tables)) \in Seq(Words)
  BY <1>4, WordsFacts, Exports
<1>6. <<table, "{">> \in Seq(Words)
  <2>1. PICK a \in Words, b \in Words : a = table /\ b = "{"
    BY <1>1, WordsFacts DEF Punctuation
  <2>2. <<a, b>> \in Seq(Words)
    BY ONLY TRUE
  <2> QED BY <2>1, <2>2
<1>7. TableBegun \in Seq(Words)
  BY <1>3, <1>6, ConcatProperties DEF TableBegun
<1> QED BY <1>1, <1>2, <1>3, <1>5, <1>7

\* So can the column that is begun,
LEMMA TailType ==
  ASSUME SchemaInv, at \in {"column", ":", "type", ";"}
  PROVE  ColumnBegun \in Seq(Words)
<1>1. PICK a \in Words, b \in Words, c \in Words : a = column /\ b = ":" /\ c = type
  BY ReadTypes, WordsFacts DEF Punctuation
<1>2. /\ <<>> \in Seq(Words) /\ <<a>> \in Seq(Words) /\ <<a, b>> \in Seq(Words)
      /\ <<a, b, c>> \in Seq(Words)
  BY ONLY TRUE
<1>3. CASE at = "column"
  BY <1>2, <1>3 DEF ColumnBegun
<1>4. CASE at = ":"
  BY <1>1, <1>2, <1>4 DEF ColumnBegun
<1>5. CASE at = "type"
  BY <1>1, <1>2, <1>5 DEF ColumnBegun
<1>6. CASE at = ";"
  BY <1>1, <1>2, <1>6 DEF ColumnBegun
<1> QED BY <1>3, <1>4, <1>5, <1>6

\* and the table.
LEMMA BegunType ==
  ASSUME SchemaInv, at \in {"table", "{", "column", ":", "type", ";"}
  PROVE  Begun \in Seq(Words)
<1>1. CASE at = "table"
  BY <1>1, EmptySeq DEF Begun
<1>2. CASE at = "{"
  <2>1. PICK a \in Words : a = table
    BY ReadTypes
  <2>2. <<a>> \in Seq(Words)
    BY ONLY TRUE
  <2> QED BY <1>2, <2>1, <2>2 DEF Begun
<1>3. CASE at \in {"column", ":", "type", ";"}
  <2>1. Begun = TableBegun \o ColumnBegun
    BY <1>3 DEF Begun
  <2> QED BY <1>3, <2>1, ReadTypes, TailType, ConcatProperties
<1> QED BY <1>1, <1>2, <1>3

\* What is begun has one token more.
LEMMA ReadMore ==
  ASSUME SchemaInv, ReadOK, result = "none", text' = text, NEW tok \in Words,
         read' = Append(read, tok), result' = "none", tables' = tables,
         at' \in {"table", "{", "column", ":", "type", ";"}, at' = "{" => columns' = <<>>,
         Begun' = Append(Begun, tok)
  PROVE  ReadOK'
<1>1. PICK e, b : e = export(WrittenTables(tables)) /\ b = Begun
  OBVIOUS
<1>2. e \in Seq(Words) /\ b \in Seq(Words) /\ read = e \o b
  BY <1>1, ReadTypes, BegunType DEF ReadOK
<1>3. read' = e \o Append(b, tok)
  <2>1. Append(e \o b, tok) = e \o Append(b, tok)
    <3>1. Joins(e, b, tok)
      BY <1>2, AppendConcat
    <3> QED BY <3>1 DEF Joins
  <2> QED BY <1>2, <2>1
<1>4. export(WrittenTables(tables))' = e
  <2>1. WrittenTables(tables)' = WrittenTables(tables)
    BY DEF WrittenTables, WrittenTable, WrittenColumns, WrittenColumn
  <2> QED BY <1>1, <2>1 DEF export, export_column
<1>5. read' = export(WrittenTables(tables))' \o Begun'
  BY <1>1, <1>3, <1>4
<1>6. result' # "tables" /\ (at = "{" => columns = <<>>)'
  OBVIOUS
<1> QED BY <1>5, <1>6, Zenon DEF ReadOK

\* An error says nothing of what was read.
LEMMA ReadFails ==
  ASSUME result' \notin {"none", "tables"}
  PROVE  ReadOK'
BY DEF ReadOK

\* A column more is written after the others.
LEMMA WrittenColumnMore ==
  ASSUME SchemaInv, NEW col \in ColumnRead, col.c_ref <= Len(tables)
  PROVE  WrittenColumns(tables, Append(columns, col))
           = Append(WrittenColumns(tables, columns), WrittenColumn(tables, col))
<1>1. PICK n \in Nat : n = Len(columns) /\ DOMAIN columns = 1..n
  BY ReadTypes, LenProperties
<1>2. PICK cols2 : cols2 = Append(columns, col)
  OBVIOUS
<1>3. /\ cols2 \in Seq(ColumnRead) /\ Len(cols2) = n + 1 /\ DOMAIN cols2 = 1..(n + 1)
      /\ \A i \in 1..n : cols2[i] = columns[i]
      /\ cols2[n + 1] = col
  <2>1. columns \in Seq(ColumnRead)
    BY ReadTypes
  <2>2. /\ cols2 \in Seq(ColumnRead) /\ Len(cols2) = n + 1
        /\ \A i \in 1..n : cols2[i] = columns[i]
        /\ cols2[n + 1] = col
    BY <1>1, <1>2, <2>1, AppendProperties
  <2> QED BY <2>2, LenProperties
<1>4. PICK w, w2, c : /\ w = WrittenColumns(tables, columns) /\ w2 = WrittenColumns(tables, cols2)
                      /\ c = WrittenColumn(tables, col)
  OBVIOUS
<1>5. w \in Seq(Column(Words)) /\ c \in Column(Words)
  BY <1>4, ReadTypes, WrittenColumnType DEF Good
<1>6. Len(w) = n /\ DOMAIN w = 1..n /\ \A i \in 1..n : w[i] = WrittenColumn(tables, columns[i])
  BY <1>1, <1>4, <1>5, ReadTypes, WrittenColumnsType, LenProperties DEF Good
<1>7. /\ w2 = [i \in 1..(n + 1) |-> w2[i]]
      /\ \A i \in 1..(n + 1) : w2[i] = WrittenColumn(tables, cols2[i])
  BY <1>3, <1>4 DEF WrittenColumns
<1>8. w2[n + 1] = c /\ \A i \in 1..n : w2[i] = w[i]
  BY <1>3, <1>4, <1>6, <1>7
<1>9. ASSUME NEW i \in 1..(n + 1) PROVE w2[i] \in Column(Words)
  <2>1. CASE i \in 1..n
    BY <1>5, <1>6, <1>8, <2>1, ElementOfSeq
  <2>2. CASE i = n + 1
    BY <1>5, <1>8, <2>2
  <2> QED BY <2>1, <2>2
<1>10. w2 \in Seq(Column(Words)) /\ Len(w2) = n + 1
  <2>1. w2 = [i \in DOMAIN cols2 |-> w2[i]] /\ \A i \in DOMAIN cols2 : w2[i] \in Column(Words)
    BY <1>3, <1>7, <1>9
  <2> QED BY <1>3, <2>1, Mapped
<1>11. w2 = Append(w, c)
  BY <1>5, <1>6, <1>8, <1>10, OneMore
<1> QED BY <1>2, <1>4, <1>11

\* A token after the name of the table and its columns
LEMMA TailMore ==
  ASSUME SchemaInv, at \in {"column", ":", "type", ";"}, NEW tok \in Words
  PROVE  Append(TableBegun \o ColumnBegun, tok) = TableBegun \o Append(ColumnBegun, tok)
<1>1. PICK h \in Seq(Words), t \in Seq(Words) : h = TableBegun /\ t = ColumnBegun
  BY ReadTypes, TailType
<1>2. Joins(h, t, tok)
  BY <1>1, AppendConcat
<1> QED BY <1>1, <1>2 DEF Joins

\* A token that is read without an error is one more of what is written.
LEMMA ReadNext ==
  ASSUME SchemaInv, ReadOK, Read
  PROVE  ReadOK'
<1>1. PICK tok \in Names \cup Punctuation \cup {text[i] : i \in DOMAIN text} :
        /\ Token(tok)
        /\ \/ parse_table(tok) \/ parse_column(tok) \/ column_type(tok) \/ end_column(tok)
           \/ Expect("{", "column", tok, "expecting '{' after table name")
           \/ Expect(":", "type", tok, "expecting ':' after column name")
  BY DEF Read
<1>2. tok \in Words /\ text' = text /\ result = "none" /\ read' = Append(read, tok)
  BY <1>1 DEF Token, Tokens, Words
<1>3. CASE parse_table(tok)
  <2>1. CASE tok \in Punctuation
    BY <1>3, <2>1, ReadFails DEF parse_table, Fail
  <2>2. CASE tok \notin Punctuation
    <3>1. /\ at = "table" /\ at' = "{" /\ table' = tok /\ columns' = <<>>
          /\ UNCHANGED <<tables, column, type, result>>
      BY <1>3, <2>2 DEF parse_table
    <3>2. Begun = <<>> /\ Begun' = <<tok>>
      BY <3>1 DEF Begun
    <3>3. Begun' = Append(Begun, tok)
      BY <3>2
    <3> QED BY <1>2, <3>1, <3>3, ReadMore
  <2> QED BY <2>1, <2>2
<1>4. CASE parse_column(tok)
  <2>1. at = "column" /\ ColumnBegun = <<>> /\ Begun = TableBegun \o ColumnBegun
    BY <1>4 DEF parse_column, ColumnBegun, Begun
  <2>2. Append(Begun, tok) = TableBegun \o <<tok>>
    <3>1. Append(<<>>, tok) = <<tok>>
      OBVIOUS
    <3> QED BY <1>2, <2>1, <3>1, TailMore
  <2>3. CASE tok = "}" /\ columns = <<>>
    <3>1. close_table(table, columns)
      BY <1>4, <2>3 DEF parse_column, Punctuation
    <3>2. result' = "table has no column"
      BY <2>3, <3>1 DEF close_table, Fail
    <3> QED BY <3>2, ReadFails
  <2>4. CASE tok = "}" /\ columns # <<>>
    <3>1. PICK t : t = [t_name |-> table, t_cols |-> columns]
      OBVIOUS
    <3>2. /\ tables' = Append(tables, t) /\ at' = "table"
          /\ UNCHANGED <<table, columns, column, type, result>>
      <4>1. close_table(table, columns)
        BY <1>4, <2>4 DEF parse_column, Punctuation
      <4> QED BY <2>4, <3>1, <4>1 DEF close_table, Fail
    <3>3. t \in TableRead /\ t.t_cols = columns /\ t.t_name = table
      BY <3>1 DEF SchemaInv, HoldsOK, TableRead
    <3>4. PICK w, x, e, e2 : /\ w = WrittenTables(tables) /\ x = WrittenTable(tables, t)
                             /\ e = export(w) /\ e2 = export(WrittenTables(Append(tables, t)))
      OBVIOUS
    <3>5. x \in Table(Words) /\ WrittenTables(Append(tables, t)) = Append(w, x)
      BY <3>3, <3>4, ReadTypes, WrittenMore
    <3>6. w \in Seq(Table(Words)) /\ e \in Seq(Words)
      BY <3>4, ReadTypes, WrittenTablesType
    <3>7. e2 = e \o TableText(x)
      BY <3>4, <3>5, <3>6, WordsFacts, Exports
    <3>8. TableText(x) = TableBegun \o <<tok>>
      BY <2>4, <3>3, <3>4 DEF TableText, TableBegun, WrittenTable
    <3>9. read' = e \o (TableBegun \o <<tok>>)
      <4>1. read = e \o Begun /\ Begun \in Seq(Words)
        BY <1>2, <2>1, <3>4, BegunType DEF ReadOK
      <4>2. Append(e \o Begun, tok) = e \o Append(Begun, tok)
        <5>1. Joins(e, Begun, tok)
          BY <1>2, <3>6, <4>1, AppendConcat
        <5> QED BY <5>1 DEF Joins
      <4> QED BY <1>2, <2>2, <4>1, <4>2
    <3>10. e2 \in Seq(Words) /\ e2 \o <<>> = e2
      <4>1. TableText(x) \in Seq(Words)
        BY <3>5, WordsFacts, TableTextType
      <4> QED BY <3>6, <3>7, <4>1, ConcatProperties, ConcatEmptySeq
    <3>11. export(WrittenTables(tables))' = e2
      <4>1. PICK ts : ts = Append(tables, t)
        OBVIOUS
      <4>2. tables' = ts
        BY <3>2, <4>1
      <4>3. export(WrittenTables(tables))' = export(WrittenTables(ts))
        BY <4>2 DEF WrittenTables, WrittenTable, WrittenColumns, WrittenColumn, export,
                    export_column
      <4> QED BY <3>4, <4>1, <4>3
    <3>12. Begun' = <<>>
      BY <3>2 DEF Begun
    <3>13. read' = export(WrittenTables(tables))' \o Begun'
      BY <3>7, <3>8, <3>9, <3>10, <3>11, <3>12
    <3> QED BY <1>2, <3>2, <3>13 DEF ReadOK
  <2>5. CASE tok \in Punctuation \ {"}"}
    BY <1>4, <2>5, ReadFails DEF parse_column, Fail
  <2>6. CASE tok \notin Punctuation
    <3>1. at' = ":" /\ column' = tok /\ UNCHANGED <<tables, table, columns, type, result>>
      BY <1>4, <2>6 DEF parse_column, Punctuation
    <3>2. Begun' = TableBegun' \o <<tok>>
      BY <3>1 DEF Begun, ColumnBegun
    <3>3. TableBegun' = TableBegun
      BY <3>1 DEF TableBegun, WrittenColumns, WrittenColumn, ColumnsText, export_column
    <3> QED BY <1>2, <2>2, <3>1, <3>2, <3>3, ReadMore
  <2> QED BY <2>3, <2>4, <2>5, <2>6
<1>5. CASE column_type(tok)
  <2>1. /\ at = "type" /\ at' = ";" /\ type' = tok
        /\ UNCHANGED <<tables, table, columns, column, result>>
    BY <1>5 DEF column_type
  <2>2. ColumnBegun = <<column, ":">> /\ Begun = TableBegun \o ColumnBegun
    BY <2>1 DEF ColumnBegun, Begun
  <2>3. Append(<<column, ":">>, tok) = <<column, ":", tok>>
    BY AppendShort
  <2>4. Append(Begun, tok) = TableBegun \o <<column, ":", tok>>
    BY <1>2, <2>1, <2>2, <2>3, TailMore
  <2>5. Begun' = TableBegun' \o <<column, ":", tok>>
    BY <2>1 DEF Begun, ColumnBegun
  <2>6. TableBegun' = TableBegun
    BY <2>1 DEF TableBegun, WrittenColumns, WrittenColumn, ColumnsText, export_column
  <2> QED BY <1>2, <2>1, <2>4, <2>5, <2>6, ReadMore
<1>6. CASE end_column(tok)
  <2>1. CASE tok # ";"
    BY <1>6, <2>1, ReadFails DEF end_column, Fail
  <2>2. CASE tok = ";" /\ type \notin Native /\ position(type) = {}
    BY <1>6, <2>2, ReadFails DEF end_column, Fail
  <2>3. ASSUME NEW col \in ColumnRead, tok = ";", columns' = Append(columns, col), at = ";",
               at' = "column", UNCHANGED <<tables, table, column, type, result>>,
               col.c_name = column, col.c_ref <= Len(tables),
               WrittenColumn(tables, col).type = type
        PROVE  ReadOK'
    <3>1. PICK w, c : w = WrittenColumns(tables, columns) /\ c = WrittenColumn(tables, col)
      OBVIOUS
    <3>2. /\ w \in Seq(Column(Words)) /\ c \in Column(Words)
          /\ ColumnsText(w) \in Seq(Words) /\ export_column(c) \in Seq(Words)
      BY <2>3, <3>1, ReadTypes, WrittenColumnType, ColumnText, WordsFacts DEF Good
    <3>3. WrittenColumns(tables, columns') = Append(w, c)
      BY <2>3, <3>1, WrittenColumnMore
    <3>4. ColumnsText(Append(w, c)) = ColumnsText(w) \o export_column(c)
      BY <3>2, WordsFacts, ColumnsTexts
    <3>5. export_column(c) = <<column, ":", type, ";">>
      BY <2>3, <3>1 DEF export_column, WrittenColumn
    <3>6. Append(Begun, tok) = TableBegun \o export_column(c)
      <4>1. ColumnBegun = <<column, ":", type>> /\ Begun = TableBegun \o ColumnBegun
        BY <2>3 DEF ColumnBegun, Begun
      <4>2. PICK b, d : b = ":" /\ d = ";"
        OBVIOUS
      <4>3. Append(<<column, b, type>>, d) = <<column, b, type, d>>
        <5>1. Fourth(column, b, type, d)
          BY AppendShort
        <5> QED BY <5>1 DEF Fourth
      <4> QED BY <1>2, <2>3, <3>5, <4>1, <4>2, <4>3, TailMore
    <3>7. PICK h : h = <<table, "{">>
      OBVIOUS
    <3>8. h \in Seq(Words)
      <4>1. PICK a \in Words, b \in Words : a = table /\ b = "{"
        BY ReadTypes, WordsFacts DEF Punctuation
      <4>2. <<a, b>> \in Seq(Words)
        BY ONLY TRUE
      <4> QED BY <3>7, <4>1, <4>2
    <3>9. TableBegun' = h \o (ColumnsText(w) \o export_column(c))
      <4>1. WrittenColumns(tables, columns)' = Append(w, c)
        BY <2>3, <3>3 DEF WrittenColumns, WrittenColumn
      <4>2. ColumnsText(WrittenColumns(tables, columns))' = ColumnsText(Append(w, c))
        BY <4>1 DEF ColumnsText, export_column
      <4> QED BY <2>3, <3>4, <3>7, <4>2 DEF TableBegun
    <3>10. TableBegun \o export_column(c) = h \o (ColumnsText(w) \o export_column(c))
      <4>1. TableBegun = h \o ColumnsText(w)
        BY <3>1, <3>7 DEF TableBegun
      <4>2. Regroups(h, ColumnsText(w), export_column(c))
        BY <3>2, <3>8, Regrouped
      <4> QED BY <4>1, <4>2 DEF Regroups
    <3>11. Begun' = TableBegun' \o <<>>
      BY <2>3 DEF Begun, ColumnBegun
    <3>12. TableBegun' \in Seq(Words)
      BY <3>2, <3>8, <3>9, ConcatProperties
    <3>13. Begun' = Append(Begun, tok)
      BY <3>6, <3>9, <3>10, <3>11, <3>12, ConcatEmptySeq
    <3> QED BY <1>2, <2>3, <3>13, ReadMore
  <2>4. /\ Len(tables) \in Nat /\ DOMAIN tables = 1..Len(tables)
        /\ column \in Tokens /\ type \in Tokens
    BY LenProperties DEF SchemaInv, HoldsOK
  <2>5. ASSUME tok = ";", type \in Native,
               columns' = Append(columns, [c_name |-> column, c_type |-> type, c_ref |-> 0])
        PROVE  ReadOK'
    <3>1. PICK col : col = [c_name |-> column, c_type |-> type, c_ref |-> 0]
      OBVIOUS
    <3>2. /\ col \in ColumnRead /\ col.c_name = column /\ col.c_ref <= Len(tables)
          /\ col.c_ref = 0 /\ col.c_type = type
      <4>1. column \in Tokens /\ type \in Tokens \cup Native \cup {"foreign"} /\ 0 \in Nat
        BY <2>4
      <4>2. col \in ColumnRead
        BY ONLY <3>1, <4>1 DEF ColumnRead
      <4> QED BY <2>4, <3>1, <4>2
    <3>3. WrittenColumn(tables, col).type = type
      BY <3>2 DEF WrittenColumn
    <3>4. at = ";" /\ at' = "column" /\ UNCHANGED <<tables, table, column, type, result>>
      BY <1>6, <2>5 DEF end_column
    <3> QED BY <2>3, <2>5, <3>1, <3>2, <3>3, <3>4
  <2>6. ASSUME tok = ";", type \notin Native, NEW t \in position(type),
               columns' = Append(columns, [c_name |-> column, c_type |-> "foreign", c_ref |-> t])
        PROVE  ReadOK'
    <3>1. PICK col : col = [c_name |-> column, c_type |-> "foreign", c_ref |-> t]
      OBVIOUS
    <3>2. t \in 1..Len(tables) /\ tables[t].t_name = type
      BY <2>4, <2>6 DEF position
    <3>3. /\ col \in ColumnRead /\ col.c_name = column /\ col.c_ref <= Len(tables)
          /\ col.c_ref # 0 /\ tables[col.c_ref].t_name = type
      BY <2>4, <3>1, <3>2 DEF ColumnRead
    <3>4. WrittenColumn(tables, col).type = type
      BY <3>3 DEF WrittenColumn
    <3>5. at = ";" /\ at' = "column" /\ UNCHANGED <<tables, table, column, type, result>>
      BY <1>6, <2>6 DEF end_column, Fail
    <3> QED BY <2>3, <2>6, <3>1, <3>3, <3>4, <3>5
  <2> QED BY <1>6, <2>1, <2>2, <2>5, <2>6 DEF end_column
<1>7. CASE Expect("{", "column", tok, "expecting '{' after table name")
  <2>1. CASE tok # "{"
    BY <1>7, <2>1, ReadFails DEF Expect, Fail
  <2>2. CASE tok = "{"
    <3>1. at = "{" /\ at' = "column" /\ UNCHANGED <<tables, table, columns, column, type, result>>
      BY <1>7, <2>2 DEF Expect
    <3>2. columns = <<>>
      BY <1>2, <3>1 DEF ReadOK
    <3>3. Begun = <<table>> /\ Begun' = TableBegun' \o <<>>
      BY <3>1 DEF Begun, ColumnBegun
    <3>4. TableBegun' = <<table, "{">> \o <<>>
      <4>1. WrittenColumns(tables, <<>>) = <<>>
        BY DEF WrittenColumns
      <4>2. ColumnsText(<<>>) = <<>>
        BY ColumnsTexts, WordsFacts
      <4>3. TableBegun = <<table, "{">> \o <<>>
        BY <3>2, <4>1, <4>2 DEF TableBegun
      <4>4. TableBegun' = TableBegun
        BY <3>1 DEF TableBegun, WrittenColumns, WrittenColumn, ColumnsText, export_column
      <4> QED BY <4>3, <4>4
    <3>5. TableBegun' \o <<>> = <<table, "{">>
      <4>1. PICK a \in Words, b \in Words : a = table /\ b = "{"
        BY ReadTypes, WordsFacts DEF Punctuation
      <4>2. <<a, b>> \in Seq(Words)
        BY ONLY TRUE
      <4>3. <<a, b>> \o <<>> = <<a, b>>
        BY <4>2, ConcatEmptySeq
      <4> QED BY <3>4, <4>1, <4>3
    <3>6. Append(<<table>>, tok) = <<table, "{">>
      BY <2>2, AppendShort
    <3>7. Begun' = Append(Begun, tok)
      BY <3>3, <3>5, <3>6
    <3> QED BY <1>2, <3>1, <3>7, ReadMore
  <2> QED BY <2>1, <2>2
<1>8. CASE Expect(":", "type", tok, "expecting ':' after column name")
  <2>1. CASE tok # ":"
    BY <1>8, <2>1, ReadFails DEF Expect, Fail
  <2>2. CASE tok = ":"
    <3>1. at = ":" /\ at' = "type" /\ UNCHANGED <<tables, table, columns, column, type, result>>
      BY <1>8, <2>2 DEF Expect
    <3>2. /\ ColumnBegun = <<column>> /\ Begun = TableBegun \o ColumnBegun
          /\ Append(<<column>>, tok) = <<column, ":">>
      <4>1. ColumnBegun = <<column>> /\ Begun = TableBegun \o ColumnBegun
        BY <3>1 DEF ColumnBegun, Begun
      <4> QED BY <2>2, <4>1, AppendShort
    <3>3. Append(Begun, tok) = TableBegun \o <<column, ":">>
      BY <1>2, <3>1, <3>2, TailMore
    <3>4. Begun' = TableBegun' \o <<column, ":">>
      BY <3>1 DEF Begun, ColumnBegun
    <3>5. TableBegun' = TableBegun
      BY <3>1 DEF TableBegun, WrittenColumns, WrittenColumn, ColumnsText, export_column
    <3> QED BY <1>2, <3>1, <3>3, <3>4, <3>5, ReadMore
  <2> QED BY <2>1, <2>2
<1> QED BY <1>1, <1>3, <1>4, <1>5, <1>6, <1>7, <1>8

\* At the start nothing is read and nothing written.
LEMMA ReadInitially == SchemaInit => ReadOK
<1> SUFFICES ASSUME SchemaInit PROVE ReadOK
  OBVIOUS
<1>1. /\ read = <<>> /\ at = "table" /\ tables = <<>> /\ result = "none"
  BY DEF SchemaInit
<1>2. WrittenTables(<<>>) = <<>>
  BY DEF WrittenTables
<1>3. export(WrittenTables(tables)) = <<>> /\ Begun = <<>>
  BY <1>1, <1>2, WordsFacts, Exports DEF Begun
<1>4. <<>> \o <<>> = <<>>
  BY EmptySeq, ConcatEmptySeq
<1> QED BY <1>1, <1>3, <1>4 DEF ReadOK

\* What reads no token leaves it as it is.
LEMMA ReadStays ==
  ASSUME ReadOK, result = "none" \/ result' = result,
         result' = "tables" => at = "table",
         UNCHANGED <<read, at, tables, table, columns, column, type>>
  PROVE  ReadOK'
<1>1. CASE result' \in {"none", "tables"}
  <2>1. result \in {"none", "tables"}
    BY <1>1
  <2>2. export(WrittenTables(tables))' = export(WrittenTables(tables))
    BY DEF WrittenTables, WrittenTable, WrittenColumns, WrittenColumn, export, export_column
  <2>3. Begun' = Begun
    BY DEF Begun, TableBegun, ColumnBegun, WrittenColumns, WrittenColumn, ColumnsText, export_column
  <2> QED BY <2>1, <2>2, <2>3 DEF ReadOK
<1>2. CASE result' \notin {"none", "tables"}
  BY <1>2, ReadFails
<1> QED BY <1>1, <1>2

\* Every step keeps what is written the same as what was read.
LEMMA ReadKeeps ==
  ASSUME SchemaInv, ReadOK, [SchemaNext]_schemaVars
  PROVE  ReadOK'
<1>1. CASE EndOfFile
  BY <1>1, ReadStays DEF EndOfFile
<1>2. CASE BadIdentifier
  BY <1>2, ReadStays DEF BadIdentifier, Fail
<1>3. CASE UNCHANGED schemaVars
  <2>1. result' = "tables" => at = "table"
    BY <1>3 DEF ReadOK, schemaVars
  <2> QED BY <1>3, <2>1, ReadStays DEF schemaVars
<1> QED BY <1>1, <1>2, <1>3, ReadNext DEF SchemaNext

\* Whatever the text, and of any length: when there is no error, the tables written as the
\* client writes them are the tokens of the text, so that schema.rs has skipped none and
\* made none up.
THEOREM NothingIsLost == SchemaSpec => []NothingLost
<1>1. ASSUME SchemaInv, ReadOK, result = "tables" PROVE export(Written) = read
  <2>1. read = export(WrittenTables(tables)) \o Begun /\ at = "table"
    BY <1>1 DEF ReadOK
  <2>2. export(WrittenTables(tables)) \in Seq(Words)
    BY <1>1, ReadTypes
  <2> QED BY <2>1, <2>2, WrittenIs, ConcatEmptySeq DEF Begun
<1>2. SchemaInv /\ ReadOK => NothingLost
  BY <1>1 DEF NothingLost
<1> QED BY <1>2, SchemaInitially, SchemaNextKeeps, ReadInitially, ReadKeeps, PTL DEF SchemaSpec

-----------------------------------------------------------------------------
\* Where the tokens of what is exported are

\* The text of a table comes after that of the tables before it.
LEMMA AtTable ==
  ASSUME NEW V, Punctuation \subseteq V, NEW S \in Seq(Table(V)), NEW k \in Nat, k < Len(S)
  PROVE  \E rest \in Seq(V) :
           export(S) = (export(SubSeq(S, 1, k)) \o TableText(S[k + 1])) \o rest
<1>1. PICK n \in Nat : n = Len(S)
  BY LenProperties
<1>2. PICK e, t : e = export(SubSeq(S, 1, k)) /\ t = TableText(S[k + 1])
  OBVIOUS
<1>3. e \in Seq(V) /\ t \in Seq(V) /\ export(SubSeq(S, 1, k + 1)) = e \o t
  <2>1. PICK a, b : a = SubSeq(S, 1, k) /\ b = S[k + 1]
    OBVIOUS
  <2>2. a \in Seq(Table(V)) /\ b \in Table(V) /\ SubSeq(S, 1, k + 1) = Append(a, b)
    BY <2>1, OneFurther
  <2>3. export(Append(a, b)) = export(a) \o TableText(b)
    BY <2>2, Exports
  <2>4. export(a) \in Seq(V) /\ TableText(b) \in Seq(V)
    BY <2>2, Exports, TableTextType
  <2> QED BY <1>2, <2>1, <2>2, <2>3, <2>4
<1>4. e \o t \in Seq(V)
  BY <1>3, ConcatProperties
<1> DEFINE Q == {j \in 1..(n - k) :
                   \E rest \in Seq(V) : export(SubSeq(S, 1, k + j)) = (e \o t) \o rest}
<1>5. 1 \in Q \/ n - k = 0
  <2>1. 1 \in 1..(n - k)
    BY <1>1
  <2>2. <<>> \in Seq(V) /\ export(SubSeq(S, 1, k + 1)) = (e \o t) \o <<>>
    BY <1>3, <1>4, EmptySeq, ConcatEmptySeq
  <2> QED BY <2>1, <2>2
<1>6. ASSUME NEW j \in 1..(n - k), j + 1 <= n - k, j \in Q
      PROVE  j + 1 \in Q
  <2>1. PICK rest \in Seq(V) : export(SubSeq(S, 1, k + j)) = (e \o t) \o rest
    BY <1>6
  <2>2. PICK m \in Nat : m = k + j /\ m < Len(S) /\ k + (j + 1) = m + 1
    BY <1>1, <1>6
  <2>3. /\ SubSeq(S, 1, m) \in Seq(Table(V)) /\ S[m + 1] \in Table(V)
        /\ SubSeq(S, 1, m + 1) = Append(SubSeq(S, 1, m), S[m + 1])
    BY <2>2, OneFurther
  <2>4. PICK x \in Seq(V) : x = TableText(S[m + 1])
    BY <2>3, TableTextType
  <2>5. export(SubSeq(S, 1, m + 1)) = export(SubSeq(S, 1, m)) \o x
    BY <2>3, <2>4, Exports
  <2>6. export(SubSeq(S, 1, m + 1)) = (e \o t) \o (rest \o x)
    <3>1. PICK et \in Seq(V) : et = e \o t
      BY <1>4
    <3>2. Regroups(et, rest, x)
      BY Regrouped
    <3>3. (et \o rest) \o x = et \o (rest \o x)
      BY <3>2 DEF Regroups
    <3> QED BY <2>1, <2>2, <2>5, <3>1, <3>3
  <2>7. rest \o x \in Seq(V) /\ j + 1 \in 1..(n - k)
    BY <1>6, ConcatProperties
  <2> QED BY <2>2, <2>6, <2>7
<1>7. n - k \in Nat /\ n - k \in 1..(n - k) /\ k + (n - k) = n
  BY <1>1
<1>8. 1..(n - k) \subseteq Q
  <2> HIDE DEF Q
  <2> QED BY <1>5, <1>6, <1>7, Upwards
<1>9. PICK rest \in Seq(V) : export(SubSeq(S, 1, n)) = (e \o t) \o rest
  BY <1>7, <1>8
<1>10. SubSeq(S, 1, n) = S
  BY <1>1, Whole
<1> QED BY <1>2, <1>9, <1>10

\* So does the text of a column in its table.
LEMMA AtColumn ==
  ASSUME NEW V, Punctuation \subseteq V, NEW S \in Seq(Column(V)), NEW k \in Nat, k < Len(S)
  PROVE  \E rest \in Seq(V) :
           ColumnsText(S) = (ColumnsText(SubSeq(S, 1, k)) \o export_column(S[k + 1])) \o rest
<1>1. PICK n \in Nat : n = Len(S)
  BY LenProperties
<1>2. PICK e, t : e = ColumnsText(SubSeq(S, 1, k)) /\ t = export_column(S[k + 1])
  OBVIOUS
<1>3. e \in Seq(V) /\ t \in Seq(V) /\ ColumnsText(SubSeq(S, 1, k + 1)) = e \o t
  <2>1. PICK a, b : a = SubSeq(S, 1, k) /\ b = S[k + 1]
    OBVIOUS
  <2>2. a \in Seq(Column(V)) /\ b \in Column(V) /\ SubSeq(S, 1, k + 1) = Append(a, b)
    BY <2>1, OneFurther
  <2>3. ColumnsText(Append(a, b)) = ColumnsText(a) \o export_column(b)
    BY <2>2, ColumnsTexts
  <2>4. ColumnsText(a) \in Seq(V) /\ export_column(b) \in Seq(V)
    BY <2>2, ColumnsTexts, ColumnText
  <2> QED BY <1>2, <2>1, <2>2, <2>3, <2>4
<1>4. e \o t \in Seq(V)
  BY <1>3, ConcatProperties
<1> DEFINE Q == {j \in 1..(n - k) :
                   \E rest \in Seq(V) : ColumnsText(SubSeq(S, 1, k + j)) = (e \o t) \o rest}
<1>5. 1 \in Q \/ n - k = 0
  <2>1. 1 \in 1..(n - k)
    BY <1>1
  <2>2. <<>> \in Seq(V) /\ ColumnsText(SubSeq(S, 1, k + 1)) = (e \o t) \o <<>>
    BY <1>3, <1>4, EmptySeq, ConcatEmptySeq
  <2> QED BY <2>1, <2>2
<1>6. ASSUME NEW j \in 1..(n - k), j + 1 <= n - k, j \in Q
      PROVE  j + 1 \in Q
  <2>1. PICK rest \in Seq(V) : ColumnsText(SubSeq(S, 1, k + j)) = (e \o t) \o rest
    BY <1>6
  <2>2. PICK m \in Nat : m = k + j /\ m < Len(S) /\ k + (j + 1) = m + 1
    BY <1>1, <1>6
  <2>3. /\ SubSeq(S, 1, m) \in Seq(Column(V)) /\ S[m + 1] \in Column(V)
        /\ SubSeq(S, 1, m + 1) = Append(SubSeq(S, 1, m), S[m + 1])
    BY <2>2, OneFurther
  <2>4. PICK x \in Seq(V) : x = export_column(S[m + 1])
    BY <2>3, ColumnText
  <2>5. ColumnsText(SubSeq(S, 1, m + 1)) = ColumnsText(SubSeq(S, 1, m)) \o x
    BY <2>3, <2>4, ColumnsTexts
  <2>6. ColumnsText(SubSeq(S, 1, m + 1)) = (e \o t) \o (rest \o x)
    <3>1. PICK et \in Seq(V) : et = e \o t
      BY <1>4
    <3>2. Regroups(et, rest, x)
      BY Regrouped
    <3>3. (et \o rest) \o x = et \o (rest \o x)
      BY <3>2 DEF Regroups
    <3> QED BY <2>1, <2>2, <2>5, <3>1, <3>3
  <2>7. rest \o x \in Seq(V) /\ j + 1 \in 1..(n - k)
    BY <1>6, ConcatProperties
  <2> QED BY <2>2, <2>6, <2>7
<1>7. n - k \in Nat /\ n - k \in 1..(n - k) /\ k + (n - k) = n
  BY <1>1
<1>8. 1..(n - k) \subseteq Q
  <2> HIDE DEF Q
  <2> QED BY <1>5, <1>6, <1>7, Upwards
<1>9. PICK rest \in Seq(V) : ColumnsText(SubSeq(S, 1, n)) = (e \o t) \o rest
  BY <1>7, <1>8
<1>10. SubSeq(S, 1, n) = S
  BY <1>1, Whole
<1> QED BY <1>2, <1>9, <1>10

-----------------------------------------------------------------------------
\* The token that comes next

\* In s, b comes after p.
Continues(V, p, b, s) ==
  /\ p \in Seq(V) /\ b \in Seq(V) /\ s \in Seq(V)
  /\ \E rest \in Seq(V) : s = (p \o b) \o rest

\* What comes after q in what comes after p comes after both.
LEMMA ContinuesWithin ==
  ASSUME NEW V, NEW p, NEW b, NEW s, NEW q, NEW c, Continues(V, p, b, s), Continues(V, q, c, b)
  PROVE  Continues(V, p \o q, c, s)
<1>1. /\ p \in Seq(V) /\ b \in Seq(V) /\ s \in Seq(V) /\ q \in Seq(V) /\ c \in Seq(V)
  BY DEF Continues
<1>2. PICK r1 \in Seq(V) : s = (p \o b) \o r1
  BY DEF Continues
<1>3. PICK r2 \in Seq(V) : b = (q \o c) \o r2
  BY DEF Continues
<1>4. p \o q \in Seq(V) /\ r2 \o r1 \in Seq(V) /\ q \o c \in Seq(V)
  BY <1>1, ConcatProperties
<1>5. PICK pq \in Seq(V), qc \in Seq(V) : pq = p \o q /\ qc = q \o c
  BY <1>4
<1>6. Regroups(p, qc, r2) /\ Regroups(p, q, c)
  BY <1>1, Regrouped
<1>7. (p \o qc) \o r2 = p \o (qc \o r2) /\ (p \o q) \o c = p \o (q \o c)
  BY <1>6 DEF Regroups
<1>8. PICK pqc \in Seq(V) : pqc = pq \o c
  BY <1>1, ConcatProperties
<1>9. (pqc \o r2) \o r1 = pqc \o (r2 \o r1)
  <2>1. Regroups(pqc, r2, r1)
    BY Regrouped
  <2> QED BY <2>1 DEF Regroups
<1>10. s = (pq \o c) \o (r2 \o r1)
  BY <1>2, <1>3, <1>5, <1>6, <1>7, <1>8, <1>9
<1> QED BY <1>1, <1>4, <1>5, <1>10 DEF Continues

\* The tokens of b are those of s, after the length of p.
LEMMA ContinuesAt ==
  ASSUME NEW V, NEW p, NEW b, NEW s, Continues(V, p, b, s), NEW j \in 1..Len(b)
  PROVE  Len(p) + j <= Len(s) /\ s[Len(p) + j] = b[j]
<1>1. /\ p \in Seq(V) /\ b \in Seq(V)
  BY DEF Continues
<1>2. PICK r \in Seq(V) : s = (p \o b) \o r
  BY DEF Continues
<1>3. PICK n \in Nat, m \in Nat, l \in Nat : n = Len(p) /\ m = Len(b) /\ l = Len(r)
  BY <1>1, LenProperties
<1>4. PICK pb \in Seq(V) : pb = p \o b
  BY <1>1, ConcatProperties
<1>5. Len(pb) = n + m /\ \A i \in 1..(n + m) : pb[i] = IF i <= n THEN p[i] ELSE b[i - n]
  BY <1>1, <1>3, <1>4, ConcatProperties
<1>6. /\ Len(s) = (n + m) + l
      /\ \A i \in 1..((n + m) + l) : s[i] = IF i <= n + m THEN pb[i] ELSE r[i - (n + m)]
  BY <1>2, <1>3, <1>4, <1>5, ConcatProperties
<1>7. /\ n + j \in 1..(n + m) /\ n + j \in 1..((n + m) + l) /\ n + j <= n + m /\ ~(n + j <= n)
      /\ (n + j) - n = j
  BY <1>3
<1>8. s[n + j] = pb[n + j] /\ pb[n + j] = b[j]
  BY <1>5, <1>6, <1>7
<1> QED BY <1>3, <1>6, <1>7, <1>8

\* The first tokens of a table, its columns, and the bracket after them
LEMMA TableContinues ==
  ASSUME NEW V, Punctuation \subseteq V, NEW T \in Table(V)
  PROVE  /\ Continues(V, <<>>, <<T.name, "{">>, TableText(T))
         /\ Continues(V, <<T.name, "{">>, ColumnsText(T.columns), TableText(T))
         /\ Continues(V, <<T.name, "{">> \o ColumnsText(T.columns), <<"}">>, TableText(T))
<1>1. PICK a \in V, b \in V, d \in V : a = T.name /\ b = "{" /\ d = "}"
  BY DEF Table, Punctuation
<1>2. <<a, b>> \in Seq(V) /\ <<d>> \in Seq(V) /\ <<>> \in Seq(V)
  BY ONLY TRUE
<1>3. PICK h \in Seq(V), z \in Seq(V) : h = <<a, b>> /\ z = <<d>>
  BY <1>2
<1>4. PICK m \in Seq(V) : m = ColumnsText(T.columns)
  BY ColumnsTexts DEF Table
<1>5. TableText(T) = (h \o m) \o z
  <2>1. TableText(T) = <<a, b>> \o m \o <<d>>
    BY <1>1, <1>4 DEF TableText
  <2> QED BY <1>3, <2>1
<1>6. PICK hm \in Seq(V), mz \in Seq(V) : hm = h \o m /\ mz = m \o z
  BY ConcatProperties
<1>7. PICK t \in Seq(V) : t = TableText(T) /\ t = hm \o z
  BY <1>5, <1>6, ConcatProperties
<1>8. Continues(V, <<>>, h, t)
  <2>1. (h \o m) \o z = h \o (m \o z)
    <3>1. Regroups(h, m, z)
      BY Regrouped
    <3> QED BY <3>1 DEF Regroups
  <2>2. <<>> \o h = h
    BY ConcatEmptySeq
  <2>3. t = (<<>> \o h) \o mz
    BY <1>6, <1>7, <2>1, <2>2
  <2> QED BY <1>2, <2>3 DEF Continues
<1>9. Continues(V, h, m, t)
  BY <1>6, <1>7 DEF Continues
<1>10. Continues(V, h \o m, z, t)
  <2>1. (hm \o z) \o <<>> = t
    BY <1>7, ConcatEmptySeq
  <2> QED BY <1>2, <1>6, <2>1 DEF Continues
<1> QED BY <1>1, <1>3, <1>4, <1>7, <1>8, <1>9, <1>10

\* The tokens of the k+1-st table, and of its i+1-st column, after those before them
LEMMA TextContinues ==
  ASSUME NEW V, Punctuation \subseteq V, NEW S \in Seq(Table(V)), NEW k \in Nat, k < Len(S),
         NEW T, T = S[k + 1], NEW e, e = export(SubSeq(S, 1, k))
  PROVE  /\ T \in Table(V)
         /\ Continues(V, e, <<T.name, "{">>, export(S))
         /\ \A i \in Nat : i < Len(T.columns) =>
              Continues(V, e \o (<<T.name, "{">> \o ColumnsText(SubSeq(T.columns, 1, i))),
                        export_column(T.columns[i + 1]), export(S))
         /\ Continues(V, e \o (<<T.name, "{">> \o ColumnsText(T.columns)), <<"}">>, export(S))
<1>1. T \in Table(V) /\ e \in Seq(V) /\ export(S) \in Seq(V) /\ TableText(T) \in Seq(V)
  <2>1. SubSeq(S, 1, k) \in Seq(Table(V)) /\ T \in Table(V)
    BY OneFurther
  <2> QED BY <2>1, Exports, TableTextType
<1>2. Continues(V, e, TableText(T), export(S))
  BY <1>1, AtTable DEF Continues
<1>3. PICK h, m : h = <<T.name, "{">> /\ m = ColumnsText(T.columns)
  OBVIOUS
<1>4. /\ Continues(V, <<>>, h, TableText(T)) /\ Continues(V, h, m, TableText(T))
      /\ Continues(V, h \o m, <<"}">>, TableText(T))
  BY <1>1, <1>3, TableContinues
<1>5. Continues(V, e, h, export(S))
  <2>1. Continues(V, e \o <<>>, h, export(S))
    BY <1>2, <1>4, ContinuesWithin
  <2> QED BY <1>1, <2>1, ConcatEmptySeq
<1>6. Continues(V, e \o (h \o m), <<"}">>, export(S))
  BY <1>2, <1>4, ContinuesWithin
<1>7. ASSUME NEW i \in Nat, i < Len(T.columns)
      PROVE  Continues(V, e \o (h \o ColumnsText(SubSeq(T.columns, 1, i))),
                       export_column(T.columns[i + 1]), export(S))
  <2>1. PICK C \in Seq(Column(V)) : C = T.columns
    BY <1>1 DEF Table
  <2>2. PICK q, c : q = ColumnsText(SubSeq(C, 1, i)) /\ c = export_column(C[i + 1])
    OBVIOUS
  <2>3. q \in Seq(V) /\ c \in Seq(V) /\ m \in Seq(V)
    <3>1. SubSeq(C, 1, i) \in Seq(Column(V)) /\ C[i + 1] \in Column(V)
      BY <1>7, <2>1, OneFurther
    <3> QED BY <1>3, <2>1, <2>2, <3>1, ColumnsTexts, ColumnText
  <2>4. \E rest \in Seq(V) : m = (q \o c) \o rest
    BY <1>3, <1>7, <2>1, <2>2, AtColumn
  <2>5. Continues(V, q, c, m)
    BY <2>3, <2>4 DEF Continues
  <2>6. Continues(V, h \o q, c, TableText(T))
    BY <1>4, <2>5, ContinuesWithin
  <2>7. Continues(V, e \o (h \o q), c, export(S))
    BY <1>2, <2>6, ContinuesWithin
  <2> QED BY <2>1, <2>2, <2>7
<1> QED BY <1>1, <1>3, <1>5, <1>6, <1>7

-----------------------------------------------------------------------------
\* What a program exports

\* The words of a program's schema
FieldWords(f)   == {f.name, f.name \o "_lat", f.name \o "_long", f.table, f.kind, "float"}
ProgramWords(m) ==
  Punctuation \cup {m[t].name : t \in DOMAIN m}
    \cup UNION {UNION {FieldWords(m[t].fields[i]) : i \in DOMAIN m[t].fields} : t \in DOMAIN m}

ColumnOK(c) == c.name \notin Punctuation /\ (c.foreign \/ c.type \in Native)

\* A schema that a Database accepts and that is written so that it can be read
Clear(V, S) ==
  /\ Punctuation \subseteq V
  /\ S \in Seq(Table(V)) /\ S # <<>>
  /\ \A t \in 1..Len(S) :
       /\ S[t].name \notin Punctuation \cup Native /\ S[t].columns # <<>>
       /\ \A u \in 1..(t - 1) : S[u].name # S[t].name
       /\ \A i \in 1..Len(S[t].columns) :
            /\ ColumnOK(S[t].columns[i])
            /\ S[t].columns[i].foreign =>
                 \E u \in 1..(t - 1) : S[u].name = S[t].columns[i].type

\* The columns of a field
LEMMA FieldColumns ==
  ASSUME NEW V, NEW f, FieldWords(f) \subseteq V
  PROVE  Columns(f) \in Seq(Column(V))
<1>1. PICK a, b, d, e, k : /\ a = f.name /\ b = f.name \o "_lat" /\ d = f.name \o "_long"
                           /\ e = f.table /\ k = f.kind
  OBVIOUS
<1>2. PICK float : float = "float"
  OBVIOUS
<1>3. a \in V /\ b \in V /\ d \in V /\ e \in V /\ k \in V /\ float \in V
  BY <1>1, <1>2 DEF FieldWords
<1>4. PICK lat, long, date, ref, native :
        /\ lat = [name |-> b, type |-> float, foreign |-> FALSE]
        /\ long = [name |-> d, type |-> float, foreign |-> FALSE]
        /\ date = [name |-> a, type |-> float, foreign |-> FALSE]
        /\ ref = [name |-> a, type |-> e, foreign |-> TRUE]
        /\ native = [name |-> a, type |-> k, foreign |-> FALSE]
  OBVIOUS
<1>5. PICK U : U = Column(V)
  OBVIOUS
<1>6. lat \in U /\ long \in U /\ date \in U /\ ref \in U /\ native \in U
  BY <1>3, <1>4, <1>5 DEF Column
<1>7. <<lat, long>> \in Seq(U) /\ <<date>> \in Seq(U) /\ <<ref>> \in Seq(U) /\ <<native>> \in Seq(U)
  BY ONLY <1>6
<1>8. \/ Columns(f) = <<lat, long>> \/ Columns(f) = <<date>>
      \/ Columns(f) = <<ref>> \/ Columns(f) = <<native>>
  BY <1>1, <1>2, <1>4 DEF Columns
<1> QED BY <1>5, <1>7, <1>8

\* createSchema makes a schema of a program's classes.
LEMMA SchemaType ==
  ASSUME NEW m \in Modules
  PROVE  /\ createSchema(m) \in Seq(Table(ProgramWords(m)))
         /\ m # <<>> => createSchema(m) # <<>>
         /\ \A t \in 1..Len(createSchema(m)) :
              /\ createSchema(m)[t].name \notin Punctuation
              /\ \A i \in 1..Len(createSchema(m)[t].columns) :
                   ColumnOK(createSchema(m)[t].columns[i])
<1>1. PICK S, V : S = createSchema(m) /\ V = ProgramWords(m)
  OBVIOUS
<1>2. PICK n \in Nat : n = Len(m) /\ DOMAIN m = 1..n /\ m = [t \in 1..n |-> m[t]]
  <2>1. PICK T : T = {m[t] : t \in DOMAIN m}
    OBVIOUS
  <2>2. m \in Seq(T)
    BY <2>1, ModulesAssumption
  <2> QED BY <2>2, LenProperties
<1>3. S = [t \in 1..n |-> S[t]]
  BY <1>1, <1>2 DEF createSchema
<1>4. PICK U : U = {c \in Column(V) : ColumnOK(c)}
  OBVIOUS
<1>5. ASSUME NEW t \in 1..n
      PROVE  /\ S[t].name \notin Punctuation /\ S[t].columns \in Seq(U)
             /\ S[t] \in Table(V)
  <2>1. PICK F : F = m[t].fields
    OBVIOUS
  <2>2. PICK G : G = {F[i] : i \in DOMAIN F}
    OBVIOUS
  <2>3. m[t].name \notin Punctuation /\ F \in Seq(G)
    <3>1. t \in DOMAIN m
      BY <1>2
    <3>2. m[t].name \notin Punctuation
      BY <3>1, ModulesAssumption
    <3>3. m[t].fields \in Seq({m[t].fields[i] : i \in DOMAIN m[t].fields})
      BY <3>1, ModulesAssumption, Zenon
    <3> QED BY <2>1, <2>2, <3>2, <3>3, Zenon
  <2>4. PICK seqs : seqs = [i \in DOMAIN F |-> Columns(F[i])]
    OBVIOUS
  <2>5. ASSUME NEW i \in DOMAIN F PROVE seqs[i] \in Seq(U)
    <3>1. FieldWords(F[i]) \subseteq V
      BY <1>1, <1>2, <2>1 DEF ProgramWords
    <3>2. PICK cs : cs = Columns(F[i])
      OBVIOUS
    <3>3. cs \in Seq(Column(V))
      BY <3>1, <3>2, FieldColumns
    <3>4. \A j \in DOMAIN cs : ColumnOK(cs[j])
      <4>1. t \in DOMAIN m /\ i \in DOMAIN m[t].fields
        BY <1>2, <2>1
      <4>2. \A j \in DOMAIN Columns(m[t].fields[i]) : ColumnOK(Columns(m[t].fields[i])[j])
        BY <4>1, ModulesAssumption, ZenonT(30) DEF ColumnOK
      <4> QED BY <2>1, <3>2, <4>2
    <3>5. DOMAIN cs = 1..Len(cs) /\ Len(cs) \in Nat /\ cs = [j \in 1..Len(cs) |-> cs[j]]
      BY <3>3, LenProperties
    <3>6. \A j \in DOMAIN cs : cs[j] \in U
      BY <1>4, <3>3, <3>4, <3>5, ElementOfSeq
    <3>7. cs \in Seq(U)
      BY <3>3, <3>5, <3>6, Mapped
    <3> QED BY <2>4, <3>2, <3>7
  <2>6. seqs \in Seq(Seq(U))
    <3>1. seqs = [i \in DOMAIN F |-> seqs[i]]
      BY <2>4
    <3>2. PICK X : X = Seq(U)
      OBVIOUS
    <3>3. \A i \in DOMAIN F : seqs[i] \in X
      BY <2>5, <3>2
    <3>4. seqs \in Seq(X)
      BY <2>3, <3>1, <3>3, Mapped
    <3> QED BY <3>2, <3>4
  <2>7. FlattenSeq(seqs) \in Seq(U)
    BY <2>6, Flatten
  <2>8. PICK cols : cols = FlattenSeq(seqs)
    OBVIOUS
  <2>9. S[t] = [name |-> m[t].name, columns |-> cols]
    BY <1>1, <1>2, <2>1, <2>4, <2>8 DEF createSchema
  <2>10. cols \in Seq(Column(V))
    <3>1. cols \in Seq(U) /\ \A i \in 1..Len(cols) : cols[i] \in U
      BY <2>7, <2>8, ElementOfSeq
    <3>2. DOMAIN cols = 1..Len(cols) /\ cols = [i \in DOMAIN cols |-> cols[i]]
      BY <3>1, LenProperties
    <3>3. \A i \in DOMAIN cols : cols[i] \in Column(V)
      BY <1>4, <3>1, <3>2
    <3> QED BY <3>1, <3>2, <3>3, Mapped
  <2>11. m[t].name \in V
    BY <1>1, <1>2 DEF ProgramWords
  <2> QED BY <2>3, <2>7, <2>8, <2>9, <2>10, <2>11 DEF Table
<1>6. S \in Seq(Table(V)) /\ Len(S) = n
  <2>1. m \in Seq({m[t] : t \in DOMAIN m})
    BY ModulesAssumption
  <2>2. \A t \in DOMAIN m : S[t] \in Table(V)
    BY <1>2, <1>5
  <2> QED BY <1>2, <1>3, <2>1, <2>2, Mapped
<1>7. ASSUME NEW t \in 1..n, NEW i \in 1..Len(S[t].columns) PROVE ColumnOK(S[t].columns[i])
  <2>1. S[t].columns[i] \in U
    BY <1>5, <1>7, ElementOfSeq
  <2> QED BY <1>4, <2>1
<1>8. m # <<>> => S # <<>>
  <2>1. m # <<>> => n # 0
    BY <1>2
  <2>2. S = <<>> => n = 0
    BY <1>6
  <2> QED BY <2>1, <2>2
<1> QED BY <1>1, <1>5, <1>6, <1>7, <1>8

\* The schemas that SidesAgree is about
Agreed == source # Anything /\ Accepted(createSchema(source)) /\ Portable(createSchema(source))

\* What Database accepts, and is portable, is clear.
LEMMA AgreedClear ==
  ASSUME source \in Modules, Agreed
  PROVE  Clear(ProgramWords(source), createSchema(source))
<1>1. PICK S, V : S = createSchema(source) /\ V = ProgramWords(source)
  OBVIOUS
<1>2. /\ S \in Seq(Table(V)) /\ S # <<>> /\ Punctuation \subseteq V
      /\ \A t \in 1..Len(S) : S[t].name \notin Punctuation
      /\ \A t \in 1..Len(S) : \A i \in 1..Len(S[t].columns) : ColumnOK(S[t].columns[i])
  BY <1>1, SchemaType DEF Agreed, Anything, ProgramWords
<1>3. Accepted(S) /\ Portable(S)
  BY <1>1 DEF Agreed
<1>4. DOMAIN S = 1..Len(S)
  BY <1>2, LenProperties
<1>5. ASSUME NEW t \in 1..Len(S)
      PROVE  /\ S[t].name \notin Native /\ S[t].columns # <<>>
             /\ \A u \in 1..(t - 1) : S[u].name # S[t].name
  BY <1>3, <1>4 DEF Accepted, Portable
<1>6. ASSUME NEW t \in 1..Len(S), NEW i \in 1..Len(S[t].columns), S[t].columns[i].foreign
      PROVE  \E u \in 1..(t - 1) : S[u].name = S[t].columns[i].type
  <2>1. S[t] \in Table(V)
    BY <1>2, ElementOfSeq
  <2>2. S[t].columns \in Seq(Column(V))
    BY <2>1 DEF Table
  <2>3. i \in DOMAIN S[t].columns
    BY <2>2, LenProperties
  <2> QED BY <1>3, <1>4, <1>6, <2>3 DEF Accepted
<1>7. Clear(V, S)
  BY <1>2, <1>5, <1>6 DEF Clear
<1> QED BY <1>1, <1>7

-----------------------------------------------------------------------------
\* The parser reads what a program has exported

\* The table and the column that have been begun are those of the schema.
FollowsTable(T) ==
  /\ table = T.name
  /\ Len(columns) <= Len(T.columns)
  /\ WrittenColumns(tables, columns) = SubSeq(T.columns, 1, Len(columns))
  /\ at \in {":", "type", ";"} =>
       Len(columns) < Len(T.columns) /\ column = T.columns[Len(columns) + 1].name
  /\ at = ";" => type = T.columns[Len(columns) + 1].type

\* What has been read is the first tables of the schema, and there is no error.
FollowsSchema(S) ==
  /\ result \in {"none", "tables"}
  /\ Len(tables) <= Len(S)
  /\ WrittenTables(tables) = SubSeq(S, 1, Len(tables))
  /\ result = "tables" => Len(tables) = Len(S)
  /\ at # "table" => Len(tables) < Len(S) /\ FollowsTable(S[Len(tables) + 1])

Follows ==
  /\ source \in Modules \cup {Anything}
  /\ source # Anything => text = export(createSchema(source))
  /\ Agreed => FollowsSchema(createSchema(source))

\* The tokens of the column that have been read
Taken == IF at = ":" THEN 1 ELSE IF at = "type" THEN 2 ELSE IF at = ";" THEN 3 ELSE 0

\* How much has been read
LEMMA ReadLength ==
  ASSUME SchemaInv, ReadOK, result = "none", NEW e, e = export(WrittenTables(tables))
  PROVE  /\ Len(e) \in Nat
         /\ at = "table" => read = e /\ Len(read) = Len(e)
         /\ at = "{" => Len(read) = Len(e) + 1
         /\ at \in {"column", ":", "type", ";"} =>
              /\ e \o TableBegun \in Seq(Words)
              /\ Len(e \o TableBegun) \in Nat
              /\ Len(read) = Len(e \o TableBegun) + Taken
<1>1. e \in Seq(Words) /\ read = e \o Begun
  BY ReadTypes DEF ReadOK
<1>2. Len(e) \in Nat
  BY <1>1, LenProperties
<1>3. CASE at = "table"
  BY <1>1, <1>3, ConcatEmptySeq DEF Begun
<1>4. CASE at = "{"
  <2>1. PICK a \in Words : a = table
    BY ReadTypes
  <2>2. PICK b, e2 : b = <<a>> /\ e2 = e /\ e2 \in Seq(Words)
    BY <1>1
  <2>3. b \in Seq(Words) /\ Len(b) = 1
    BY ONLY <2>2
  <2>4. read = e2 \o b
    BY <1>1, <1>4, <2>1, <2>2 DEF Begun
  <2>5. Len(read) = Len(e2) + Len(b)
    BY <2>2, <2>3, <2>4, ConcatProperties
  <2>6. Len(read) = Len(e) + 1
    BY <2>2, <2>3, <2>5
  <2> QED BY <1>2, <1>4, <2>6
<1>5. CASE at \in {"column", ":", "type", ";"}
  <2>1. PICK h \in Seq(Words), t \in Seq(Words) : h = TableBegun /\ t = ColumnBegun
    BY <1>5, ReadTypes, TailType
  <2>2. PICK n \in 0..3 : n = Taken
    BY DEF Taken
  <2>3. Len(t) = n
    <3>1. PICK a, b, c : a = column /\ b = ":" /\ c = type
      OBVIOUS
    <3>2. Len(<<>>) = 0 /\ Len(<<a>>) = 1 /\ Len(<<a, b>>) = 2 /\ Len(<<a, b, c>>) = 3
      BY ONLY TRUE
    <3>3. CASE at = "column"
      BY <2>1, <2>2, <3>2, <3>3 DEF ColumnBegun, Taken
    <3>4. CASE at = ":"
      BY <2>1, <2>2, <3>1, <3>2, <3>4 DEF ColumnBegun, Taken
    <3>5. CASE at = "type"
      BY <2>1, <2>2, <3>1, <3>2, <3>5 DEF ColumnBegun, Taken
    <3>6. CASE at = ";"
      BY <2>1, <2>2, <3>1, <3>2, <3>6 DEF ColumnBegun, Taken
    <3> QED BY <1>5, <3>3, <3>4, <3>5, <3>6
  <2>4. read = e \o (h \o t)
    BY <1>1, <1>5, <2>1 DEF Begun
  <2>5. PICK eh \in Seq(Words) : eh = e \o h
    BY <1>1, ConcatProperties
  <2>6. read = eh \o t
    <3>1. Regroups(e, h, t)
      BY <1>1, Regrouped
    <3> QED BY <2>4, <2>5, <3>1 DEF Regroups
  <2>7. Len(read) = Len(eh) + n /\ Len(eh) \in Nat
    BY <2>3, <2>6, ConcatProperties, LenProperties
  <2> QED BY <1>2, <1>5, <2>1, <2>2, <2>5, <2>7
<1>6. at \in {"table", "{", "column", ":", "type", ";"}
  BY DEF ReadOK
<1> QED BY <1>2, <1>3, <1>4, <1>5, <1>6

\* A text that goes on after p: its next token, when j more have been read
LEMMA NextToken ==
  ASSUME NEW V, NEW p, NEW b, NEW s, Continues(V, p, b, s), NEW j \in Nat, j < Len(b),
         NEW n \in Nat, n = Len(p) + j
  PROVE  n < Len(s) /\ s[n + 1] = b[j + 1]
<1>1. p \in Seq(V) /\ b \in Seq(V) /\ s \in Seq(V)
  BY DEF Continues
<1>2. Len(p) \in Nat /\ Len(b) \in Nat /\ Len(s) \in Nat
  BY <1>1, LenProperties
<1>3. j + 1 \in 1..Len(b) /\ Len(p) + (j + 1) = n + 1
  BY <1>2
<1>4. Len(p) + (j + 1) <= Len(s) /\ s[Len(p) + (j + 1)] = b[j + 1]
  BY <1>3, ContinuesAt
<1> QED BY <1>2, <1>3, <1>4

\* What the parser is given, wherever it is
Given(T, tok) ==
  /\ at = "table" => tok = T.name
  /\ at = "column" => tok = IF Len(columns) < Len(T.columns)
                           THEN T.columns[Len(columns) + 1].name ELSE "}"
  /\ at = "type" => tok = T.columns[Len(columns) + 1].type
  /\ at \in {"{", ":", ";"} => tok = at

\* The next token of what was exported is the one the parser is to be given; when the
\* parser has all tables, there is none.
LEMMA IsGiven ==
  ASSUME SchemaInv, ReadOK, result = "none", NEW V, NEW S, Clear(V, S), FollowsSchema(S),
         text = export(S)
  PROVE  /\ Len(tables) < Len(S) => /\ Len(read) < Len(text)
                                    /\ Given(S[Len(tables) + 1], text[Len(read) + 1])
         /\ Len(tables) = Len(S) => read = text /\ at = "table"
<1>1. PICK k \in Nat, n \in Nat : k = Len(tables) /\ n = Len(S) /\ k <= n
  <2>1. Len(tables) \in Nat /\ Len(S) \in Nat
    BY ReadTypes, LenProperties DEF Good, Clear
  <2> QED BY <2>1 DEF FollowsSchema
<1>2. PICK e : e = export(WrittenTables(tables)) /\ e = export(SubSeq(S, 1, k))
  BY <1>1 DEF FollowsSchema
<1>3. Punctuation \subseteq V /\ S \in Seq(Table(V))
  BY DEF Clear
<1>4. ASSUME k = n PROVE read = text /\ at = "table"
  <2>1. at = "table"
    BY <1>1, <1>4 DEF FollowsSchema
  <2>2. PICK s : s = SubSeq(S, 1, k)
    OBVIOUS
  <2>3. s = S
    BY <1>1, <1>3, <1>4, <2>2, Whole
  <2>4. read = e
    BY <1>2, <2>1, ReadLength
  <2> QED BY <1>2, <2>1, <2>2, <2>3, <2>4
<1>5. ASSUME k < n PROVE Len(read) < Len(text) /\ Given(S[k + 1], text[Len(read) + 1])
  <2>1. PICK T : T = S[k + 1]
    OBVIOUS
  <2>2. /\ T \in Table(V)
        /\ Continues(V, e, <<T.name, "{">>, text)
        /\ \A i \in Nat : i < Len(T.columns) =>
             Continues(V, e \o (<<T.name, "{">> \o ColumnsText(SubSeq(T.columns, 1, i))),
                       export_column(T.columns[i + 1]), text)
        /\ Continues(V, e \o (<<T.name, "{">> \o ColumnsText(T.columns)), <<"}">>, text)
    BY <1>1, <1>2, <1>3, <1>5, <2>1, TextContinues
  <2>3. Len(e) \in Nat
    BY <1>2, ReadLength
  <2>4. CASE at \in {"table", "{"}
    <3>1. PICK a, b, h : a = T.name /\ b = "{" /\ h = <<a, b>>
      OBVIOUS
    <3>2. Len(h) = 2 /\ h[1] = a /\ h[2] = b
      BY ONLY <3>1
    <3>3. Continues(V, e, h, text)
      BY <2>2, <3>1
    <3>4. /\ at = "table" => Len(read) = Len(e)
          /\ at = "{" => Len(read) = Len(e) + 1
      BY <1>2, ReadLength
    <3>5. \A j \in 0..1 : Len(read) = Len(e) + j =>
            Len(read) < Len(text) /\ text[Len(read) + 1] = h[j + 1]
      <4>1. ASSUME NEW j \in 0..1, Len(read) = Len(e) + j
            PROVE  Len(read) < Len(text) /\ text[Len(read) + 1] = h[j + 1]
        <5>1. j \in Nat /\ j < Len(h) /\ Len(read) \in Nat
          BY <2>3, <3>2, <4>1
        <5> QED BY <3>3, <4>1, <5>1, NextToken
      <4> QED BY <4>1
    <3>6. /\ Len(read) = Len(e) => Len(read) < Len(text) /\ text[Len(read) + 1] = a
          /\ Len(read) = Len(e) + 1 => Len(read) < Len(text) /\ text[Len(read) + 1] = b
      <4>1. 0 \in 0..1 /\ 1 \in 0..1 /\ Len(e) = Len(e) + 0 /\ 0 + 1 = 1 /\ 1 + 1 = 2
        BY <2>3
      <4> QED BY <3>2, <3>5, <4>1
    <3>7. CASE at = "table"
      BY <2>1, <3>1, <3>4, <3>6, <3>7 DEF Given
    <3>8. CASE at = "{"
      BY <2>1, <3>1, <3>4, <3>6, <3>8 DEF Given
    <3> QED BY <2>4, <3>7, <3>8
  <2>5. CASE at \in {"column", ":", "type", ";"}
    <3>1. FollowsTable(T)
      BY <1>1, <2>1, <2>5 DEF FollowsSchema
    <3>2. PICK i \in Nat, m \in Nat : i = Len(columns) /\ m = Len(T.columns) /\ i <= m
      <4>1. Len(columns) \in Nat /\ Len(T.columns) \in Nat
        BY <2>2, ReadTypes, LenProperties DEF Table
      <4> QED BY <3>1, <4>1 DEF FollowsTable
    <3>3. TableBegun = <<T.name, "{">> \o ColumnsText(SubSeq(T.columns, 1, i))
      BY <3>1, <3>2 DEF TableBegun, FollowsTable
    <3>4. PICK p : p = e \o TableBegun
      OBVIOUS
    <3>5. PICK l \in Nat : l = Len(p)
      BY <1>2, <2>5, <3>4, ReadLength
    <3>6. PICK j \in 0..3 : j = Taken /\ Len(read) = l + j
      <4>1. Len(read) = l + Taken
        BY <1>2, <2>5, <3>4, <3>5, ReadLength
      <4>2. Taken \in 0..3
        BY DEF Taken
      <4> QED BY <4>1, <4>2
    <3>7. CASE i < m
      <4>1. PICK c : c = T.columns[i + 1]
        OBVIOUS
      <4>2. Continues(V, p, export_column(c), text)
        BY <2>2, <3>2, <3>3, <3>4, <3>7, <4>1
      <4>3. PICK a, b, d, f, t : /\ a = c.name /\ b = ":" /\ d = c.type /\ f = ";"
                                 /\ t = <<a, b, d, f>>
        OBVIOUS
      <4>4. t = export_column(c)
        BY <4>3 DEF export_column
      <4>5. Len(t) = 4 /\ t[1] = a /\ t[2] = b /\ t[3] = d /\ t[4] = f
        BY ONLY <4>3
      <4>6. Continues(V, p, t, text) /\ j < Len(t) /\ Len(read) = Len(p) + j /\ Len(read) \in Nat
        BY <3>5, <3>6, <4>2, <4>4, <4>5
      <4>7. Len(read) < Len(text) /\ text[Len(read) + 1] = t[j + 1]
        BY <4>6, NextToken
      <4>8. /\ j = 0 => text[Len(read) + 1] = a
            /\ j = 1 => text[Len(read) + 1] = b
            /\ j = 2 => text[Len(read) + 1] = d
            /\ j = 3 => text[Len(read) + 1] = f
        BY <4>5, <4>7
      <4>9. /\ at = "column" => j = 0
            /\ at = ":" => j = 1
            /\ at = "type" => j = 2
            /\ at = ";" => j = 3
        BY <3>6 DEF Taken
      <4>10. /\ at = "column" => text[Len(read) + 1] = c.name
             /\ at = ":" => text[Len(read) + 1] = ":"
             /\ at = "type" => text[Len(read) + 1] = c.type
             /\ at = ";" => text[Len(read) + 1] = ";"
        BY <4>3, <4>8, <4>9
      <4> QED BY <2>1, <2>5, <3>2, <3>7, <4>1, <4>7, <4>10 DEF Given
    <3>8. CASE i = m
      <4>1. at = "column"
        <5>1. at \in {":", "type", ";"} => i < m
          BY <3>1, <3>2 DEF FollowsTable
        <5>2. ~(i < m)
          BY <3>8
        <5> QED BY <2>5, <5>1, <5>2, Zenon
      <4>2. SubSeq(T.columns, 1, m) = T.columns
        <5>1. T.columns \in Seq(Column(V))
          BY <2>2 DEF Table
        <5> QED BY <3>2, <5>1, Whole
      <4>3. PICK d, z : d = "}" /\ z = <<d>>
        OBVIOUS
      <4>4. Len(z) = 1 /\ z[1] = d
        BY ONLY <4>3
      <4>5. Continues(V, p, z, text)
        BY <2>2, <3>3, <3>4, <3>8, <4>2, <4>3
      <4>6. j = 0 /\ Len(read) = l + j
        BY <3>6, <4>1 DEF Taken
      <4>7. j < Len(z) /\ j \in Nat /\ Len(read) \in Nat /\ Len(read) = Len(p) + j
        BY <3>5, <4>4, <4>6
      <4>8. Len(read) < Len(text) /\ text[Len(read) + 1] = d
        <5>1. Len(read) < Len(text) /\ text[Len(read) + 1] = z[j + 1]
          BY <4>5, <4>7, NextToken
        <5> QED BY <4>4, <4>6, <5>1
      <4>9. ~(Len(columns) < Len(T.columns))
        BY <3>2, <3>8
      <4> QED BY <2>1, <4>1, <4>3, <4>8, <4>9 DEF Given
    <3> QED BY <3>2, <3>7, <3>8
  <2>6. at \in {"table", "{", "column", ":", "type", ";"}
    BY DEF ReadOK
  <2> QED BY <2>4, <2>5, <2>6
<1> QED BY <1>1, <1>4, <1>5

\* The name of a table that has been read is that of the schema's.
LEMMA NameRead ==
  ASSUME SchemaInv, NEW V, NEW S, Clear(V, S), FollowsSchema(S), NEW u \in 1..Len(tables)
  PROVE  u \in 1..Len(S) /\ tables[u].t_name = S[u].name
<1>1. PICK k \in Nat, n \in Nat : k = Len(tables) /\ n = Len(S) /\ k <= n /\ DOMAIN tables = 1..k
  <2>1. Len(tables) \in Nat /\ Len(S) \in Nat /\ DOMAIN tables = 1..Len(tables)
    BY ReadTypes, LenProperties DEF Good, Clear
  <2> QED BY <2>1 DEF FollowsSchema
<1>2. PICK w : w = WrittenTables(tables) /\ w = SubSeq(S, 1, k)
  BY <1>1 DEF FollowsSchema
<1>3. w[u].name = tables[u].t_name
  BY <1>1, <1>2 DEF WrittenTables, WrittenTable
<1>4. w[u] = S[u]
  <2>1. \A i \in 1..k : S[i] \in Table(V)
    BY <1>1, ElementOfSeq DEF Clear
  <2>2. \A i \in 1..(k - 1 + 1) : SubSeq(S, 1, k)[i] = S[1 + i - 1]
    BY <1>1, <2>1, SubSeqProperties
  <2>3. u \in 1..(k - 1 + 1) /\ 1 + u - 1 = u
    BY <1>1
  <2> QED BY <1>2, <2>2, <2>3
<1> QED BY <1>1, <1>3, <1>4

\* What the column refers to is found where the schema has it.
LEMMA ReferenceFound ==
  ASSUME SchemaInv, NEW V, NEW S, Clear(V, S), FollowsSchema(S), Len(tables) < Len(S),
         NEW u \in 1..Len(tables), S[u].name = type
  PROVE  position(type) = {u}
<1>1. PICK k \in Nat, n \in Nat : k = Len(tables) /\ n = Len(S) /\ k < n /\ DOMAIN tables = 1..k
  BY ReadTypes, LenProperties DEF Good, Clear
<1>2. \A t \in 1..k : t \in 1..n /\ tables[t].t_name = S[t].name
  BY <1>1, NameRead
<1>3. \A t \in 1..n : \A v \in 1..(t - 1) : S[v].name # S[t].name
  BY <1>1 DEF Clear
<1>4. ASSUME NEW t \in 1..k, tables[t].t_name = type
      PROVE  t = u
  <2>1. S[t].name = S[u].name /\ t \in 1..n /\ u \in 1..n
    BY <1>1, <1>2, <1>4
  <2>2. ~(t < u) /\ ~(u < t)
    BY <1>3, <2>1
  <2> QED BY <2>1, <2>2
<1>5. tables[u].t_name = type /\ \A v \in 1..(u - 1) : tables[v].t_name # type
  <2>1. tables[u].t_name = type
    BY <1>1, <1>2
  <2>2. ASSUME NEW v \in 1..(u - 1), tables[v].t_name = type PROVE FALSE
    <3>1. v \in 1..k /\ v # u
      BY <1>1
    <3> QED BY <1>4, <2>2, <3>1
  <2> QED BY <2>1, <2>2
<1>6. ASSUME NEW t PROVE t \in position(type) <=> t = u
  BY <1>1, <1>4, <1>5 DEF position
<1> QED BY <1>6

\* Another state that the tables and the schema are the same in
LEMMA FollowsOn ==
  ASSUME NEW S, FollowsSchema(S), tables' = tables, result' = "none",
         at' # "table" => Len(tables) < Len(S) /\ FollowsTable(S[Len(tables) + 1])'
  PROVE  FollowsSchema(S)'
<1>1. WrittenTables(tables)' = WrittenTables(tables)
  BY DEF WrittenTables, WrittenTable, WrittenColumns, WrittenColumn
<1> QED BY <1>1 DEF FollowsSchema

\* Reading the token it is given, the parser goes on in the schema.
LEMMA ReadFollows ==
  ASSUME SchemaInv, ReadOK, NEW V, NEW S, Clear(V, S), FollowsSchema(S), text = export(S),
         source # Anything, Read
  PROVE  FollowsSchema(S)'
<1>1. PICK tok \in Names \cup Punctuation \cup {text[i] : i \in DOMAIN text} :
        /\ Token(tok)
        /\ \/ parse_table(tok) \/ parse_column(tok) \/ column_type(tok) \/ end_column(tok)
           \/ Expect("{", "column", tok, "expecting '{' after table name")
           \/ Expect(":", "type", tok, "expecting ':' after column name")
  BY DEF Read
<1>2. result = "none" /\ Len(read) < Len(text) /\ tok = text[Len(read) + 1]
  BY <1>1 DEF Token
<1>3. PICK k \in Nat, n \in Nat : k = Len(tables) /\ n = Len(S) /\ k <= n
  <2>1. Len(tables) \in Nat /\ Len(S) \in Nat
    BY ReadTypes, LenProperties DEF Good, Clear
  <2> QED BY <2>1 DEF FollowsSchema
<1>4. k < n
  <2>1. CASE k = n
    <3>1. read = text
      BY <1>2, <1>3, <2>1, IsGiven
    <3>2. text \in Seq(V)
      <4>1. Punctuation \subseteq V /\ S \in Seq(Table(V))
        BY DEF Clear
      <4> QED BY <4>1, Exports
    <3>3. Len(text) \in Nat
      BY <3>2, LenProperties
    <3> QED BY <1>2, <3>1, <3>3
  <2> QED BY <1>3, <2>1
<1>5. PICK T : T = S[k + 1]
  OBVIOUS
<1>6. Given(T, tok)
  BY <1>2, <1>3, <1>4, <1>5, IsGiven
<1>7. PICK C \in Seq(Column(V)), m \in Nat :
        /\ C = T.columns /\ m = Len(C) /\ T \in Table(V) /\ C # <<>>
        /\ T.name \notin Punctuation \cup Native
        /\ \A i \in 1..m : C[i] \in Column(V) /\ ColumnOK(C[i])
                           /\ (C[i].foreign => \E u \in 1..k : S[u].name = C[i].type)
  <2>1. k + 1 \in 1..n /\ T \in Table(V) /\ (k + 1) - 1 = k
    BY <1>3, <1>4, <1>5, ElementOfSeq DEF Clear
  <2>2. T.columns \in Seq(Column(V)) /\ Len(T.columns) \in Nat
    BY <2>1, LenProperties DEF Table
  <2>3. \A i \in 1..Len(T.columns) : T.columns[i] \in Column(V)
    BY <2>2, ElementOfSeq
  <2>4. T.columns # <<>> /\ T.name \notin Punctuation \cup Native
    BY <1>3, <1>5, <2>1 DEF Clear
  <2>5. ASSUME NEW i \in 1..Len(T.columns)
        PROVE  /\ ColumnOK(T.columns[i])
               /\ T.columns[i].foreign => \E u \in 1..k : S[u].name = T.columns[i].type
    BY <1>3, <1>5, <2>1 DEF Clear
  <2>6. PICK C : C = T.columns
    OBVIOUS
  <2> QED BY <2>1, <2>2, <2>3, <2>4, <2>5, <2>6
<1>8. at # "table" => FollowsTable(T)
  BY <1>3, <1>5 DEF FollowsSchema
<1>9. PICK i \in Nat : i = Len(columns) /\ (at # "table" => i <= m)
  BY <1>7, <1>8, ReadTypes, LenProperties DEF FollowsTable
<1>10. CASE parse_table(tok)
  <2>1. tok = T.name
    BY <1>6, <1>10 DEF parse_table, Given
  <2>2. at' = "{" /\ table' = tok /\ columns' = <<>> /\ UNCHANGED <<tables, column, type, result>>
    BY <1>7, <1>10, <2>1 DEF parse_table
  <2>3. FollowsTable(T)'
    <3>1. WrittenColumns(tables, <<>>) = <<>> /\ Len(<<>>) = 0
      BY DEF WrittenColumns
    <3>2. SubSeq(C, 1, 0) = <<>>
      BY <1>7, SubSeqProperties, EmptySeq
    <3>3. WrittenColumns(tables, columns)' = <<>>
      BY <2>2, <3>1 DEF WrittenColumns, WrittenColumn
    <3>4. Len(columns)' = 0 /\ SubSeq(T.columns, 1, 0) = <<>> /\ 0 <= Len(T.columns)
      <4>1. Len(columns)' = Len(<<>>)
        BY <2>2
      <4>2. 0 <= Len(T.columns)
        BY <1>7
      <4> QED BY <1>7, <3>1, <3>2, <4>1, <4>2
    <3>5. table' = T.name /\ at' \notin {":", "type", ";"}
      BY <2>1, <2>2
    <3> QED BY <3>3, <3>4, <3>5 DEF FollowsTable
  <2> QED BY <1>2, <1>3, <1>4, <1>5, <2>2, <2>3, FollowsOn
<1>11. ASSUME at # "table", UNCHANGED <<tables, table, columns, result>>, at' # "table",
              at' \in {":", "type", ";"} => i < m /\ column' = C[i + 1].name,
              at' = ";" => type' = C[i + 1].type
       PROVE  FollowsSchema(S)'
  <2>1. WrittenColumns(tables, columns)' = WrittenColumns(tables, columns)
    BY <1>11 DEF WrittenColumns, WrittenColumn
  <2>2. FollowsTable(T)'
    BY <1>7, <1>8, <1>9, <1>11, <2>1 DEF FollowsTable
  <2> QED BY <1>2, <1>3, <1>4, <1>5, <1>11, <2>2, FollowsOn
<1>12. at \in {":", "type", ";"} => i < m /\ column = C[i + 1].name
  BY <1>7, <1>8, <1>9 DEF FollowsTable
<1>13. CASE Expect("{", "column", tok, "expecting '{' after table name")
  <2>1. at = "{" /\ at' = "column" /\ UNCHANGED <<tables, table, columns, column, type, result>>
    BY <1>6, <1>13 DEF Expect, Given
  <2> QED BY <1>11, <2>1
<1>14. CASE Expect(":", "type", tok, "expecting ':' after column name")
  <2>1. at = ":" /\ at' = "type" /\ UNCHANGED <<tables, table, columns, column, type, result>>
    BY <1>6, <1>14 DEF Expect, Given
  <2> QED BY <1>11, <1>12, <2>1
<1>15. CASE column_type(tok)
  <2>1. /\ at = "type" /\ at' = ";" /\ type' = tok
        /\ UNCHANGED <<tables, table, columns, column, result>>
    BY <1>15 DEF column_type
  <2>2. tok = C[i + 1].type
    BY <1>6, <1>7, <1>9, <2>1 DEF Given
  <2> QED BY <1>11, <1>12, <2>1, <2>2
<1>16. CASE parse_column(tok)
  <2>1. at = "column" /\ i <= m
    BY <1>9, <1>16 DEF parse_column
  <2>2. tok = IF i < m THEN C[i + 1].name ELSE "}"
    BY <1>6, <1>7, <1>9, <2>1 DEF Given
  <2>3. CASE i < m
    <3>1. tok = C[i + 1].name /\ tok \notin Punctuation
      <4>1. i + 1 \in 1..m
        BY <2>3
      <4> QED BY <1>7, <2>2, <2>3, <4>1 DEF ColumnOK
    <3>2. at' = ":" /\ column' = tok /\ UNCHANGED <<tables, table, columns, type, result>>
      BY <1>16, <3>1 DEF parse_column, Punctuation
    <3> QED BY <1>11, <2>1, <2>3, <3>1, <3>2
  <2>4. CASE i = m
    <3>1. tok = "}" /\ columns # <<>>
      <4>1. m # 0
        BY <1>7, EmptySeq
      <4>2. Len(<<>>) = 0
        OBVIOUS
      <4>3. columns # <<>>
        BY <1>9, <2>4, <4>1, <4>2
      <4>4. ~(i < m)
        BY <2>4
      <4> QED BY <2>2, <4>3, <4>4
    <3>2. PICK t : t = [t_name |-> table, t_cols |-> columns]
      OBVIOUS
    <3>3. /\ tables' = Append(tables, t) /\ at' = "table"
          /\ UNCHANGED <<table, columns, column, type, result>>
      <4>1. close_table(table, columns)
        BY <1>16, <3>1 DEF parse_column, Punctuation
      <4> QED BY <3>1, <3>2, <4>1 DEF close_table, Fail
    <3>4. t \in TableRead /\ t.t_cols = columns /\ t.t_name = table
      BY <3>2 DEF SchemaInv, HoldsOK, TableRead
    <3>5. WrittenTables(Append(tables, t)) = Append(WrittenTables(tables), WrittenTable(tables, t))
      BY <3>4, ReadTypes, WrittenMore
    <3>6. WrittenTable(tables, t) = T
      <4>1. WrittenColumns(tables, columns) = C /\ table = T.name
        BY <1>7, <1>8, <1>9, <2>1, <2>4, Whole DEF FollowsTable
      <4>2. T = [name |-> T.name, columns |-> T.columns]
        BY <1>7 DEF Table
      <4> QED BY <1>7, <3>4, <4>1, <4>2 DEF WrittenTable
    <3>7. WrittenTables(tables) = SubSeq(S, 1, k)
      BY <1>3 DEF FollowsSchema
    <3>8. SubSeq(S, 1, k + 1) = Append(SubSeq(S, 1, k), T)
      BY <1>3, <1>4, <1>5, OneFurther DEF Clear
    <3>9. WrittenTables(Append(tables, t)) = SubSeq(S, 1, k + 1)
      BY <3>5, <3>6, <3>7, <3>8
    <3>10. Len(Append(tables, t)) = k + 1
      BY <1>3, <3>4, ReadTypes, AppendProperties DEF Good
    <3>11. PICK ts : ts = Append(tables, t)
      OBVIOUS
    <3>12. WrittenTables(tables)' = WrittenTables(ts)
      BY <3>3, <3>11 DEF WrittenTables, WrittenTable, WrittenColumns, WrittenColumn
    <3>13. Len(tables)' = k + 1 /\ WrittenTables(tables)' = SubSeq(S, 1, k + 1)
      BY <3>3, <3>9, <3>10, <3>11, <3>12
    <3> QED BY <1>2, <1>3, <1>4, <3>3, <3>13 DEF FollowsSchema
  <2> QED BY <2>1, <2>3, <2>4
<1>17. CASE end_column(tok)
  <2>1. at = ";" /\ tok = ";"
    BY <1>6, <1>17 DEF end_column, Given
  <2>2. PICK c : c = C[i + 1]
    OBVIOUS
  <2>3. i < m /\ column = c.name /\ type = c.type
    BY <1>7, <1>8, <1>9, <2>1, <2>2 DEF FollowsTable
  <2>4. /\ c \in Column(V) /\ (c.foreign \/ c.type \in Native)
        /\ c.foreign => \E u \in 1..k : S[u].name = c.type
    <3>1. i + 1 \in 1..m
      BY <2>3
    <3> QED BY <1>7, <2>2, <3>1 DEF ColumnOK
  <2>5. c.foreign \in BOOLEAN /\ c = [name |-> c.name, type |-> c.type, foreign |-> c.foreign]
    BY <2>4 DEF Column
  <2>6. \A u \in 1..k : S[u].name \notin Native
    BY <1>3 DEF Clear
  <2>7. type \in Native <=> c.foreign = FALSE
    BY <2>3, <2>4, <2>5, <2>6
  <2>8. ASSUME NEW col \in ColumnRead, columns' = Append(columns, col), col.c_ref <= Len(tables),
               at' = "column", UNCHANGED <<tables, table, column, type, result>>,
               WrittenColumn(tables, col) = c
        PROVE  FollowsSchema(S)'
    <3>1. WrittenColumns(tables, Append(columns, col)) = Append(WrittenColumns(tables, columns), c)
      BY <2>8, WrittenColumnMore
    <3>2. WrittenColumns(tables, columns) = SubSeq(C, 1, i)
      BY <1>7, <1>8, <1>9, <2>1 DEF FollowsTable
    <3>3. SubSeq(C, 1, i + 1) = Append(SubSeq(C, 1, i), c)
      BY <1>7, <2>2, <2>3, OneFurther
    <3>4. PICK cols : cols = Append(columns, col)
      OBVIOUS
    <3>5. WrittenColumns(tables, columns)' = WrittenColumns(tables, cols)
      BY <2>8, <3>4 DEF WrittenColumns, WrittenColumn
    <3>6. Len(cols) = i + 1
      BY <1>9, <3>4, ReadTypes, AppendProperties
    <3>7. /\ Len(columns)' = i + 1 /\ i + 1 <= Len(T.columns)
          /\ WrittenColumns(tables, columns)' = SubSeq(T.columns, 1, i + 1)
      BY <1>7, <2>3, <2>8, <3>1, <3>2, <3>3, <3>4, <3>5, <3>6
    <3>8. table = T.name
      BY <1>8, <2>1 DEF FollowsTable
    <3>9. FollowsTable(T)'
      BY <2>8, <3>7, <3>8 DEF FollowsTable
    <3> QED BY <1>2, <1>3, <1>4, <1>5, <2>8, <3>9, FollowsOn
  <2>9. column \in Tokens /\ type \in Tokens
    BY DEF SchemaInv, HoldsOK
  <2>10. CASE type \in Native
    <3>1. PICK col : col = [c_name |-> column, c_type |-> type, c_ref |-> 0]
      OBVIOUS
    <3>2. /\ columns' = Append(columns, col) /\ at' = "column"
          /\ UNCHANGED <<tables, table, column, type, result>>
      BY <1>17, <2>1, <2>10, <3>1 DEF end_column
    <3>3. /\ col \in ColumnRead /\ col.c_ref = 0 /\ col.c_name = column /\ col.c_type = type
      <4>1. column \in Tokens /\ type \in Tokens \cup Native \cup {"foreign"} /\ 0 \in Nat
        BY <2>9
      <4>2. col \in ColumnRead
        BY ONLY <3>1, <4>1 DEF ColumnRead
      <4> QED BY <3>1, <4>2
    <3>4. WrittenColumn(tables, col) = [name |-> column, foreign |-> FALSE, type |-> type]
      BY <3>3 DEF WrittenColumn
    <3>5. WrittenColumn(tables, col) = c
      BY <2>3, <2>5, <2>7, <2>10, <3>4
    <3> QED BY <1>3, <2>8, <3>2, <3>3, <3>5
  <2>11. CASE type \notin Native
    <3>1. PICK u \in 1..k : S[u].name = type
      BY <2>3, <2>4, <2>7, <2>11
    <3>2. position(type) = {u}
      BY <1>3, <1>4, <3>1, ReferenceFound
    <3>3. PICK col : col = [c_name |-> column, c_type |-> "foreign", c_ref |-> u]
      OBVIOUS
    <3>4. /\ columns' = Append(columns, col) /\ at' = "column"
          /\ UNCHANGED <<tables, table, column, type, result>>
      BY <1>17, <2>1, <2>11, <3>2, <3>3 DEF end_column
    <3>5. col \in ColumnRead /\ col.c_ref = u /\ u # 0 /\ u <= k /\ col.c_name = column
      <4>1. u \in Nat
        OBVIOUS
      <4> QED BY <2>9, <3>3, <4>1 DEF ColumnRead
    <3>6. tables[u].t_name = type
      BY <1>3, <3>1, NameRead
    <3>7. WrittenColumn(tables, col) = [name |-> column, foreign |-> TRUE, type |-> type]
      BY <3>5, <3>6 DEF WrittenColumn
    <3>8. WrittenColumn(tables, col) = c
      BY <2>3, <2>5, <2>7, <2>11, <3>7
    <3> QED BY <1>3, <2>8, <3>4, <3>5, <3>8
  <2> QED BY <2>10, <2>11
<1> QED BY <1>1, <1>10, <1>13, <1>14, <1>15, <1>16, <1>17

\* The parser starts before the first table.
LEMMA FollowsInitially == SchemaInit => Follows
<1> SUFFICES ASSUME SchemaInit PROVE Follows
  OBVIOUS
<1>1. /\ source \in Modules \cup {Anything} /\ text = export(createSchema(source))
      /\ at = "table" /\ tables = <<>> /\ result = "none"
  BY DEF SchemaInit
<1>2. ASSUME Agreed PROVE FollowsSchema(createSchema(source))
  <2>1. PICK S : S = createSchema(source)
    OBVIOUS
  <2>2. PICK V : S \in Seq(Table(V))
    BY <1>1, <1>2, <2>1, AgreedClear DEF Agreed, Clear
  <2>3. SubSeq(S, 1, 0) = <<>>
    BY <2>2, SubSeqProperties, EmptySeq
  <2>4. WrittenTables(<<>>) = <<>> /\ Len(<<>>) = 0
    BY DEF WrittenTables
  <2>5. 0 <= Len(S)
    BY <2>2, LenProperties
  <2> QED BY <1>1, <2>1, <2>3, <2>4, <2>5 DEF FollowsSchema
<1> QED BY <1>1, <1>2 DEF Follows

\* Every step of the parser follows the schema.
LEMMA FollowsKeeps ==
  ASSUME SchemaInv, ReadOK, Follows, [SchemaNext]_schemaVars
  PROVE  Follows'
<1>1. UNCHANGED <<source, text>>
  BY DEF SchemaNext, schemaVars, Read, Token, EndOfFile, BadIdentifier
<1>2. ASSUME Agreed PROVE FollowsSchema(createSchema(source))'
  <2>1. PICK S, V : S = createSchema(source) /\ V = ProgramWords(source)
    OBVIOUS
  <2>2. Clear(V, S) /\ text = export(S) /\ source # Anything
    BY <1>2, <2>1, AgreedClear DEF Follows, Agreed
  <2>3. FollowsSchema(S)
    BY <1>2, <2>1 DEF Follows
  <2>4. ASSUME Read PROVE FollowsSchema(S)'
    BY <2>2, <2>3, <2>4, ReadFollows
  <2>5. ASSUME EndOfFile PROVE FollowsSchema(S)'
    <3>1. result = "none" /\ Len(read) = Len(text)
      BY <2>2, <2>5 DEF EndOfFile
    <3>2. UNCHANGED <<at, tables, table, columns, column, type>>
      BY <2>5 DEF EndOfFile
    <3>3. PICK k \in Nat, n \in Nat : k = Len(tables) /\ n = Len(S) /\ k <= n /\ n # 0
      <4>1. S \in Seq(Table(V)) /\ S # <<>>
        BY <2>2 DEF Clear
      <4>2. Len(tables) \in Nat /\ Len(S) \in Nat /\ Len(S) # 0
        BY <4>1, ReadTypes, LenProperties, EmptySeq DEF Good
      <4> QED BY <2>3, <4>2 DEF FollowsSchema
    <3>4. k = n
      <4>1. CASE k < n
        <5>1. Len(read) < Len(text)
          BY <2>2, <2>3, <3>1, <3>3, <4>1, IsGiven
        <5>2. Len(text) \in Nat
          <6>1. Punctuation \subseteq V /\ S \in Seq(Table(V))
            BY <2>2 DEF Clear
          <6>2. text \in Seq(V)
            BY <2>2, <6>1, Exports
          <6> QED BY <6>2, LenProperties
        <5> QED BY <3>1, <5>1, <5>2
      <4> QED BY <3>3, <4>1
    <3>5. at = "table"
      BY <2>2, <2>3, <3>1, <3>3, <3>4, IsGiven
    <3>6. tables # <<>>
      <4>1. Len(<<>>) = 0
        OBVIOUS
      <4> QED BY <3>3, <3>4, <4>1
    <3>7. result' = "tables"
      BY <2>5, <3>5, <3>6 DEF EndOfFile
    <3>8. WrittenTables(tables)' = WrittenTables(tables)
      BY <3>2 DEF WrittenTables, WrittenTable, WrittenColumns, WrittenColumn
    <3> QED BY <2>3, <3>2, <3>3, <3>4, <3>5, <3>7, <3>8 DEF FollowsSchema
  <2>6. ASSUME BadIdentifier PROVE FollowsSchema(S)'
    BY <2>2, <2>6 DEF BadIdentifier
  <2>7. ASSUME UNCHANGED schemaVars PROVE FollowsSchema(S)'
    <3>1. UNCHANGED <<at, tables, table, columns, column, type, result>>
      BY <2>7 DEF schemaVars
    <3>2. WrittenTables(tables)' = WrittenTables(tables)
          /\ WrittenColumns(tables, columns)' = WrittenColumns(tables, columns)
      BY <3>1 DEF WrittenTables, WrittenTable, WrittenColumns, WrittenColumn
    <3> QED BY <2>3, <3>1, <3>2 DEF FollowsSchema, FollowsTable
  <2>8. FollowsSchema(S)'
    BY <2>4, <2>5, <2>6, <2>7 DEF SchemaNext
  <2>9. createSchema(source)' = S
    BY <1>1, <2>1 DEF createSchema, Columns
  <2> QED BY <2>8, <2>9 DEF FollowsSchema, FollowsTable
<1>3. Agreed' <=> Agreed
  BY <1>1 DEF Agreed, createSchema, Columns, Accepted, Portable
<1>4. export(createSchema(source))' = export(createSchema(source))
  BY <1>1 DEF createSchema, Columns, export, export_column
<1> QED BY <1>1, <1>2, <1>3, <1>4 DEF Follows

\* Whatever the program, and however many its tables and columns: the schema that
\* createSchema exports, when Database accepts it and no table is called as a native type
\* or has no columns, is read by schema.rs without an error, and as the tables and columns
\* that Database numbers its requests by.
THEOREM SidesAlwaysAgree == SchemaSpec => []SidesAgree
<1>1. ASSUME SchemaInv, ReadOK, Follows, Agreed, result # "none"
      PROVE  result = "tables" /\ Written = createSchema(source)
  <2>1. PICK S, V : S = createSchema(source) /\ V = ProgramWords(source)
    OBVIOUS
  <2>2. S \in Seq(Table(V))
    BY <1>1, <2>1, AgreedClear DEF Follows, Agreed, Clear
  <2>3. FollowsSchema(S)
    BY <1>1, <2>1 DEF Follows
  <2>4. /\ result = "tables" /\ Len(tables) = Len(S)
        /\ WrittenTables(tables) = SubSeq(S, 1, Len(tables))
    BY <1>1, <2>3 DEF FollowsSchema
  <2>5. SubSeq(S, 1, Len(S)) = S
    BY <2>2, Whole
  <2> QED BY <2>1, <2>4, <2>5, WrittenIs
<1>2. SchemaInv /\ ReadOK /\ Follows => SidesAgree
  BY <1>1 DEF SidesAgree, Agreed
<1> QED BY <1>2, SchemaInitially, SchemaNextKeeps, ReadInitially, ReadKeeps,
           FollowsInitially, FollowsKeeps, PTL DEF SchemaSpec
=============================================================================
