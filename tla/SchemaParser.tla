---------------------------- MODULE SchemaParser ----------------------------
(***************************************************************************)
(* The schema of a database, from the classes of a Python program to the   *)
(* tables of the server: MetaTable checks the classes (asst2/orm/table.py),*)
(* createSchema and export write them as text (orm.py), Database checks    *)
(* them (asst1/easydb/easydb.py), and the server reads the text            *)
(* (asst3/schema.rs), token by token.                                      *)
(*                                                                         *)
(* The text is a sequence of tokens.  It is what a program exports, or any *)
(* text at all, then chosen as the parser asks for it.                     *)
(***************************************************************************)
EXTENDS Naturals, Sequences, SequencesExt

CONSTANTS
  Names,       \* the identifiers of a text: names and types
  Modules,     \* the sequences of classes of the programs
  MaxTokens    \* bound: tokens of a text

Punctuation == {":", ";", "{", "}"}
Native      == {"integer", "float", "string"}
Anything    == <<>>   \* the source of a text that no program exported
NoName      == ""

VARIABLES
  source,      \* the classes that the text was exported from, or Anything
  text,        \* the tokens of the text, if it was exported
  read,        \* the tokens that the parser has taken
  dropped,     \* the identifier at the end of the text that was not made a token
  at,          \* what the parser expects
  tables,      \* the tables it has read, and of the one it is at: its name,
  table, columns,   \* its columns,
  column, type,     \* and of the column it is at: its name and the token of its type
  result       \* "none", "tables", or the error

schemaVars == <<source, text, read, dropped, at, tables, table, columns, column, type, result>>

-----------------------------------------------------------------------------
\* MetaTable.__new__: a class with the fields of a table (no name has an underscore)
Class(c, before) ==
  /\ c.name \notin {before[i].name : i \in DOMAIN before}
  /\ \A i \in DOMAIN c.fields :
       /\ c.fields[i].name \notin {"pk", "version", "save", "delete"}
       /\ \A j \in 1..(i - 1) : c.fields[j].name # c.fields[i].name

\* createSchema, for one field: a coordinate is two columns
Columns(field) ==
  CASE field.kind = "Coordinate" ->
         << [name |-> field.name \o "_lat", type |-> "float", foreign |-> FALSE],
            [name |-> field.name \o "_long", type |-> "float", foreign |-> FALSE] >>
    [] field.kind = "DateTime" ->
         << [name |-> field.name, type |-> "float", foreign |-> FALSE] >>
    [] field.kind = "Foreign" ->
         << [name |-> field.name, type |-> field.table, foreign |-> TRUE] >>
    [] OTHER -> << [name |-> field.name, type |-> field.kind, foreign |-> FALSE] >>

createSchema(module) ==
  [t \in DOMAIN module |->
     [name |-> module[t].name,
      columns |-> FlattenSeq([i \in DOMAIN module[t].fields |-> Columns(module[t].fields[i])])]]

export_column(c) == <<c.name, ":", c.type, ";">>

export(schema) ==
  FlattenSeq([t \in DOMAIN schema |->
    <<schema[t].name, "{">>
      \o FlattenSeq([i \in DOMAIN schema[t].columns |-> export_column(schema[t].columns[i])])
      \o <<"}">>])

\* The names in a program are identifiers, and what a field is stored as is a native type
\* unless it refers to a table (asst2/orm/fields.py).
ASSUME ModulesAssumption ==
  \A m \in Modules :
    /\ m \in Seq({m[t] : t \in DOMAIN m})
    /\ \A t \in DOMAIN m :
         LET fields == m[t].fields IN
         /\ m[t].name \notin Punctuation
         /\ fields \in Seq({fields[i] : i \in DOMAIN fields})
         /\ \A i \in DOMAIN fields : \A j \in DOMAIN Columns(fields[i]) :
              LET c == Columns(fields[i])[j] IN
              /\ c.name \notin Punctuation
              /\ c.foreign \/ c.type \in Native

\* Mutant: the table that a column refers to is not looked for
AnyReference(schema) ==
  \A t \in DOMAIN schema :
    /\ \A u \in 1..(t - 1) : schema[u].name # schema[t].name
    /\ \A i \in DOMAIN schema[t].columns : schema[t].columns[i].name # "id"

\* Database.__init__; the names of foreign columns are not compared with the others
Accepted(schema) ==
  \A t \in DOMAIN schema :
    /\ \A u \in 1..(t - 1) : schema[u].name # schema[t].name
    /\ \A i \in DOMAIN schema[t].columns :
         LET c == schema[t].columns[i] IN
         /\ c.name # "id"
         /\ IF c.foreign THEN \E u \in 1..(t - 1) : schema[u].name = c.type
            ELSE \A j \in 1..(i - 1) : schema[t].columns[j].name # c.name

-----------------------------------------------------------------------------
SchemaInit ==
  /\ source \in {Anything} \cup
       {m \in Modules : \A t \in DOMAIN m : Class(m[t], SubSeq(m, 1, t - 1))}
  /\ text = export(createSchema(source))
  /\ read = <<>> /\ dropped = NoName /\ at = "table"
  /\ tables = <<>> /\ table = NoName /\ columns = <<>>
  /\ column = NoName /\ type = NoName /\ result = "none"

\* The next token of the text, and its end
Token(tok) ==
  /\ result = "none"
  /\ IF source = Anything THEN tok \in Names \cup Punctuation /\ Len(read) < MaxTokens
     ELSE Len(read) < Len(text) /\ tok = text[Len(read) + 1]
  /\ read' = Append(read, tok)
  /\ UNCHANGED <<source, text, dropped>>

Fail(error) == result' = error /\ UNCHANGED <<at, tables, table, columns, column, type>>

\* tokenize: an identifier that starts with a digit or an underscore
BadIdentifier ==
  /\ source = Anything /\ result = "none"
  /\ Fail("invalid identifier, cannot start with a number or underscore")
  /\ UNCHANGED <<source, text, read, dropped>>

\* Mutant: the columns of the table before are kept
KeepsColumns(tok) ==
  /\ at = "table"
  /\ \/ tok \in Punctuation /\ Fail("invalid name identifier")
     \/ /\ tok \notin Punctuation
        /\ at' = "{" /\ table' = tok
        /\ UNCHANGED <<tables, columns, column, type, result>>

parse_table(tok) ==
  /\ at = "table"
  /\ \/ tok \in Punctuation /\ Fail("invalid name identifier")
     \/ /\ tok \notin Punctuation
        /\ at' = "{" /\ table' = tok /\ columns' = <<>>
        /\ UNCHANGED <<tables, column, type, result>>

\* A punctuation that the grammar wants where the parser is
Expect(mark, next, tok, error) ==
  /\ at = mark
  /\ \/ tok # mark /\ Fail(error)
     \/ /\ tok = mark
        /\ at' = next
        /\ UNCHANGED <<tables, table, columns, column, type, result>>

\* The closing bracket of a table
close_table(name, cols) ==
  \/ cols = <<>> /\ Fail("table has no column")
  \/ /\ cols # <<>>
     /\ tables' = Append(tables, [t_name |-> name, t_cols |-> cols])
     /\ at' = "table"
     /\ UNCHANGED <<table, columns, column, type, result>>

parse_column(tok) ==
  /\ at = "column"
  /\ \/ tok = "}" /\ close_table(table, columns)
     \/ tok \in Punctuation \ {"}"} /\ Fail("invalid name identifier")
     \/ /\ tok \notin Punctuation
        /\ at' = ":" /\ column' = tok
        /\ UNCHANGED <<tables, table, columns, type, result>>

column_type(tok) ==
  /\ at = "type"
  /\ at' = ";" /\ type' = tok
  /\ UNCHANGED <<tables, table, columns, column, result>>

\* Mutant: a column may refer to its own table
Reference(name) ==
  LET all == Append(tables, [t_name |-> table, t_cols |-> columns])
  IN  {t \in DOMAIN all : all[t].t_name = name /\ \A u \in 1..(t - 1) : all[u].t_name # name}

\* The first table with a name, if there is one
position(name) ==
  {t \in DOMAIN tables :
     tables[t].t_name = name /\ \A u \in 1..(t - 1) : tables[u].t_name # name}

\* The semicolon, and then the type of the column
end_column(tok) ==
  /\ at = ";"
  /\ \/ tok # ";" /\ Fail("expecting ';' after column type")
     \/ /\ tok = ";" /\ type \notin Native /\ position(type) = {}
        /\ Fail("cannot find reference table")
     \/ /\ tok = ";"
        /\ \/ type \in Native
              /\ columns' = Append(columns, [c_name |-> column, c_type |-> type, c_ref |-> 0])
           \/ type \notin Native
              /\ \E t \in position(type) :
                   columns' = Append(columns, [c_name |-> column, c_type |-> "foreign",
                                               c_ref |-> t])
        /\ at' = "column"
        /\ UNCHANGED <<tables, table, column, type, result>>

Read ==
  \E tok \in Names \cup Punctuation \cup {text[i] : i \in DOMAIN text} :
    /\ Token(tok)
    /\ \/ parse_table(tok) \/ parse_column(tok) \/ column_type(tok) \/ end_column(tok)
       \/ Expect("{", "column", tok, "expecting '{' after table name")
       \/ Expect(":", "type", tok, "expecting ':' after column name")

\* The end of the text: an identifier that nothing follows is not a token
EndOfFile ==
  /\ result = "none"
  /\ IF source = Anything THEN dropped' \in Names \cup {NoName}
     ELSE Len(read) = Len(text) /\ UNCHANGED dropped
  /\ result' = IF at # "table" THEN "unexpected end of file"
               ELSE IF tables = <<>> THEN "schema file is empty" ELSE "tables"
  /\ UNCHANGED <<source, text, read, at, tables, table, columns, column, type>>

SchemaNext == Read \/ EndOfFile \/ BadIdentifier

SchemaSpec == SchemaInit /\ [][SchemaNext]_schemaVars

-----------------------------------------------------------------------------
\* What the database takes for granted of its schema (SchemaAssumption of
\* EasyDBTables), of the tables that are read and of those that are being read: a
\* column refers to a table exactly when it is foreign, and then to an earlier one,
\* so that rows that refer to rows never form a cycle.
ReferencesGoBack ==
  LET all == Append(tables, [t_name |-> table, t_cols |-> columns]) IN
  \A t \in DOMAIN all : \A i \in DOMAIN all[t].t_cols :
    LET c == all[t].t_cols[i] IN
    /\ c.c_ref < t
    /\ c.c_type = "foreign" <=> c.c_ref # 0
    /\ c.c_ref # 0 => all[c.c_ref].t_cols # <<>>

\* The tables as the client would export them
written(t) ==
  [name |-> tables[t].t_name,
   columns |-> [i \in DOMAIN tables[t].t_cols |->
     LET c == tables[t].t_cols[i] IN
     [name |-> c.c_name, foreign |-> c.c_ref # 0,
      type |-> IF c.c_ref = 0 THEN c.c_type ELSE tables[c.c_ref].t_name]]]

Written == [t \in DOMAIN tables |-> written(t)]

\* The tables say what the text says, no less and no more, but for an identifier at
\* its end: written again they are the tokens that were read.
NothingLost == result = "tables" => export(Written) = read

\* A table of a program that is called as a native type is taken for it, and one
\* without columns is refused, though Database accepts both.
Portable(schema) ==
  \A t \in DOMAIN schema : schema[t].name \notin Native /\ schema[t].columns # <<>>

\* The schema that a program has exported, when its Database accepts it too, is read
\* as the schema its Database goes by: the same tables and columns in the same order,
\* so that the numbers of the requests mean the same on both sides.
SidesAgree ==
  LET schema == createSchema(source) IN
  source # Anything /\ result # "none" /\ Accepted(schema) /\ Portable(schema)
    => result = "tables" /\ Written = schema
=============================================================================
