--------------------------- MODULE EasyDBPackets ---------------------------
(***************************************************************************)
(* The packets between the Python client and the server of EasyDB: what    *)
(* easydb.py packs and packet.rs reads, what packet.rs writes and          *)
(* easydb.py unpacks.                                                      *)
(*                                                                         *)
(* A packet is a sequence of words of 4 bytes.  An i64 and an f64 are two, *)
(* a text v is v words (its padding included), none when it is empty.      *)
(***************************************************************************)
EXTENDS EasyDBRequests, SequencesExt

CONSTANTS
  PacketWords,   \* MAX_PACKET_SIZE: what the server reads of a packet at most
  RecvWords      \* recv(4096): what the client reads of a response at most

\* What comes before the values of a row always fits
ASSUME WordsAssumption ==
  PacketWords \in Nat /\ PacketWords > 7 /\ RecvWords \in Nat /\ RecvWords > 0

\* A word has WordBase values; the most significant one of an i64 is first
WordBase == 1000

\* Mutant: the least significant word of an i64 is written first
LowWordFirst(i) == <<i % WordBase, i \div WordBase>>

W64(i)       == <<i \div WordBase, i % WordBase>>
I64(hi, low) == hi * WordBase + low

TextWords(v) == [i \in 1..v |-> v]

\* The text of some words, without the NULs at its end; -1 is one nobody sent
TextOf(words) ==
  LET n == Max({i \in 1..Len(words) : words[i] # 0} \cup {0})
  IN  IF \A i \in 1..n : words[i] = n THEN n ELSE -1

\* The loop of from_raw that takes NULs off the end of a string ends at a character
NeverEnds(words) == \A i \in DOMAIN words : words[i] = 0

-----------------------------------------------------------------------------
\* What can be written as a value: a text has a length
Writable == {v \in Value : /\ v.type = NULL => v = None
                           /\ v.type = TEXT => v.val \in Nat}

\* Mutant: the size of a value is counted in words
SizeInWords(v) ==
  CASE v.type = NULL -> <<NULL, 0>>
    [] v.type = TEXT -> <<TEXT, v.val>> \o TextWords(v.val)
    [] v.type \in {INTEGER, FLOAT, FOREIGN} -> <<v.type, 2>> \o W64(v.val)

\* valueStruct of the client; the server writes values in the same way
WriteValue(v) ==
  CASE v.type = NULL -> <<NULL, 0>>
    [] v.type = TEXT -> <<TEXT, 4 * v.val>> \o TextWords(v.val)
    [] v.type \in {INTEGER, FLOAT, FOREIGN} -> <<v.type, 8>> \o W64(v.val)

WriteValues(values) == FlattenSeq([i \in DOMAIN values |-> WriteValue(values[i])])

\* What the methods of Database send: requestStruct, rowStruct, valueStruct
Request_packet(req) ==
  CASE req.command = "Insert" ->
         <<1, req.table_id, Len(req.values)>> \o WriteValues(req.values)
    [] req.command = "Update" ->
         <<2, req.table_id>> \o W64(req.object_id) \o W64(req.version)
           \o <<Len(req.values)>> \o WriteValues(req.values)
    [] req.command = "Drop"   -> <<3, req.table_id>> \o W64(req.object_id)
    [] req.command = "Get"    -> <<4, req.table_id>> \o W64(req.object_id)
    [] req.command = "Query"  ->
         <<5, req.table_id, req.column_id, req.operator>> \o WriteValue(req.value)
    [] req.command = "Exit"   -> <<6, req.table_id>>

ExitRequest == [command |-> "Exit", table_id |-> 1]

-----------------------------------------------------------------------------
(***************************************************************************)
(* The server reads from a buffer that is always PacketWords long.  A read *)
(* is a value, Bad (an io::Error) or Endless; `at' is the next word.       *)
(***************************************************************************)
Bad     == [status |-> "bad"]
Endless == [status |-> "endless"]

read_value(b, p) ==
  LET type == b[p]
      size == b[p + 1]
      text == SubSeq(b, p + 2, p + 1 + size \div 4)
  IN  CASE p + 1 > Len(b)                 -> Bad
        [] p + 1 <= Len(b) /\ type = NULL -> 
             IF size = 0 THEN [status |-> "read", value |-> None, at |-> p + 2] ELSE Bad
        [] p + 1 <= Len(b) /\ type \in {INTEGER, FLOAT, FOREIGN} ->
             IF size = 8 /\ p + 3 <= Len(b)
             THEN [status |-> "read", at |-> p + 4,
                   value |-> [type |-> type, val |-> I64(b[p + 2], b[p + 3])]]
             ELSE Bad
        [] p + 1 <= Len(b) /\ type = TEXT ->
             IF size < 0 \/ p + 1 + size \div 4 > Len(b) THEN Bad
             ELSE IF NeverEnds(text) THEN Endless
             ELSE [status |-> "read", at |-> p + 2 + size \div 4,
                   value |-> [type |-> TEXT, val |-> TextOf(text)]]
        [] p + 1 <= Len(b) /\ type \notin NULL..FOREIGN -> Bad

\* The loop over numcols; the first value that cannot be read ends it
NextValue(b, row) ==
  LET v == read_value(b, row.at)
  IN  IF row.status # "read" THEN row
      ELSE IF v.status # "read" THEN v
      ELSE [status |-> "read", values |-> Append(row.values, v.value), at |-> v.at]

read_values(b, p, numcols) ==
  LET n == IF numcols > 0 THEN numcols ELSE 0
      after[i \in 0..n] ==
        IF i = 0 THEN [status |-> "read", values |-> <<>>, at |-> p]
        ELSE NextValue(b, after[i - 1])
  IN  after[n]

\* A request once its row could be read
WithValues(row, request) ==
  IF row.status = "read" THEN [status |-> "read", request |-> [request EXCEPT !.values = row.values]]
  ELSE row

receive(b) ==
  LET t   == b[2]
      key == I64(b[3], b[4])
  IN  CASE b[1] = 1 -> WithValues(read_values(b, 4, b[3]),
                                   [command |-> "Insert", table_id |-> t, values |-> <<>>])
        [] b[1] = 2 ->
             WithValues(read_values(b, 8, b[7]),
                        [command |-> "Update", table_id |-> t, object_id |-> key,
                         version |-> I64(b[5], b[6]), values |-> <<>>])
        [] b[1] \in {3, 4} ->
             [status |-> "read",
              request |-> KeyRequest(IF b[1] = 3 THEN "Drop" ELSE "Get", t, key)]
        [] b[1] = 5 ->
             LET v == read_value(b, 5)
             IN  IF v.status # "read" THEN v
                 ELSE [status |-> "read",
                       request |-> [command |-> "Query", table_id |-> t,
                                    column_id |-> b[3], operator |-> b[4],
                                    value |-> v.value]]
        [] b[1] = 6 -> [status |-> "read", request |-> [ExitRequest EXCEPT !.table_id = t]]
        [] OTHER    -> Bad

InOrder(ids) ==
  [i \in 1..Cardinality(ids) |->
     CHOOSE id \in ids : Cardinality({j \in ids : j < id}) = i - 1]

\* The packet of a response; the ids of a query come in any order, here by size
Response_packet(response) ==
  CASE response.kind = "Error"  -> <<response.code>>
    [] response.kind = "Insert" -> <<OK>> \o W64(response.id) \o W64(response.version)
    [] response.kind = "Update" -> <<OK>> \o W64(response.version)
    [] response.kind = "Drop"   -> <<OK>>
    [] response.kind = "Get"    -> <<OK>> \o W64(response.version)
                                     \o <<Len(response.values)>>
                                     \o WriteValues(response.values)
    [] response.kind = "Query"  ->
         <<OK, Cardinality(response.ids)>>
           \o FlattenSeq([i \in 1..Cardinality(response.ids) |-> W64(InOrder(response.ids)[i])])

-----------------------------------------------------------------------------
(***************************************************************************)
(* What a method of the client makes of the words r that recv returned: it *)
(* raises, or it returns a value.  A struct.error is for words there are   *)
(* not.                                                                    *)
(***************************************************************************)
Raised(exception)    == [raised |-> exception]
Nothing              == Raised("nothing")
Numbers(seq)         == [raised |-> "nothing", numbers |-> seq]   \* pk and version
Fields(list, ver)    == [raised |-> "nothing", list |-> list, version |-> ver]
Ids(ids)             == [raised |-> "nothing", ids |-> ids]
Whether(b)           == [raised |-> "nothing", connected |-> b]

\* errorCheck, and what the method goes on with when it does not raise
Checked(command, code) ==
  LET exception == raises(command, Error(code))
  IN  IF exception = "nothing" THEN Nothing ELSE Raised(exception)

\* The Python value of a field: no method returns a NULL or a foreign type
PyValue(v) == IF v.type = FOREIGN THEN [v EXCEPT !.type = INTEGER] ELSE v

(***************************************************************************)
(* The loop of get.  dec_val keeps the value of the field before when the  *)
(* type is none it knows, and has none before the first.                   *)
(***************************************************************************)
NextField(r, f) ==
  LET type == r[f.at]
      size == r[f.at + 1]
      dec_val ==
        CASE type = TEXT ->
               [type |-> TEXT, val |-> TextOf(SubSeq(r, f.at + 2, f.at + 1 + size \div 4))]
          [] type \in {INTEGER, FLOAT, FOREIGN} ->
               PyValue([type |-> type, val |-> I64(r[f.at + 2], r[f.at + 3])])
          [] type \notin {INTEGER, FLOAT, TEXT, FOREIGN} -> f.dec_val
      short == \/ f.at + 1 > Len(r)
               \/ f.at + 1 + size \div 4 > Len(r)
               \/ type \in {INTEGER, FLOAT, FOREIGN} /\ size < 8
  IN  IF f.raised # "nothing" THEN f
      ELSE IF short THEN Raised("struct.error")
      ELSE IF dec_val = None THEN Raised("UnboundLocalError")
      ELSE [raised |-> "nothing", dec_val |-> dec_val,
            list |-> Append(f.list, dec_val), at |-> f.at + 2 + size \div 4]

get_values(r, count) ==
  LET n == IF count > 0 THEN count ELSE 0
      after[i \in 0..n] ==
        IF i = 0 THEN [raised |-> "nothing", dec_val |-> None, list |-> <<>>, at |-> 5]
        ELSE NextField(r, after[i - 1])
  IN  after[n]

unpack_get(r) ==
  LET f == get_values(r, r[4])
  IN  IF Len(r) < 4 THEN Raised("struct.error")
      ELSE IF f.raised # "nothing" THEN Raised(f.raised)
      ELSE Fields(f.list, I64(r[2], r[3]))

unpack_scan(r) ==
  CASE Len(r) = 2 -> Ids({})
    [] Len(r) # 2 /\ Len(r) < 4 -> Raised("struct.error")
    [] Len(r) >= 4 /\ r[1] # OK ->
         IF errorCheck(r[1]) = "nothing" THEN Ids({}) ELSE Raised(errorCheck(r[1]))
    [] Len(r) >= 4 /\ r[1] = OK ->
         IF Len(r) < 2 + 2 * r[2] THEN Raised("struct.error")
         ELSE Ids({I64(r[1 + 2 * i], r[2 + 2 * i]) : i \in 1..r[2]})

\* insert and update: the result if the code is OK
unpack_numbers(command, r, count) ==
  IF Len(r) < 1 + 2 * count THEN Raised("struct.error")
  ELSE IF r[1] # OK THEN Checked(command, r[1])
  ELSE Numbers([i \in 1..count |-> I64(r[2 * i], r[2 * i + 1])])

unpack(command, r) ==
  CASE Len(r) = 1 -> IF command = "Query" /\ errorCheck(r[1]) = "nothing"
                     THEN Ids({}) ELSE Checked(command, r[1])
    [] Len(r) # 1 /\ command = "Insert" -> unpack_numbers(command, r, 2)
    [] Len(r) # 1 /\ command = "Update" -> unpack_numbers(command, r, 1)
    [] Len(r) # 1 /\ command = "Drop"   -> Nothing
    [] Len(r) # 1 /\ command = "Get"    -> unpack_get(r)
    [] Len(r) # 1 /\ command = "Query"  -> unpack_scan(r)
=============================================================================
