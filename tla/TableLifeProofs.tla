--------------------------- MODULE TableLifeProofs ---------------------------
(***************************************************************************)
(* Proofs, for any streams, rows, settings and number of runs, about the   *)
(* tables themselves: set-up leaves nothing missing, merges collapse only  *)
(* rows with one key, and a column holds what is inserted into it.  They   *)
(* rest on what TableSetupProofs says of the connector, and on what the    *)
(* rules of RecordRules do with any value of any property.                 *)
(*                                                                         *)
(* The process may end anywhere and be run again, and what it has prepared *)
(* outlives it.  So the invariant says of a stream what it was prepared    *)
(* with, of a row what was there when it was buffered, and of a table from *)
(* whose keys and types it was made.                                       *)
(***************************************************************************)
EXTENDS TableSetupProofs

-----------------------------------------------------------------------------
(* The rules for a value: a repair leaves what is valid as it is, a number  *)
(* of a property that allows strings apart, and makes a string of anything  *)
(* else that may be one; and the column of a property takes what validation *)
(* lets through.                                                            *)

\* A value, taken apart.
LEMMA ValueParts ==
  ASSUME NEW v \in Values
  PROVE  \/ v.kind \in Scalars /\ v = Plain(v.kind)
         \/ /\ v.kind \in {"object", "array"}
            /\ v.of \in Scalars \cup {"bare"}
            /\ v = [kind |-> v.kind, of |-> v.of]
  BY DEF Values, Plain

\* A property, taken apart.
LEMMA SchemaParts ==
  ASSUME NEW schema \in PropertySchemas
  PROVE  /\ schema.types \subseteq
              {"string", "integer", "number", "object", "array"}
         /\ schema.types # {} /\ schema.column \in schema.types \cup {"string"}
         /\ schema.null \in {"no", "listed", "anyOf"}
         /\ schema.of \in {"none", "string", "string or null", "integer"}
         /\ schema.format \in {"none", "date", "date-time", "time"}
         /\ schema.format # "none" => schema.types = {"string"}
  BY DEF PropertySchemas

\* str() changes no string, and makes a string of every other value.
LEMMA AsStringIsString ==
  ASSUME NEW k
  PROVE  AsString(k) \in Strings /\ (k \in Strings => AsString(k) = k)
  BY DEF AsString, Strings

\* A value of a kind that str() makes a string of is a string then, and no
\* other: what is not one of the types of a property that allows strings.
LEMMA MadeString ==
  ASSUME NEW v \in Values, NEW schema \in PropertySchemas,
         "string" \in schema.types,
         v.kind \notin {"object", "array"} \cap schema.types
  PROVE  /\ RepairAs(v, schema) = Plain(AsString(v.kind))
         /\ Valid(RepairAs(v, schema), schema)
         /\ v.kind \in Strings => RepairAs(v, schema) = v
<1>1. RepairAs(v, schema) = Plain(AsString(v.kind))
  BY DEF RepairAs
<1>2. Plain(AsString(v.kind)).kind \in Strings
  BY AsStringIsString DEF Plain
<1>3. Valid(Plain(AsString(v.kind)), schema)
  BY <1>2 DEF Valid, Strings
<1>4. v.kind \in Strings => Plain(AsString(v.kind)) = v
  <2>1. v.kind \in Strings => v = Plain(v.kind)
    BY ValueParts DEF Strings
  <2>. QED
    BY <2>1, AsStringIsString
<1>. QED
  BY <1>1, <1>3, <1>4

\* A repair changes no valid value but a number of a property that allows
\* strings too, which becomes one of them.
LEMMA RepairKeepsValid ==
  ASSUME NEW v \in Values, NEW schema \in PropertySchemas, Valid(v, schema)
  PROVE  \/ Repair(v, schema) = v
         \/ /\ v.kind \in Numbers /\ {"string"} # schema.types
            /\ Valid(Repair(v, schema), schema)
<1>1. CASE schema.null = "anyOf"
  BY <1>1 DEF Repair
<1>2. CASE schema.null # "anyOf" /\ v.kind = "null"
  BY <1>2, SchemaParts DEF Repair, Valid, Strings, Numbers
<1>3. CASE /\ schema.null # "anyOf"
           /\ v.kind \in {"object", "array"} \cap schema.types
  <2>1. CASE v.of = "bare"
    BY <1>3, <2>1 DEF Repair, RepairAs
  <2>2. CASE v.of # "bare"
    <3>1. RepairInside(v.of, schema.of) = v.of
      <4>1. ValidInside(v.of, schema.of)
        BY <1>3 DEF Valid, Strings, Numbers
      <4>2. v.of \in Strings => AsString(v.of) = v.of
        BY AsStringIsString
      <4>. QED
        BY <4>1, <4>2 DEF ValidInside, RepairInside
    <3>2. v = [kind |-> v.kind, of |-> v.of]
      BY <1>3, ValueParts DEF Scalars
    <3>3. [v EXCEPT !.of = RepairInside(v.of, schema.of)] = v
      BY <3>1, <3>2
    <3>. QED
      BY <3>3, <1>3, <2>2 DEF Repair, RepairAs
  <2>. QED
    BY <2>1, <2>2
<1>4. CASE /\ schema.null # "anyOf" /\ v.kind # "null"
           /\ v.kind \notin {"object", "array"} \cap schema.types
  <2>1. Repair(v, schema) = RepairAs(v, schema)
    BY <1>4 DEF Repair
  <2>2. CASE "string" \notin schema.types
    BY <1>4, <2>1, <2>2 DEF RepairAs
  <2>3. CASE "string" \in schema.types /\ v.kind \in Strings
    BY <1>4, <2>1, <2>3, MadeString
  <2>4. CASE "string" \in schema.types /\ v.kind \notin Strings
    <3>1. v.kind \in Numbers /\ schema.types \cap {"integer", "number"} # {}
      BY <1>4, <2>4, ValueParts DEF Valid, Scalars, Strings, Numbers
    <3>2. {"string"} # schema.types
      BY <3>1
    <3>. QED
      BY <3>1, <3>2, <1>4, <2>1, <2>4, MadeString
  <2>. QED
    BY <2>2, <2>3, <2>4
<1>. QED
  BY <1>1, <1>2, <1>3, <1>4

\* After it a property that allows strings is valid, whatever was sent that is
\* not an object or array of its types.
LEMMA RepairMakesStrings ==
  ASSUME NEW v \in Values, NEW schema \in PropertySchemas,
         "string" \in schema.types, schema.null # "anyOf",
         v.kind \notin {"object", "array"} \cap schema.types
  PROVE  Valid(Repair(v, schema), schema)
<1>1. CASE schema.null = "listed" /\ v.kind = "null"
  BY <1>1 DEF Repair, Valid
<1>2. CASE ~(schema.null = "listed" /\ v.kind = "null")
  BY <1>2, MadeString DEF Repair
<1>. QED
  BY <1>1, <1>2

\* What is accepted for a string is one, or null, or an object or array.
LEMMA AcceptedText ==
  ASSUME NEW v \in Values, NEW schema \in PropertySchemas,
         "string" \in schema.types,
         schema.types = {"string"} \/ schema.null # "anyOf",
         Valid(Repair(v, schema), schema)
  PROVE  Repair(v, schema).kind \in Strings \cup {"null", "object", "array"}
<1>1. CASE v.kind \in {"object", "array"} \cap schema.types
  <2>1. RepairAs(v, schema).kind = v.kind
    BY <1>1, ValueParts DEF RepairAs, Scalars
  <2>. QED
    BY <1>1, <2>1 DEF Repair
<1>2. CASE /\ v.kind \notin {"object", "array"} \cap schema.types
           /\ schema.null # "anyOf"
  <2>1. RepairAs(v, schema).kind \in Strings
    BY <1>2, MadeString, AsStringIsString DEF Plain
  <2>. QED
    BY <1>2, <2>1 DEF Repair
<1>3. CASE schema.types = {"string"} /\ schema.null = "anyOf"
  BY <1>3, ValueParts DEF Repair, Valid, Scalars, Strings, Numbers
<1>. QED
  BY <1>1, <1>2, <1>3

\* A value that is null after its repair was sent as null.
LEMMA RepairedNull ==
  ASSUME NEW v \in Values, NEW schema \in PropertySchemas,
         Repair(v, schema).kind = "null"
  PROVE  Repair(v, schema) = Plain("null")
<1>1. \/ Repair(v, schema) = v
      \/ Repair(v, schema) = Plain(AsString(v.kind))
      \/ /\ v.kind \in {"object", "array"}
         /\ Repair(v, schema) =
              [v EXCEPT !.of = RepairInside(v.of, schema.of)]
  BY DEF Repair, RepairAs
<1>2. Plain(AsString(v.kind)).kind \in Strings
  BY AsStringIsString DEF Plain
<1>3. v.kind \in {"object", "array"} =>
        [v EXCEPT !.of = RepairInside(v.of, schema.of)].kind = v.kind
  BY ValueParts DEF Scalars
<1>. QED
  BY <1>1, <1>2, <1>3, ValueParts DEF Strings

\* What the column of a property is, a key or not, and what it takes: exceptions
\* are a NULL in a key, or allowed by an anyOf only, a time that does not parse,
\* and a property of several types whose column is made for another.
LEMMA AcceptedFits ==
  ASSUME NEW v \in Values, NEW schema \in PropertySchemas,
         NEW key \in BOOLEAN, NEW json \in BOOLEAN, ~Mixed(schema),
         validate_and_parse(v, schema, TRUE) # Rejected
  PROVE  \/ Holds(to_sql_type(schema, key, json),
                  validate_and_parse(v, schema, TRUE))
         \/ /\ validate_and_parse(v, schema, TRUE) = Plain("null")
            /\ key \/ schema.null = "anyOf" \/ schema.format = "time"
<1>. DEFINE column   == to_sql_type(schema, key, json)
            repaired == Repair(v, schema)
            parsed   == validate_and_parse(v, schema, TRUE)
<1>1. Valid(repaired, schema) /\ parsed = ParseTimestamp(repaired, schema)
  BY DEF validate_and_parse
<1>2. repaired.kind = "null" => repaired = Plain("null")
  BY RepairedNull
<1>3. /\ column.base = jsonschema_to_sql(schema, json)
      /\ column.nullable <=>
            /\ ~key
            /\ column.base \in {"Date32", "DateTime"} \/ schema.null = "listed"
  BY DEF to_sql_type
<1>4. /\ schema.column \in {"string", "integer", "number", "object", "array"}
      /\ schema.null \in {"no", "listed", "anyOf"}
      /\ schema.format \in {"none", "date", "date-time", "time"}
      /\ schema.format # "none" => schema.types = {"string"}
      /\ schema.column # "string" => schema.types = {schema.column}
      /\ schema.column = "string" =>
            /\ "string" \in schema.types
            /\ schema.types = {"string"} \/ schema.null # "anyOf"
  BY SchemaParts DEF Mixed
<1>5. schema.column = "string" =>
        repaired.kind \in Strings \cup {"null", "object", "array"}
  BY <1>1, <1>4, AcceptedText
<1>6. schema.format # "none" => repaired.kind \in Strings \cup {"null"}
  <2>1. schema.format # "none" =>
          repaired.kind \notin {"object", "array"}
    BY <1>1, <1>4 DEF Valid, Strings, Numbers
  <2>2. schema.format # "none" => schema.column = "string"
    BY <1>4
  <2>. QED
    BY <1>5, <2>1, <2>2
<1>. HIDE DEF column, repaired, parsed
<1>. SUFFICES \/ Holds(column, parsed)
              \/ /\ parsed = Plain("null")
                 /\ key \/ schema.null = "anyOf" \/ schema.format = "time"
  BY DEF column, parsed
<1>7. CASE repaired.kind = "null"
  <2>1. parsed = repaired
    BY <1>1, <1>7 DEF ParseTimestamp
  <2>2. schema.null # "no"
    BY <1>1, <1>7 DEF Valid, Strings, Numbers
  <2>. QED
    BY <2>1, <2>2, <1>2, <1>3, <1>4, <1>7 DEF Holds
<1>8. CASE repaired.kind # "null" /\ schema.column # "string"
  <2>1. schema.format = "none" /\ parsed = repaired
    BY <1>1, <1>4, <1>8 DEF ParseTimestamp, Datelike
  <2>2. CASE schema.column \in {"integer", "number"}
    <3>1. repaired.kind \in Numbers
      BY <1>1, <1>4, <1>8, <2>2 DEF Valid
    <3>2. column.base \in {"Int64", "FLOAT"}
      BY <1>3, <2>1, <2>2 DEF jsonschema_to_sql
    <3>. QED
      BY <2>1, <3>1, <3>2, <1>8 DEF Holds
  <2>3. CASE schema.column \in {"object", "array"}
    <3>1. repaired.kind = schema.column
      BY <1>1, <1>4, <1>8, <2>3 DEF Valid
    <3>2. column.base = IF schema.column = "object" /\ json THEN "JSON"
                        ELSE "String"
      BY <1>3, <2>1, <2>3 DEF jsonschema_to_sql
    <3>. QED
      BY <2>1, <2>3, <3>1, <3>2, <1>8 DEF Holds
  <2>. QED
    BY <1>4, <1>8, <2>2, <2>3
<1>9. CASE repaired.kind # "null" /\ schema.column = "string"
  <2>1. column.base = CASE schema.format = "date"      -> "Date32"
                        [] schema.format = "date-time" -> "DateTime"
                        [] OTHER                       -> "String"
    BY <1>3, <1>9 DEF jsonschema_to_sql
  <2>2. CASE schema.format = "none"
    <3>1. parsed = repaired
      BY <1>1, <2>2 DEF ParseTimestamp, Datelike
    <3>. QED
      BY <3>1, <1>5, <2>1, <2>2, <1>9 DEF Holds
  <2>3. CASE schema.format = "time"
    <3>1. parsed \in {Plain("null"), Plain("text")}
      BY <1>1, <1>6, <1>9, <2>3 DEF ParseTimestamp, Datelike
    <3>2. parsed = Plain("text") => parsed.kind = "text"
      BY DEF Plain
    <3>. QED
      BY <3>1, <3>2, <2>1, <2>3 DEF Holds, Strings
  <2>4. CASE schema.format \in {"date", "date-time"}
    <3>1. parsed \in {Plain("null"), Plain("moment")}
      BY <1>1, <1>6, <1>9, <2>4 DEF ParseTimestamp, Datelike
    <3>2. /\ Plain("null").kind = "null"
          /\ Plain("moment").kind = "moment"
      BY DEF Plain
    <3>3. column.base \in {"Date32", "DateTime"} /\ (column.nullable \/ key)
      BY <2>1, <2>4, <1>3
    <3>. QED
      BY <3>1, <3>2, <3>3 DEF Holds
  <2>. QED
    BY <1>4, <2>2, <2>3, <2>4
<1>. QED
  BY <1>7, <1>8, <1>9

-----------------------------------------------------------------------------
(* The invariant.                                                          *)

\* The table of a stream exists, and has the column of a property.
Found(s, p) ==
  /\ full_table_name(s) \in DOMAIN tables
  /\ p \in DOMAIN tables[full_table_name(s)].columns

\* A table collapses rows only if it has a key, which begins its sorting key.
TablesOK ==
  /\ tables = [n \in DOMAIN tables |-> tables[n]]
  /\ \A n \in DOMAIN tables :
        /\ tables[n] = [made |-> tables[n].made, columns |-> tables[n].columns]
        /\ tables[n].made.primary_key \subseteq tables[n].made.order_by
        /\ tables[n].made.engine \in Collapsing =>
              tables[n].made.primary_key # {}

\* A table of one stream was made for its keys, and its columns for its types.
OwnTables ==
  cfg.table_name = "unset" =>
     \A s \in Streams :
        full_table_name(s) \in DOMAIN tables =>
           LET table == tables[full_table_name(s)] IN
           /\ table.made.primary_key = KeysOf(s)
           /\ "c" \in DOMAIN table.columns =>
                 \E key \in BOOLEAN :
                    /\ table.columns["c"] = SqlType(s, "c", key)
                    /\ key => "c" \in KeysOf(s)

\* What set-up has done so far.
SetupOK ==
  /\ "default" \in dbs
  /\ ~cfg.url /\ engine # "none" => cfg.database \in dbs
  /\ pc = "table" /\ SchemaOf[stream] # "" => SchemaOf[stream] \in dbs
  /\ pc = "columns" =>
        /\ full_table_name(stream) \in DOMAIN tables
        /\ \A p \in Properties(stream) \ todo : Found(stream, p)
  /\ cfg.table_name # "dotted" =>
        \A s \in ready : \A p \in Properties(s) : Found(s, p)

\* What there is for a row, from when it is buffered.
RowsOK ==
  \A r \in Rows :
     /\ sent[r] # Absent =>
           /\ sent[r] \in Values /\ StreamOf[r] \in grown
           /\ Value(r) # Rejected
     /\ cfg.table_name # "dotted" /\ where[r] \in {"buffered", "draining"} =>
           /\ Found(StreamOf[r], "id")
           /\ sent[r] # Absent => Found(StreamOf[r], "c")
     /\ where[r] \in {"stored", "merged"} =>
           /\ full_table_name(StreamOf[r]) \in DOMAIN tables
           /\ sent[r] # Absent => Found(StreamOf[r], "c")

LifeInv ==
  /\ cfg \in Scenarios
  /\ TypeOK
  /\ TablesOK
  /\ OwnTables
  /\ SetupOK
  /\ RowsOK
  /\ SetupSuffices
  /\ KeysKept

-----------------------------------------------------------------------------
(* Lemmas about names, engines and what a step leaves alone.               *)

\* The settings do not change, nor what depends on them alone.
LEMMA SameSettings ==
  ASSUME UNCHANGED cfg
  PROVE  /\ \A s : full_table_name(s)' = full_table_name(s)
         /\ \A s : KeysOf(s)' = KeysOf(s)
         /\ \A s, p, k : SqlType(s, p, k)' = SqlType(s, p, k)
  BY DEF full_table_name, EngineDatabase, KeysOf, SqlType

\* A value is treated as it was before.
LEMMA SameValues ==
  ASSUME UNCHANGED cfg, NEW r, sent'[r] = sent[r]
  PROVE  /\ Value(r)' = Value(r)
         /\ \A p : Cell(r, p)' = Cell(r, p)
  BY DEF Value, Cell

\* Streams that name no table have one each.
LEMMA OwnNames ==
  ASSUME cfg.table_name = "unset", NEW s, NEW t,
         full_table_name(s) = full_table_name(t)
  PROVE  s = t
  BY DEF full_table_name

\* A table is created under the name it is looked up by, but for the dot.
LEMMA CreatedName ==
  ASSUME cfg.table_name # "dotted", NEW s
  PROVE  created_name(s) = full_table_name(s)
  BY DEF created_name

\* What create_engine_wrapper makes, whatever it is asked for.
LEMMA MadeFacts ==
  ASSUME NEW e \in SupportedEngines, NEW keys, NEW order_by, NEW path,
         NEW replica, NEW name, NEW made,
         made = create_engine_wrapper(e, keys, order_by, path, replica, name),
         made # NoEngine
  PROVE  /\ made.primary_key = keys
         /\ made.engine \in Collapsing => keys # {}
<1>. DEFINE chosen == IF keys = {} /\ e \in Collapsing
                      THEN COLLAPSING_ENGINE_FALLBACK[e] ELSE e
<1>1. made = [engine |-> chosen, primary_key |-> keys,
              order_by |-> IF order_by # Unset THEN order_by ELSE keys,
              path |-> IF path = "$table_name" THEN name ELSE path]
  BY DEF create_engine_wrapper
<1>2. ASSUME keys = {} PROVE chosen \notin Collapsing
  <2>1. CASE e \in Collapsing
    <3>1. COLLAPSING_ENGINE_FALLBACK[e] = [e EXCEPT !.family = "Merge"]
      BY <2>1 DEF COLLAPSING_ENGINE_FALLBACK
    <3>2. [e EXCEPT !.family = "Merge"].family = "Merge"
      BY DEF SupportedEngines
    <3>. QED
      BY <3>1, <3>2, <2>1, <1>2 DEF Collapsing
  <2>2. CASE e \notin Collapsing
    BY <2>2
  <2>. QED
    BY <2>1, <2>2
<1>. QED
  BY <1>1, <1>2

\* No step takes a table, or a column, away.
Kept ==
  \A n \in DOMAIN tables :
     /\ n \in DOMAIN tables' /\ tables'[n].made = tables[n].made
     /\ DOMAIN tables[n].columns \subseteq DOMAIN tables'[n].columns

\* What was found is found again.
LEMMA FoundAgain ==
  ASSUME UNCHANGED cfg, Kept, NEW s, NEW p, Found(s, p)
  PROVE  Found(s, p)'
  BY SameSettings DEF Found, Kept

\* A step that changes no table keeps what is said of the tables.
LEMMA TablesFrame ==
  ASSUME TablesOK, OwnTables, UNCHANGED <<cfg, tables>>
  PROVE  TablesOK' /\ OwnTables' /\ Kept
<1>1. TablesOK' /\ Kept
  BY DEF TablesOK, Kept
<1>2. OwnTables'
  <2>. SUFFICES ASSUME cfg.table_name = "unset", NEW s \in Streams,
                       full_table_name(s) \in DOMAIN tables
                PROVE
           LET table == tables[full_table_name(s)] IN
           /\ table.made.primary_key = KeysOf(s)
           /\ "c" \in DOMAIN table.columns =>
                 \E key \in BOOLEAN :
                    /\ table.columns["c"] = SqlType(s, "c", key)
                    /\ key => "c" \in KeysOf(s)
    BY SameSettings DEF OwnTables
  <2>. QED
    BY DEF OwnTables
<1>. QED
  BY <1>1, <1>2

\* The rows that are stored and merged stay so, and merges are as right as they
\* were, whatever happens to other rows.
LEMMA KeysFrame ==
  ASSUME RowsOK, KeysKept, Kept, UNCHANGED cfg,
         \A r \in Rows :
            /\ where'[r] = "merged" => where[r] = "merged"
            /\ where[r] = "stored" => where'[r] = "stored"
            /\ where[r] \in {"stored", "merged"} => sent'[r] = sent[r]
  PROVE  KeysKept'
<1>. SUFFICES ASSUME NEW r \in Rows, where'[r] = "merged",
                     ~Shared(StreamOf[r])'
              PROVE
        /\ StreamOf[r] \in Keyed
        /\ \E q \in Rows :
              /\ where'[q] = "stored" /\ StreamOf[q] = StreamOf[r]
              /\ \A p \in KeysOf(StreamOf[r]) : Cell(q, p)' = Cell(r, p)'
  BY SameSettings DEF KeysKept
<1>1. where[r] = "merged"
  OBVIOUS
<1>2. ~Shared(StreamOf[r])
  BY <1>1, SameSettings DEF Shared, RowsOK, Kept
<1>3. PICK q \in Rows :
         /\ where[q] = "stored" /\ StreamOf[q] = StreamOf[r]
         /\ \A p \in KeysOf(StreamOf[r]) : Cell(q, p) = Cell(r, p)
  BY <1>1, <1>2 DEF KeysKept
<1>4. \A p : Cell(q, p)' = Cell(q, p) /\ Cell(r, p)' = Cell(r, p)
  BY <1>1, <1>3, SameValues
<1>5. StreamOf[r] \in Keyed
  BY <1>1, <1>2 DEF KeysKept
<1>. QED
  BY <1>3, <1>4, <1>5

\* A step that changes no row keeps what is said of the rows.
LEMMA RowsFrame ==
  ASSUME RowsOK, KeysKept, Kept, UNCHANGED <<cfg, where, sent>>,
         grown \subseteq grown'
  PROVE  RowsOK' /\ KeysKept'
<1>1. RowsOK'
  <2>. SUFFICES ASSUME NEW r \in Rows
                PROVE
     /\ sent[r] # Absent =>
           /\ sent[r] \in Values /\ StreamOf[r] \in grown'
           /\ Value(r)' # Rejected
     /\ cfg.table_name # "dotted" /\ where[r] \in {"buffered", "draining"} =>
           /\ Found(StreamOf[r], "id")'
           /\ sent[r] # Absent => Found(StreamOf[r], "c")'
     /\ where[r] \in {"stored", "merged"} =>
           /\ full_table_name(StreamOf[r])' \in DOMAIN tables'
           /\ sent[r] # Absent => Found(StreamOf[r], "c")'
    BY DEF RowsOK
  <2>1. Value(r)' = Value(r)
    BY SameValues
  <2>2. \A p : Found(StreamOf[r], p) => Found(StreamOf[r], p)'
    BY FoundAgain
  <2>3. full_table_name(StreamOf[r])' = full_table_name(StreamOf[r])
    BY SameSettings
  <2>. QED
    BY <2>1, <2>2, <2>3 DEF RowsOK, Kept
<1>2. KeysKept'
  BY KeysFrame
<1>. QED
  BY <1>1, <1>2

\* A step that prepares nothing keeps what is said of set-up.
LEMMA SetupFrame ==
  ASSUME SetupOK, pc' \in {pc, "idle", "draining", "down", "done"},
         UNCHANGED <<cfg, tables, engine, dbs, stream, todo, ready, grown>>
  PROVE  SetupOK'
<1>1. \A s, p : Found(s, p)' <=> Found(s, p)
  BY SameSettings DEF Found
<1>2. \A s : full_table_name(s)' = full_table_name(s)
  BY SameSettings
<1>3. Properties(stream)' = Properties(stream)
  BY DEF Properties
<1>4. \A s : Properties(s)' = Properties(s)
  BY DEF Properties
<1>. QED
  BY <1>1, <1>2, <1>3, <1>4 DEF SetupOK

\* The part of the types that TableSetupProofs has shown.
LEMMA ConnectorTypes ==
  ASSUME IInv'
  PROVE  /\ tunnel' \in {"none", "up", "stopped"}
         /\ starting' \subseteq Threads /\ starts' \in Nat
         /\ client' \in [Streams -> {"none", "direct", "tunnel"}]
         /\ where' \in
              [Rows -> {"unsent", "buffered", "draining", "stored", "merged"}]
  BY DEF IInv, OneTunnel, EngineFirst, OnlyTheTunnel, Threads

\* The addresses that are connected to.
LEMMA Addresses ==
  /\ Url \in {"direct", "tunnel", "url"}
  /\ HostPort \in {"direct", "tunnel"}
  BY DEF Url, HostPort

-----------------------------------------------------------------------------
(* The steps.                                                              *)

\* The invariant holds initially.
LEMMA InitLife == Init => LifeInv
<1>. SUFFICES ASSUME Init PROVE LifeInv
  OBVIOUS
<1>. USE DEF Init
<1>0. /\ cfg \in Scenarios
      /\ cfg.rows \subseteq Rows /\ cfg.grown \subseteq Streams
  BY ScenariosAssumption
<1>1. DOMAIN tables = {} /\ tables = [n \in {} |-> tables[n]]
  OBVIOUS
<1>2. TypeOK
  BY <1>0, ScenariosAssumption DEF TypeOK, NoClient, Absent
<1>3. TablesOK /\ OwnTables
  BY <1>1 DEF TablesOK, OwnTables
<1>4. SetupOK /\ RowsOK
  BY DEF SetupOK, RowsOK
<1>5. SetupSuffices /\ KeysKept
  BY DEF SetupSuffices, KeysKept
<1>. QED
  BY <1>0, <1>2, <1>3, <1>4, <1>5 DEF LifeInv

\* A step that touches no table and no row, and prepares nothing.
Quiet ==
  /\ UNCHANGED <<cfg, tables, where, sent, grown, engine, dbs, stream, todo,
                 ready, missing, runs>>
  /\ pc' \in {pc, "down", "done"}
  /\ used' \subseteq {"direct", "tunnel", "url"}
  /\ pc' = "done" => client' = NoClient /\ tunnel' # "up"

\* What connects, ends or stops the process is such a step.
LEMMA QuietSteps ==
  ASSUME LifeInv, IInv,
         \/ \E t \in Threads : ConnectTunnel(t)
         \/ \E s \in Streams : ClientConnects(s)
         \/ Signal \/ clean_up \/ Crash
  PROVE  Quiet
<1>. USE DEF LifeInv, TypeOK
<1>1. ASSUME NEW t \in Threads, ConnectTunnel(t) PROVE Quiet
  <2>1. UNCHANGED <<cfg, tables, where, sent, grown, engine, dbs, stream,
                    todo, ready, missing, runs, pc, client, used>>
    BY <1>1 DEF ConnectTunnel, FindNoTunnel, StartTunnel, setup, rows
  <2>2. pc # "done"
    BY <1>1 DEF ConnectTunnel, StartTunnel, Asks, IInv, OneTunnel
  <2>. QED
    BY <2>1, <2>2 DEF Quiet
<1>2. ASSUME NEW s \in Streams, ClientConnects(s) PROVE Quiet
  <2>1. /\ UNCHANGED <<cfg, tables, where, sent, grown, engine, dbs, stream,
                       todo, ready, missing, runs, pc>>
        /\ used' = used \cup {HostPort}
    BY <1>2
       DEF ClientConnects, BuildClient, Connect, ClientHostPort, setup, rows
  <2>2. pc # "done"
    BY <1>2, MainAssumption DEF ClientConnects, Asks
  <2>. QED
    BY <2>1, <2>2, Addresses DEF Quiet
<1>3. CASE Signal
  BY <1>3 DEF Signal, setup, rows, Quiet
<1>4. CASE clean_up
  BY <1>4 DEF clean_up, stop_ssh_tunnel, rows, Quiet
<1>5. CASE Crash
  BY <1>5 DEF Crash, connector, rows, Quiet
<1>. QED
  BY <1>1, <1>2, <1>3, <1>4, <1>5

\* A quiet step keeps the invariant.
LEMMA QuietLife ==
  ASSUME LifeInv, IInv', Quiet
  PROVE  LifeInv'
<1>. USE DEF LifeInv, Quiet
<1>1. TypeOK'
  BY ConnectorTypes DEF TypeOK
<1>2. TablesOK' /\ OwnTables' /\ Kept
  BY TablesFrame
<1>3. RowsOK' /\ KeysKept'
  BY <1>2, RowsFrame
<1>4. SetupOK'
  BY SetupFrame
<1>5. SetupSuffices'
  BY DEF SetupSuffices
<1>. QED
  BY <1>1, <1>2, <1>3, <1>4, <1>5

\* The statements that lead to a table keep the invariant.
LEMMA BootstrapLife ==
  ASSUME LifeInv, IInv',
         \/ \E s \in Streams : Schema(s)
         \/ prepare_schema \/ create_engine \/ FindTable
  PROVE  LifeInv'
<1>. USE DEF LifeInv
<1>1. UNCHANGED <<cfg, tables, where, sent, grown, ready, runs>>
  BY DEF Schema, prepare_schema, create_engine, FindTable, rows
<1>2. TablesOK' /\ OwnTables' /\ Kept
  BY <1>1, TablesFrame
<1>3. RowsOK' /\ KeysKept'
  BY <1>1, <1>2, RowsFrame
<1>4. /\ \A s, p : Found(s, p)' <=> Found(s, p)
      /\ \A s : full_table_name(s)' = full_table_name(s)
      /\ \A s : Properties(s)' = Properties(s)
  BY <1>1, SameSettings DEF Found, Properties
<1>5. \A s : Properties(s) \subseteq {"id", "c"}
  BY DEF Properties
<1>6. ASSUME NEW s \in Streams, Schema(s) PROVE LifeInv'
  <2>1. /\ stream' = s /\ pc' \in {"table", "schema"}
        /\ pc' = "table" => SchemaOf[s] = ""
        /\ UNCHANGED <<engine, used, todo, dbs, missing>>
    BY <1>6 DEF Schema, connector
  <2>2. TypeOK'
    BY <1>1, <2>1, ConnectorTypes DEF TypeOK
  <2>3. SetupOK' /\ SetupSuffices'
    BY <1>1, <1>4, <2>1 DEF SetupOK, SetupSuffices
  <2>. QED
    BY <1>1, <1>2, <1>3, <2>2, <2>3
<1>7. CASE prepare_schema
  <2>1. /\ pc' \in {"table", "down"} /\ used' \subseteq used \cup {Url}
        /\ UNCHANGED <<engine, stream, todo>>
        /\ dbs \subseteq dbs'
        /\ pc' = "table" => SchemaOf[stream] \in dbs' \cup {"default"}
        /\ \/ UNCHANGED missing
           \/ missing' = missing \cup {"database"} /\ cfg.url
    BY <1>7 DEF prepare_schema, ensure_database_exists, Connect, Missing
  <2>2. TypeOK'
    BY <1>1, <2>1, ConnectorTypes, Addresses DEF TypeOK
  <2>3. SetupOK' /\ SetupSuffices'
    BY <1>1, <1>4, <2>1 DEF SetupOK, SetupSuffices
  <2>. QED
    BY <1>1, <1>2, <1>3, <2>2, <2>3
<1>8. CASE create_engine
  <2>1. /\ pc = "table" /\ pc' \in {"table", "down"}
        /\ engine' \in {engine, Url} /\ used' \subseteq used \cup {Url}
        /\ UNCHANGED <<stream, todo>>
        /\ dbs \subseteq dbs'
        /\ engine' # engine => cfg.database \in dbs' \cup {"default"}
        /\ \/ UNCHANGED missing
           \/ missing' = missing \cup {"database"} /\ cfg.url
    BY <1>8 DEF create_engine, ensure_database_exists, Connect, Missing
  <2>2. TypeOK'
    BY <1>1, <2>1, ConnectorTypes, Addresses DEF TypeOK
  <2>3. SetupOK' /\ SetupSuffices'
    BY <1>1, <1>4, <2>1 DEF SetupOK, SetupSuffices
  <2>. QED
    BY <1>1, <1>2, <1>3, <2>2, <2>3
<1>9. CASE FindTable
  <2>1. /\ engine # "none" /\ used' = used \cup {engine}
        /\ UNCHANGED <<engine, stream, dbs>>
        /\ \/ /\ EngineDatabase \notin dbs
              /\ pc' = "down" /\ missing' = missing \cup {"database"}
              /\ UNCHANGED todo
           \/ /\ full_table_name(stream) \in DOMAIN tables
              /\ pc' = "columns" /\ todo' = Properties(stream)
              /\ UNCHANGED missing
    BY <1>9 DEF FindTable, Connect, Missing
  <2>2. TypeOK'
    BY <1>1, <1>5, <2>1, ConnectorTypes DEF TypeOK
  <2>3. SetupOK'
    BY <1>1, <1>4, <2>1 DEF SetupOK
  <2>4. SetupSuffices'
    BY <1>1, <2>1 DEF SetupOK, SetupSuffices, EngineDatabase
  <2>. QED
    BY <1>1, <1>2, <1>3, <2>2, <2>3, <2>4
<1>. QED
  BY <1>6, <1>7, <1>8, <1>9

\* A new table, or the one that is there, is right for the stream.
LEMMA CreateLife ==
  ASSUME LifeInv, IInv', create_empty_table
  PROVE  LifeInv'
<1>. USE DEF LifeInv
<1>. DEFINE name == created_name(stream)
            made == TableFor(stream)
<1>1. /\ pc = "table" /\ engine # "none" /\ used' = used \cup {engine}
      /\ EngineDatabase \in dbs /\ full_table_name(stream) \notin DOMAIN tables
      /\ UNCHANGED <<cfg, engine, stream, todo, grown, where, sent, dbs, runs>>
  BY DEF create_empty_table, Connect, rows
<1>2. \/ /\ made # NoEngine /\ name \notin DOMAIN tables
         /\ made.primary_key \subseteq made.order_by
         /\ Put(name, [made |-> made, columns |-> Columns(stream)])
         /\ pc' = "idle" /\ ready' = ready \cup {stream} /\ UNCHANGED missing
      \/ /\ UNCHANGED tables
         /\ \/ pc' = "down" /\ UNCHANGED <<ready, missing>>
            \/ /\ pc' = "down" /\ UNCHANGED ready /\ name[1] \notin dbs
               /\ missing' = missing \cup {"database"}
            \/ /\ name \in DOMAIN tables /\ pc' = "idle"
               /\ ready' = ready \cup {stream} /\ UNCHANGED missing
  BY DEF create_empty_table, Accepted
<1>3. cfg.table_name # "dotted" => name = full_table_name(stream)
  BY CreatedName
<1>4. TypeOK'
  <2>1. ready' \subseteq Streams
    BY <1>2 DEF TypeOK
  <2>2. pc' \in {"idle", "down"} /\ missing' \subseteq missing \cup {"database"}
    BY <1>2
  <2>. QED
    BY <1>1, <2>1, <2>2, ConnectorTypes DEF TypeOK
<1>5. SetupSuffices'
  <2>1. ASSUME ~cfg.url, cfg.table_name # "dotted" PROVE name[1] \in dbs
    <3>1. name[1] \in {EngineDatabase, SchemaOf[stream]}
          /\ (name[1] = EngineDatabase \/ SchemaOf[stream] # "")
      <4>1. cfg.table_name \in {"unset", "plain"}
        BY <2>1, ScenariosAssumption
      <4>2. CASE cfg.table_name = "plain"
        <5>1. full_table_name(stream) = <<EngineDatabase, "t">>
          BY <4>2 DEF full_table_name
        <5>2. name[1] = EngineDatabase
          BY <5>1, <2>1, <1>3
        <5>. QED
          BY <5>2
      <4>3. CASE cfg.table_name = "unset" /\ SchemaOf[stream] = ""
        <5>1. full_table_name(stream) = <<EngineDatabase, stream>>
          BY <4>3 DEF full_table_name
        <5>2. name[1] = EngineDatabase
          BY <5>1, <2>1, <1>3
        <5>. QED
          BY <5>2
      <4>4. CASE cfg.table_name = "unset" /\ SchemaOf[stream] # ""
        <5>1. full_table_name(stream) = <<SchemaOf[stream], stream>>
          BY <4>4 DEF full_table_name
        <5>2. name[1] = SchemaOf[stream]
          BY <5>1, <2>1, <1>3
        <5>. QED
          BY <5>2, <4>4
      <4>. QED
        BY <4>1, <4>2, <4>3, <4>4
    <3>. QED
      BY <3>1, <1>1 DEF SetupOK
  <2>. QED
    BY <1>1, <1>2, <2>1 DEF SetupSuffices
<1>6. /\ \A s : full_table_name(s)' = full_table_name(s)
      /\ \A s : Properties(s)' = Properties(s)
  BY <1>1, SameSettings DEF Properties
<1>7. CASE UNCHANGED tables
  <2>1. TablesOK' /\ OwnTables' /\ Kept
    BY <1>1, <1>7, TablesFrame
  <2>2. RowsOK' /\ KeysKept'
    BY <1>1, <2>1, RowsFrame
  <2>3. \A s, p : Found(s, p)' <=> Found(s, p)
    BY <1>6, <1>7 DEF Found
  <2>4. /\ pc' \in {"idle", "down"}
        /\ cfg.table_name # "dotted" => UNCHANGED ready
    BY <1>1, <1>2, <1>3, <1>7 DEF Put
  <2>5. SetupOK'
    BY <1>1, <1>6, <2>3, <2>4 DEF SetupOK
  <2>. QED
    BY <1>1, <1>4, <1>5, <2>1, <2>2, <2>5
<1>8. CASE tables' # tables
  <2>1. /\ made # NoEngine /\ name \notin DOMAIN tables
        /\ made.primary_key \subseteq made.order_by
        /\ Put(name, [made |-> made, columns |-> Columns(stream)])
        /\ pc' = "idle" /\ ready' = ready \cup {stream}
    BY <1>2, <1>8
  <2>2. /\ made.primary_key = KeysOf(stream)
        /\ made.engine \in Collapsing => made.primary_key # {}
    <3>1. cfg.engine \in SupportedEngines
      BY ScenariosAssumption
    <3>. QED
      BY <3>1, <2>1, MadeFacts DEF TableFor
  <2>. HIDE DEF made
  <2>3. /\ DOMAIN tables' = DOMAIN tables \cup {name}
        /\ tables' = [n \in DOMAIN tables' |-> tables'[n]]
        /\ tables'[name] = [made |-> made, columns |-> Columns(stream)]
        /\ \A n \in DOMAIN tables : tables'[n] = tables[n]
    BY <2>1 DEF Put
  <2>. HIDE DEF name
  <2>4. TablesOK' /\ Kept
    BY <2>1, <2>2, <2>3 DEF TablesOK, Kept
  <2>5. RowsOK' /\ KeysKept'
    BY <1>1, <2>4, RowsFrame
  <2>6. OwnTables'
    <3>. SUFFICES ASSUME cfg.table_name = "unset", NEW s \in Streams,
                         full_table_name(s) \in DOMAIN tables'
                  PROVE
           LET table == tables'[full_table_name(s)] IN
           /\ table.made.primary_key = KeysOf(s)
           /\ "c" \in DOMAIN table.columns =>
                 \E key \in BOOLEAN :
                    /\ table.columns["c"] = SqlType(s, "c", key)
                    /\ key => "c" \in KeysOf(s)
      BY <1>1, SameSettings DEF OwnTables
    <3>1. CASE s = stream
      <4>1. tables'[full_table_name(s)] =
              [made |-> made, columns |-> Columns(stream)]
        BY <1>3, <2>3, <3>1
      <4>2. "c" \in DOMAIN Columns(s) =>
              Columns(s)["c"] = SqlType(s, "c", "c" \in KeysOf(s))
        BY DEF Columns
      <4>3. "c" \in KeysOf(s) =>
              SqlType(s, "c", "c" \in KeysOf(s)) = SqlType(s, "c", TRUE)
        BY DEF SqlType, to_sql_type
      <4>4. "c" \notin KeysOf(s) =>
              SqlType(s, "c", "c" \in KeysOf(s)) = SqlType(s, "c", FALSE)
        BY DEF SqlType, to_sql_type
      <4>5. "c" \in DOMAIN Columns(s) =>
              \E key \in BOOLEAN :
                 /\ Columns(s)["c"] = SqlType(s, "c", key)
                 /\ key => "c" \in KeysOf(s)
        BY <4>2, <4>3, <4>4
      <4>. QED
        BY <4>1, <4>5, <3>1, <2>2
    <3>2. CASE s # stream
      <4>1. full_table_name(s) # name
        BY <3>2, <1>3, OwnNames
      <4>2. tables'[full_table_name(s)] = tables[full_table_name(s)]
        BY <4>1, <2>3
      <4>. QED
        BY <4>1, <4>2, <2>3 DEF OwnTables
    <3>. QED
      BY <3>1, <3>2
  <2>7. SetupOK'
    <3>1. ASSUME cfg.table_name # "dotted", NEW p \in Properties(stream)
          PROVE  Found(stream, p)'
      <4>1. DOMAIN Columns(stream) = Properties(stream)
        BY DEF Columns
      <4>. QED
        BY <3>1, <4>1, <1>1, <1>3, <1>6, <2>3 DEF Found
    <3>2. \A s, p : Found(s, p) => Found(s, p)'
      BY <1>1, <2>4, FoundAgain
    <3>. QED
      BY <1>1, <1>6, <2>1, <3>1, <3>2 DEF SetupOK
  <2>. QED
    BY <1>1, <1>4, <1>5, <2>4, <2>5, <2>6, <2>7
<1>. QED
  BY <1>7, <1>8

\* A column that is added or altered is right for the stream.
LEMMA ColumnLife ==
  ASSUME LifeInv, IInv, IInv', NEW p \in todo, prepare_column(p)
  PROVE  LifeInv'
<1>. USE DEF LifeInv
<1>. DEFINE name == full_table_name(stream)
            type == SqlType(stream, p, FALSE)
            old  == tables[name].columns
            new  == [q \in DOMAIN old \cup {p} |->
                       IF q = p THEN type ELSE old[q]]
<1>1. /\ pc = "columns" /\ used' = used \cup {engine} /\ engine # "none"
      /\ todo' = todo \ {p}
      /\ \/ todo' = {} /\ pc' = "idle" /\ ready' = ready \cup {stream}
         \/ todo' # {} /\ UNCHANGED <<pc, ready>>
      /\ UNCHANGED <<cfg, engine, stream, grown, where, sent, dbs, missing,
                     runs>>
  BY DEF prepare_column, Connect, rows, IInv, EngineFirst
<1>2. /\ name \in DOMAIN tables
      /\ \/ UNCHANGED tables /\ p \in DOMAIN old
         \/ tables' = [tables EXCEPT ![name].columns = new]
  BY <1>1 DEF prepare_column, SetColumn, SetupOK
<1>3. TypeOK'
  BY <1>1, ConnectorTypes DEF TypeOK
<1>4. SetupSuffices'
  BY <1>1 DEF SetupSuffices
<1>5. /\ DOMAIN tables' = DOMAIN tables
      /\ tables' = [n \in DOMAIN tables' |-> tables'[n]]
      /\ \A n \in DOMAIN tables : n # name => tables'[n] = tables[n]
      /\ tables'[name].made = tables[name].made
      /\ tables'[name] = [made |-> tables'[name].made,
                          columns |-> tables'[name].columns]
      /\ \/ tables'[name].columns = old /\ p \in DOMAIN old
         \/ tables'[name].columns = new
  <2>. HIDE DEF name, new
  <2>1. CASE UNCHANGED tables /\ p \in DOMAIN old
    BY <1>2, <2>1 DEF TablesOK
  <2>2. CASE tables' = [tables EXCEPT ![name].columns = new]
    <3>1. tables' = [n \in DOMAIN tables |->
                       IF n = name THEN [tables[name] EXCEPT !.columns = new]
                       ELSE tables[n]]
      BY <2>2
    <3>2. [tables[name] EXCEPT !.columns = new] =
             [made |-> tables[name].made, columns |-> new]
      BY <1>2 DEF TablesOK
    <3>. QED
      BY <1>2, <3>1, <3>2
  <2>. QED
    BY <1>2, <2>1, <2>2
<1>6. /\ DOMAIN tables'[name].columns = DOMAIN old \cup {p}
      /\ \A q \in DOMAIN old \ {p} : tables'[name].columns[q] = old[q]
      /\ \/ tables'[name].columns[p] = type
         \/ p \in DOMAIN old /\ tables'[name].columns[p] = old[p]
  BY <1>5
<1>. HIDE DEF name, old, new
<1>7. TablesOK' /\ Kept
  <2>1. Kept
    BY <1>5, <1>6 DEF Kept, old
  <2>. QED
    BY <2>1, <1>2, <1>5 DEF TablesOK
<1>8. RowsOK' /\ KeysKept'
  BY <1>1, <1>7, RowsFrame
<1>9. OwnTables'
  <2>. SUFFICES ASSUME cfg.table_name = "unset", NEW s \in Streams,
                       full_table_name(s) \in DOMAIN tables'
                PROVE
         LET table == tables'[full_table_name(s)] IN
         /\ table.made.primary_key = KeysOf(s)
         /\ "c" \in DOMAIN table.columns =>
               \E key \in BOOLEAN :
                  /\ table.columns["c"] = SqlType(s, "c", key)
                  /\ key => "c" \in KeysOf(s)
    BY <1>1, SameSettings DEF OwnTables
  <2>1. CASE full_table_name(s) # name
    BY <2>1, <1>5 DEF OwnTables
  <2>2. CASE full_table_name(s) = name
    <3>1. s = stream
      BY <2>2, OwnNames DEF name
    <3>2. /\ tables[name].made.primary_key = KeysOf(s)
          /\ "c" \in DOMAIN old =>
                \E key \in BOOLEAN :
                   /\ old["c"] = SqlType(s, "c", key)
                   /\ key => "c" \in KeysOf(s)
      BY <2>2, <1>2 DEF OwnTables, old
    <3>. QED
      BY <3>1, <3>2, <2>2, <1>5, <1>6
  <2>. QED
    BY <2>1, <2>2
<1>10. SetupOK'
  <2>1. \A s, q : Found(s, q) => Found(s, q)'
    BY <1>1, <1>7, FoundAgain
  <2>2. /\ \A s : full_table_name(s)' = full_table_name(s)
        /\ \A s : Properties(s)' = Properties(s)
    BY <1>1, SameSettings DEF Properties
  <2>3. /\ full_table_name(stream)' \in DOMAIN tables'
        /\ Found(stream, p)'
    BY <1>1, <1>2, <1>5, <1>6, <2>2 DEF Found, name
  <2>4. \A q \in Properties(stream) \ todo' : Found(stream, q)'
    BY <1>1, <2>1, <2>3 DEF SetupOK
  <2>. QED
    BY <1>1, <2>1, <2>2, <2>3, <2>4 DEF SetupOK
<1>. QED
  BY <1>1, <1>3, <1>4, <1>7, <1>8, <1>9, <1>10

\* A stream whose schema grows is no longer prepared.
LEMMA GrowLife ==
  ASSUME LifeInv, IInv', NEW s \in Streams, Grow(s)
  PROVE  LifeInv'
<1>. USE DEF LifeInv
<1>1. /\ pc \in {"idle", "down", "done"}
      /\ grown' = grown \cup {s} /\ ready' = ready \ {s}
      /\ client' = [client EXCEPT ![s] = "none"]
      /\ UNCHANGED <<cfg, tunnel, engine, used, pc, stream, todo, where, sent,
                     dbs, tables, missing, runs>>
  BY DEF Grow, rows
<1>2. TypeOK'
  BY <1>1, ConnectorTypes DEF TypeOK, NoClient
<1>3. TablesOK' /\ OwnTables' /\ Kept
  BY <1>1, TablesFrame
<1>4. RowsOK' /\ KeysKept'
  BY <1>1, <1>3, RowsFrame
<1>5. SetupOK'
  <2>1. /\ \A t, p : Found(t, p)' <=> Found(t, p)
        /\ \A t \in ready' : Properties(t)' = Properties(t)
    BY <1>1, SameSettings DEF Found, Properties
  <2>. QED
    BY <1>1, <2>1 DEF SetupOK
<1>6. SetupSuffices'
  BY <1>1 DEF SetupSuffices
<1>. QED
  BY <1>1, <1>2, <1>3, <1>4, <1>5, <1>6

\* The rows that are lost with the process are sent again.
LEMMA RestartLife ==
  ASSUME LifeInv, IInv', Restart
  PROVE  LifeInv'
<1>. USE DEF LifeInv
<1>1. /\ runs < MaxRuns /\ runs' = runs + 1
      /\ engine' = "none" /\ used' = {} /\ pc' = "idle"
      /\ todo' = {} /\ ready' = {} /\ missing' = {}
      /\ where' = [r \in Rows |->
           IF where[r] \in {"buffered", "draining"} THEN "unsent"
                                                   ELSE where[r]]
      /\ sent' = [r \in Rows |->
           IF where[r] \in {"buffered", "draining"} THEN Absent ELSE sent[r]]
      /\ UNCHANGED <<cfg, stream, grown, dbs, tables>>
  BY DEF Restart, Disconnected, Move
<1>2. TypeOK'
  <2>1. sent' \in [Rows -> Values \cup {Absent}]
    BY <1>1 DEF TypeOK
  <2>2. runs' \in 1 .. MaxRuns
    BY <1>1, ScenariosAssumption DEF TypeOK
  <2>. QED
    BY <1>1, <2>1, <2>2, ConnectorTypes DEF TypeOK
<1>3. TablesOK' /\ OwnTables' /\ Kept
  BY <1>1, TablesFrame
<1>4. RowsOK'
  <2>. SUFFICES ASSUME NEW r \in Rows
                PROVE
     /\ sent'[r] # Absent =>
           /\ sent'[r] \in Values /\ StreamOf[r] \in grown
           /\ Value(r)' # Rejected
     /\ where'[r] \notin {"buffered", "draining"}
     /\ where'[r] \in {"stored", "merged"} =>
           /\ full_table_name(StreamOf[r])' \in DOMAIN tables'
           /\ sent'[r] # Absent => Found(StreamOf[r], "c")'
    BY <1>1 DEF RowsOK
  <2>1. sent'[r] \in {sent[r], Absent}
    BY <1>1
  <2>2. sent'[r] # Absent => Value(r)' = Value(r)
    BY <1>1, <2>1, SameValues
  <2>3. where'[r] \in {"stored", "merged"} =>
          where[r] = where'[r] /\ sent'[r] = sent[r]
    BY <1>1
  <2>4. Found(StreamOf[r], "c") => Found(StreamOf[r], "c")'
    BY <1>1, <1>3, FoundAgain
  <2>. QED
    BY <1>1, <2>1, <2>2, <2>3, <2>4, SameSettings DEF RowsOK
<1>5. KeysKept'
  BY <1>1, <1>3, KeysFrame
<1>6. SetupOK' /\ SetupSuffices'
  BY <1>1 DEF SetupOK, SetupSuffices
<1>. QED
  BY <1>1, <1>2, <1>3, <1>4, <1>5, <1>6

\* A record is buffered as its stream was prepared.
LEMMA RecordLife ==
  ASSUME LifeInv, IInv', NEW r \in Rows, Record(r)
  PROVE  LifeInv'
<1>. USE DEF LifeInv
<1>1. /\ StreamOf[r] \in ready /\ where[r] = "unsent"
      /\ pc = "idle" /\ pc' \in {"idle", "down"}
      /\ UNCHANGED <<cfg, tunnel, engine, client, used, stream, todo, ready,
                     grown, dbs, tables, missing, runs>>
  BY DEF Record, connector
<1>2. PICK v \in IF StreamOf[r] \in grown THEN cfg.values ELSE {Absent} :
         \/ UNCHANGED <<where, sent>>
         \/ /\ where' = [where EXCEPT ![r] = "buffered"]
            /\ sent' = [sent EXCEPT ![r] = v]
            /\ v = Absent \/ validate_and_parse(v, cfg.prop[StreamOf[r]],
                                               cfg.validate) # Rejected
  BY DEF Record, rows
<1>3. /\ v \in Values \cup {Absent}
      /\ v # Absent => v \in Values /\ StreamOf[r] \in grown
  BY ScenariosAssumption
<1>4. TablesOK' /\ OwnTables' /\ Kept
  BY <1>1, TablesFrame
<1>5. SetupOK'
  BY <1>1, SetupFrame
<1>6. SetupSuffices'
  BY <1>1 DEF SetupSuffices
<1>7. TypeOK'
  <2>1. sent' \in [Rows -> Values \cup {Absent}]
    BY <1>2, <1>3 DEF TypeOK
  <2>. QED
    BY <1>1, <2>1, ConnectorTypes DEF TypeOK
<1>8. CASE UNCHANGED <<where, sent>>
  <2>1. RowsOK' /\ KeysKept'
    BY <1>1, <1>4, <1>8, RowsFrame
  <2>. QED
    BY <1>1, <1>4, <1>5, <1>6, <1>7, <2>1
<1>9. CASE /\ where' = [where EXCEPT ![r] = "buffered"]
           /\ sent' = [sent EXCEPT ![r] = v]
           /\ v = Absent \/ validate_and_parse(v, cfg.prop[StreamOf[r]],
                                              cfg.validate) # Rejected
  <2>1. /\ \A x \in Rows : x # r => where'[x] = where[x] /\ sent'[x] = sent[x]
        /\ where'[r] = "buffered" /\ sent'[r] = v
    BY <1>9 DEF TypeOK
  <2>2. KeysKept'
    BY <1>1, <1>4, <2>1, KeysFrame
  <2>3. RowsOK'
    <3>. SUFFICES ASSUME NEW x \in Rows
                  PROVE
     /\ sent'[x] # Absent =>
           /\ sent'[x] \in Values /\ StreamOf[x] \in grown
           /\ Value(x)' # Rejected
     /\ cfg.table_name # "dotted" /\ where'[x] \in {"buffered", "draining"} =>
           /\ Found(StreamOf[x], "id")'
           /\ sent'[x] # Absent => Found(StreamOf[x], "c")'
     /\ where'[x] \in {"stored", "merged"} =>
           /\ full_table_name(StreamOf[x])' \in DOMAIN tables'
           /\ sent'[x] # Absent => Found(StreamOf[x], "c")'
      BY <1>1 DEF RowsOK
    <3>1. \A s, p : Found(s, p) => Found(s, p)'
      BY <1>1, <1>4, FoundAgain
    <3>2. CASE x = r
      <4>1. v # Absent => Value(r)' # Rejected
        BY <1>1, <1>9, <2>1 DEF Value
      <4>2. cfg.table_name # "dotted" =>
              \A p \in Properties(StreamOf[r]) : Found(StreamOf[r], p)'
        BY <1>1, <3>1 DEF SetupOK
      <4>3. /\ "id" \in Properties(StreamOf[r])
            /\ v # Absent => "c" \in Properties(StreamOf[r])
        BY <1>3 DEF Properties
      <4>. QED
        BY <1>3, <2>1, <3>2, <4>1, <4>2, <4>3
    <3>3. CASE x # r
      <4>1. where'[x] = where[x] /\ sent'[x] = sent[x]
        BY <2>1, <3>3
      <4>2. Value(x)' = Value(x)
        BY <1>1, <4>1, SameValues
      <4>. QED
        BY <1>1, <3>1, <4>1, <4>2, SameSettings DEF RowsOK
    <3>. QED
      BY <3>2, <3>3
  <2>. QED
    BY <1>1, <1>4, <1>5, <1>6, <1>7, <2>2, <2>3
<1>. QED
  BY <1>2, <1>8, <1>9

\* The rows of a drain are the ones that were buffered.
LEMMA DrainLife ==
  ASSUME LifeInv, IInv', Drain
  PROVE  LifeInv'
<1>. USE DEF LifeInv
<1>1. /\ pc' = "draining"
      /\ where' = [r \in Rows |->
                     IF where[r] = "buffered" THEN "draining" ELSE where[r]]
      /\ UNCHANGED <<cfg, tunnel, engine, client, used, stream, todo, ready,
                     grown, sent, dbs, tables, missing, runs>>
  BY DEF Drain, Move, connector
<1>2. TypeOK'
  BY <1>1, ConnectorTypes DEF TypeOK
<1>3. TablesOK' /\ OwnTables' /\ Kept
  BY <1>1, TablesFrame
<1>4. SetupOK'
  BY <1>1, SetupFrame
<1>5. SetupSuffices'
  BY <1>1 DEF SetupSuffices
<1>6. KeysKept'
  BY <1>1, <1>3, KeysFrame
<1>7. RowsOK'
  <2>1. \A r \in Rows :
           \/ where'[r] = where[r]
           \/ where[r] = "buffered" /\ where'[r] = "draining"
    BY <1>1
  <2>2. \A r \in Rows : Value(r)' = Value(r)
    BY <1>1, SameValues
  <2>3. /\ \A s, p : Found(s, p)' <=> Found(s, p)
        /\ \A s : full_table_name(s)' = full_table_name(s)
    BY <1>1, SameSettings DEF Found
  <2>. QED
    BY <1>1, <2>1, <2>2, <2>3 DEF RowsOK
<1>. QED
  BY <1>1, <1>2, <1>3, <1>4, <1>5, <1>6, <1>7

\* An insert finds its table and its columns.
LEMMA InsertLife ==
  ASSUME LifeInv, IInv, IInv', NEW s \in Streams, Insert(s)
  PROVE  LifeInv'
<1>. USE DEF LifeInv
<1>. DEFINE batch == {r \in Rows : StreamOf[r] = s /\ where[r] = "draining"}
            name  == full_table_name(s)
<1>1. /\ pc = "draining" /\ batch # {}
      /\ pc' \in {"down", "draining", "idle"}
      /\ UNCHANGED <<cfg, engine, client, stream, todo, ready, grown, sent, dbs,
                     tables, runs>>
      /\ \/ /\ name \notin DOMAIN tables
            /\ missing' = missing \cup {"table"} /\ UNCHANGED where
         \/ /\ ~(Properties(s) \subseteq DOMAIN tables[name].columns)
            /\ \E r \in batch : sent[r] # Absent
            /\ missing' = missing \cup {"column"} /\ UNCHANGED where
         \/ /\ name \in DOMAIN tables
            /\ \/ Properties(s) \subseteq DOMAIN tables[name].columns
               \/ \A r \in batch : sent[r] = Absent
            /\ where' = [r \in Rows |->
                           IF r \in batch THEN "stored" ELSE where[r]]
            /\ UNCHANGED missing
  BY DEF Insert, Missing, Move
<1>2. PICK address \in {client[s], engine} :
         used' = used \cup {address} /\ address # "none"
  BY <1>1 DEF Insert, InsertAddresses, Connect, IInv, EngineFirst
<1>3. TypeOK'
  BY <1>1, <1>2, ConnectorTypes DEF TypeOK
<1>4. TablesOK' /\ OwnTables' /\ Kept
  BY <1>1, TablesFrame
<1>5. SetupOK'
  BY <1>1, SetupFrame
<1>6. ASSUME cfg.table_name # "dotted" PROVE UNCHANGED missing
  <2>1. PICK r \in Rows : StreamOf[r] = s /\ where[r] = "draining"
    BY <1>1
  <2>2. Found(s, "id")
    BY <1>6, <2>1 DEF RowsOK
  <2>3. (\E x \in batch : sent[x] # Absent) => Found(s, "c")
    BY <1>6 DEF RowsOK
  <2>. QED
    BY <1>1, <2>2, <2>3 DEF Found, Properties
<1>7. SetupSuffices'
  BY <1>1, <1>6 DEF SetupSuffices
<1>8. /\ \A t, p : Found(t, p)' <=> Found(t, p)
      /\ \A t : full_table_name(t)' = full_table_name(t)
  BY <1>1, SameSettings DEF Found
<1>9. CASE UNCHANGED where
  <2>1. RowsOK' /\ KeysKept'
    BY <1>1, <1>4, <1>9, RowsFrame
  <2>. QED
    BY <1>1, <1>3, <1>4, <1>5, <1>7, <2>1
<1>10. CASE /\ name \in DOMAIN tables
            /\ \/ Properties(s) \subseteq DOMAIN tables[name].columns
               \/ \A r \in batch : sent[r] = Absent
            /\ where' = [r \in Rows |->
                           IF r \in batch THEN "stored" ELSE where[r]]
  <2>1. KeysKept'
    BY <1>1, <1>4, <1>10, KeysFrame
  <2>2. RowsOK'
    <3>1. \A r \in Rows : Value(r)' = Value(r)
      BY <1>1, SameValues
    <3>2. ASSUME NEW r \in batch
          PROVE  /\ full_table_name(StreamOf[r]) \in DOMAIN tables
                 /\ sent[r] # Absent => Found(StreamOf[r], "c")
      BY <1>10 DEF RowsOK, Found, Properties
    <3>3. \A r \in Rows : IF r \in batch THEN where'[r] = "stored"
                                         ELSE where'[r] = where[r]
      BY <1>10
    <3>. HIDE DEF batch
    <3>. QED
      BY <1>1, <1>8, <3>1, <3>2, <3>3 DEF RowsOK
  <2>. QED
    BY <1>1, <1>3, <1>4, <1>5, <1>7, <2>1, <2>2
<1>. QED
  BY <1>1, <1>9, <1>10

\* A merge collapses one row into another with the same key.
LEMMA MergeLife ==
  ASSUME LifeInv, IInv', NEW r \in Rows, NEW q \in Rows, Merge(r, q)
  PROVE  LifeInv'
<1>. USE DEF LifeInv
<1>. DEFINE name == full_table_name(StreamOf[r])
<1>1. /\ r # q /\ where[r] = "stored" /\ where[q] = "stored"
      /\ full_table_name(StreamOf[q]) = name
      /\ tables[name].made.engine \in Collapsing
      /\ \A p \in tables[name].made.order_by : Cell(r, p) = Cell(q, p)
      /\ where' = [where EXCEPT ![r] = "merged"]
      /\ UNCHANGED <<cfg, tunnel, engine, client, used, pc, stream, todo, ready,
                     grown, sent, dbs, tables, missing, runs>>
  BY DEF Merge, connector, setup
<1>2. TypeOK'
  BY <1>1, ConnectorTypes DEF TypeOK
<1>3. TablesOK' /\ OwnTables' /\ Kept
  BY <1>1, TablesFrame
<1>4. SetupOK'
  BY <1>1, SetupFrame
<1>5. SetupSuffices'
  BY <1>1 DEF SetupSuffices
<1>6. /\ \A x \in Rows : where'[x] = IF x = r THEN "merged" ELSE where[x]
      /\ where'[q] = "stored"
  BY <1>1 DEF TypeOK
<1>7. /\ \A s, p : Found(s, p)' <=> Found(s, p)
      /\ \A s : full_table_name(s)' = full_table_name(s)
      /\ \A s : KeysOf(s)' = KeysOf(s)
      /\ \A x : Value(x)' = Value(x) /\ \A p : Cell(x, p)' = Cell(x, p)
      /\ \A s : Shared(s)' <=> Shared(s)
  BY <1>1, SameSettings, SameValues DEF Found, Shared
<1>8. RowsOK'
  BY <1>1, <1>6, <1>7 DEF RowsOK
<1>9. ASSUME ~Shared(StreamOf[r])
      PROVE  /\ StreamOf[r] \in Keyed /\ StreamOf[q] = StreamOf[r]
             /\ \A p \in KeysOf(StreamOf[r]) : Cell(q, p) = Cell(r, p)
  <2>1. name \in DOMAIN tables
    BY <1>1 DEF RowsOK
  <2>2. /\ tables[name].made.primary_key # {}
        /\ tables[name].made.primary_key \subseteq tables[name].made.order_by
    BY <1>1, <2>1 DEF TablesOK
  <2>3. cfg.table_name = "unset"
    BY <1>9, <2>2 DEF Shared
  <2>4. StreamOf[q] = StreamOf[r]
    BY <1>1, <2>3, OwnNames
  <2>5. tables[name].made.primary_key = KeysOf(StreamOf[r])
    BY <2>1, <2>3, StreamsAssumption DEF OwnTables
  <2>6. StreamOf[r] \in Keyed
    BY <2>2, <2>5 DEF KeysOf
  <2>. QED
    BY <1>1, <2>2, <2>4, <2>5, <2>6
<1>10. KeysKept'
  <2>. SUFFICES ASSUME NEW x \in Rows, where'[x] = "merged",
                       ~Shared(StreamOf[x])
                PROVE
        /\ StreamOf[x] \in Keyed
        /\ \E y \in Rows :
              /\ where'[y] = "stored" /\ StreamOf[y] = StreamOf[x]
              /\ \A p \in KeysOf(StreamOf[x]) : Cell(y, p) = Cell(x, p)
    BY <1>7 DEF KeysKept
  <2>1. CASE x = r
    BY <1>6, <1>9, <2>1
  <2>2. CASE x # r
    <3>1. where[x] = "merged"
      BY <1>6, <2>2
    <3>2. /\ StreamOf[x] \in Keyed
          /\ \E y \in Rows :
                /\ where[y] = "stored" /\ StreamOf[y] = StreamOf[x]
                /\ \A p \in KeysOf(StreamOf[x]) : Cell(y, p) = Cell(x, p)
      BY <3>1 DEF KeysKept
    <3>3. PICK y \in Rows :
             /\ where[y] = "stored" /\ StreamOf[y] = StreamOf[x]
             /\ \A p \in KeysOf(StreamOf[x]) : Cell(y, p) = Cell(x, p)
      BY <3>2
    <3>4. CASE y = r
      <4>1. \A p \in KeysOf(StreamOf[x]) : Cell(q, p) = Cell(x, p)
        BY <1>9, <3>3, <3>4
      <4>2. StreamOf[q] = StreamOf[x]
        BY <1>9, <3>3, <3>4
      <4>. QED
        BY <1>6, <3>2, <4>1, <4>2
    <3>5. CASE y # r
      BY <1>6, <3>2, <3>3, <3>5
    <3>. QED
      BY <3>4, <3>5
  <2>. QED
    BY <2>1, <2>2
<1>. QED
  BY <1>1, <1>2, <1>3, <1>4, <1>5, <1>8, <1>10

\* Every step keeps the invariant.
LEMMA NextLife == LifeInv /\ IInv /\ IInv' /\ [Next]_vars => LifeInv'
<1>. SUFFICES ASSUME LifeInv, IInv, IInv', [Next]_vars PROVE LifeInv'
  OBVIOUS
<1>1. ASSUME \/ \E t \in Threads : ConnectTunnel(t)
             \/ \E s \in Streams : ClientConnects(s)
             \/ Signal \/ clean_up \/ Crash
      PROVE  LifeInv'
  BY <1>1, QuietSteps, QuietLife
<1>2. CASE Prepare
  BY <1>2, BootstrapLife, CreateLife, ColumnLife DEF Prepare
<1>3. CASE Load
  BY <1>3, <1>1, RecordLife, DrainLife, InsertLife DEF Load
<1>4. CASE \E r, q \in Rows : Merge(r, q)
  BY <1>4, MergeLife
<1>5. CASE \E s \in Streams : Grow(s)
  BY <1>5, GrowLife
<1>6. CASE Restart
  BY <1>6, RestartLife
<1>7. CASE UNCHANGED vars
  <2>1. Quiet
    BY <1>7 DEF vars, connector, setup, rows, Quiet, LifeInv, TypeOK
  <2>. QED
    BY <2>1, QuietLife
<1>. QED
  BY <1>1, <1>2, <1>3, <1>4, <1>5, <1>6, <1>7 DEF Next

\* The invariant holds of every behaviour.
THEOREM LifeInvariance == Spec => []LifeInv
  BY InitLife, NextLife, Invariance, PTL DEF Spec

-----------------------------------------------------------------------------
(* The theorems.                                                           *)

\* Every variable keeps its type, and a process that has ended in order keeps
\* no client and no tunnel.
THEOREM TypeCorrect == Spec => []TypeOK
<1>1. LifeInv => TypeOK
  BY DEF LifeInv
<1>. QED
  BY <1>1, LifeInvariance, PTL

\* Wherever set-up was interrupted, statements and inserts find what they name.
THEOREM NothingIsMissing == Spec => []SetupSuffices
<1>1. LifeInv => SetupSuffices
  BY DEF LifeInv
<1>. QED
  BY <1>1, LifeInvariance, PTL

\* Merges collapse only rows of one stream with the same key.
THEOREM MergesKeepKeys == Spec => []KeysKept
<1>1. LifeInv => KeysKept
  BY DEF LifeInv
<1>. QED
  BY <1>1, LifeInvariance, PTL

\* What validation lets through, the column holds as it is.
THEOREM ColumnsFit == Spec => []FitsColumn
<1>1. LifeInv => FitsColumn
  <2>. SUFFICES ASSUME LifeInv, NEW r \in Rows, where[r] = "stored",
                       sent[r] # Absent, cfg.validate,
                       cfg.table_name = "unset",
                       ~Mixed(cfg.prop[StreamOf[r]])
                PROVE
         LET s == StreamOf[r] IN
         \/ Holds(tables[full_table_name(s)].columns["c"], Value(r))
         \/ /\ Value(r) = Plain("null")
            /\ \/ "c" \in KeysOf(s)
               \/ cfg.prop[s].null = "anyOf"
               \/ cfg.prop[s].format = "time"
    BY DEF FitsColumn
  <2>. DEFINE s == StreamOf[r]
  <2>1. s \in Streams /\ sent[r] \in Values /\ Found(s, "c")
    BY StreamsAssumption DEF LifeInv, RowsOK
  <2>2. PICK key \in BOOLEAN :
           /\ tables[full_table_name(s)].columns["c"] = SqlType(s, "c", key)
           /\ key => "c" \in KeysOf(s)
    BY <2>1 DEF LifeInv, OwnTables, Found
  <2>3. cfg.prop[s] \in PropertySchemas /\ cfg.enable_json \in BOOLEAN
    BY <2>1, ScenariosAssumption DEF LifeInv
  <2>4. Value(r) = validate_and_parse(sent[r], cfg.prop[s], TRUE)
    BY DEF Value
  <2>5. Value(r) # Rejected
    BY DEF LifeInv, RowsOK
  <2>6. SqlType(s, "c", key) = to_sql_type(cfg.prop[s], key, cfg.enable_json)
    BY DEF SqlType
  <2>7. \/ Holds(SqlType(s, "c", key), Value(r))
        \/ /\ Value(r) = Plain("null")
           /\ key \/ cfg.prop[s].null = "anyOf" \/ cfg.prop[s].format = "time"
    BY <2>1, <2>3, <2>4, <2>5, <2>6, AcceptedFits
  <2>. QED
    BY <2>2, <2>7
<1>. QED
  BY <1>1, LifeInvariance, PTL

\* Repair leaves a valid value valid, and as it is but for a number of a
\* property that allows strings too; and makes valid what that property does not
\* allow.
THEOREM RepairsKeepAllowed == Spec => []RepairKeepsAllowed
<1>1. LifeInv => RepairKeepsAllowed
  <2>. SUFFICES ASSUME LifeInv, NEW r \in Rows, sent[r] # Absent
                PROVE
         LET schema   == cfg.prop[StreamOf[r]]
             repaired == Repair(sent[r], schema)
         IN  /\ Valid(sent[r], schema) =>
                   /\ Valid(repaired, schema)
                   /\ repaired # sent[r] =>
                         /\ sent[r].kind \in Numbers
                         /\ {"string"} # schema.types
             /\ (/\ "string" \in schema.types /\ schema.null # "anyOf"
                 /\ sent[r].kind \notin {"object", "array"} \cap schema.types)
                => Valid(repaired, schema)
    BY DEF RepairKeepsAllowed
  <2>1. sent[r] \in Values /\ cfg.prop[StreamOf[r]] \in PropertySchemas
    BY StreamsAssumption, ScenariosAssumption DEF LifeInv, RowsOK
  <2>. QED
    BY <2>1, RepairKeepsValid, RepairMakesStrings
<1>. QED
  BY <1>1, LifeInvariance, PTL
=============================================================================
