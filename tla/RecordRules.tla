----------------------------- MODULE RecordRules -----------------------------
(***************************************************************************)
(* What happens to a value on its way from a RECORD message to a column:   *)
(* pre_validate_for_string_type, the JSON Schema validator and             *)
(* _parse_timestamps_in_record (target_clickhouse/sinks.py), and the type  *)
(* of the column, to_sql_type (target_clickhouse/connectors.py).           *)
(*                                                                         *)
(* A value is one of a few that the rules tell apart.  A string is "text"  *)
(* (which parses in the format of its property, if it has one), "timed" (a *)
(* date followed by T and a time), or "junk" (which does not parse); str() *)
(* makes "junk" of a "number", "text" of a "stamp", whose digits are a     *)
(* date, and the string "None" of null.  An object has one property and an *)
(* array one item, which is an object too, or a bare value.                *)
(*                                                                         *)
(* A property says that it allows null in the list of its types            *)
(* ("listed"), in an anyOf, or not at all.  It may have several other      *)
(* types; the column is then made for one of them, or for a string, as the *)
(* Singer SDK chooses (external).  Properties without a type are left out, *)
(* and so are keys outside the schema, which are not touched, and formats  *)
(* of properties that are not strings alone.                               *)
(***************************************************************************)

Strings == {"text", "timed", "junk", "None"}
Numbers == {"number", "stamp"}
Scalars == {"null", "text", "timed", "junk", "number", "stamp"}

Plain(k) == [kind |-> k, of |-> "none"]

Values == {Plain(k) : k \in Scalars}
          \cup [kind : {"object", "array"}, of : Scalars]
          \cup {[kind |-> "array", of |-> "bare"]}

\* of: the type of the property of an object, or of the object in an array;
\* column: the type that the column is made for.
PropertySchemas ==
  {s \in [types : SUBSET {"string", "integer", "number", "object", "array"},
          column : {"string", "integer", "number", "object", "array"},
          null : {"no", "listed", "anyOf"},
          of : {"none", "string", "string or null", "integer"},
          format : {"none", "date", "date-time", "time"}] :
     /\ s.types # {} /\ s.column \in s.types \cup {"string"}
     /\ \A t \in s.types : s.types = {t} => s.column = t
     /\ s.format # "none" => s.types = {"string"}
     /\ s.of # "none" => s.types \cap {"object", "array"} # {}}

-----------------------------------------------------------------------------
(* pre_validate_for_string_type.                                           *)

\* str() and json.dumps().
AsString(k) == CASE k = "null"               -> "None"
                 [] k = "stamp"              -> "text"
                 [] k \in Strings            -> k
                 [] OTHER                    -> "junk"

\* A value inside an object, by the type of its property.
RepairInside(k, type) ==
  CASE type = "string"                         -> AsString(k)
    [] type = "string or null" /\ k # "null"   -> AsString(k)
    [] OTHER                                   -> k

\* What the types of a property make of a value.  A string is made of what is
\* not one, also of a number that another of the types allows.
RepairAs(v, schema) ==
  CASE v.kind \in {"object", "array"} \cap schema.types
         -> IF v.of = "bare" THEN v
            ELSE [v EXCEPT !.of = RepairInside(v.of, schema.of)]
    [] v.kind \notin {"object", "array"} \cap schema.types
       /\ "string" \in schema.types
         -> Plain(AsString(v.kind))
    [] OTHER -> v

Repair_Defect(v, schema) ==
  IF schema.null = "anyOf" THEN v ELSE RepairAs(v, schema)

\* A null that is listed is kept.  Under an anyOf a property has no type of its
\* own.
Repair(v, schema) ==
  IF schema.null = "anyOf" \/ (schema.null = "listed" /\ v.kind = "null")
  THEN v ELSE RepairAs(v, schema)

-----------------------------------------------------------------------------
(* The validator, which does not look at formats.                          *)

ValidInside(k, type) ==
  CASE type = "string"         -> k \in Strings
    [] type = "string or null" -> k \in Strings \cup {"null"}
    [] type = "integer"        -> k \in Numbers
    [] OTHER                   -> TRUE

Valid(v, schema) ==
  \/ v.kind = "null" /\ schema.null # "no"
  \/ v.kind \in Strings /\ "string" \in schema.types
  \/ v.kind \in Numbers /\ schema.types \cap {"integer", "number"} # {}
  \/ /\ v.kind \in {"object", "array"} \cap schema.types
     /\ v.of = "bare" => schema.of = "none"
     /\ ValidInside(v.of, schema.of)

-----------------------------------------------------------------------------
(* _parse_timestamps_in_record and _validate_and_parse.                    *)

Datelike(schema) == schema.format \in {"date", "date-time", "time"}

\* A date is cut off before its T.
Parses(k, format) == k = "text" \/ (k = "timed" /\ format # "time")

Rejected == Plain("rejected")

\* A date that does not parse becomes NULL, and a time is made text again.  A
\* value that is not a string raises another exception than ValueError.
ParseTimestamp(v, schema) ==
  IF ~Datelike(schema) \/ v.kind = "null" THEN v
  ELSE IF v.kind \notin Strings            THEN Rejected
  ELSE IF ~Parses(v.kind, schema.format)   THEN Plain("null")
  ELSE Plain(IF schema.format = "time" THEN "text" ELSE "moment")

\* The validator is None when validate_records is false.
validate_and_parse(v, schema, validate) ==
  LET repaired == Repair(v, schema)
  IN  IF validate /\ ~Valid(repaired, schema) THEN Rejected
      ELSE ParseTimestamp(repaired, schema)

-----------------------------------------------------------------------------
(* to_sql_type.                                                            *)

jsonschema_to_sql(schema, enable_json) ==
  CASE schema.column = "integer"               -> "Int64"
    [] schema.column = "number"                -> "FLOAT"
    [] schema.format = "date"                  -> "Date32"
    [] schema.format = "date-time"             -> "DateTime"
    [] schema.column = "object" /\ enable_json -> "JSON"
    [] OTHER                                   -> "String"

to_sql_type_Defect(schema, is_primary_key, enable_json) ==
  [base |-> jsonschema_to_sql(schema, enable_json),
   nullable |-> ~is_primary_key /\ schema.null = "listed"]

\* Dates are Nullable, and whatever lists null among its types; never a key.
to_sql_type(schema, is_primary_key, enable_json) ==
  LET base == jsonschema_to_sql(schema, enable_json)
  IN  [base |-> base,
       nullable |-> /\ ~is_primary_key
                    /\ \/ base \in {"Date32", "DateTime"}
                       \/ schema.null = "listed"]

\* Whether a value is of the kind that a column takes.  Its range is not looked
\* at: every number is taken to fit an Int64, and every moment a Date32 or a
\* DateTime.  Objects and arrays are JSON text by the time they are inserted.
Holds(column, v) ==
  IF v.kind = "null" THEN column.nullable
  ELSE CASE column.base \in {"Int64", "FLOAT"}     -> v.kind \in Numbers
         [] column.base \in {"Date32", "DateTime"} -> v.kind = "moment"
         [] column.base = "JSON"                   -> v.kind = "object"
         [] OTHER -> v.kind \in Strings \cup {"object", "array"}
=============================================================================
