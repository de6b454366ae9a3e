----------------------------- MODULE TableSetup -----------------------------
(***************************************************************************)
(* The life of the tables: a SCHEMA message has its database, its table    *)
(* and its columns prepared, records are validated and inserted, and       *)
(* ClickHouse merges what is stored.  Composes the connector (module       *)
(* Connector), the engines (TableEngines) and the treatment of values      *)
(* (RecordRules); the inserts are those of module BulkLoad.                *)
(*                                                                         *)
(* The main thread prepares one stream at a time (SQLSink.setup of the     *)
(* Singer SDK, external).  Each statement is a step.  The process may be   *)
(* killed, or a statement fail and end it, between any two of them; the    *)
(* databases and tables outlive it, and the pipeline is run again.         *)
(*                                                                         *)
(* A stream has the properties "id" and, sooner or later, "c".  Of a table *)
(* created here, an ON CLUSTER clause and the SQL text are left out.       *)
(***************************************************************************)
EXTENDS Connector, TableEngines, RecordRules

CONSTANTS Rows, StreamOf, IdOf,   \* the rows, and the id of each
          Keyed,                  \* the streams that have key properties
          SchemaOf,               \* the schema a stream names, or ""
          Scenarios,              \* the settings and inputs considered
          MaxRuns                 \* bounds the runs of the pipeline

ASSUME StreamsAssumption ==
  /\ StreamOf \in [Rows -> Streams] /\ Keyed \subseteq Streams
  /\ DOMAIN SchemaOf = Streams

ASSUME ScenariosAssumption ==
  /\ MaxRuns \in Nat \ {0}
  /\ \A s \in Scenarios :
        /\ s.url \in BOOLEAN /\ s.table_name \in {"unset", "plain", "dotted"}
        /\ s.engine \in SupportedEngines
        /\ s.validate \in BOOLEAN /\ s.enable_json \in BOOLEAN
        /\ s.prop \in [Streams -> PropertySchemas] /\ s.values \subseteq Values
        /\ s.grown \subseteq Streams /\ s.rows \subseteq Rows

VARIABLES
  pc,       \* the main thread
  stream,   \* the stream it prepares
  todo,     \* the properties whose columns it has yet to look at
  ready,    \* the streams that are prepared
  grown,    \* the streams whose schema has "c" by now
  where,    \* each row: "unsent", "buffered", "draining", "stored", "merged"
  sent,     \* the value of "c" it was sent with
  dbs,      \* the databases of the server
  tables,   \* its tables, by their names
  missing,  \* observed: what statements of this process did not find
  runs      \* the runs so far

setup == <<pc, stream, todo, ready>>
rows  == <<where, sent>>

vars == <<cfg, connector, setup, grown, rows, dbs, tables, missing, runs>>

Absent == Plain("absent")

-----------------------------------------------------------------------------
(* Names, schemas and values.                                              *)

EngineDatabase == IF cfg.url THEN cfg.urldb ELSE cfg.database

\* What statements and inserts call the table of a stream.
full_table_name(s) ==
  CASE cfg.table_name = "plain"  -> <<EngineDatabase, "t">>
    [] cfg.table_name = "dotted" -> <<"sales", "t">>
    [] OTHER -> <<IF SchemaOf[s] = "" THEN EngineDatabase ELSE SchemaOf[s], s>>

\* What create_empty_table calls it: a table_name with a dot is the name of the
\* table as a whole, in the database it begins with.
created_name(s) ==
  IF cfg.table_name = "dotted" THEN <<"sales", "sales.t">>
                               ELSE full_table_name(s)

Properties(s) == IF s \in grown THEN {"id", "c"} ELSE {"id"}

KeysOf(s) ==
  IF s \notin Keyed THEN {} ELSE IF cfg.key_c THEN {"id", "c"} ELSE {"id"}

IdSchema == [types |-> {"integer"}, column |-> "integer", null |-> "no",
             of |-> "none", format |-> "none"]

SqlType(s, p, is_primary_key) ==
  to_sql_type(IF p = "c" THEN cfg.prop[s] ELSE IdSchema, is_primary_key,
              cfg.enable_json)

\* The value of "c" that a row is inserted with.
Value(r) ==
  IF sent[r] = Absent THEN Absent
  ELSE validate_and_parse(sent[r], cfg.prop[StreamOf[r]], cfg.validate)

-----------------------------------------------------------------------------

Init ==
  /\ cfg \in Scenarios
  /\ tunnel = "none" /\ starting = {} /\ starts = 0
  /\ engine = "none" /\ client = NoClient /\ used = {}
  /\ pc = "idle" /\ stream \in Streams /\ todo = {} /\ ready = {}
  /\ grown = cfg.grown
  /\ where = [r \in Rows |-> "unsent"] /\ sent = [r \in Rows |-> Absent]
  /\ dbs = {"default"} /\ tables = <<>>
  /\ missing = {} /\ runs = 1

\* A statement names what does not exist: its exception ends the process.
Missing(what) == pc' = "down" /\ missing' = missing \cup {what}

\* _tunneled_host_port of a thread that needs an address finds no tunnel.
Asks(t) ==
  IF t = Main
  THEN /\ ~cfg.url
       /\ \/ pc = "schema" /\ SchemaOf[stream] # "default"
          \/ pc = "table" /\ engine = "none"
  ELSE pc = "draining" /\ UseClickhouseConnect /\ client[t] = "none"
       /\ \E r \in Rows : StreamOf[r] = t /\ where[r] = "draining"

ConnectTunnel(t) ==
  /\ pc # "down"
  /\ \/ Asks(t) /\ FindNoTunnel(t)
     \/ StartTunnel(t)
  /\ UNCHANGED <<cfg, setup, grown, rows, dbs, tables, missing, runs>>

-----------------------------------------------------------------------------
(* Databases.                                                              *)

\* The database "default" needs no statement, and no connection.  For any other
\* one it is sent to "default", unless a sqlalchemy_url says where to connect.
ensure_database_exists(d, next) ==
  IF d = "default"
  THEN next /\ UNCHANGED <<used, dbs, missing>>
  ELSE /\ UrlReady(Main) /\ Connect(Url)
       /\ IF cfg.url /\ cfg.urldb \notin dbs
          THEN Missing("database") /\ UNCHANGED <<engine, dbs>>
          ELSE next /\ dbs' = dbs \cup {d} /\ UNCHANGED missing

\* A SCHEMA message: a new stream, or one whose schema has changed.
Schema(s) ==
  /\ pc = "idle" /\ s \notin ready
  /\ stream' = s
  /\ pc' = IF SchemaOf[s] = "" THEN "table" ELSE "schema"
  /\ UNCHANGED <<cfg, connector, todo, ready, grown, rows, dbs, tables,
                 missing, runs>>

prepare_schema_Defect ==
  /\ pc = "schema"
  /\ SchemaOf[stream] # "default" => UrlReady(Main)
  /\ pc' = "table"
  /\ UNCHANGED <<cfg, connector, stream, todo, ready, grown, rows, dbs, tables,
                 missing, runs>>

prepare_schema ==
  /\ pc = "schema"
  /\ ensure_database_exists(SchemaOf[stream],
                            pc' = "table" /\ UNCHANGED engine)
  /\ UNCHANGED <<cfg, tunnel, starting, starts, client, stream, todo, ready,
                 grown, rows, tables, runs>>

\* The engine is created by its first use, and cached.
create_engine ==
  /\ pc = "table" /\ engine = "none" /\ UrlReady(Main)
  /\ ensure_database_exists(cfg.database, engine' = Url /\ UNCHANGED pc)
  /\ UNCHANGED <<cfg, tunnel, starting, starts, client, stream, todo, ready,
                 grown, rows, tables, runs>>

-----------------------------------------------------------------------------
(* Tables and columns.                                                     *)

Columns(s) == [p \in Properties(s) |-> SqlType(s, p, p \in KeysOf(s))]

TableFor(s) ==
  create_engine_wrapper(cfg.engine, KeysOf(s), cfg.order_by, cfg.path,
                        cfg.replica, created_name(s)[2])

Put(name, table) ==
  tables' = [n \in DOMAIN tables \cup {name} |->
               IF n = name THEN table ELSE tables[n]]

\* The engine is right, and its settings complete, or nothing is created.
create_empty_table ==
  /\ pc = "table" /\ engine # "none"
  /\ Connect(engine)
  /\ EngineDatabase \in dbs /\ full_table_name(stream) \notin DOMAIN tables
  /\ LET name == created_name(stream)
         made == TableFor(stream)
     IN  IF made = NoEngine \/ name[1] \notin dbs
         THEN /\ pc' = "down" /\ UNCHANGED <<tables, ready>>
              /\ missing' = missing \cup
                            (IF made = NoEngine THEN {} ELSE {"database"})
         ELSE IF name \in DOMAIN tables
         THEN /\ pc' = "idle" /\ ready' = ready \cup {stream}
              /\ UNCHANGED <<tables, missing>>
         ELSE IF Accepted(made, {tables[n].made : n \in DOMAIN tables})
         THEN /\ pc' = "idle" /\ ready' = ready \cup {stream}
              /\ Put(name, [made |-> made, columns |-> Columns(stream)])
              /\ UNCHANGED missing
         ELSE pc' = "down" /\ UNCHANGED <<tables, ready, missing>>
  /\ UNCHANGED <<cfg, tunnel, starting, starts, engine, client, stream, todo,
                 grown, rows, dbs, runs>>

\* table_exists, when it does; and when the engine's own database does not.
FindTable ==
  /\ pc = "table" /\ engine # "none"
  /\ Connect(engine)
  /\ IF EngineDatabase \notin dbs
     THEN Missing("database") /\ UNCHANGED todo
     ELSE /\ full_table_name(stream) \in DOMAIN tables
          /\ pc' = "columns" /\ todo' = Properties(stream)
          /\ UNCHANGED missing
  /\ UNCHANGED <<cfg, tunnel, starting, starts, engine, client, stream, ready,
                 grown, rows, dbs, tables, runs>>

SetColumn(p, type) ==
  LET name == full_table_name(stream)
      old  == tables[name].columns
  IN  tables' = [tables EXCEPT ![name].columns =
                   [q \in DOMAIN old \cup {p} |->
                      IF q = p THEN type ELSE old[q]]]

\* The column is added; or the SDK merges its type with the property's, and it
\* is altered, or kept, also when the types cannot be merged.  ClickHouse lets
\* no column of the sorting key be altered.  No column is taken for a key.
prepare_column(p) ==
  /\ pc = "columns" /\ p \in todo
  /\ Connect(engine)
  /\ LET table == tables[full_table_name(stream)]
         type  == SqlType(stream, p, FALSE)
     IN  \/ p \in DOMAIN table.columns /\ UNCHANGED tables
         \/ p \notin DOMAIN table.columns /\ SetColumn(p, type)
         \/ /\ p \in DOMAIN table.columns \ table.made.order_by
            /\ type # table.columns[p] /\ SetColumn(p, type)
  /\ todo' = todo \ {p}
  /\ IF todo' = {} THEN pc' = "idle" /\ ready' = ready \cup {stream}
                   ELSE UNCHANGED <<pc, ready>>
  /\ UNCHANGED <<cfg, tunnel, starting, starts, engine, client, stream, grown,
                 rows, dbs, missing, runs>>

-----------------------------------------------------------------------------
(* Records.                                                                *)

\* Values are validated as they are read: a rejected one ends the process.
Record(r) ==
  /\ pc = "idle" /\ StreamOf[r] \in ready
  /\ r \in cfg.rows /\ where[r] = "unsent"
  /\ \E v \in IF StreamOf[r] \in grown THEN cfg.values ELSE {Absent} :
        IF /\ v # Absent
           /\ validate_and_parse(v, cfg.prop[StreamOf[r]], cfg.validate)
                = Rejected
        THEN pc' = "down" /\ UNCHANGED rows
        ELSE /\ where' = [where EXCEPT ![r] = "buffered"]
             /\ sent' = [sent EXCEPT ![r] = v]
             /\ UNCHANGED pc
  /\ UNCHANGED <<cfg, connector, stream, todo, ready, grown, dbs, tables,
                 missing, runs>>

Move(S, to) == where' = [r \in Rows |-> IF r \in S THEN to ELSE where[r]]

Drain ==
  /\ pc = "idle"
  /\ LET buffered == {r \in Rows : where[r] = "buffered"} IN
     buffered # {} /\ Move(buffered, "draining")
  /\ pc' = "draining"
  /\ UNCHANGED <<cfg, connector, stream, todo, ready, grown, sent, dbs, tables,
                 missing, runs>>

ClientConnects(s) ==
  /\ Asks(s) /\ BuildClient(s)
  /\ UNCHANGED <<cfg, setup, grown, rows, dbs, tables, missing, runs>>

\* The thread of a stream inserts its rows, naming the columns of its schema.
\* The main thread goes on when the last one has.
Insert(s) ==
  LET batch == {r \in Rows : StreamOf[r] = s /\ where[r] = "draining"}
      name  == full_table_name(s)
  IN
  /\ pc = "draining" /\ batch # {} /\ s \notin starting
  /\ \E address \in InsertAddresses(s) : Connect(address)
  /\ IF name \notin DOMAIN tables
     THEN Missing("table") /\ UNCHANGED where
     ELSE IF ~(Properties(s) \subseteq DOMAIN tables[name].columns)
                /\ \E r \in batch : sent[r] # Absent
     THEN Missing("column") /\ UNCHANGED where
     ELSE /\ Move(batch, "stored")
          /\ pc' = IF \E r \in Rows : where'[r] = "draining"
                   THEN "draining" ELSE "idle"
          /\ UNCHANGED missing
  /\ UNCHANGED <<cfg, tunnel, starting, starts, engine, client, stream, todo,
                 ready, grown, sent, dbs, tables, runs>>

\* What a row has in a column.
Cell(r, p) == IF p = "id" THEN IdOf[r] ELSE IF p = "c" THEN Value(r) ELSE r

\* ClickHouse merges two rows that agree on the sorting key.
Merge(r, q) ==
  /\ r # q /\ where[r] = "stored" /\ where[q] = "stored"
  /\ full_table_name(StreamOf[r]) = full_table_name(StreamOf[q])
  /\ LET made == tables[full_table_name(StreamOf[r])].made
     IN  /\ made.engine \in Collapsing
         /\ \A p \in made.order_by : Cell(r, p) = Cell(q, p)
  /\ where' = [where EXCEPT ![r] = "merged"]
  /\ UNCHANGED <<cfg, connector, setup, grown, sent, dbs, tables, missing,
                 runs>>

-----------------------------------------------------------------------------
(* The tap and the process.                                                *)

\* The schema of a stream gets another property: its sink is replaced.
Grow(s) ==
  /\ pc \in {"idle", "down", "done"} /\ s \notin grown
  /\ grown' = grown \cup {s} /\ ready' = ready \ {s}
  /\ client' = [client EXCEPT ![s] = "none"]
  /\ UNCHANGED <<cfg, tunnel, starting, starts, engine, used, pc, stream, todo,
                 rows, dbs, tables, missing, runs>>

\* SIGTERM or SIGINT: the handler stops the tunnel, and the process goes on.
Signal ==
  /\ pc \notin {"down", "done"} /\ tunnel = "up"
  /\ stop_ssh_tunnel
  /\ UNCHANGED <<cfg, starting, starts, engine, client, used, setup, grown,
                 rows, dbs, tables, missing, runs>>

clean_up_Defect ==
  /\ pc = "idle" /\ \A r \in Rows : where[r] # "buffered"
  /\ pc' = "done"
  /\ stop_ssh_tunnel
  /\ UNCHANGED <<cfg, starting, starts, engine, client, used, stream, todo,
                 ready, grown, rows, dbs, tables, missing, runs>>

\* The end of the input: the sinks drop their clients, and the exit of the
\* process stops the tunnel.
clean_up ==
  /\ pc = "idle" /\ \A r \in Rows : where[r] # "buffered"
  /\ pc' = "done"
  /\ client' = NoClient
  /\ stop_ssh_tunnel
  /\ UNCHANGED <<cfg, starting, starts, engine, used, stream, todo, ready,
                 grown, rows, dbs, tables, missing, runs>>

Crash ==
  /\ pc \notin {"down", "done"} /\ pc' = "down"
  /\ UNCHANGED <<cfg, connector, stream, todo, ready, grown, rows, dbs, tables,
                 missing, runs>>

Restart ==
  /\ pc \in {"down", "done"} /\ runs < MaxRuns
  /\ Disconnected
  /\ pc' = "idle" /\ todo' = {} /\ ready' = {} /\ missing' = {}
  /\ LET lost == {r \in Rows : where[r] \in {"buffered", "draining"}} IN
     /\ Move(lost, "unsent")
     /\ sent' = [r \in Rows |-> IF r \in lost THEN Absent ELSE sent[r]]
  /\ runs' = runs + 1
  /\ UNCHANGED <<cfg, stream, grown, dbs, tables>>

Prepare ==
  \/ \E s \in Streams : Schema(s)
  \/ prepare_schema \/ create_engine
  \/ create_empty_table \/ FindTable
  \/ \E p \in todo : prepare_column(p)

Load ==
  \/ \E r \in Rows : Record(r)
  \/ Drain
  \/ \E s \in Streams : ClientConnects(s) \/ Insert(s)

Next ==
  \/ \E t \in Threads : ConnectTunnel(t)
  \/ Prepare \/ Load
  \/ \E r, q \in Rows : Merge(r, q)
  \/ \E s \in Streams : Grow(s)
  \/ Signal \/ clean_up \/ Crash \/ Restart

Spec == Init /\ [][Next]_vars

-----------------------------------------------------------------------------
(* Properties.                                                             *)

\* Every variable keeps its type; a process that has ended in order keeps no
\* client and no tunnel.
TypeOK ==
  /\ cfg.rows \subseteq Rows
  /\ tunnel \in {"none", "up", "stopped"}
  /\ starting \subseteq Threads /\ starts \in Nat
  /\ engine \in {"none", "direct", "tunnel", "url"}
  /\ client \in [Streams -> {"none", "direct", "tunnel"}]
  /\ used \subseteq {"direct", "tunnel", "url"}
  /\ pc \in {"idle", "schema", "table", "columns", "draining", "down", "done"}
  /\ stream \in Streams /\ todo \subseteq {"id", "c"}
  /\ ready \subseteq Streams /\ grown \subseteq Streams
  /\ where \in [Rows -> {"unsent", "buffered", "draining", "stored", "merged"}]
  /\ sent \in [Rows -> Values \cup {Absent}]
  /\ missing \subseteq {"database", "table", "column"}
  /\ runs \in 1 .. MaxRuns
  /\ pc = "done" => client = NoClient /\ tunnel # "up"

\* A process starts one tunnel, and its main thread does: two threads that both
\* find none would start two, and only the main thread may set the signal
\* handlers.  The lock that is not there is the order of the steps: the engine
\* is created before any sink is drained (connectors.py, lines 104-109).
TunnelOnce == starts <= 1 /\ starting \subseteq {Main}

\* Nothing goes around a tunnel that is enabled: not when it could not be
\* started, not after a signal has stopped it, and not through the second client
\* library, which connects by itself (sinks.py, lines 202-210).  An explicit
\* sqlalchemy_url is the exception: everything goes around the tunnel then
\* (connectors.py, lines 148-149).
NeverAround == cfg.tunnel /\ ~cfg.url => used \subseteq {"tunnel"}

\* Wherever set-up was interrupted, and however the schema has grown, a stream
\* that is prepared again finds its database, and its inserts the table and the
\* columns they name.  Two settings are the exceptions: with a sqlalchemy_url
\* the bootstrap needs the database of the url, and a table_name with a dot is
\* created under another name (connectors.py, lines 151 and 345).
SetupSuffices ==
  /\ "database" \in missing => cfg.url \/ cfg.table_name = "dotted"
  /\ missing \cap {"table", "column"} # {} => cfg.table_name = "dotted"

\* Streams that share a table made for the keys of one of them.
Shared(s) ==
  /\ cfg.table_name # "unset"
  /\ tables[full_table_name(s)].made.primary_key # {}

\* Merges collapse only rows of one stream with the same key: "keyless streams
\* append instead of collapsing" (engine_class.py, line 84), whatever engine
\* and order_by_keys are set, also for tables that earlier runs have made.
KeysKept ==
  \A r \in Rows :
     LET s == StreamOf[r] IN
     where[r] = "merged" /\ ~Shared(s) =>
        /\ s \in Keyed
        /\ \E q \in Rows :
              /\ where[q] = "stored" /\ StreamOf[q] = s
              /\ \A p \in KeysOf(s) : Cell(q, p) = Cell(r, p)

\* A property of several types, unless one is string, the column is made for
\* that one, and no anyOf keeps the others from being made strings.
Mixed(schema) ==
  /\ schema.types # {schema.column}
  /\ "string" \in schema.types \cap {schema.column} => schema.null = "anyOf"

\* What validation lets through is of the kind that its column takes, and NULL
\* only where the column is Nullable.  Exceptions: a NULL in a key, a NULL
\* allowed by an anyOf only, a time that does not parse (its column is a String,
\* and not Nullable), a property of several types whose column is made for
\* another, and a table shared by streams that give the column different types
\* (connectors.py, line 288).
FitsColumn ==
  \A r \in Rows :
     LET s == StreamOf[r] IN
     (/\ where[r] = "stored" /\ sent[r] # Absent
      /\ cfg.validate /\ cfg.table_name = "unset" /\ ~Mixed(cfg.prop[s]))
     => \/ Holds(tables[full_table_name(s)].columns["c"], Value(r))
        \/ /\ Value(r) = Plain("null")
           /\ \/ "c" \in KeysOf(s)
              \/ cfg.prop[s].null = "anyOf"
              \/ cfg.prop[s].format = "time"

\* Repair never makes a valid value invalid, nor a null that is allowed the text
\* "None".  What it does change of a valid value is made text of a property that
\* allows other types too: 5 is "5" then (sinks.py, line 681).  After it a
\* property that allows strings is valid, whatever scalar was sent, and whatever
\* object or array that is not one of its types (sinks.py, lines 655-691).
RepairKeepsAllowed ==
  \A r \in Rows :
     LET schema   == cfg.prop[StreamOf[r]]
         repaired == Repair(sent[r], schema)
     IN  sent[r] # Absent =>
           /\ Valid(sent[r], schema) =>
                 /\ Valid(repaired, schema)
                 /\ repaired # sent[r] =>
                       /\ sent[r].kind \in Numbers
                       /\ {"string"} # schema.types
           /\ (/\ "string" \in schema.types /\ schema.null # "anyOf"
               /\ sent[r].kind \notin {"object", "array"} \cap schema.types) =>
                 Valid(repaired, schema)
=============================================================================
