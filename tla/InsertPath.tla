----------------------------- MODULE InsertPath -----------------------------
(***************************************************************************)
(* How one ClickhouseSink gets a batch of rows into its table              *)
(* (target_clickhouse/sinks.py).  Two calls lead here:                     *)
(*                                                                         *)
(*   bulk_insert_records    the rows of drained RECORD messages            *)
(*   _insert_arrow_table    the rows of one Arrow file of a BATCH message  *)
(*                                                                         *)
(* With the http driver each tries a fast insert over clickhouse-connect   *)
(* inside a retry loop, and falls back when the loop gives up:             *)
(*                                                                         *)
(*   "arrow" --> "columns" --> "alchemy" --> "optimize" --> "returned"     *)
(*                                                                         *)
(* Every network call ends in one of three ways.  It may succeed; it may   *)
(* raise the one exception that is retried, requests' ConnectionError; or  *)
(* it may fail in any other way.  An insert that fails may leave any part  *)
(* of its batch in the table: ClickHouse "has no transactions to roll      *)
(* back".  Whether that goes for a ConnectionError too is the http         *)
(* library's choice, not this code's: the code takes it to mean that       *)
(* nothing was sent (sinks.py, lines 39-44), but requests also raises it   *)
(* when a connection is lost half way.  Both are considered (cfg.aborts).  *)
(*                                                                         *)
(* The counters describe the call in progress: each call starts them anew. *)
(*                                                                         *)
(* An operator whose name ends in _Defect is not part of the model: it is  *)
(* the definition that follows it with a plausible mistake in it, against  *)
(* which a property of this module is shown not to be vacuous.             *)
(***************************************************************************)
EXTENDS Integers, FiniteSets

CONSTANTS Rows,       \* the rows a batch is made of
          MaxTries    \* the largest insert_retry_max_tries considered, and
                      \* where a loop without a limit stops being counted

ASSUME RowsAssumption == IsFiniteSet(Rows)
ASSUME TriesAssumption == MaxTries \in Nat \ {0}

VARIABLES
  cfg,        \* the settings and the http library, fixed for the target's life
  pc,         \* where the call is
  entry,      \* which of the two calls it is, "records" or "arrow"
  batch,      \* its rows
  tries,      \* attempts made so far by the retry loop it is in
  client,     \* the cached clickhouse-connect client, "none" or "open"
  result,     \* the row count the call returns
  (* observed by the properties, never read by the code *)
  copies,     \* copies of each row that this call has put in the table
  attempts,   \* attempts at an insert this call has made
  unclear,    \* those of them that failed after the server had stored rows
  optimized   \* no row was stored since the last OPTIMIZE TABLE

vars == <<cfg, pc, entry, batch, tries, client, result,
          copies, attempts, unclear, optimized>>

Settings == [driver   : {"http", "native", "asynch"},
             url      : BOOLEAN,        \* an explicit sqlalchemy_url
             tries    : 0 .. MaxTries,  \* insert_retry_max_tries
             aborts   : BOOLEAN,        \* a ConnectionError may come late
             optimize : BOOLEAN,        \* optimize_after
             async    : BOOLEAN]        \* async_insert

Undetermined == -1    \* the rowcount of a cursor that cannot tell

Fast == {"arrow", "columns"}
Busy == Fast \cup {"alchemy", "native", "optimize"}

\* The schema sets no minimum for insert_retry_max_tries.  0 stands for any
\* value below 1: no attempt has that number, and the loop has no limit.
Limited == cfg.tries > 0

UseClickhouseConnect == cfg.driver = "http" /\ ~cfg.url

\* Where bulk_insert_records starts.
BulkStart == IF UseClickhouseConnect THEN "columns" ELSE "alchemy"

\* Where _insert_arrow_table starts, for a table that is not empty.
ArrowStart ==
  CASE UseClickhouseConnect                -> "arrow"
    [] cfg.driver = "native" /\ ~cfg.url   -> "native"
    [] OTHER                               -> BulkStart

Init ==
  /\ cfg \in Settings
  /\ pc = "idle" /\ entry = "records" /\ batch = {} /\ tries = 0
  /\ client = "none" /\ result = Undetermined
  /\ copies = [r \in Rows |-> 0]
  /\ attempts = 0 /\ unclear = 0 /\ optimized = FALSE

-----------------------------------------------------------------------------
(* The two calls.                                                          *)

Call(e, b, start) ==
  /\ pc \in {"idle", "returned"}
  /\ entry' = e /\ batch' = b /\ pc' = start /\ tries' = 0
  /\ result' = IF start = "returned" THEN 0 ELSE Undetermined
  /\ copies' = [r \in Rows |-> 0]
  /\ attempts' = 0 /\ unclear' = 0 /\ optimized' = FALSE
  /\ UNCHANGED <<cfg, client>>

bulk_insert_records == \E b \in SUBSET Rows : Call("records", b, BulkStart)

insert_arrow_table ==
  \E b \in SUBSET Rows :
     Call("arrow", b, IF b = {} THEN "returned" ELSE ArrowStart)

-----------------------------------------------------------------------------
(* The server.                                                             *)

\* An insert that leaves the rows of S in the table.
Insert(S) ==
  /\ copies' = [r \in Rows |-> copies[r] + IF r \in S THEN 1 ELSE 0]
  /\ attempts' = attempts + 1
  /\ optimized' = (optimized /\ S = {})

\* An insert that fails after the rows of S were stored.
FailedInsert(S) ==
  /\ Insert(S)
  /\ unclear' = unclear + IF S = {} THEN 0 ELSE 1

\* What the server may have stored when it acknowledges an insert: the whole
\* batch, unless it was told to answer before its buffer is flushed.
Acknowledged(settings) ==
  IF "async_insert" \in settings /\ "wait_for_async_insert" \notin settings
  THEN SUBSET batch
  ELSE {batch}

-----------------------------------------------------------------------------
(* The retry loops over the two clickhouse-connect inserts.                *)

InsertSettings_Defect ==
  IF pc = "columns" /\ cfg.async THEN {"async_insert"} ELSE {}

InsertSettings ==
  IF pc = "columns" /\ cfg.async
  THEN {"async_insert", "wait_for_async_insert"}
  ELSE {}

\* The columnar insert of no records returns before it reaches the client.
NothingToSend == pc = "columns" /\ batch = {}

\* The client is built by the first attempt that needs it, and cached.
BuildClient ==
  /\ pc \in Fast /\ client = "none" /\ ~NothingToSend
  /\ client' = "open"
  /\ UNCHANGED <<cfg, pc, entry, batch, tries, result,
                 copies, attempts, unclear, optimized>>

Inserted_Defect(count) ==
  /\ pc' = IF cfg.optimize THEN "optimize" ELSE "returned"
  /\ result' = count

\* bulk_insert_records has its rows in the table.  An Arrow table reports the
\* rows of its file, whatever count the insert below it came back with.
Inserted(count) ==
  /\ pc' = IF cfg.optimize THEN "optimize" ELSE "returned"
  /\ result' = IF entry = "arrow" THEN Cardinality(batch) ELSE count

ArrowInsertSucceeds_Defect ==
  /\ pc = "arrow" /\ client = "open"
  /\ \E S \in Acknowledged(InsertSettings) : Insert(S)
  /\ pc' = BulkStart /\ UNCHANGED result
  /\ UNCHANGED <<cfg, entry, batch, tries, client, unclear>>

ArrowInsertSucceeds ==
  /\ pc = "arrow" /\ client = "open"
  /\ \E S \in Acknowledged(InsertSettings) : Insert(S)
  /\ pc' = "returned" /\ result' = Cardinality(batch)
  /\ UNCHANGED <<cfg, entry, batch, tries, client, unclear>>

ColumnarInsertSucceeds ==
  /\ pc = "columns" /\ (client = "open" \/ NothingToSend)
  /\ \E S \in Acknowledged(InsertSettings) : Insert(S)
  /\ Inserted(Cardinality(batch))
  /\ UNCHANGED <<cfg, entry, batch, tries, client, unclear>>

\* The except clauses: the Arrow path falls back to bulk_insert_records, which
\* starts a retry loop of its own, and that one to the SQLAlchemy insert.
FallBack ==
  /\ pc' = IF pc = "arrow" THEN BulkStart ELSE "alchemy"
  /\ tries' = 0

TryAgain_Defect == IF tries = cfg.tries THEN FallBack
                                        ELSE tries' = tries + 1 /\ UNCHANGED pc

\* backoff.on_exception: try again until the max_tries-th attempt was made.
TryAgain == IF tries + 1 = cfg.tries THEN FallBack
                                     ELSE tries' = tries + 1 /\ UNCHANGED pc

ConnectionFails_Defect ==
  /\ pc \in Fast /\ client = "open"
  /\ client' = "none"
  /\ UNCHANGED <<cfg, pc, entry, batch, tries, result,
                 copies, attempts, unclear, optimized>>

\* What a failed attempt may have left in the table.  Without a client there was
\* no insert yet.
Leftovers == IF client = "none" THEN {{}} ELSE SUBSET batch

\* A ConnectionError, while the client is built or during the insert.
ConnectionFails ==
  /\ pc \in Fast /\ ~NothingToSend
  /\ ~Limited => tries < MaxTries
  /\ \E S \in IF cfg.aborts THEN Leftovers ELSE {{}} : FailedInsert(S)
  /\ TryAgain
  /\ UNCHANGED <<cfg, entry, batch, client, result>>

FastInsertFails_Defect ==
  /\ pc \in Fast /\ ~NothingToSend
  /\ \E S \in Leftovers : FailedInsert(S)
  /\ TryAgain
  /\ UNCHANGED <<cfg, entry, batch, client, result>>

\* Any other exception leaves the loop at once: a read timeout, an error
\* response, or a batch the client rejects before it sends anything.
FastInsertFails ==
  /\ pc \in Fast /\ ~NothingToSend
  /\ \E S \in Leftovers : FailedInsert(S)
  /\ FallBack
  /\ UNCHANGED <<cfg, entry, batch, client, result>>

-----------------------------------------------------------------------------
(* The inserts that are tried once, and whose exceptions reach the caller. *)

AlchemyInsertSucceeds ==
  /\ pc = "alchemy"
  /\ Insert(batch)
  /\ \E count \in {Undetermined, Cardinality(batch)} : Inserted(count)
  /\ UNCHANGED <<cfg, entry, batch, tries, client, unclear>>

NativeInsertSucceeds ==
  /\ pc = "native"
  /\ Insert(batch)
  /\ pc' = "returned" /\ result' = Cardinality(batch)
  /\ UNCHANGED <<cfg, entry, batch, tries, client, unclear>>

LastInsertFails_Defect ==
  /\ pc \in {"alchemy", "native"}
  /\ \E S \in SUBSET batch : FailedInsert(S)
  /\ pc' = "returned" /\ UNCHANGED result
  /\ UNCHANGED <<cfg, entry, batch, tries, client>>

LastInsertFails ==
  /\ pc \in {"alchemy", "native"}
  /\ \E S \in SUBSET batch : FailedInsert(S)
  /\ pc' = "raised"
  /\ UNCHANGED <<cfg, entry, batch, tries, client, result>>

OptimizeTable_Defect ==
  /\ pc = "optimize"
  /\ pc' = "returned" /\ optimized' \in BOOLEAN
  /\ UNCHANGED <<cfg, entry, batch, tries, client, result,
                 copies, attempts, unclear>>

\* optimize_after: OPTIMIZE TABLE, whose failure also reaches the caller.
OptimizeTable ==
  /\ pc = "optimize"
  /\ \/ pc' = "returned" /\ optimized' = TRUE
     \/ pc' = "raised" /\ UNCHANGED optimized
  /\ UNCHANGED <<cfg, entry, batch, tries, client, result,
                 copies, attempts, unclear>>

\* The end of the stream: the client is closed and forgotten.
clean_up ==
  /\ pc \in {"idle", "returned"}
  /\ pc' = "closed" /\ client' = "none"
  /\ UNCHANGED <<cfg, entry, batch, tries, result,
                 copies, attempts, unclear, optimized>>

-----------------------------------------------------------------------------

Step ==
  \/ BuildClient
  \/ ArrowInsertSucceeds
  \/ ColumnarInsertSucceeds
  \/ ConnectionFails
  \/ FastInsertFails
  \/ AlchemyInsertSucceeds
  \/ NativeInsertSucceeds
  \/ LastInsertFails
  \/ OptimizeTable

Next == bulk_insert_records \/ insert_arrow_table \/ Step \/ clean_up

\* A call runs in one thread and every network call it makes ends, with an
\* answer or with an exception, so a call that can take a step takes one.
Spec == Init /\ [][Next]_vars /\ WF_vars(Step)

-----------------------------------------------------------------------------
(* Properties.                                                             *)

\* The attempts a call may make: the retry loop of each fast insert it goes
\* through, and the one insert it ends with.
Budget == IF entry = "arrow" THEN 2 * cfg.tries + 1 ELSE cfg.tries + 1

\* Every variable keeps its type; in particular a retry loop with a limit is not
\* entered again when it has counted max_tries failures.
TypeOK ==
  /\ cfg \in Settings
  /\ pc \in Busy \cup {"idle", "returned", "raised", "closed"}
  /\ entry \in {"records", "arrow"}
  /\ batch \in SUBSET Rows
  /\ tries \in 0 .. MaxTries /\ (Limited => tries < cfg.tries)
  /\ client \in {"none", "open"}
  /\ result \in Undetermined .. Cardinality(Rows)
  /\ copies \in [Rows -> Nat]
  /\ attempts \in Nat
  /\ unclear \in Nat
  /\ optimized \in BOOLEAN

\* A call that returns has every row of its batch in the table, whichever of
\* the inserts brought it there and however many failed before it ("either
\* inserts every row or raises", sinks.py line 383).  With async_insert that
\* takes the wait_for_async_insert of lines 290-295.
StoredWhenReturned ==
  pc \in {"optimize", "returned"} => \A r \in batch : copies[r] > 0

\* A row is in the table twice only if an insert failed after the server had
\* stored part of the batch: attempts that failed before, however many, in
\* however many loops, duplicate nothing.
DuplicateNeedsLostReply == \A r \in Rows : copies[r] <= unclear + 1

\* "A retry can never duplicate rows" (sinks.py, lines 39-44), and how far the
\* fallbacks do: if the http library raises ConnectionError only before it has
\* sent anything, a call stores a row at most twice, and a row of an Arrow file
\* at most three times, however often its inserts are retried.  No loop goes on
\* after a failure that may have stored rows.
CopiesBounded ==
  ~cfg.aborts => \A r \in Rows : copies[r] <= IF entry = "arrow" THEN 3 ELSE 2

\* insert_retry_max_tries bounds a call: a batch of records is tried that many
\* times and once more over SQLAlchemy.  An Arrow table may take twice as many,
\* since its fallback starts a second retry loop (sinks.py, lines 248 and 427).
AttemptBudget == Limited => attempts <= Budget

\* The count a call returns is the number of rows it has put in the table, or,
\* for records only, "not determinable": the cursor's -1 never reaches the
\* record counter of an Arrow batch (sinks.py, lines 377-383).
TruthfulCount ==
  pc = "returned" =>
     \/ result = Cardinality({r \in Rows : copies[r] > 0})
     \/ entry = "records" /\ result = Undetermined

\* With optimize_after a batch of records is only reported inserted when the
\* table was optimized after its last row was stored (sinks.py, lines 178-181).
OptimizedAfterRecords ==
  pc = "returned" /\ entry = "records" /\ cfg.optimize => optimized

\* Every call ends, by returning or by raising, if the retries have a limit.
CallEnds == Limited /\ pc \in Busy ~> pc \in {"returned", "raised"}

\* The call implements the contract of module BulkLoad: retries, fallbacks and
\* OPTIMIZE are steps of one load, which is reported loaded only when it is.
Contract == INSTANCE BulkLoad WITH
  status <- IF pc \in Busy THEN "loading"
            ELSE IF pc = "returned" THEN "loaded" ELSE pc
ContractSpec == Contract!Spec

\* What the settings' descriptions say, and the code does not do.

\* "a timeout or error response after the server started receiving the batch is
\* not retried here, to avoid risking a duplicate insert" (target.py, lines
\* 225-230): no row of a batch is inserted twice, even if every error that is
\* retried came before anything was sent.
InsertedOnce == ~cfg.aborts => \A r \in Rows : copies[r] <= 1

\* "Run 'OPTIMIZE TABLE' after data insert" (target.py, line 196): a call that
\* inserted rows returns with the table optimized.
OptimizedAfterInsert ==
  pc = "returned" /\ cfg.optimize /\ batch # {} => optimized
=============================================================================
