# A formal model of target-clickhouse

TLA+ models of target-clickhouse, the Singer target that loads records into
ClickHouse, with the TLC configurations that check them and machine-checked
proofs of every safety property that is checked. Paths are relative to the repository;
line
numbers in the modules refer to the files of `target_clickhouse/`.

## 1. The system

A tap writes Singer messages to the target's standard input. The Singer SDK (a
library, not part of the repository) reads them one at a time, keeps one sink
per stream, drains the sinks and writes bookmarks. The repository supplies the
sink, the connector, the SSH tunnel and the table engines.

| Component | State it keeps | Operations | Talks to |
|---|---|---|---|
| Batch inserts (`sinks.py` 124-305, 351-478) | the cached clickhouse-connect client; the attempt number of a retry loop | `bulk_insert_records`, `_insert_arrow_table`, the retry loops, `clean_up` | ClickHouse, over HTTP, the native protocol or SQLAlchemy |
| Batching and delivery (`sinks.py` 52-97) | the batch, its byte tally | `is_full`, `process_record`, `mark_drained` | called by the SDK; drained by its threads |
| Arrow BATCH files (`sinks.py` 309-349, `arrow_batch.py`) | the files of the manifest, the record counter | `process_batch_files`, `_process_arrow_batch_files` | the file system; batch inserts |
| Version activation (`sinks.py` 480-535) | the version and deletion columns of the table | `activate_version` | ClickHouse (DDL and mutations) |
| Records (`sinks.py` 537-693) | none | validation, conversion to strings, parsing of dates | called for each record |
| SSH tunnel (`ssh_tunnel.py`) | the SSH session, the server socket, a socket and a channel per connection, a stop event | `start`, `_forward_tunnel`, `_forward_data`, `stop` | an accept thread, three threads per connection, the main thread |
| Connector and its tunnel (`connectors.py` 84-237, `sinks.py` 185-222) | the tunnel and the engine, both cached | `_tunneled_host_port`, `create_engine`, `_stop_ssh_tunnel` | the tunnel; signal handlers; `atexit` |
| Schema and tables (`connectors.py` 209-526, `engine_class.py`) | the tables and columns of the server | `create_empty_table`, `prepare_schema`, `prepare_column`, `create_engine_wrapper` | ClickHouse (DDL) |
| Settings (`target.py`) | none | their JSON schema | read by all of the above |

What is hard, and what makes each part correct:

- **Batch inserts.** A call goes through up to three kinds of insert, two of them
  in retry loops, against a server without transactions. Any of them may fail
  after part of the batch was stored. *Correct:* a call that returns has stored
  every row; rows are duplicated only after a failure that is really ambiguous,
  and boundedly often; the reported count is true; every call ends.
- **Delivery.** Sinks drain in parallel threads, and the process may die at any
  point. *Correct:* the bookmark written never covers a record that is not in
  its table; of two records of a key the newer one wins, even after a rerun; a
  batch respects the cap on rows and the cap on bytes.
- **Arrow files.** A file is the only copy of its rows and is removed after its
  insert. *Correct:* nothing is removed before it is loaded; a rerun completes.
- **Version activation.** Several statements, no transaction, and mutations that
  the server applies later. *Correct:* an activation reaches every older row, no
  newer one, and can be repeated.
- **SSH tunnel.** Threads share sockets that another thread closes under them.
  *Correct:* data arrives complete and in order, nothing is left open, stopping
  works, one bad connection does not stop the others.
- **Connector.** The tunnel is cached, but stopped by signal handlers that let
  the process go on, and two client libraries connect on their own. *Correct:*
  one tunnel is started, by the main thread; nothing goes around it.
- **Schema and tables.** Set-up is a sequence of statements, and may stop after
  any of them; names, keys and engines are decided in different places.
  *Correct:* what an insert names exists; no merge collapses rows that differ
  in their keys.
- **Records.** Repair, validation, parsing of dates and column types are four
  pieces of code. *Correct:* what passes the first three fits the fourth.

`PROJECT.json` lists the hazards one by one, at the lines where they bite, with
the properties that cover them.

## 2. Modules

| Module | Models |
|---|---|
| `BulkLoad` | abstract: what a batch insert promises its caller |
| `InsertPath` | batch inserts, in full; implements `BulkLoad` |
| `InsertPathProofs` | the proofs about `InsertPath` |
| `AtLeastOnce` | abstract: the bookmark never runs ahead of the tables |
| `Delivery` | batching, parallel drains, bookmarks, crashes, restarts; implements `AtLeastOnce` |
| `DeliveryProofs` | the proofs about `Delivery` |
| `ArrowBatch` | BATCH messages and the files they name |
| `ArrowBatchProofs` | the proofs about `ArrowBatch` |
| `SumProofs` | what a sum over a finite set is; used by the proofs about `Delivery` and `ArrowBatch` |
| `VersionActivation` | `activate_version` and ClickHouse's mutations |
| `VersionActivationProofs` | the proofs about `VersionActivation` |
| `SSHTunnel` | the tunnel's accept loop, forwarding threads and `stop` |
| `SSHTunnelProofs` | the proofs about `SSHTunnel` |
| `Connector` | the cached tunnel, engine and clients, and which address each connects to |
| `TableEngines` | the engine of a table, and which rows ClickHouse then collapses |
| `RecordRules` | repair, validation, parsing and column types, as operators on values |
| `TableSetup` | the life of the tables; composes the three modules above |
| `TableSetupProofs` | the proofs about `TableSetup`'s tunnel |
| `TableLifeProofs` | the proofs about its tables, rows and values |
| `MC...` | the instances TLC checks |

`Delivery` and `ArrowBatch` know of an insert what `BulkLoad` says: it stores
all the rows, or some of them before it falls back or raises. `InsertPath` is
shown to implement `BulkLoad`, so the modules compose through that contract
and not by a product of their state spaces. `TableSetup` composes by `EXTENDS`:
it shares the state of `Connector`, and calls the operators of `TableEngines` and
`RecordRules` where the code calls the functions they model.

An operator named `..._Defect` is not part of a model. It repeats the definition
that follows it with a plausible mistake: a dropped guard, a wrong bound, a
missing reset. Each property is checked to fail when one of them takes the place
of its original, so none of them holds vacuously.

### InsertPath

`pc` follows the call: `arrow`, `columns`, `alchemy`, `native` are the four kinds
of insert, `optimize` is `OPTIMIZE TABLE`. `cfg` holds the settings that choose
the path. `tries` is the counter of the backoff decorator, `client` the cached
client. `copies`, `attempts`, `unclear` and `optimized` are observations: the
code never reads them. A network call succeeds, is refused before anything was
sent, or fails in some other way after the server has stored any subset of the
batch. Which of the last two the retried exception, the `ConnectionError` of
`requests`, is depends on the http library. The comment at `sinks.py` 39-44 takes
it for the second; `requests` also raises it for a connection that is lost half
way. The model considers both, and `cfg.aborts` says which. The setting
`insert_retry_max_tries` has no minimum: 0 stands for any value below 1, with which
backoff never gives up (`Limited`). The values in the rows, the naming of columns
and the time between attempts are left out.

### Delivery

Records are numbered in the order in which the tap sends them, and a bookmark is
a number: it covers the records up to it. `phase` is what the main thread does,
`stage` where the drain of each sink is. The SDK's part is external: a full sink
is drained at once; when a sink is too old, and at the end of the input, all are
drained in parallel, and the bookmark read *before* that is written when all
threads have ended without error. A table keeps of each key the row inserted
last (`ReplacingMergeTree`). After a crash, or an insert that raises, the pipeline
is run again from the last bookmark. It is assumed that the server has finished
with an insert, or dropped it, when the target gives up on it; a late insert that
overtakes its own retry is listed as a hazard without a property.

A stream may mix RECORD and BATCH messages. The row of a BATCH message is
inserted at once, in the phase `loading`, past whatever the sink has buffered. This
is the one way in which an older row can overtake a newer one, and
`LastWriteWins` says so.

### ArrowBatch

One stream and a sequence of manifests. `pc` is the step of the loop over
the files (read, insert, remove, count). The setting `rewrites` says whether a
rerun of the tap writes its files again. An empty table is not inserted. `loaded`
is what is in the table; `inserts` counts how often each file was inserted, which
the code does not.

### VersionActivation

`pc` is the next statement of `activate_version`; the process may stop before
each, and a mutation may be recorded although its answer is lost. `queue` holds
the mutations ClickHouse has recorded and not applied. With the SDK's
`add_record_metadata` the version and deletion columns are Nullable and filled
in; without it only `activate_version` creates them, with types that are not
Nullable, so that every row holds 0 and the epoch in them.

### SSHTunnel

`loop` is the accept loop, `main` the progress of `stop`, `thread` the two
forwarding threads of each connection; `sock` and `chan` are the two ends
they share. A `recv` that is blocked when another thread closes its socket is
not woken; the next call raises. A channel that is closed still hands out what it
has buffered (`Receive`). `partial` says whether a send may take less than
it is given. The third thread of a connection, which only joins the other two, is
the action `Finish`. Clients, server and SSH session may end at any moment, and
a client may reset its connection.

### Connector, TableEngines, RecordRules and TableSetup

`pc` is the main thread: `schema`, `table` and `columns` are the steps of
`SQLSink.setup` (SDK, external), each of which is one statement to the server;
`draining` is `drain_all`, in which a thread of each stream inserts. `cfg` holds
the settings and what the tap sends. An address (`direct`, `tunnel`, `url`) stands
for a host and a port. Looking for a tunnel and starting one are two steps
(`FindNoTunnel`, `StartTunnel`), as nothing in `_tunneled_host_port` makes them
one. A signal stops the tunnel and the process goes on, as its handlers let it. A
statement or connection that fails raises and ends the process (`Crash`); the
databases and tables stay, and the pipeline is run again (`Restart`).

`tables` maps names to an engine and columns. The two names of a table, the one
statements use (`full_table_name`) and the one it is created under
(`created_name`), are two operators, as they are two pieces of code. `Merge` is
ClickHouse: under an engine that collapses, one of two stored rows that agree on
the sorting key disappears. `Grow` is a tap whose schema gains a property, within a
run or between two. Rows without the property show whether an insert names a
column that is not there.

A value is one of a few that the rules tell apart: a text that parses, one
that does not, a date with a time, a number, a number whose digits are a date,
`null`, an object or an array with one of these inside. A property has one or
more types besides `null`, a format, and a way of allowing `null`. Repair and
validation look at all of its types; its column is made for one of them, or for a
text, as the SDK decides (`column`). What an object in a column of type `JSON`
holds, the ranges of numbers and dates, and the SQL text are left out.

`NeverAround` is about the addresses that are built from `host` and `port`. With
`sqlalchemy_url` that URL is used as it is, and nothing goes through a tunnel,
even one that is enabled (`connectors.py` 148-149); its comment says so.

## 3. Runs

| Run | Configuration | Shows |
|---|---|---|
| `insert_path` | `MCInsertPath.cfg` | all properties of `InsertPath`, its refinement of `BulkLoad`, and that every call ends |
| `insert_once` | `MCInsertOnce.cfg` | *violated:* a row is never inserted twice |
| `insert_optimized` | `MCInsertOptimize.cfg` | *violated:* with `optimize_after` every insert is followed by `OPTIMIZE TABLE` |
| `delivery` | `MCDelivery.cfg` | bookmarks, order of upserts, caps, tally, refinement of `AtLeastOnce`, delivery in the end |
| `arrow_batch` | `MCArrowBatch.cfg` | no file is removed early, counters are true, files are inserted twice only after a fault, reruns complete |
| `version_activation` | `MCVersionActivation.cfg` | activations reach all older rows and no others, and can be repeated |
| `version_null` | `MCVersionNull.cfg` | *violated:* an unmarked row has NULL in its deletion column |
| `ssh_tunnel` | `MCSSHTunnel.cfg` | two connections: nothing open after `stop`, no connection forgotten |
| `tunnel_connection` | `MCTunnelConnection.cfg` | one connection: data in order, teardown, `stop` ends the loop |
| `table_setup` | `MCTableSetup.cfg` | one tunnel and nothing around it, set-up that may stop anywhere, merges that keep keys, values that fit |
| `tunnel_forwarded` | `MCTunnelForwarded.cfg` | *violated:* what a client wrote reaches the channel |
| `tunnel_survives` | `MCTunnelSurvives.cfg` | *violated:* one bad connection does not end the accept loop |

### Bounds

- `InsertPath`: two rows, so that a failure can store part of a batch, and up to
  three tries, so that a loop has a first, a middle and a last attempt; without a
  limit, the attempts are counted up to three, and go on from there no further. All
  combinations of driver, url, tries (0, no limit, to 3), `aborts`,
  `optimize_after` and `async_insert`.
- `Delivery`: five records of two streams and three keys, two keys written twice,
  so that a batch, a flush and a replay can each hold both versions of a row, and
  one of the four by a BATCH message that can pass the other; caps that cut after two
  or three rows or after few bytes; two faults, so that
  a rerun can fail as well.
- `ArrowBatch`: two messages, one of two files, one of a single empty file, and
  three faults.
- `VersionActivation`: two rows, three versions, three calls: a version can be
  activated again after a crash, or after a newer one, with mutations waiting.
- `SSHTunnel`: two connections with one unit of data where the shared loop,
  session and `stop` matter; one connection with two units up, one down and
  reads of one or two units where the data does. Connections share no data.
- `TableSetup`: two streams, one with keys and a schema of its own and one with
  neither, two rows of each with the same id, two runs, so that one can be
  interrupted and one can find what it left. The settings are four products, each of
  those that act together: url, tunnel, driver, database and `table_name`; engine,
  `order_by_keys`, path, replica name and `table_name`; every property schema of
  one type, and those of a text and one of integer, object and array, against every
  value, with and without validation, `enable_json` and as a key; and
  two streams that share a table and disagree on a type.

### Fairness

- `InsertPath`: `WF(Step)`. A call runs in one thread, and the drivers' timeouts
  end each network call. New calls are not assumed.
- `Delivery`, `ArrowBatch`: weak fairness of `Progress`, the steps of a process
  that runs and the restart of a pipeline that failed. Crashes and failures are
  not fair, and their number is bounded: endless faults are not considered.
- `SSHTunnel`: weak fairness of each thread. The clients, the server and
  the session are not assumed to do anything, and `stop` need not be called. A
  send is taken to return.
- `VersionActivation` and `TableSetup` state no liveness: nothing retries a
  statement, and a process that gets the wrong settings stops at the same one
  in every run.

Deadlock is checked, except where the system may stop: a finished or closed sink
(`InsertPath`, `Delivery`), a stopped tunnel, and the last run of `TableSetup`.

## 4. What is proved

Every invariant and every safety action property that a passing run checks is
also a theorem, for every value of the constants, and so are the two refinements.
The assumptions are the `ASSUME`s of the modules, which TLC evaluates in every
run: types of the constants, and what the models take for granted of them (a file
is named once, a key belongs to one stream, the main thread is none of the drains').
In each module the argument is an inductive invariant, `IInv` unless it is named
below: no property of interest is inductive as it stands, and what closes the gap
says why the code is right. `Next...` is the lemma with a step for each action.
`TypeCorrect` is the type invariant of each module.

**InsertPath**, for every finite set of rows and every `MaxTries >= 1`:
`StoredWhenReturned`, `DuplicateNeedsLostReply`, `CopiesBounded`, `AttemptBudget`,
`TruthfulCount`, `OptimizedAfterRecords`, and the refinement of `BulkLoad`.
`CopiesBounded` is conditional on an http library whose `ConnectionError` comes
only before anything is sent, and `AttemptBudget` on a limit to the retries; the
others are not. "At most two copies" would let a call that is about to
insert have two already. `Inserting` closes the gap: while the rows of a call are
not acknowledged, there are at most as many copies of a row as inserts that failed
after storing rows (`unclear`); these are at most as many as the fallbacks taken on
the way to the current insert (`FailedBefore`); and the attempts are at most those
of the loops behind it and of the one it is in (`SpentBefore`). `RightEntry`,
`OnlyTheBatch` and `RightCount` tie the path, the rows and the count to the call.
The refinement maps all busy states to `loading`: each step is a `Begin`, a
`Store`, a `Close` or a stutter.

**Delivery**, for any number of records, streams, keys and faults, any caps and
any choice of the records that come in BATCH messages: `BookmarkCovered`,
`LastWriteWins`, `BatchWithinCaps`, `BytesTally` and the refinement of
`AtLeastOnce`, from four invariants, one on top of the other.

- `IInv`, for the bookmark, because `WriteState` moves the bookmark over records
  it does not look at. `Placed` says where every record read is: in its table, in
  the batch of its sink, or in the BATCH message being loaded. `DrainedEmpty` and
  `Quiet` tie the stage of a drain to its batch, so that when all drains have ended
  the only place left is the table. `NextRefines` gets the refinement from the same
  facts.
- `OInv`, for the order of upserts. That a record is in its table does not say
  which row the table keeps. `KeptOrPlaced` says that the row of a record read is
  kept under its key (`Kept`, which allows for the exception `LastWriteWins`
  makes), or is yet to be inserted. For an insert to keep it so, a batch that
  holds a record must hold all the later ones of its stream that were buffered
  (`UpClosed`), and none at or below the bookmark (`Batches`): an old row is only
  ever inserted together with, or before, the newer ones.
- `Caps`, for the sizes: while records are read, every batch is below both caps
  without an exception, and only the one that is being flushed may be full.
- `Tallied`, for the bytes: a record is never added to a batch that holds it.

**ArrowBatch**, for any manifests and any number of faults: `RemovedOnlyLoaded`,
`BookmarkLoaded`, `MissingWasLoaded`, `CountedIsLoaded`, `InsertedPerFault`. The
bookmark, too, moves
over messages without looking at their files: `PassedLoaded` says that every
message before the one in progress is loaded, and of that one every file before
the one the loop is at. `AheadPresent` says that in a first run, and whenever a
rerun writes its files again, the files not yet reached exist; that a file is named
once is what keeps the clean-up of one message from them. `Tally` carries the
counter: in the middle of a message, the counter and the message's total are the
sum over the files behind. `InsertedPerFault` says that a file is inserted at most
once more than there were faults. Its invariant is `Repeats`: a file that the loop
has yet to insert in this run (`Yet`) was inserted at most as often as there were
faults, as each run that inserted it before ended in one.

**SumProofs** says what `MapThenSumSet` computes on every finite set: nothing for
the empty set, and with a new element its value more (`SumAdd`). The fold is a
recursive function on subsets that picks its elements by `CHOOSE`. The
library's induction theorems take a predicate for a parameter, which the provers
cannot instantiate; here the subsets that break a claim are collected in a set, and
a smallest one (`Smallest`, from the well-foundedness of the strict subset
ordering) cannot break it. `PartialExist` shows in this way that the
recursion defines something, `PartialAgree` that it does so uniquely, and
`SumRemove` that the order in which elements are picked does not matter.

**VersionActivation**, for any number of rows, versions and calls:
`ActiveVersionKept`, `OlderVersionsLeave`, `DeletionTimeKept`. Between a call and
its effect there is ClickHouse's queue. `Queued` says that every mutation in it is
of a version that has been activated, and marks rows only if there is a column to
mark them in; `DueServed` that a row which is due is removed, marked, or named by
one of them.

**SSHTunnel**, for any set of connections, any amount of data on each and any size
of a `recv`: `NoChannelAfterStop`, `AcceptedIsHandled`, `ForwardedWhenComplete`.
`InSession`: no channel is ever open without a session, so that it does not matter
how late the accept loop notices that it is to stop. `LoopHolds` and `ThreadsOK`:
the connection the loop is at is its own until the threads start. `PassedOn`: what
was passed on is the beginning of what was received, and what is missing is in the
hands of the thread, or was lost with it; a thread between two calls holds nothing
back. `EndIsLast`: the end of a stream comes after all of its data.

**TableSetup**, for any streams, rows, settings and number of runs, in two modules.

- `TableSetupProofs`: `TunnelOnce` and `NeverAround`. There is only one tunnel
  because only the main thread ever finds none: a row is buffered only for a
  prepared stream, a stream is prepared through the engine, and the engine is
  created with the address of a tunnel that stays cached after it has stopped
  (`EngineFirst`). `OnlyTheTunnel` carries the second theorem: engine and
  clients keep the address they were created with.
- `TableLifeProofs`: `SetupSuffices`, `KeysKept`, `FitsColumn`,
  `RepairKeepsAllowed`, from the invariant `LifeInv`. A process may end anywhere,
  and what it prepared outlives it. So `SetupOK` says of each stream what it was
  prepared with, `RowsOK` of each row what was there when it was buffered,
  `TablesOK` that a table collapses only if it has a key that begins its sorting
  key, and `OwnTables` that, where streams do not share one, a table has the keys and
  the column types of its stream. The lemmas about the rules are for every value and
  every property of any number of types: `RepairKeepsValid` (what is valid stays so),
  `RepairMakesStrings`, and `AcceptedFits`, which sets the two places that decide
  about NULL side by side.

Only model-checked: liveness (`CallEnds`, `AllDelivered`, `Completes`,
`StopEndsLoop`, `ClientGoneIsCleanedUp`), which is out of the prover's reach, as is
ENABLED; and that the properties fail on the defects and the five runs of section 5
on the code as it is, which are statements about single behaviours.

## 5. Where the code and its documentation differ

1. **A fallback inserts a batch twice** (`insert_once`). The description of
   `insert_retry_max_tries` promises that an ambiguous failure "is not retried
   here, to avoid risking a duplicate insert". It is not retried in the loop, but
   the `except` clause of `bulk_insert_records` (`sinks.py` 164) then inserts the
   whole batch through SQLAlchemy. `CopiesBounded` and `DuplicateNeedsLostReply`
   say how far this goes: no duplicate without an ambiguous failure, and two copies,
   three for an Arrow file, if the library's `ConnectionError` is never ambiguous.
   The run assumes that much, so that what it shows is the fallback alone.
2. **`optimize_after` is not applied to Arrow tables** (`insert_optimized`) that
   the fast or native insert takes (`sinks.py` 368 and 394).
3. **Soft deletion without metadata columns marks nothing** (`version_null`). The
   column `activate_version` creates is not Nullable (`sinks.py` 521), so its test
   for NULL never holds.
4. **A partial send loses data** (`tunnel_forwarded`). The count that `send`
   returns is ignored (`ssh_tunnel.py` 145 and 156).
5. **One reset connection ends the tunnel** (`tunnel_survives`). `getpeername`
   raises `OSError`, and the handler leaves the accept loop (`ssh_tunnel.py` 117).

Observations without a document to compare them with. A hard deletion also
removes the rows of the version it activates, if they are stored by then: line
509 has `<=` where line 527 has `<`; and without the metadata columns every row
counts as version 0 and is removed. A client that resets its connection in mid
flow leaves a thread waiting on its channel until the server or the session ends.

- The retried exception is that of `requests` (`sinks.py` 45). `requests` raises it
  also for a connection lost after the body was sent: a retry then duplicates rows,
  once for each try. `clickhouse-connect` uses `urllib3`, and may never raise it: then
  nothing is retried in the loop.
- `insert_retry_max_tries` has no minimum (`target.py` 216-220). Below 1 the test of
  backoff, which compares the number of the attempt with it for equality, never
  succeeds: while the server refuses, the call does not end (`CallEnds` excepts it).
- With `sqlalchemy_url` an enabled tunnel is not used (`connectors.py` 148-149).
- A property that allows both texts and numbers has its valid numbers turned into
  texts: `5` becomes `"5"` under `["string", "integer"]`
  (`sinks.py` 681), although the docstring speaks of mismatches.
  `RepairKeepsAllowed` says what is left of a value that is allowed: it stays as it
  is, or it becomes a text, and only if its property allows a text.

The exceptions that the properties of `TableSetup` name are of this kind too; TLC
finds each of them when its exception is taken out.

- `SetupSuffices`: a `table_name` with a dot, `sales.t`, is created as the table
  `sales.t` of the database `sales`, and inserted into as `t` of `sales`
  (`connectors.py` 345-348, `sinks.py` 110). With `sqlalchemy_url` the bootstrap
  connection names the database it is to create (`connectors.py` 221).
- `KeysKept`: streams that share one `table_name` write into the table made for the
  first of them, with its keys and its engine: rows of the others may collapse.
- `FitsColumn`: a column whose property allows `null` only in an `anyOf` is not
  Nullable (`connectors.py` 305), nor is a key; a `time` that does not parse becomes
  `None` for a column of type String (`sinks.py` 611); a property of several types
  has one column, which may not hold the others (`Mixed`).
- A mixed stream: a BATCH message overtakes buffered records (`sinks.py` 322).
- `TunnelOnce` holds without a lock only because the engine is created, by the main
  thread, before any sink is drained. After SIGTERM the process goes on without
  its tunnel, and its next statement fails.
- Two tables cannot share a `table_path` without `$table_name`: the second is refused.
- `ADD COLUMN` is sent without `ON CLUSTER`, which `CREATE TABLE` and `MODIFY COLUMN`
  have (`connectors.py` 474 and 510).

## 6. What is not modelled

- The settings' schema, the logger and the command line: declarations and I/O.
- Decoding of Arrow files, value conversion inside the drivers, SQL text.
- Key parsing (`guess_key_type`) and the SSH handshake: that they may fail is.
- What a `clickhouse-connect` client is left in by a failed call; an insert that the
  server executes after the target has given up on it.
- The ranges of the columns: every number and every parsed date is taken to fit,
  although DateTime, Date32 and Int64 end somewhere.
- Properties without a type, formats of properties of several types, keys outside
  the schema, values nested deeper than one level.
- ON CLUSTER and replication: there is one server.

## 7. Plan

In order of importance:

1. `InsertPath` over `BulkLoad`, with its proofs. *Done.*
2. `Delivery` over `AtLeastOnce`. *Done.*
3. `ArrowBatch`, `VersionActivation`, `SSHTunnel`. *Done.*
4. `Connector`, `TableEngines`, `RecordRules`, and `TableSetup`, which composes
   them; BATCH messages in `Delivery`. *Done.*
5. Proofs about `Delivery` and about the tunnel in `TableSetup`. *Done.*
6. Proofs about `ArrowBatch`, `VersionActivation`, `SSHTunnel`, the tables of
   `TableSetup`, and the sums. *Done.*
7. What is left: hazards without a property (`PROJECT.json` says why for each), of
   which the late insert that a server executes after a fallback is the most
   important; `Delivery` would have to keep inserts in flight.

To check a module: `tlc -config MCInsertPath.cfg MCInsertPath.tla`, and likewise
for the others; to check the proofs: `tlapm InsertPathProofs.tla`, and likewise for
the other seven modules whose names end in `Proofs`.
