------------------------- MODULE VersionActivation -------------------------
(***************************************************************************)
(* ClickhouseSink.activate_version (target_clickhouse/sinks.py): the tap   *)
(* has sent a version of a whole table and asks for the rows of the older  *)
(* versions to be removed (hard_delete) or marked as deleted.  The call    *)
(* adds the columns it needs and then mutates the table, each on its own   *)
(* connection, so it may stop between any two of these.                    *)
(*                                                                         *)
(* The tap, the buffer and the SDK's metadata columns are external.  With  *)
(* add_record_metadata the SDK creates both columns, Nullable, and fills   *)
(* in the version of each record; without it only activate_version creates *)
(* them, and no record has a value for them.  ClickHouse records a         *)
(* mutation and answers at once; it applies the mutations later, in order, *)
(* to the rows that were in the table when they were recorded.  A column   *)
(* that is added without Nullable holds 0, or the epoch, in every row.     *)
(*                                                                         *)
(* The _Defect operators are plausible mistakes, as in module InsertPath.  *)
(***************************************************************************)
EXTENDS Integers, Sequences

CONSTANTS N, MaxVersion, MaxCalls   \* bound the rows, versions and calls

ASSUME BoundsAssumption ==
  N \in Nat /\ MaxVersion \in Nat \ {0} /\ MaxCalls \in Nat

Rows  == 1 .. N
Null  == -1
Epoch == 0

VARIABLES
  cfg,      \* hard_delete and add_record_metadata
  pc,       \* the next step of activate_version, "idle" or "down"
  current,  \* the version the tap is sending
  new,      \* new_version, of the call in progress
  calls,    \* the calls so far, of which a call takes its deleted_at
  exists,   \* whether the table does
  columns,  \* which of "version" and "deleted" it has
  where,    \* each row: "unsent", "pending", "stored" or "gone"
  version,  \* the version of the message that brought it
  mark,     \* its deletion column: Null, Epoch or a deleted_at
  queue,    \* the mutations ClickHouse has yet to apply
  (* observed by the properties *)
  called,   \* the highest version ever activated
  due       \* the rows that calls which returned were to remove or mark

vars == <<cfg, pc, current, new, calls, exists, columns, where, version,
          mark, queue, called, due>>

tap   == <<current, version>>
table == <<exists, columns, where, mark, queue>>

Init ==
  /\ cfg \in [hard_delete : BOOLEAN, metadata : BOOLEAN]
  /\ pc = "idle" /\ current = 1 /\ new = 1 /\ calls = 0
  /\ exists = FALSE /\ columns = {}
  /\ where = [r \in Rows |-> "unsent"]
  /\ version = [r \in Rows |-> 0] /\ mark = [r \in Rows |-> Null]
  /\ queue = <<>> /\ called = 0 /\ due = {}

-----------------------------------------------------------------------------
(* The tap, and the sink's buffer.                                         *)

NewVersion ==
  /\ pc = "idle" /\ current < MaxVersion
  /\ current' = current + 1
  /\ UNCHANGED <<cfg, pc, new, calls, table, version, called, due>>

\* The rows are alike, and sent in order.
Record(r) ==
  /\ pc = "idle" /\ where[r] = "unsent"
  /\ \A q \in 1 .. r - 1 : where[q] # "unsent"
  /\ where' = [where EXCEPT ![r] = "pending"]
  /\ version' = [version EXCEPT ![r] = current]
  /\ UNCHANGED <<cfg, pc, current, new, calls, exists, columns, mark, queue,
                 called, due>>

\* The SDK prepares the table, with its metadata columns if it has any.
Setup ==
  /\ pc = "idle" /\ ~exists
  /\ exists' = TRUE
  /\ columns' = IF cfg.metadata THEN {"version", "deleted"} ELSE {}
  /\ UNCHANGED <<cfg, pc, tap, new, calls, where, mark, queue, called, due>>

Unmarked == IF "deleted" \in columns /\ ~cfg.metadata THEN Epoch ELSE Null

Move(a, b) == [r \in Rows |-> IF where[r] = a THEN b ELSE where[r]]

\* The buffer is inserted.
Drain ==
  /\ pc = "idle" /\ exists
  /\ \E r \in Rows : where[r] = "pending"
  /\ where' = Move("pending", "stored")
  /\ mark' = [r \in Rows |->
                IF where[r] = "pending" THEN Unmarked ELSE mark[r]]
  /\ UNCHANGED <<cfg, pc, tap, new, calls, exists, columns, queue,
                 called, due>>

-----------------------------------------------------------------------------
(* activate_version.                                                       *)

Stored == {r \in Rows : where[r] = "stored"}

\* Without a table there is nothing to do.
activate_version ==
  /\ pc = "idle" /\ calls < MaxCalls
  /\ calls' = calls + 1 /\ new' = current
  /\ called' = IF current > called THEN current ELSE called
  /\ pc' = IF exists THEN "version" ELSE "idle"
  /\ UNCHANGED <<cfg, tap, table, due>>

AddVersionColumn_Defect ==
  /\ pc = "version"
  /\ pc' = IF cfg.hard_delete THEN "mutate" ELSE "deleted"
  /\ UNCHANGED <<cfg, tap, new, calls, table, called, due>>

AddVersionColumn ==
  /\ pc = "version"
  /\ columns' = columns \cup {"version"}
  /\ pc' = IF cfg.hard_delete THEN "mutate" ELSE "deleted"
  /\ UNCHANGED <<cfg, tap, new, calls, exists, where, mark, queue,
                 called, due>>

AddDeletedColumn ==
  /\ pc = "deleted"
  /\ columns' = columns \cup {"deleted"}
  /\ mark' = IF "deleted" \in columns THEN mark
             ELSE [r \in Rows |-> IF r \in Stored THEN Epoch ELSE mark[r]]
  /\ pc' = "mutate"
  /\ UNCHANGED <<cfg, tap, new, calls, exists, where, queue,
                 called, due>>

Mutation_Defect == [hard_delete |-> cfg.hard_delete, version |-> new - 1,
                    deleted_at |-> calls, rows |-> Stored]

Mutation == [hard_delete |-> cfg.hard_delete, version |-> new,
             deleted_at |-> calls, rows |-> Stored]

\* The statement is recorded.  If the answer comes the call returns.
Mutate ==
  /\ pc = "mutate"
  /\ queue' = Append(queue, Mutation)
  /\ \/ pc' = "idle"
        /\ due' = due \cup {r \in Stored : version[r] < new}
     \/ pc' = "down" /\ UNCHANGED due
  /\ UNCHANGED <<cfg, tap, new, calls, exists, columns, where, mark, called>>

-----------------------------------------------------------------------------
(* ClickHouse, and the process.                                            *)

TableVersion(r) == IF cfg.metadata THEN version[r] ELSE 0

ToDelete(m) ==
  {r \in m.rows \cap Stored : TableVersion(r) <= m.version}

ToMarkAgain_Defect(m) ==
  {r \in m.rows \cap Stored : TableVersion(r) < m.version}

ToMark_Defect(m) ==
  {r \in m.rows \cap Stored : TableVersion(r) <= m.version /\ mark[r] = Null}

\* WHERE version < :version AND deleted_at IS NULL
ToMark(m) ==
  {r \in m.rows \cap Stored : TableVersion(r) < m.version /\ mark[r] = Null}

ApplyMutation ==
  /\ queue # <<>> /\ queue' = Tail(queue)
  /\ LET m == Head(queue) IN
     IF m.hard_delete
     THEN /\ where' = [r \in Rows |->
                         IF r \in ToDelete(m) THEN "gone" ELSE where[r]]
          /\ UNCHANGED mark
     ELSE /\ mark' = [r \in Rows |->
                        IF r \in ToMark(m) THEN m.deleted_at ELSE mark[r]]
          /\ UNCHANGED where
  /\ UNCHANGED <<cfg, pc, tap, new, calls, exists, columns, called, due>>

\* The process is killed, or a statement fails before it has an effect.
Crash ==
  /\ pc # "down" /\ pc' = "down"
  /\ UNCHANGED <<cfg, tap, new, calls, table, called, due>>

\* A new run has an empty buffer.  It may replay the messages of an old version.
Restart ==
  /\ pc = "down" /\ pc' = "idle"
  /\ current' \in 1 .. current
  /\ where' = Move("pending", "unsent")
  /\ version' = [r \in Rows |->
                   IF where[r] = "pending" THEN 0 ELSE version[r]]
  /\ new' = current'
  /\ UNCHANGED <<cfg, calls, exists, columns, mark, queue, called, due>>

Activating == AddVersionColumn \/ AddDeletedColumn \/ Mutate

Next ==
  \/ NewVersion \/ Setup \/ Drain
  \/ \E r \in Rows : Record(r)
  \/ activate_version \/ Activating
  \/ ApplyMutation
  \/ Crash \/ Restart

Spec == Init /\ [][Next]_vars

-----------------------------------------------------------------------------
(* Properties.                                                             *)

\* Every variable keeps its type, and a mutation is sent only when the columns
\* it names exist, whatever an earlier call left undone (lines 494-523).
TypeOK ==
  /\ cfg \in [hard_delete : BOOLEAN, metadata : BOOLEAN]
  /\ pc \in {"idle", "version", "deleted", "mutate", "down"}
  /\ current \in 1 .. MaxVersion /\ new \in 1 .. MaxVersion
  /\ calls \in 0 .. MaxCalls /\ called \in 0 .. MaxVersion
  /\ exists \in BOOLEAN /\ columns \subseteq {"version", "deleted"}
  /\ where \in [Rows -> {"unsent", "pending", "stored", "gone"}]
  /\ version \in [Rows -> 0 .. MaxVersion]
  /\ mark \in [Rows -> Null .. MaxCalls]
  /\ due \subseteq Rows
  /\ pc = "mutate" =>
        "version" \in columns /\ (cfg.hard_delete \/ "deleted" \in columns)

\* No activation reaches too far, however many are repeated, interrupted or
\* applied late: only rows of versions before the highest one activated are
\* marked, and none of a later version is removed (lines 509 and 527).
ActiveVersionKept ==
  cfg.metadata =>
     \A r \in Rows :
        /\ mark[r] > Epoch => version[r] < called
        /\ where[r] = "gone" => version[r] <= called

\* None falls short: once the mutations are applied, every row that was in the
\* table when a later version was activated is removed or marked.  A deletion
\* column that activate_version has created is the exception: see below.
OlderVersionsLeave ==
  queue = <<>> /\ (cfg.hard_delete \/ cfg.metadata) =>
     \A r \in due : where[r] = "gone" \/ mark[r] > Epoch

\* A row that is marked keeps its time of deletion, although it is older than
\* every version that is activated later (line 528).
DeletionTimeKept ==
  [][\A r \in Rows : mark[r] > Epoch => mark'[r] = mark[r]]_vars

\* What a comment of the code says, and the code does not do.

\* "All date and time types should be flagged as Nullable to allow for NULL
\* value" (connectors.py, line 288): a row that no activation has marked has
\* NULL in its deletion column, which is how line 528 knows it.
NullUntilDeleted == \A r \in Stored : mark[r] # Epoch
=============================================================================
