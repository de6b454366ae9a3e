------------------------------ MODULE Delivery ------------------------------
(***************************************************************************)
(* How records get from the tap's messages into batches, and when the      *)
(* bookmark that covers them is emitted.                                   *)
(*                                                                         *)
(* The loop over the messages, the draining of the sinks and the writing   *)
(* of the state belong to the Singer SDK, which is not in the repository:  *)
(* those actions are external, modelled from what this target's sink and   *)
(* its tests use of them.  The sink decides when a batch is full           *)
(* (is_full), counts its bytes (process_record, mark_drained) and inserts  *)
(* it.  Of an insert this module knows what BulkLoad promises, and module  *)
(* InsertPath implements: it adds all the rows, or some of them before it  *)
(* falls back to another insert or raises.                                 *)
(*                                                                         *)
(* A stream may also send records in BATCH messages.  Their rows are not   *)
(* buffered: process_batch_files inserts them before the next message is   *)
(* read, whatever the sink still holds.  Here such a message has one row;  *)
(* module ArrowBatch has the files and their removal.                      *)
(*                                                                         *)
(* The process may be killed between any two steps, and an insert that     *)
(* raises ends it.  The pipeline is then run again from the last bookmark. *)
(* What is in the tables, and that bookmark, outlive the process.  It is   *)
(* assumed that the server has finished with an insert, or dropped it, by  *)
(* the time the target gives up on it.                                     *)
(*                                                                         *)
(* The _Defect operators are plausible mistakes, as in module InsertPath.  *)
(***************************************************************************)
EXTENDS Integers, FiniteSets, FiniteSetsExt

CONSTANTS N, Streams, Keys,
          StreamOf, KeyOf, SizeOf,  \* of each record
          Batched,                  \* the records that come in BATCH messages
          RowCaps, ByteCaps,        \* the caps considered
          MaxFaults                 \* bounds the faults of a behaviour

Records == 1 .. N

ASSUME RecordsAssumption ==
  /\ N \in Nat
  /\ StreamOf \in [Records -> Streams]
  /\ KeyOf \in [Records -> Keys]
  /\ SizeOf \in [Records -> Nat]
  /\ Batched \subseteq Records
  /\ \A i, j \in Records : KeyOf[i] = KeyOf[j] => StreamOf[i] = StreamOf[j]

ASSUME CapsAssumption ==
  /\ RowCaps \subseteq Nat \ {0}
  /\ ByteCaps \subseteq Nat \ {0}
  /\ MaxFaults \in Nat

VARIABLES
  cfg,      \* the caps: batch_size_rows and max_batch_bytes
  phase,    \* what the main thread does
  pos,      \* the records read by this run are those after its bookmark, to pos
  latest,   \* the last bookmark read from a STATE message
  held,     \* the copy of it drain_all has taken
  pending,  \* the batch of each sink
  bytes,    \* its _batch_bytes
  stage,    \* where the drain of each sink is
  emitted,  \* the last bookmark written
  copies,   \* copies of each record in the tables
  newest,   \* the record last inserted under each key, or 0
  faults    \* crashes, and inserts that failed

vars == <<cfg, phase, pos, latest, held, pending, bytes, stage,
          emitted, copies, newest, faults>>

sinks  == <<pending, bytes, stage>>
tables == <<copies, newest>>

Everywhere(x) == [s \in Streams |-> x]

Init ==
  /\ cfg \in [rows : RowCaps, bytes : ByteCaps]
  /\ phase = "reading" /\ pos = 0 /\ latest = 0 /\ held = 0
  /\ pending = Everywhere({}) /\ bytes = Everywhere(0)
  /\ stage = Everywhere("filling")
  /\ emitted = 0
  /\ copies = [i \in Records |-> 0] /\ newest = [k \in Keys |-> 0]
  /\ faults = 0

-----------------------------------------------------------------------------
(* Reading.                                                                *)

\* A sink whose batch must be drained before the next record is read.
is_full_Defect(batch, size) == Cardinality(batch) >= cfg.rows

is_full(batch, size) == Cardinality(batch) >= cfg.rows \/ size >= cfg.bytes

process_record(i) ==
  LET s == StreamOf[i] IN
  /\ pending' = [pending EXCEPT ![s] = @ \cup {i}]
  /\ bytes' = [bytes EXCEPT ![s] = @ + SizeOf[i]]

\* drain_all keeps the bookmark it will write before it drains anything.
StartDrainAll(p) == phase' = p /\ held' = latest

\* After each record every sink is drained if the oldest record is too old.
HandleMaxRecordAge ==
  \/ phase' = "reading" /\ UNCHANGED held
  \/ StartDrainAll("draining")

ReadRecord ==
  /\ phase = "reading" /\ pos < N /\ pos + 1 \notin Batched
  /\ pos' = pos + 1
  /\ process_record(pos')
  /\ LET s == StreamOf[pos'] IN
     IF is_full(pending'[s], bytes'[s])
     THEN phase' = "flushing" /\ stage' = [stage EXCEPT ![s] = "inserting"]
          /\ UNCHANGED held
     ELSE HandleMaxRecordAge /\ UNCHANGED stage
  /\ UNCHANGED <<cfg, latest, emitted, tables, faults>>

ReadBatch ==
  /\ phase = "reading" /\ pos + 1 \in Batched
  /\ pos' = pos + 1 /\ phase' = "loading"
  /\ UNCHANGED <<cfg, latest, held, sinks, emitted, tables, faults>>

ReadState_Defect ==
  /\ phase = "reading" /\ latest # pos
  /\ latest' = pos /\ emitted' = pos
  /\ UNCHANGED <<cfg, phase, pos, held, sinks, tables, faults>>

ReadState ==
  /\ phase = "reading" /\ latest # pos
  /\ latest' = pos
  /\ UNCHANGED <<cfg, phase, pos, held, sinks, emitted, tables, faults>>

EndOfInput_Defect ==
  /\ phase = "reading" /\ pos = N
  /\ phase' = "done"
  /\ UNCHANGED <<cfg, pos, latest, held, sinks, emitted, tables, faults>>

EndOfInput ==
  /\ phase = "reading" /\ pos = N
  /\ StartDrainAll("finishing")
  /\ UNCHANGED <<cfg, pos, latest, sinks, emitted, tables, faults>>

-----------------------------------------------------------------------------
(* Draining.  The sinks are drained in parallel, each by a thread.         *)

\* The row of a batch that the table keeps for a key: of equal sort keys, a
\* ReplacingMergeTree keeps the row inserted last.
LastOf(S) == Max(S)

\* An insert that leaves the records of S in the table.
Insert(S) ==
  /\ copies' = [i \in Records |-> copies[i] + IF i \in S THEN 1 ELSE 0]
  /\ newest' = [k \in Keys |->
       LET same == {i \in S : KeyOf[i] = k}
       IN  IF same = {} THEN newest[k] ELSE LastOf(same)]

StartDrain(s) ==
  /\ phase \in {"draining", "finishing"}
  /\ stage[s] = "filling"
  /\ stage' = [stage EXCEPT
       ![s] = IF pending[s] = {} THEN "drained" ELSE "inserting"]
  /\ UNCHANGED <<cfg, phase, pos, latest, held, pending, bytes,
                 emitted, tables, faults>>

mark_drained_Defect(s) ==
  /\ pending' = [pending EXCEPT ![s] = {}]
  /\ UNCHANGED bytes

mark_drained(s) ==
  /\ pending' = [pending EXCEPT ![s] = {}]
  /\ bytes' = [bytes EXCEPT ![s] = 0]

\* The main thread goes on after the one sink it flushed; in drain_all, and in
\* a process whose other threads have failed, the thread just ends.
InsertSucceeds(s) ==
  /\ stage[s] = "inserting"
  /\ Insert(pending[s])
  /\ mark_drained(s)
  /\ IF phase = "flushing"
     THEN stage' = [stage EXCEPT ![s] = "filling"] /\ HandleMaxRecordAge
     ELSE stage' = [stage EXCEPT ![s] = "drained"] /\ UNCHANGED <<phase, held>>
  /\ UNCHANGED <<cfg, pos, latest, emitted, faults>>

\* The exception of an insert that stored part of the batch is not raised again.
InsertFails_Defect(s) ==
  /\ stage[s] = "inserting" /\ faults < MaxFaults
  /\ \E S \in SUBSET pending[s] : Insert(S)
  /\ mark_drained(s)
  /\ IF phase = "flushing"
     THEN stage' = [stage EXCEPT ![s] = "filling"] /\ phase' = "reading"
     ELSE stage' = [stage EXCEPT ![s] = "drained"] /\ UNCHANGED phase
  /\ faults' = faults + 1
  /\ UNCHANGED <<cfg, pos, latest, held, emitted>>

\* Part of the batch is stored before the insert fails.  Either another insert
\* of the whole batch follows, or the exception ends the process.
InsertFails(s) ==
  /\ stage[s] = "inserting" /\ faults < MaxFaults
  /\ \E S \in SUBSET pending[s] : Insert(S)
  /\ \/ UNCHANGED <<stage, phase>>
     \/ stage' = [stage EXCEPT ![s] = "failed"] /\ phase' = "down"
  /\ faults' = faults + 1
  /\ UNCHANGED <<cfg, pos, latest, held, pending, bytes, emitted>>

\* The rows of a BATCH message.
process_batch_files ==
  /\ phase = "loading"
  /\ Insert({pos})
  /\ HandleMaxRecordAge
  /\ UNCHANGED <<cfg, pos, latest, sinks, emitted, faults>>

\* It may be inserted before its insert fails; and that may be the fallback.
BatchFails ==
  /\ phase = "loading" /\ faults < MaxFaults
  /\ \E S \in SUBSET {pos} : Insert(S)
  /\ phase' \in {"loading", "down"}
  /\ faults' = faults + 1
  /\ UNCHANGED <<cfg, pos, latest, held, sinks, emitted>>

\* drain_all joins its threads before it writes the bookmark.
WriteState_Defect ==
  /\ phase \in {"draining", "finishing"}
  /\ \A s \in Streams : stage[s] # "filling"
  /\ emitted' = held
  /\ phase' = IF phase = "finishing" THEN "done" ELSE "reading"
  /\ stage' = Everywhere("filling")
  /\ UNCHANGED <<cfg, pos, latest, held, pending, bytes, tables, faults>>

WriteState ==
  /\ phase \in {"draining", "finishing"}
  /\ \A s \in Streams : stage[s] = "drained"
  /\ emitted' = held
  /\ phase' = IF phase = "finishing" THEN "done" ELSE "reading"
  /\ stage' = Everywhere("filling")
  /\ UNCHANGED <<cfg, pos, latest, held, pending, bytes, tables, faults>>

-----------------------------------------------------------------------------
(* The process.                                                            *)

Crash ==
  /\ phase \notin {"down", "done"} /\ faults < MaxFaults
  /\ phase' = "down" /\ faults' = faults + 1
  /\ stage' = Everywhere("filling")
  /\ UNCHANGED <<cfg, pos, latest, held, pending, bytes, emitted, tables>>

\* The pipeline is run again: the tap resumes after the last bookmark, and the
\* target starts with no batch.
Restart ==
  /\ phase = "down"
  /\ phase' = "reading"
  /\ pos' = emitted /\ latest' = emitted /\ held' = emitted
  /\ pending' = Everywhere({}) /\ bytes' = Everywhere(0)
  /\ stage' = Everywhere("filling")
  /\ UNCHANGED <<cfg, emitted, tables, faults>>

Progress ==
  \/ ReadRecord
  \/ ReadBatch \/ process_batch_files
  \/ ReadState
  \/ EndOfInput
  \/ \E s \in Streams : StartDrain(s) \/ InsertSucceeds(s)
  \/ WriteState
  \/ Restart

Next ==
  Progress \/ (\E s \in Streams : InsertFails(s)) \/ BatchFails \/ Crash

\* The target does not stop while it has input or a batch to insert, and a
\* pipeline that failed is run again.
Spec == Init /\ [][Next]_vars /\ WF_vars(Progress)

-----------------------------------------------------------------------------
(* Properties.                                                             *)

\* Every variable keeps its type, and the bookmarks their order: the bookmark
\* written, the one drain_all holds, the last one read, the last record read.
TypeOK ==
  /\ cfg \in [rows : RowCaps, bytes : ByteCaps]
  /\ phase \in {"reading", "flushing", "loading", "draining", "finishing",
               "down", "done"}
  /\ pos \in 0 .. N /\ latest \in 0 .. pos
  /\ held \in 0 .. latest /\ emitted \in 0 .. held
  /\ pending \in [Streams -> SUBSET Records]
  /\ bytes \in [Streams -> Nat]
  /\ stage \in [Streams -> {"filling", "inserting", "drained", "failed"}]
  /\ copies \in [Records -> Nat]
  /\ newest \in [Keys -> {0} \cup Records]
  /\ faults \in 0 .. MaxFaults

\* No record is lost: each record up to the bookmark is in its table, although
\* the sinks are drained in any order, in parallel, any of them may fail, and
\* records up to the bookmark may have been flushed long before it was read.
BookmarkCovered == \A i \in 1 .. emitted : copies[i] > 0

\* Upserts keep their order: the row the table keeps for a key is never older
\* than the newest record of that key up to the bookmark, even after a crash
\* has made older records be inserted again (order_by and ReplacingMergeTree,
\* tests/test_upsert_dedup.py).  One thing undoes it: a BATCH message is loaded
\* past the older records of its stream that are still in the batch (sinks.py,
\* line 322).
LastWriteWins ==
  \A i \in 1 .. emitted :
     \/ newest[KeyOf[i]] >= i
     \/ i \in Batched /\ newest[KeyOf[i]] \in Records \ Batched

\* A batch is below both caps but for its last record: nothing is read into a
\* sink that is full by rows or by bytes (sinks.py, line 74).
BatchWithinCaps ==
  \A s \in Streams :
     LET before == pending[s] \ {pos} IN
     /\ Cardinality(before) < cfg.rows
     /\ bytes[s] - (IF pos \in pending[s] THEN SizeOf[pos] ELSE 0) < cfg.bytes

\* The byte tally is that of the batch, across batches, runs and failures
\* (sinks.py, lines 89 and 97).
BytesTally ==
  \A s \in Streams :
     bytes[s] = MapThenSumSet(LAMBDA i : SizeOf[i], pending[s])

\* However it is interrupted, the pipeline ends with every record delivered.
AllDelivered == <>(phase = "done" /\ \A i \in Records : copies[i] > 0)

\* The target is at-least-once: it implements module AtLeastOnce.
Contract == INSTANCE AtLeastOnce WITH
  bookmark <- emitted, delivered <- {i \in Records : copies[i] > 0}
ContractSpec == Contract!Spec
=============================================================================
