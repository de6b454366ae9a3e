------------------------------ MODULE BulkLoad ------------------------------
(***************************************************************************)
(* What a batch insert promises its caller: "bulk_insert_records either    *)
(* inserts every row or raises" (target_clickhouse/sinks.py, line 383).    *)
(*                                                                         *)
(* A load works through a batch in any number of steps, each of which      *)
(* stores another copy of some of its rows.  It may report success only    *)
(* when every row of the batch is in the table, and it never stores a row  *)
(* that is not in the batch.  Nothing is promised about the rows of a load *)
(* that raises, nor that a row is stored only once: those are the subject  *)
(* of the properties of module InsertPath.                                 *)
(***************************************************************************)
EXTENDS Naturals

CONSTANT Rows

VARIABLES status,   \* "idle", "loading", "loaded", "raised" or "closed"
          batch,    \* the rows of the current load
          copies    \* copies of each row this load has stored

vars == <<status, batch, copies>>

Init ==
  /\ status = "idle"
  /\ batch = {}
  /\ copies = [r \in Rows |-> 0]

\* A new batch.  An empty one may be reported loaded at once.
Begin ==
  /\ status \in {"idle", "loaded"}
  /\ batch' \in SUBSET Rows
  /\ copies' = [r \in Rows |-> 0]
  /\ \/ status' = "loading"
     \/ status' = "loaded" /\ batch' = {}

\* A step stores the rows of S once more, and may end the load.
Store ==
  /\ status = "loading"
  /\ \E S \in SUBSET batch :
        copies' = [r \in Rows |-> copies[r] + IF r \in S THEN 1 ELSE 0]
  /\ status' \in {"loading", "loaded", "raised"}
  /\ status' = "loaded" => \A r \in batch : copies'[r] > 0
  /\ UNCHANGED batch

\* The sink is closed at the end of the stream.
Close ==
  /\ status \in {"idle", "loaded"}
  /\ status' = "closed"
  /\ UNCHANGED <<batch, copies>>

Next == Begin \/ Store \/ Close

Spec == Init /\ [][Next]_vars
=============================================================================
