---------------------------- MODULE TableEngines ----------------------------
(***************************************************************************)
(* The table engines of target_clickhouse/engine_class.py, and what        *)
(* ClickHouse makes of them.                                               *)
(*                                                                         *)
(* The eight engines are four families of MergeTree, each replicated or    *)
(* not.  When ClickHouse merges the parts of a table, a MergeTree keeps    *)
(* every row; the other families collapse the rows that agree on the       *)
(* sorting key into one.  The empty sorting key, ORDER BY tuple(), is the  *)
(* same for all rows.                                                      *)
(*                                                                         *)
(* The _Defect operators are plausible mistakes, as in module InsertPath.  *)
(***************************************************************************)

SupportedEngines ==
  [family : {"Merge", "Replacing", "Summing", "Aggregating"},
   replicated : BOOLEAN]

Collapsing == {e \in SupportedEngines : e.family # "Merge"}

COLLAPSING_ENGINE_FALLBACK ==
  [e \in Collapsing |-> [e EXCEPT !.family = "Merge"]]

Unset == {"unset"}    \* of a setting that is a list of columns

\* The engine of a table that was never made: the wrapper raises.
NoEngine == [error |-> "ValueError"]

create_engine_wrapper_Defect(e, keys, order_by_keys, path, replica, name) ==
  LET used == IF order_by_keys = Unset /\ keys = {} /\ e \in Collapsing
              THEN COLLAPSING_ENGINE_FALLBACK[e] ELSE e
  IN  IF used.replicated /\ (path = "unset" \/ ~replica) THEN NoEngine
      ELSE [engine |-> used, primary_key |-> keys,
            order_by |-> IF order_by_keys # Unset THEN order_by_keys ELSE keys,
            path |-> IF path = "$table_name" THEN name ELSE path]

\* A stream without keys never gets a collapsing engine, whatever its table is
\* to be ordered by.  A replicated engine needs a path and a replica name.
create_engine_wrapper(e, keys, order_by_keys, path, replica, name) ==
  LET used == IF keys = {} /\ e \in Collapsing
              THEN COLLAPSING_ENGINE_FALLBACK[e] ELSE e
  IN  IF used.replicated /\ (path = "unset" \/ ~replica) THEN NoEngine
      ELSE [engine |-> used, primary_key |-> keys,
            order_by |-> IF order_by_keys # Unset THEN order_by_keys ELSE keys,
            path |-> IF path = "$table_name" THEN name ELSE path]

\* ClickHouse takes a primary key only as a prefix of the sorting key, and of
\* two tables with one path in ZooKeeper only the first.
Accepted(made, others) ==
  /\ made.primary_key \subseteq made.order_by
  /\ made.engine.replicated => \A o \in others : o.path # made.path
=============================================================================
