---------------------------- MODULE MCTableSetup ----------------------------
(***************************************************************************)
(* Instance of TableSetup for TLC: a keyed stream that names a schema, a   *)
(* keyless one, two rows of each, and up to two runs.  Four slices of the  *)
(* settings, each the full product of those that act together: how the     *)
(* server is reached and what tables are called, which engine is asked     *)
(* for, which value meets which type, and which columns of a table that    *)
(* two streams share change their type.                                    *)
(***************************************************************************)
EXTENDS TableSetup, TLC

CONSTANTS orders, events, main

MCStreams  == {orders, events}
MCRows     == 1 .. 4
MCStreamOf == <<orders, orders, events, events>>
MCIdOf     == <<7, 7, 7, 7>>
MCKeyed    == {orders}
MCSchemaOf == (orders :> "sales") @@ (events :> "")

Text == [types |-> {"string"}, column |-> "string", null |-> "no",
         of |-> "none", format |-> "none"]

Base ==
  [url |-> FALSE, urldb |-> "default", tunnel |-> FALSE, driver |-> "http",
   database |-> "default", table_name |-> "unset",
   engine |-> [family |-> "Replacing", replicated |-> FALSE],
   order_by |-> Unset, path |-> "unset", replica |-> FALSE,
   validate |-> TRUE, enable_json |-> FALSE, key_c |-> FALSE,
   prop |-> [s \in MCStreams |-> Text], values |-> {Plain("text")},
   grown |-> {}, rows |-> {1, 2, 3, 4}]

Reaching ==
  {[Base EXCEPT !.url = u, !.urldb = ud, !.tunnel = t, !.driver = dr,
                !.database = d, !.table_name = n, !.rows = {1, 3}] :
     u \in BOOLEAN, ud \in {"default", "own"}, t \in BOOLEAN,
     dr \in {"http", "native"}, d \in {"default", "own"},
     n \in {"unset", "plain", "dotted"}}

Engines ==
  {[Base EXCEPT !.engine = e, !.order_by = o, !.path = p, !.replica = r,
                !.table_name = n, !.grown = MCStreams] :
     e \in SupportedEngines, o \in {Unset, {"id"}, {"id", "row"}, {"row"}},
     p \in {"unset", "fixed", "$table_name"}, r \in BOOLEAN,
     n \in {"unset", "plain"}}

\* Every property of one type, and of two: a string and another.
MCSchemas ==
  {c \in PropertySchemas :
     \/ \E t \in c.types : c.types = {t}
     \/ \E t \in {"integer", "object", "array"} : c.types = {"string", t}}

Typing ==
  {[Base EXCEPT !.prop = [s \in MCStreams |-> IF s = orders THEN c ELSE Text],
                !.values = Values, !.grown = MCStreams,
                !.key_c = k, !.validate = v, !.enable_json = j, !.rows = {1}] :
     c \in MCSchemas, k \in BOOLEAN, v \in BOOLEAN, j \in BOOLEAN}

\* Two streams that give a column of their common table different types.
Sharing ==
  {[Base EXCEPT !.table_name = "plain", !.grown = g, !.rows = {1, 3},
                !.prop = [s \in MCStreams |->
                            IF s = orders THEN Text
                            ELSE [Text EXCEPT !.types = {"integer"},
                                              !.column = "integer",
                                              !.null = "listed"]],
                !.values = {Plain("text"), Plain("number"), Plain("null")}] :
     g \in SUBSET MCStreams}

MCScenarios ==
  Sharing \cup
  {s \in Reaching : ~s.url => s.urldb = "default"} \cup
  {s \in Engines : s.engine.replicated \/ (s.path = "unset" /\ ~s.replica)} \cup
  {s \in Typing : s.enable_json => /\ s.prop[orders].column = "object"
                                   /\ s.prop[orders].null = "no"}
=============================================================================
