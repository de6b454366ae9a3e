---------------------------- MODULE AtLeastOnce ----------------------------
(***************************************************************************)
(* What a Singer target owes the pipeline that feeds it: the bookmark it   *)
(* emits never runs ahead of the table.  A pipeline that is restarted from *)
(* the last bookmark then loses no record, though it may deliver some of   *)
(* them again.                                                             *)
(***************************************************************************)
EXTENDS Naturals

CONSTANT N           \* the records of the source, numbered in order

VARIABLES bookmark,  \* the last bookmark emitted: it covers 1 .. bookmark
          delivered  \* the records that are in their tables

vars == <<bookmark, delivered>>

Init == bookmark = 0 /\ delivered = {}

Deliver ==
  /\ \E S \in SUBSET (1 .. N) : delivered' = delivered \cup S
  /\ UNCHANGED bookmark

Acknowledge ==
  /\ bookmark' \in bookmark .. N
  /\ 1 .. bookmark' \subseteq delivered
  /\ UNCHANGED delivered

Next == Deliver \/ Acknowledge

Spec == Init /\ [][Next]_vars
=============================================================================
