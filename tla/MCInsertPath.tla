---------------------------- MODULE MCInsertPath ----------------------------
(***************************************************************************)
(* Instance of InsertPath for TLC: every combination of the settings, with *)
(* batches of at most two rows (enough to tell "none", "some" and "all" of *)
(* a batch apart) and up to three tries per loop (the default).            *)
(***************************************************************************)
EXTENDS InsertPath

CONSTANTS r1, r2

MCRows == {r1, r2}
=============================================================================
