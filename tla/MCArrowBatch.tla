---------------------------- MODULE MCArrowBatch ----------------------------
(***************************************************************************)
(* Instance of ArrowBatch for TLC: a message with two files and one with a *)
(* single file, which is empty, and up to three faults.                    *)
(***************************************************************************)
EXTENDS ArrowBatch, TLC

CONSTANTS f1, f2, f3

MCManifests == <<<<f1, f2>>, <<f3>>>>
MCRowsIn    == (f1 :> 2) @@ (f2 :> 1) @@ (f3 :> 0)
=============================================================================
