------------------------ MODULE MCVersionActivation ------------------------
(***************************************************************************)
(* Instance of VersionActivation for TLC: two rows, three versions and     *)
(* three calls, so that a version can be activated again after a crash, or *)
(* after a newer one, and while earlier mutations are waiting.             *)
(***************************************************************************)
EXTENDS VersionActivation
=============================================================================
