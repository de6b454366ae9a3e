----------------------------- MODULE MCSSHTunnel -----------------------------
(***************************************************************************)
(* Instances of SSHTunnel for TLC.  Two connections share the accept loop, *)
(* the session and stop, and on one of them the client writes a unit.  One *)
(* connection alone carries more data, since connections share none: the   *)
(* client writes up to two units, received one or two at a time, and the   *)
(* server one.                                                             *)
(***************************************************************************)
EXTENDS SSHTunnel, TLC

CONSTANTS c1, c2

MCTwoConns == {c1, c2}
MCTwoUnits == (c1 :> [up |-> 1, down |-> 0]) @@ (c2 :> [up |-> 0, down |-> 0])

MCOneConn == {c1}
MCOneUnits == c1 :> [up |-> 2, down |-> 1]
=============================================================================
