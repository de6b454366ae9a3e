----------------------------- MODULE MCDelivery -----------------------------
(***************************************************************************)
(* Instance of Delivery for TLC: two streams, three keys, five records of  *)
(* different sizes, two of the keys written twice, one of them by a record *)
(* in a BATCH message, caps that flush after two or three rows or after    *)
(* few bytes, and up to two faults.                                        *)
(***************************************************************************)
EXTENDS Delivery

CONSTANTS orders, users, o1, u1, u2

MCStreams  == {orders, users}
MCKeys     == {o1, u1, u2}
MCStreamOf == <<orders, users, orders, users, users>>
MCKeyOf    == <<o1, u1, o1, u1, u2>>
MCSizeOf   == <<1, 2, 2, 1, 1>>
MCRowCaps  == {2, 3}
MCByteCaps == {3, 9}
MCBatched  == {3}
=============================================================================
