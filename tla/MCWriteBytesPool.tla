-------------------------- MODULE MCWriteBytesPool --------------------------
(* Small instance of WriteBytesPool for TLC. *)
EXTENDS WriteBytesPool

CONSTANTS r1, r2, o1, o2

MCReq == {r1, r2}
\* two objects: both requests can hold one, and an object released by one
\* request can be handed to the other
MCObjs == {o1, o2}
=============================================================================
