------------------------------ MODULE MCPacer ------------------------------
(* Three rangefeed scans sharing an elastic CPU queue of one token. *)
EXTENDS Pacer

CONSTANTS p1, p2, p3

MCScans == {p1, p2, p3}
=============================================================================
