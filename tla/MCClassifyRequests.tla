------------------------- MODULE MCClassifyRequests -------------------------
(* Small instance of ClassifyRequests for TLC. *)
EXTENDS ClassifyRequests

MCTenants == {1, 2}
\* the ends of the WorkPriority range and the neighbours of NormalPri
MCPriorities == {-128, -1, 0, 1, 127}
=============================================================================
