--------------------------- MODULE MCKVAdmission ---------------------------
(* Small instance of KVAdmission for TLC. *)
EXTENDS KVAdmission, Integers

CONSTANTS r1, r2, s1, s2

MCReq == {r1, r2}
MCStores == {s1, s2}
MCQueuedStores == {s1}
MCTenants == {1, 2}
\* BulkNormalPri (below NormalPri) and NormalPri
MCPriorities == {0 - 30, 0}
\* for liveness: classification does not matter, only whether a request
\* bypasses; the other tenant bypasses only under bulk-only admission
MCLiveTenants == {2}
MCKinds == {"read", "export", "write", "heartbeat"}
\* for liveness: the kinds that wait in a queue while holding a store token
\* (a write at the KV queue) or that wait at the elastic CPU queue (export)
MCLiveKinds == {"export", "write"}
=============================================================================
