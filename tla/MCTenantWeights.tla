-------------------------- MODULE MCTenantWeights --------------------------
(* Two stores, one with a queue, and two weight maps a provider returns. *)
EXTENDS TenantWeights

CONSTANTS s1, s2, m1, m2

MCStores == {s1, s2}
MCQueuedStores == {s1}
MCWeightMaps == {m1, m2}
=============================================================================
