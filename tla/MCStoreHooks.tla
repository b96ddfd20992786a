---------------------------- MODULE MCStoreHooks ----------------------------
(* Small instance of StoreHooks for TLC. *)
EXTENDS StoreHooks

CONSTANTS s1, s2

MCStores == {s1, s2}
MCQueuedStores == {s1}
=============================================================================
