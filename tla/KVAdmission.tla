---------------------------- MODULE KVAdmission ----------------------------
(***************************************************************************)
(* The KV admission controller of pkg/kv/kvserver/kvadmission: the request *)
(* path.  Many requests call AdmitKVWork concurrently; each is routed      *)
(* through the per-store write queue and then through either the elastic  *)
(* CPU queue (single export requests) or the general KV work queue, and   *)
(* later reports completion with AdmittedKVWorkDone.                       *)
(*                                                                         *)
(* The three capacity subsystems are external collaborators.  Each is     *)
(* modelled only at its interface: a ledger of the tokens it has handed   *)
(* out per request, a capacity that non-bypassed work waits for, and the  *)
(* three outcomes of Admit (an error such as a cancelled context, a       *)
(* granted token, or an admission that charges nothing).                  *)
(***************************************************************************)
EXTENDS Classification, Integers, FiniteSets

CONSTANTS
  Req,           \* the concurrent request-handling goroutines
  Stores,        \* store IDs a batch may target
  QueuedStores,  \* the stores for which TryGetQueueForStore is non-nil
  Cap,           \* capacity of each queue for non-bypassed work
  NoStore,       \* a nil storeAdmissionQ in a Handle
  Kinds          \* the shapes of a BatchRequest that routing tells apart

ASSUME StoresAssumption ==
  /\ Stores # {} /\ QueuedStores \subseteq Stores /\ NoStore \notin Stores
ASSUME CapAssumption == Cap \in Nat

(* The routing facts of a BatchRequest: IsWrite, IsSingleHeartbeatTxnRequest *)
(* and IsSingleExportRequest.  A heartbeat is a write; an export is a read.  *)
BatchKinds ==
  [read      |-> [isWrite |-> FALSE, isHeartbeat |-> FALSE, isExport |-> FALSE],
   export    |-> [isWrite |-> FALSE, isHeartbeat |-> FALSE, isExport |-> TRUE],
   write     |-> [isWrite |-> TRUE,  isHeartbeat |-> FALSE, isExport |-> FALSE],
   heartbeat |-> [isWrite |-> TRUE,  isHeartbeat |-> TRUE,  isExport |-> FALSE]]

ASSUME KindsAssumption == Kinds \subseteq DOMAIN BatchKinds

-----------------------------------------------------------------------------
VARIABLES
  configured,  \* the three queues are non-nil (fixed by MakeController)
  pc,          \* where each request is in AdmitKVWork / its work
  work,        \* the classified request a goroutine is admitting
  handle,      \* the Handle the goroutine is building or holds
  storeHeld,   \* storeHeld[s][r]: tokens of r outstanding at store queue s
  kvHeld,      \* kvHeld[r]: slots of r outstanding at the KV work queue
  cpuHeld      \* cpuHeld[r]: elastic CPU tokens of r outstanding

vars == <<configured, pc, work, handle, storeHeld, kvHeld, cpuHeld>>

PCs == {"Idle", "StoreAdmit", "ElasticAdmit", "KVAdmit", "Working"}

Work == [bypass : BOOLEAN, store : Stores, write : BOOLEAN, export : BOOLEAN]

Handles == [storeQ : QueuedStores \cup {NoStore}, elastic : BOOLEAN,
            callKV : BOOLEAN]

EmptyHandle == [storeQ |-> NoStore, elastic |-> FALSE, callKV |-> FALSE]

(* Number of requests holding a token of a queue's ledger. *)
InUse(held) == Cardinality({x \in Req : held[x] > 0})

(* A queue admits non-bypassed work only while it has capacity; bypassed  *)
(* work is admitted at once and taken without permission.                 *)
CanGrant(held, bypass) == bypass \/ InUse(held) < Cap

(* Releasing a token back to a queue. *)
Release(held, r) == [held EXCEPT ![r] = @ - 1]
Acquire(held, r) == [held EXCEPT ![r] = @ + 1]

(* The step AdmitKVWork takes after the store queue: lines 235-236. *)
NextStage(w) == IF w.export THEN "ElasticAdmit" ELSE "KVAdmit"

(* The deferred rollback of the store token (lines 225-230): on an error  *)
(* return, the token recorded in ah is released with zero bytes.          *)
RollbackStore(r) ==
  IF handle[r].storeQ # NoStore
  THEN storeHeld' = [storeHeld EXCEPT ![handle[r].storeQ] = Release(@, r)]
  ELSE UNCHANGED storeHeld

-----------------------------------------------------------------------------
Init ==
  /\ configured \in BOOLEAN
  /\ pc = [r \in Req |-> "Idle"]
  /\ work = [r \in Req |-> CHOOSE w \in Work : TRUE]
  /\ handle = [r \in Req |-> EmptyHandle]
  /\ storeHeld = [s \in QueuedStores |-> [r \in Req |-> 0]]
  /\ kvHeld = [r \in Req |-> 0]
  /\ cpuHeld = [r \in Req |-> 0]

(* The classified request: the WorkInfo's bypass flag (lines 179-206) and *)
(* the routing facts of lines 215-216 and 236.                            *)
RequestWork(tenant, isAdmin, source, pri, bulkOnly, kind, store) ==
  [bypass |-> BypassAdmission(tenant, isAdmin, source, pri, bulkOnly),
   store  |-> store,
   write  |-> BatchKinds[kind].isWrite /\ ~BatchKinds[kind].isHeartbeat,
   export |-> BatchKinds[kind].isExport]

(* The first suspension point of AdmitKVWork: none when the queues are nil *)
(* (lines 175-177), the store queue for a write that is not a heartbeat   *)
(* to a store with a queue (lines 215-217), else the next stage.          *)
FirstStage(w) ==
  IF ~configured THEN "Working"
  ELSE IF w.write /\ w.store \in QueuedStores THEN "StoreAdmit"
  ELSE NextStage(w)

(* AdmitKVWork up to its first suspension point (lines 174-216).          *)
AdmitKVWork(r) ==
  /\ pc[r] = "Idle"
  /\ handle' = [handle EXCEPT ![r] = EmptyHandle]
  /\ \E tenant \in Tenants, isAdmin \in BOOLEAN, source \in Sources,
        pri \in Priorities, bulkOnly \in BOOLEAN, kind \in Kinds,
        store \in Stores :
       LET w == RequestWork(tenant, isAdmin, source, pri, bulkOnly, kind, store)
       IN  /\ work' = [work EXCEPT ![r] = w]
           /\ pc' = [pc EXCEPT ![r] = FirstStage(w)]
  /\ UNCHANGED <<configured, storeHeld, kvHeld, cpuHeld>>

(* storeAdmissionQ.Admit returns an error (lines 218-222): nothing was    *)
(* acquired and no rollback is registered yet.                           *)
StoreAdmitError(r) ==
  /\ pc[r] = "StoreAdmit"
  /\ pc' = [pc EXCEPT ![r] = "Idle"]
  /\ handle' = [handle EXCEPT ![r] = EmptyHandle]
  /\ UNCHANGED <<configured, work, storeHeld, kvHeld, cpuHeld>>

(* storeAdmissionQ.Admit grants a token with admission enabled (lines     *)
(* 223-232): the rollback is registered and the token recorded in ah.     *)
StoreAdmitGranted(r) ==
  LET s == work[r].store IN
  /\ pc[r] = "StoreAdmit"
  /\ CanGrant(storeHeld[s], work[r].bypass)
  /\ storeHeld' = [storeHeld EXCEPT ![s] = Acquire(@, r)]
  /\ handle' = [handle EXCEPT ![r].storeQ = s]
  /\ pc' = [pc EXCEPT ![r] = NextStage(work[r])]
  /\ UNCHANGED <<configured, work, kvHeld, cpuHeld>>

(* Admit succeeds but AdmissionEnabled() is false (lines 223-224, 235):   *)
(* nothing is charged, nothing recorded, and neither the elastic nor the  *)
(* KV queue is consulted: AdmitKVWork returns the empty handle.          *)
StoreAdmitExempt(r) ==
  /\ pc[r] = "StoreAdmit"
  /\ pc' = [pc EXCEPT ![r] = "Working"]
  /\ UNCHANGED <<configured, work, handle, storeHeld, kvHeld, cpuHeld>>

(* elasticCPUWorkQueue.Admit fails (lines 249-254): the deferred store    *)
(* rollback runs before the error reaches the caller.                    *)
ElasticAdmitError(r) ==
  /\ pc[r] = "ElasticAdmit"
  /\ RollbackStore(r)
  /\ pc' = [pc EXCEPT ![r] = "Idle"]
  /\ handle' = [handle EXCEPT ![r] = EmptyHandle]
  /\ UNCHANGED <<configured, work, kvHeld, cpuHeld>>

(* Fault: the else of line 262 lost; a granted export falls through to    *)
(* the KV queue as well.                                                   *)
ElasticAdmitGrantedFallThrough(r) ==
  /\ pc[r] = "ElasticAdmit"
  /\ CanGrant(cpuHeld, work[r].bypass)
  /\ cpuHeld' = Acquire(cpuHeld, r)
  /\ handle' = [handle EXCEPT ![r].elastic = TRUE]
  /\ pc' = [pc EXCEPT ![r] = "KVAdmit"]
  /\ UNCHANGED <<configured, work, storeHeld, kvHeld>>

(* elasticCPUWorkQueue.Admit grants a token (lines 255-261, 270).  The    *)
(* rollback registered here never fires since the call then returns nil.  *)
ElasticAdmitGranted(r) ==
  /\ pc[r] = "ElasticAdmit"
  /\ CanGrant(cpuHeld, work[r].bypass)
  /\ cpuHeld' = Acquire(cpuHeld, r)
  /\ handle' = [handle EXCEPT ![r].elastic = TRUE]
  /\ pc' = [pc EXCEPT ![r] = "Working"]
  /\ UNCHANGED <<configured, work, storeHeld, kvHeld>>

(* elasticCPUWorkQueue.Admit returns a nil handle and no error, as it does *)
(* when elastic CPU control is disabled: ah.ElasticCPUWorkHandle is nil.   *)
ElasticAdmitNoHandle(r) ==
  /\ pc[r] = "ElasticAdmit"
  /\ pc' = [pc EXCEPT ![r] = "Working"]
  /\ UNCHANGED <<configured, work, handle, storeHeld, kvHeld, cpuHeld>>

(* Fault: the store rollback of lines 225-230 not registered. *)
KVAdmitErrorNoRollback(r) ==
  /\ pc[r] = "KVAdmit"
  /\ pc' = [pc EXCEPT ![r] = "Idle"]
  /\ handle' = [handle EXCEPT ![r] = EmptyHandle]
  /\ UNCHANGED <<configured, work, storeHeld, kvHeld, cpuHeld>>

(* kvAdmissionQ.Admit fails (lines 263-266): store rollback, then error.  *)
KVAdmitError(r) ==
  /\ pc[r] = "KVAdmit"
  /\ RollbackStore(r)
  /\ pc' = [pc EXCEPT ![r] = "Idle"]
  /\ handle' = [handle EXCEPT ![r] = EmptyHandle]
  /\ UNCHANGED <<configured, work, kvHeld, cpuHeld>>

(* kvAdmissionQ.Admit succeeds and took a slot (lines 267-270): the       *)
(* handle records that AdmittedWorkDone must give it back.                *)
KVAdmitGranted(r) ==
  /\ pc[r] = "KVAdmit"
  /\ CanGrant(kvHeld, work[r].bypass)
  /\ kvHeld' = Acquire(kvHeld, r)
  /\ handle' = [handle EXCEPT ![r].callKV = TRUE]
  /\ pc' = [pc EXCEPT ![r] = "Working"]
  /\ UNCHANGED <<configured, work, storeHeld, cpuHeld>>

(* kvAdmissionQ.Admit succeeds without taking a slot (KV admission control *)
(* disabled): callAdmittedWorkDoneOnKVAdmissionQ is false.                *)
KVAdmitUncharged(r) ==
  /\ pc[r] = "KVAdmit"
  /\ pc' = [pc EXCEPT ![r] = "Working"]
  /\ UNCHANGED <<configured, work, handle, storeHeld, kvHeld, cpuHeld>>

(* Fault: the callAdmittedWorkDoneOnKVAdmissionQ check of line 276 lost. *)
AdmittedKVWorkDoneAlwaysKV(r) ==
  LET h == handle[r] IN
  /\ pc[r] = "Working"
  /\ cpuHeld' = IF h.elastic THEN Release(cpuHeld, r) ELSE cpuHeld
  /\ kvHeld' = Release(kvHeld, r)
  /\ storeHeld' = IF h.storeQ # NoStore
                  THEN [storeHeld EXCEPT ![h.storeQ] = Release(@, r)]
                  ELSE storeHeld
  /\ pc' = [pc EXCEPT ![r] = "Idle"]
  /\ UNCHANGED <<configured, work, handle>>

AdmittedKVWorkDone(r) ==
  LET h == handle[r] IN
  /\ pc[r] = "Working"
  /\ cpuHeld' = IF h.elastic THEN Release(cpuHeld, r) ELSE cpuHeld
  /\ kvHeld' = IF h.callKV THEN Release(kvHeld, r) ELSE kvHeld
  /\ storeHeld' = IF h.storeQ # NoStore
                  THEN [storeHeld EXCEPT ![h.storeQ] = Release(@, r)]
                  ELSE storeHeld
  /\ pc' = [pc EXCEPT ![r] = "Idle"]
  /\ UNCHANGED <<configured, work, handle>>

Next ==
  \E r \in Req :
    \/ AdmitKVWork(r)
    \/ StoreAdmitError(r) \/ StoreAdmitGranted(r) \/ StoreAdmitExempt(r)
    \/ ElasticAdmitError(r) \/ ElasticAdmitGranted(r) \/ ElasticAdmitNoHandle(r)
    \/ KVAdmitError(r) \/ KVAdmitGranted(r) \/ KVAdmitUncharged(r)
    \/ AdmittedKVWorkDone(r)

(***************************************************************************)
(* Fairness.  A queue grants a waiting request when capacity is free       *)
(* again and again (strong fairness: other requests compete for the same   *)
(* capacity), and a caller that got a handle eventually finishes its work  *)
(* and calls AdmittedKVWorkDone, as the Controller's contract demands.     *)
(* Nothing forces a context to be cancelled, so the error steps are not   *)
(* fair, nor are the outcomes that depend on a queue's settings (exempt,  *)
(* uncharged, nil handle), and nothing forces a new request to arrive.    *)
(***************************************************************************)
Fairness ==
  \A r \in Req :
    /\ SF_vars(StoreAdmitGranted(r))
    /\ SF_vars(ElasticAdmitGranted(r))
    /\ SF_vars(KVAdmitGranted(r))
    /\ WF_vars(AdmittedKVWorkDone(r))

Spec == Init /\ [][Next]_vars
FairSpec == Spec /\ Fairness

-----------------------------------------------------------------------------
TypeOK ==
  /\ configured \in BOOLEAN
  /\ pc \in [Req -> PCs]
  /\ work \in [Req -> Work]
  /\ handle \in [Req -> Handles]
  /\ storeHeld \in [QueuedStores -> [Req -> Nat]]
  /\ kvHeld \in [Req -> Nat]
  /\ cpuHeld \in [Req -> Nat]

(* The queues a request owes a completion to, according to its handle.     *)
OwesStore(r, s) == pc[r] # "Idle" /\ handle[r].storeQ = s
OwesKV(r) == pc[r] # "Idle" /\ handle[r].callKV
OwesCPU(r) == pc[r] # "Idle" /\ handle[r].elastic

Count(b) == IF b THEN 1 ELSE 0

(***************************************************************************)
(* Exactly-once accounting: at every moment, each queue's ledger holds     *)
(* exactly one token of a request when that request's Handle records it,   *)
(* and none otherwise.  So a request that got an error from AdmitKVWork    *)
(* holds nothing (the deferred rollback ran), a request back at Idle after *)
(* AdmittedKVWorkDone holds nothing (no leak), and no token is released    *)
(* twice or released to a queue that never granted it.                     *)
(***************************************************************************)
TokensMatchHandle ==
  /\ \A s \in QueuedStores, r \in Req : storeHeld[s][r] = Count(OwesStore(r, s))
  /\ \A r \in Req : kvHeld[r] = Count(OwesKV(r))
  /\ \A r \in Req : cpuHeld[r] = Count(OwesCPU(r))

-----------------------------------------------------------------------------
(***************************************************************************)
(* The refinement mapping to ControllerAbstract: a request is Admitting    *)
(* while it waits in a queue, and is charged by the queues its handle      *)
(* records (TokensMatchHandle says the ledgers agree).                     *)
(***************************************************************************)
AbsPhase ==
  [r \in Req |-> IF pc[r] \in {"Idle", "Working"} THEN pc[r] ELSE "Admitting"]

AbsCharged ==
  [r \in Req |->
     IF pc[r] = "Idle" THEN {}
     ELSE ({handle[r].storeQ} \ {NoStore})
          \cup (IF handle[r].elastic THEN {"elastic-cpu"} ELSE {})
          \cup (IF handle[r].callKV THEN {"kv"} ELSE {})]

Abstract == INSTANCE ControllerAbstract
              WITH StoreQueues <- QueuedStores,
                   phase <- AbsPhase, charged <- AbsCharged

ASSUME QueueNamesAssumption == {"kv", "elastic-cpu"} \cap QueuedStores = {}

(***************************************************************************)
(* The request path implements the Controller's promise: every step of    *)
(* AdmitKVWork and AdmittedKVWorkDone is a step of ControllerAbstract,    *)
(* so a request is charged by one store queue first and then by at most   *)
(* one of the KV and elastic CPU queues, and an error return or the        *)
(* completion leaves it charged by none.                                   *)
(***************************************************************************)
ImplementsController == Abstract!ASpec
=============================================================================
