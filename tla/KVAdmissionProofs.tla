------------------------- MODULE KVAdmissionProofs -------------------------
(***************************************************************************)
(* Proofs about the request path of KVAdmission, for every set of          *)
(* requests and stores and every capacity.                                 *)
(*                                                                         *)
(* TypeOK alone is not inductive: a release subtracts one from a ledger,   *)
(* which stays in Nat only because the ledger held that token.  And        *)
(* TokensMatchHandle alone is not inductive either: a grant adds a token   *)
(* and sets one field of the handle, which keeps the two in step only if   *)
(* that field was still empty.  HandleStage says which fields of the       *)
(* handle AdmitKVWork has filled at each of its suspension points.         *)
(***************************************************************************)
EXTENDS KVAdmission, ClassifyRequests, TLAPS

(* The handle fields that are filled at each point of AdmitKVWork: none    *)
(* while waiting in the store queue (which is then a queued store), only  *)
(* the store token while waiting in the elastic CPU or the KV queue.      *)
HandleStage ==
  \A r \in Req :
    /\ pc[r] = "StoreAdmit" =>
         handle[r] = EmptyHandle /\ work[r].store \in QueuedStores
    /\ pc[r] \in {"ElasticAdmit", "KVAdmit"} =>
         ~handle[r].elastic /\ ~handle[r].callKV

IInv == TypeOK /\ TokensMatchHandle /\ HandleStage

USE StoresAssumption, KindsAssumption, InputAssumption

LEMMA InitIInv == Init => IInv
<1> SUFFICES ASSUME Init PROVE IInv
  OBVIOUS
<1>1. (CHOOSE w \in Work : TRUE) \in Work
  <2>1. PICK s \in Stores : TRUE
    OBVIOUS
  <2>2. [bypass |-> FALSE, store |-> s, write |-> FALSE, export |-> FALSE] \in Work
    BY <2>1 DEF Work
  <2>3. QED
    BY <2>2
<1>2. TypeOK
  BY <1>1 DEF Init, TypeOK, PCs, Handles, EmptyHandle
<1>3. TokensMatchHandle
  BY DEF Init, TokensMatchHandle, OwesStore, OwesKV, OwesCPU, Count
<1>4. HandleStage
  BY DEF Init, HandleStage
<1>5. QED
  BY <1>2, <1>3, <1>4 DEF IInv

LEMMA RequestWorkType ==
  ASSUME NEW tenant, NEW isAdmin \in BOOLEAN, NEW source, NEW pri \in Int,
         NEW bulkOnly \in BOOLEAN, NEW kind \in Kinds, NEW store \in Stores
  PROVE  RequestWork(tenant, isAdmin, source, pri, bulkOnly, kind, store) \in Work
<1>1. BatchKinds[kind] \in [isWrite : BOOLEAN, isHeartbeat : BOOLEAN,
                            isExport : BOOLEAN]
  <2>1. kind \in {"read", "export", "write", "heartbeat"}
    BY DEF BatchKinds
  <2>2. CASE kind = "read"      BY <2>2 DEF BatchKinds
  <2>3. CASE kind = "export"    BY <2>3 DEF BatchKinds
  <2>4. CASE kind = "write"     BY <2>4 DEF BatchKinds
  <2>5. CASE kind = "heartbeat" BY <2>5 DEF BatchKinds
  <2>6. QED
    BY <2>1, <2>2, <2>3, <2>4, <2>5
<1>2. BypassAdmission(tenant, isAdmin, source, pri, bulkOnly) \in BOOLEAN
  BY DEF BypassAdmission
<1>3. QED
  BY <1>1, <1>2, Zenon DEF RequestWork, Work

LEMMA AdmitKVWorkIInv ==
  ASSUME IInv, NEW r \in Req, AdmitKVWork(r) PROVE IInv'
<1> USE DEF IInv, TypeOK, TokensMatchHandle, HandleStage, OwesStore, OwesKV,
            OwesCPU, Count
<1>1. PICK w \in Work : /\ work' = [work EXCEPT ![r] = w]
                        /\ pc' = [pc EXCEPT ![r] = FirstStage(w)]
  BY RequestWorkType DEF AdmitKVWork
<1>2. FirstStage(w) \in PCs \ {"Idle"}
  BY DEF FirstStage, NextStage, PCs
<1>3. TypeOK'
  BY <1>1, <1>2 DEF AdmitKVWork, PCs, Handles, EmptyHandle
<1>4. TokensMatchHandle'
  BY <1>1, <1>2 DEF AdmitKVWork, EmptyHandle
<1>5. HandleStage'
  BY <1>1 DEF AdmitKVWork, EmptyHandle, FirstStage, NextStage
<1>6. QED
  BY <1>3, <1>4, <1>5

LEMMA StoreAdmitErrorIInv ==
  ASSUME IInv, NEW r \in Req, StoreAdmitError(r) PROVE IInv'
<1> USE DEF IInv, TypeOK, TokensMatchHandle, HandleStage, OwesStore, OwesKV,
            OwesCPU, Count
<1>1. TypeOK'
  BY DEF StoreAdmitError, PCs, Handles, EmptyHandle
<1>2. TokensMatchHandle'
  BY DEF StoreAdmitError, EmptyHandle
<1>3. HandleStage'
  BY DEF StoreAdmitError
<1>4. QED
  BY <1>1, <1>2, <1>3

LEMMA StoreAdmitGrantedIInv ==
  ASSUME IInv, NEW r \in Req, StoreAdmitGranted(r) PROVE IInv'
<1> DEFINE s == work[r].store
<1>1. s \in QueuedStores /\ handle[r] = EmptyHandle
  BY DEF StoreAdmitGranted, IInv, HandleStage
<1>2. NextStage(work[r]) \in {"ElasticAdmit", "KVAdmit"}
  BY DEF NextStage
<1>3. /\ handle'[r].storeQ = s /\ ~handle'[r].elastic /\ ~handle'[r].callKV
      /\ handle'[r] \in Handles
  <2>1. handle'[r] = [handle[r] EXCEPT !.storeQ = s]
    BY DEF StoreAdmitGranted, IInv, TypeOK
  <2>2. handle'[r].storeQ = s /\ ~handle'[r].elastic /\ ~handle'[r].callKV
    BY <1>1, <2>1 DEF EmptyHandle
  <2>3. handle[r] \in Handles /\ s \in QueuedStores
    BY <1>1 DEF IInv, TypeOK
  <2>4. handle'[r] \in Handles
    BY <2>1, <2>3 DEF Handles
  <2>5. QED
    BY <2>2, <2>4
<1>4. TypeOK'
  BY <1>1, <1>2, <1>3 DEF StoreAdmitGranted, Acquire, PCs, Handles, IInv, TypeOK
<1>5. TokensMatchHandle'
  BY <1>1, <1>2, <1>3 DEF StoreAdmitGranted, Acquire, IInv, TypeOK,
     TokensMatchHandle, OwesStore, OwesKV, OwesCPU, Count, EmptyHandle
<1>6. HandleStage'
  BY <1>1, <1>2, <1>3 DEF StoreAdmitGranted, IInv, TypeOK, HandleStage
<1>7. QED
  BY <1>4, <1>5, <1>6 DEF IInv

LEMMA StoreAdmitExemptIInv ==
  ASSUME IInv, NEW r \in Req, StoreAdmitExempt(r) PROVE IInv'
<1> USE DEF IInv, TypeOK, TokensMatchHandle, HandleStage, OwesStore, OwesKV,
            OwesCPU, Count
<1>1. handle[r] = EmptyHandle
  BY DEF StoreAdmitExempt
<1>2. QED
  BY <1>1 DEF StoreAdmitExempt, PCs, EmptyHandle

(* The deferred store rollback releases exactly the recorded token. *)
LEMMA RollbackIInv ==
  ASSUME IInv, NEW r \in Req, pc[r] \in {"ElasticAdmit", "KVAdmit"},
         RollbackStore(r),
         pc' = [pc EXCEPT ![r] = "Idle"],
         handle' = [handle EXCEPT ![r] = EmptyHandle],
         UNCHANGED <<configured, work, kvHeld, cpuHeld>>
  PROVE  IInv'
<1> USE DEF IInv, TypeOK, TokensMatchHandle, HandleStage, OwesStore, OwesKV,
            OwesCPU, Count
<1>1. CASE handle[r].storeQ # NoStore
  <2>1. handle[r].storeQ \in QueuedStores /\ storeHeld[handle[r].storeQ][r] = 1
    BY <1>1 DEF Handles
  <2>2. storeHeld' = [storeHeld EXCEPT ![handle[r].storeQ] = Release(@, r)]
    BY <1>1 DEF RollbackStore
  <2>3. QED
    BY <2>1, <2>2 DEF Release, PCs, Handles, EmptyHandle
<1>2. CASE handle[r].storeQ = NoStore
  <2>1. UNCHANGED storeHeld
    BY <1>2 DEF RollbackStore
  <2>2. \A s \in QueuedStores : storeHeld[s][r] = 0
    BY <1>2
  <2>3. QED
    BY <2>1, <2>2 DEF PCs, Handles, EmptyHandle
<1>3. QED
  BY <1>1, <1>2

LEMMA ElasticAdmitErrorIInv ==
  ASSUME IInv, NEW r \in Req, ElasticAdmitError(r) PROVE IInv'
BY RollbackIInv DEF ElasticAdmitError

LEMMA KVAdmitErrorIInv ==
  ASSUME IInv, NEW r \in Req, KVAdmitError(r) PROVE IInv'
BY RollbackIInv DEF KVAdmitError

LEMMA ElasticAdmitGrantedIInv ==
  ASSUME IInv, NEW r \in Req, ElasticAdmitGranted(r) PROVE IInv'
<1> USE DEF IInv, TypeOK, TokensMatchHandle, HandleStage, OwesStore, OwesKV,
            OwesCPU, Count
<1>1. ~handle[r].elastic /\ cpuHeld[r] = 0
  BY DEF ElasticAdmitGranted
<1>2. handle'[r] = [handle[r] EXCEPT !.elastic = TRUE] /\ handle'[r] \in Handles
  BY DEF ElasticAdmitGranted, Handles
<1>3. TypeOK'
  BY <1>2 DEF ElasticAdmitGranted, Acquire, PCs
<1>4. TokensMatchHandle'
  BY <1>1, <1>2 DEF ElasticAdmitGranted, Acquire
<1>5. HandleStage'
  BY <1>2 DEF ElasticAdmitGranted
<1>6. QED
  BY <1>3, <1>4, <1>5

LEMMA ElasticAdmitNoHandleIInv ==
  ASSUME IInv, NEW r \in Req, ElasticAdmitNoHandle(r) PROVE IInv'
BY DEF ElasticAdmitNoHandle, IInv, TypeOK, TokensMatchHandle, HandleStage,
       OwesStore, OwesKV, OwesCPU, Count, PCs

LEMMA KVAdmitGrantedIInv ==
  ASSUME IInv, NEW r \in Req, KVAdmitGranted(r) PROVE IInv'
<1> USE DEF IInv, TypeOK, TokensMatchHandle, HandleStage, OwesStore, OwesKV,
            OwesCPU, Count
<1>1. ~handle[r].callKV /\ kvHeld[r] = 0
  BY DEF KVAdmitGranted
<1>2. handle'[r] = [handle[r] EXCEPT !.callKV = TRUE] /\ handle'[r] \in Handles
  BY DEF KVAdmitGranted, Handles
<1>3. TypeOK'
  BY <1>2 DEF KVAdmitGranted, Acquire, PCs
<1>4. TokensMatchHandle'
  BY <1>1, <1>2 DEF KVAdmitGranted, Acquire
<1>5. HandleStage'
  BY <1>2 DEF KVAdmitGranted
<1>6. QED
  BY <1>3, <1>4, <1>5

LEMMA KVAdmitUnchargedIInv ==
  ASSUME IInv, NEW r \in Req, KVAdmitUncharged(r) PROVE IInv'
BY DEF KVAdmitUncharged, IInv, TypeOK, TokensMatchHandle, HandleStage,
       OwesStore, OwesKV, OwesCPU, Count, PCs

LEMMA AdmittedKVWorkDoneIInv ==
  ASSUME IInv, NEW r \in Req, AdmittedKVWorkDone(r) PROVE IInv'
<1> USE DEF IInv, TypeOK, TokensMatchHandle, HandleStage, OwesStore, OwesKV,
            OwesCPU, Count
<1>1. TypeOK'
  BY DEF AdmittedKVWorkDone, Release, PCs, Handles
<1>2. TokensMatchHandle'
  BY DEF AdmittedKVWorkDone, Release, Handles
<1>3. HandleStage'
  BY DEF AdmittedKVWorkDone
<1>4. QED
  BY <1>1, <1>2, <1>3

LEMMA StutterIInv == IInv /\ UNCHANGED vars => IInv'
BY DEF vars, IInv, TypeOK, TokensMatchHandle, HandleStage, OwesStore, OwesKV,
       OwesCPU, Count

LEMMA NextIInv == IInv /\ [Next]_vars => IInv'
<1> SUFFICES ASSUME IInv, [Next]_vars PROVE IInv'
  OBVIOUS
<1>1. CASE Next
  <2> PICK r \in Req :
        \/ AdmitKVWork(r)
        \/ StoreAdmitError(r) \/ StoreAdmitGranted(r) \/ StoreAdmitExempt(r)
        \/ ElasticAdmitError(r) \/ ElasticAdmitGranted(r) \/ ElasticAdmitNoHandle(r)
        \/ KVAdmitError(r) \/ KVAdmitGranted(r) \/ KVAdmitUncharged(r)
        \/ AdmittedKVWorkDone(r)
    BY <1>1 DEF Next
  <2> QED
    BY AdmitKVWorkIInv, StoreAdmitErrorIInv, StoreAdmitGrantedIInv,
       StoreAdmitExemptIInv, ElasticAdmitErrorIInv, ElasticAdmitGrantedIInv,
       ElasticAdmitNoHandleIInv, KVAdmitErrorIInv, KVAdmitGrantedIInv,
       KVAdmitUnchargedIInv, AdmittedKVWorkDoneIInv
<1>2. CASE UNCHANGED vars
  BY <1>2, StutterIInv
<1>3. QED
  BY <1>1, <1>2

(* The ledgers and handles of AdmitKVWork and AdmittedKVWorkDone always    *)
(* have their types, for every set of requests and stores.                 *)
THEOREM TypeCorrect == Spec => []TypeOK
BY InitIInv, NextIInv, PTL DEF Spec, IInv

(* Exactly-once token accounting (TokensMatchHandle) holds in every state  *)
(* of every behaviour of the request path: the deferred rollbacks of       *)
(* AdmitKVWork and the releases of AdmittedKVWorkDone give back exactly    *)
(* the tokens the queues granted, never more and never fewer.              *)
THEOREM ExactlyOnceAccounting == Spec => []TokensMatchHandle
BY InitIInv, NextIInv, PTL DEF Spec, IInv
-----------------------------------------------------------------------------
(***************************************************************************)
(* Refinement: every step of the request path is a step of               *)
(* ControllerAbstract under AbsPhase and AbsCharged.  Each lemma maps one  *)
(* action to the abstract step it implements; HandleStage supplies the     *)
(* abstract guards (a store queue charges a request with an empty handle; *)
(* the KV and elastic queues charge one that neither has charged yet).     *)
(***************************************************************************)
absvars == <<AbsPhase, AbsCharged>>

LEMMA InitRefines == Init => Abstract!AInit
BY DEF Init, Abstract!AInit, AbsPhase, AbsCharged

LEMMA AdmitKVWorkRefines ==
  ASSUME IInv, NEW r \in Req, AdmitKVWork(r) PROVE Abstract!Call(r)
<1>1. PICK w \in Work : pc' = [pc EXCEPT ![r] = FirstStage(w)]
  BY RequestWorkType DEF AdmitKVWork
<1>2. FirstStage(w) \in {"Working", "StoreAdmit", "ElasticAdmit", "KVAdmit"}
  BY DEF FirstStage, NextStage
<1>3. AbsPhase' \in {[AbsPhase EXCEPT ![r] = "Admitting"],
                     [AbsPhase EXCEPT ![r] = "Working"]}
  BY <1>1, <1>2 DEF AbsPhase, AdmitKVWork, IInv, TypeOK
<1>4. AbsCharged' = AbsCharged
  BY <1>1, <1>2 DEF AbsCharged, AdmitKVWork, EmptyHandle, IInv, TypeOK
<1>5. QED
  BY <1>3, <1>4 DEF Abstract!Call, AbsPhase, AdmitKVWork

(* An error return of AdmitKVWork: the handle is emptied. *)
LEMMA RefusedRefines ==
  ASSUME IInv, NEW r \in Req, pc[r] \in {"StoreAdmit", "ElasticAdmit", "KVAdmit"},
         pc' = [pc EXCEPT ![r] = "Idle"],
         handle' = [handle EXCEPT ![r] = EmptyHandle]
  PROVE  Abstract!Refused(r)
BY DEF Abstract!Refused, AbsPhase, AbsCharged, IInv, TypeOK

(* AdmitKVWork returns with the handle it has. *)
LEMMA AdmittedRefines ==
  ASSUME IInv, NEW r \in Req, pc[r] \in {"StoreAdmit", "ElasticAdmit", "KVAdmit"},
         pc' = [pc EXCEPT ![r] = "Working"], UNCHANGED handle
  PROVE  Abstract!Admitted(r)
BY DEF Abstract!Admitted, AbsPhase, AbsCharged, IInv, TypeOK

(* A queue charges request r: its handle gains queue q, as far as         *)
(* AbsCharged sees, and the handles of the other requests stay as they    *)
(* were.                                                                   *)
LEMMA ChargedStep ==
  ASSUME IInv, NEW r \in Req, NEW q, pc[r] # "Idle", pc'[r] # "Idle",
         pc' \in [Req -> PCs], handle' \in [Req -> Handles],
         \A x \in Req \ {r} : handle'[x] = handle[x] /\ pc'[x] = pc[x],
         AbsCharged'[r] = AbsCharged[r] \cup {q}
  PROVE  AbsCharged' = [AbsCharged EXCEPT ![r] = @ \cup {q}]
BY DEF AbsCharged, IInv, TypeOK

LEMMA StoreAdmitGrantedRefines ==
  ASSUME IInv, NEW r \in Req, StoreAdmitGranted(r)
  PROVE  Abstract!Charge(r, work[r].store)
<1> DEFINE s == work[r].store
<1>1. s \in QueuedStores /\ handle[r] = EmptyHandle /\ pc[r] = "StoreAdmit"
  BY DEF StoreAdmitGranted, IInv, HandleStage
<1>2. AbsCharged[r] = {}
  BY <1>1 DEF AbsCharged, EmptyHandle
<1>3. handle'[r] = [handle[r] EXCEPT !.storeQ = s] /\ handle'[r] \in Handles
  BY <1>1 DEF StoreAdmitGranted, IInv, TypeOK, Handles
<1>4. handle'[r].storeQ = s /\ ~handle'[r].elastic /\ ~handle'[r].callKV
  BY <1>1, <1>3 DEF EmptyHandle
<1>5. pc'[r] \in {"ElasticAdmit", "KVAdmit"} /\ pc' \in [Req -> PCs]
  BY DEF StoreAdmitGranted, NextStage, IInv, TypeOK, PCs
<1>6. AbsCharged'[r] = AbsCharged[r] \cup {s}
  BY <1>1, <1>2, <1>4, <1>5, StoresAssumption DEF AbsCharged
<1>7. AbsCharged' = [AbsCharged EXCEPT ![r] = @ \cup {s}]
  <2>1. handle' \in [Req -> Handles]
    BY <1>3 DEF StoreAdmitGranted, IInv, TypeOK
  <2>2. \A x \in Req \ {r} : handle'[x] = handle[x] /\ pc'[x] = pc[x]
    BY DEF StoreAdmitGranted, IInv, TypeOK
  <2>3. QED
    BY <1>1, <1>5, <1>6, <2>1, <2>2, ChargedStep
<1>8. AbsPhase' = AbsPhase
  BY <1>1, <1>5 DEF StoreAdmitGranted, AbsPhase, IInv, TypeOK
<1>9. QED
  BY <1>1, <1>2, <1>7, <1>8, QueueNamesAssumption
  DEF Abstract!Charge, Abstract!KVQueue, Abstract!CPUQueue, AbsPhase

(* The KV or elastic CPU queue charges a request and AdmitKVWork returns. *)
LEMMA LastChargeRefines ==
  ASSUME IInv, NEW r \in Req, NEW q \in {"kv", "elastic-cpu"},
         pc[r] \in {"ElasticAdmit", "KVAdmit"},
         pc' = [pc EXCEPT ![r] = "Working"],
         handle' \in [Req -> Handles],
         \A x \in Req \ {r} : handle'[x] = handle[x],
         handle'[r].storeQ = handle[r].storeQ,
         handle'[r].elastic = (q = "elastic-cpu"),
         handle'[r].callKV = (q = "kv")
  PROVE  Abstract!Charge(r, q)
<1>1. ~handle[r].elastic /\ ~handle[r].callKV /\ handle[r] \in Handles
  BY DEF IInv, HandleStage, TypeOK
<1>2. AbsCharged[r] = {handle[r].storeQ} \ {NoStore}
  BY <1>1 DEF AbsCharged
<1>3. AbsCharged[r] \subseteq QueuedStores
  BY <1>1, <1>2 DEF Handles
<1>4. pc'[r] = "Working" /\ pc' \in [Req -> PCs]
      /\ \A x \in Req \ {r} : pc'[x] = pc[x]
  BY DEF IInv, TypeOK, PCs
<1>5. AbsCharged'[r] = AbsCharged[r] \cup {q}
  BY <1>1, <1>2, <1>4 DEF AbsCharged
<1>6. AbsCharged' = [AbsCharged EXCEPT ![r] = @ \cup {q}]
  BY <1>4, <1>5, ChargedStep
<1>7. AbsPhase' = [AbsPhase EXCEPT ![r] = "Working"]
  BY DEF AbsPhase, IInv, TypeOK
<1>8. QED
  BY <1>3, <1>6, <1>7, QueueNamesAssumption
  DEF Abstract!Charge, Abstract!KVQueue, Abstract!CPUQueue, AbsPhase

LEMMA AdmittedKVWorkDoneRefines ==
  ASSUME IInv, NEW r \in Req, AdmittedKVWorkDone(r) PROVE Abstract!Finish(r)
BY DEF AdmittedKVWorkDone, Abstract!Finish, AbsPhase, AbsCharged, IInv, TypeOK

LEMMA NextRefines == IInv /\ [Next]_vars => [Abstract!ANext]_<<AbsPhase, AbsCharged>>
<1> SUFFICES ASSUME IInv, [Next]_vars PROVE [Abstract!ANext]_absvars
  BY DEF absvars
<1>1. CASE UNCHANGED vars
  BY <1>1 DEF vars, absvars, AbsPhase, AbsCharged
<1>2. CASE Next
  <2> PICK r \in Req :
        \/ AdmitKVWork(r)
        \/ StoreAdmitError(r) \/ StoreAdmitGranted(r) \/ StoreAdmitExempt(r)
        \/ ElasticAdmitError(r) \/ ElasticAdmitGranted(r) \/ ElasticAdmitNoHandle(r)
        \/ KVAdmitError(r) \/ KVAdmitGranted(r) \/ KVAdmitUncharged(r)
        \/ AdmittedKVWorkDone(r)
    BY <1>2 DEF Next
  <2> USE DEF Abstract!ANext
  <2>1. CASE AdmitKVWork(r)
    BY <2>1, AdmitKVWorkRefines
  <2>2. CASE StoreAdmitError(r) \/ ElasticAdmitError(r) \/ KVAdmitError(r)
    BY <2>2, RefusedRefines DEF StoreAdmitError, ElasticAdmitError, KVAdmitError
  <2>3. CASE StoreAdmitGranted(r)
    <3>1. work[r].store \in QueuedStores
      BY <2>3 DEF StoreAdmitGranted, IInv, HandleStage
    <3>2. QED
      BY <2>3, <3>1, StoreAdmitGrantedRefines DEF Abstract!Queues
  <2>4. CASE StoreAdmitExempt(r) \/ ElasticAdmitNoHandle(r) \/ KVAdmitUncharged(r)
    BY <2>4, AdmittedRefines DEF StoreAdmitExempt, ElasticAdmitNoHandle,
       KVAdmitUncharged
  <2>5. CASE ElasticAdmitGranted(r)
    <3>1. handle'[r] = [handle[r] EXCEPT !.elastic = TRUE]
          /\ handle'[r] \in Handles /\ handle' \in [Req -> Handles]
      BY <2>5 DEF ElasticAdmitGranted, Handles, IInv, TypeOK
    <3>8. handle' \in [Req -> Handles]
      BY <3>1
    <3>2. /\ handle'[r].storeQ = handle[r].storeQ /\ handle'[r].elastic = TRUE
          /\ handle'[r].callKV = handle[r].callKV
      <4>1. handle[r] \in Handles
        BY DEF IInv, TypeOK
      <4>2. QED
        BY <3>1, <4>1 DEF Handles
    <3>3. handle[r].callKV = FALSE
      BY <2>5 DEF ElasticAdmitGranted, IInv, HandleStage
    <3>4. \A x \in Req \ {r} : handle'[x] = handle[x]
      BY <2>5 DEF ElasticAdmitGranted, IInv, TypeOK
    <3>5. pc' = [pc EXCEPT ![r] = "Working"] /\ pc[r] \in {"ElasticAdmit", "KVAdmit"}
      BY <2>5 DEF ElasticAdmitGranted
    <3>9. /\ handle'[r].storeQ = handle[r].storeQ
          /\ handle'[r].elastic = ("elastic-cpu" = "elastic-cpu")
          /\ handle'[r].callKV = ("elastic-cpu" = "kv")
      BY <3>2, <3>3, Zenon
    <3>6. Abstract!Charge(r, "elastic-cpu")
      BY IInv, <3>8, <3>9, <3>4, <3>5, LastChargeRefines, Zenon
    <3>7. QED
      BY <3>6 DEF Abstract!Queues, Abstract!CPUQueue
  <2>6. CASE KVAdmitGranted(r)
    <3>1. handle'[r] = [handle[r] EXCEPT !.callKV = TRUE]
          /\ handle'[r] \in Handles /\ handle' \in [Req -> Handles]
      BY <2>6 DEF KVAdmitGranted, Handles, IInv, TypeOK
    <3>8. handle' \in [Req -> Handles]
      BY <3>1
    <3>2. /\ handle'[r].storeQ = handle[r].storeQ /\ handle'[r].callKV = TRUE
          /\ handle'[r].elastic = handle[r].elastic
      <4>1. handle[r] \in Handles
        BY DEF IInv, TypeOK
      <4>2. QED
        BY <3>1, <4>1 DEF Handles
    <3>3. handle[r].elastic = FALSE
      BY <2>6 DEF KVAdmitGranted, IInv, HandleStage
    <3>4. \A x \in Req \ {r} : handle'[x] = handle[x]
      BY <2>6 DEF KVAdmitGranted, IInv, TypeOK
    <3>5. pc' = [pc EXCEPT ![r] = "Working"] /\ pc[r] \in {"ElasticAdmit", "KVAdmit"}
      BY <2>6 DEF KVAdmitGranted
    <3>9. /\ handle'[r].storeQ = handle[r].storeQ
          /\ handle'[r].elastic = ("kv" = "elastic-cpu")
          /\ handle'[r].callKV = ("kv" = "kv")
      BY <3>2, <3>3, Zenon
    <3>6. Abstract!Charge(r, "kv")
      BY IInv, <3>8, <3>9, <3>4, <3>5, LastChargeRefines, Zenon
    <3>7. QED
      BY <3>6 DEF Abstract!Queues, Abstract!KVQueue
  <2>7. CASE AdmittedKVWorkDone(r)
    BY <2>7, AdmittedKVWorkDoneRefines
  <2>8. QED
    BY <2>1, <2>2, <2>3, <2>4, <2>5, <2>6, <2>7
<1>3. QED
  BY <1>1, <1>2

(* The request path implements ControllerAbstract (ImplementsController): *)
(* for every number of requests and stores, AdmitKVWork charges a store   *)
(* queue first and then at most one of the KV and elastic CPU queues, an  *)
(* error return undoes every charge, and AdmittedKVWorkDone undoes them   *)
(* all.                                                                    *)
THEOREM Refinement == Spec => ImplementsController
<1>1. Spec => []IInv
  BY InitIInv, NextIInv, PTL DEF Spec
<1>2. QED
  BY <1>1, InitRefines, NextRefines, PTL
  DEF Spec, ImplementsController, Abstract!ASpec, Abstract!avars

(* The call being classified has the shape of an AdmitKVWork call. *)
CallTyped == call \in Calls

(* Header priorities in the WorkPriority range survive the conversion. *)
LEMMA WorkPriorityInRange ==
  ASSUME NEW p \in -128..127 PROVE ToWorkPriority(p) = p
BY DEF ToWorkPriority

LEMMA BypassCorrect ==
  ASSUME NEW c \in Calls
  PROVE  BypassOf(c) = BypassSpec(c.tenant, c.isAdmin, c.source, c.pri,
                                  c.bulkOnly)
<1>1. ToWorkPriority(c.pri) = c.pri
  BY HeaderPriorityAssumption, WorkPriorityInRange DEF Calls
<1>2. QED
  BY <1>1 DEF Calls, BypassOf, BypassAdmission, BypassSpec, IsSystemTenantID

(* The classification of AdmitKVWork (lines 179-194), with its conversion *)
(* of the header priority, gives every request the bypass decision of the *)
(* specification's precedence rules, for every tenant, admin flag,       *)
(* source, priority and bulk-only setting, not only those TLC enumerates. *)
THEOREM ClassificationCorrect == CSpec => []BypassFollowsPrecedence
<1>1. CInit => CallTyped
  BY DEF CInit, CallTyped
<1>2. CallTyped /\ [NextCall]_call => CallTyped'
  BY DEF NextCall, CallTyped
<1>3. CallTyped => BypassFollowsPrecedence
  BY BypassCorrect DEF BypassFollowsPrecedence, CallTyped
<1>4. QED
  BY <1>1, <1>2, <1>3, PTL DEF CSpec

=============================================================================
