---------------------------- MODULE WriteBytesPool ----------------------------
(***************************************************************************)
(* The bytes a request's writes report to its store queue.  The request    *)
(* measures its writes into a StoreWriteBytes taken from a sync.Pool       *)
(* (NewStoreWriteBytes), hands it to AdmittedKVWorkDone, which passes its *)
(* contents to the store queue, and gives it back (Release).  The queue is *)
(* modelled by the StoreWorkDoneInfo it got from each request.             *)
(***************************************************************************)
EXTENDS Naturals

CONSTANTS
  Req,           \* the goroutines evaluating requests
  Objs,          \* the *StoreWriteBytes objects the pool can hand out
  NilWB,         \* a nil *StoreWriteBytes
  ByteVals       \* byte counts a single write or ingestion produces

ASSUME PoolAssumption ==
  /\ NilWB \notin Objs /\ ByteVals \subseteq Nat /\ 0 \in ByteVals

(* admission.StoreWorkDoneInfo: the fields of a StoreWriteBytes. *)
Infos == [WriteBytes : ByteVals, IngestedBytes : ByteVals]
ZeroInfo == [WriteBytes |-> 0, IngestedBytes |-> 0]

VARIABLES
  spc,        \* spc[r]: "Idle" or "Evaluating"
  wb,         \* wb[r]: the *StoreWriteBytes r holds, or NilWB
  queued,     \* queued[r]: r's Handle has a storeAdmissionQ
  content,    \* content[o]: the fields of object o
  pool,       \* the objects sitting in storeWriteBytesPool
  wrote,      \* wrote[r]: what r's evaluation wrote (ghost)
  doneInfo    \* doneInfo[r]: what the store queue got in r's last AdmittedWorkDone

bvars == <<spc, wb, queued, content, pool, wrote, doneInfo>>

BInit ==
  /\ spc = [r \in Req |-> "Idle"]
  /\ wb = [r \in Req |-> NilWB]
  /\ queued = [r \in Req |-> FALSE]
  /\ content \in [Objs -> Infos]
  /\ pool = {}
  /\ wrote = [r \in Req |-> ZeroInfo]
  /\ doneInfo = [r \in Req |-> ZeroInfo]

(* The objects no goroutine holds. *)
Held == {wb[r] : r \in Req}
-----------------------------------------------------------------------------
(* Fault: the reset *wb = StoreWriteBytes{} of line 423 lost. *)
NewStoreWriteBytesNoReset(r, o) ==
  /\ o \notin Held
  /\ pool' = pool \ {o}
  /\ content' = IF o \in pool THEN content
                ELSE [content EXCEPT ![o] = ZeroInfo]

(* NewStoreWriteBytes (lines 421-425): pool.Get returns a pooled object or *)
(* a new zero one, and the result is reset to zero.                        *)
NewStoreWriteBytes(r, o) ==
  /\ o \notin Held
  /\ pool' = pool \ {o}
  /\ content' = [content EXCEPT ![o] = ZeroInfo]

(* A request starts: it measures its writes into a new StoreWriteBytes,    *)
(* or, when it cannot write, passes nil; its Handle has a store queue or   *)
(* not.                                                                    *)
BeginRequest(r) ==
  /\ spc[r] = "Idle"
  /\ \E q \in BOOLEAN :
       /\ queued' = [queued EXCEPT ![r] = q]
       /\ \/ \E o \in Objs : /\ NewStoreWriteBytes(r, o)
                             /\ wb' = [wb EXCEPT ![r] = o]
          \/ /\ wb' = [wb EXCEPT ![r] = NilWB]
             /\ UNCHANGED <<pool, content>>
  /\ spc' = [spc EXCEPT ![r] = "Evaluating"]
  /\ wrote' = [wrote EXCEPT ![r] = ZeroInfo]
  /\ UNCHANGED doneInfo

(* Evaluation writes to the engine and records the bytes in the fields.    *)
Write(r) ==
  /\ spc[r] = "Evaluating" /\ wb[r] # NilWB
  /\ \E info \in Infos :
       /\ content' = [content EXCEPT ![wb[r]] = info]
       /\ wrote' = [wrote EXCEPT ![r] = info]
  /\ UNCHANGED <<spc, wb, queued, pool, doneInfo>>

(* Release (lines 428-433): a nil receiver is a no-op. *)
ReleaseWB(o) == IF o = NilWB THEN pool ELSE pool \cup {o}

(* AdmittedKVWorkDone's store part (lines 279-284): the queue gets the     *)
(* object's fields, or zero for a nil one; then the caller releases the   *)
(* object to the pool.                                                     *)
AdmittedKVWorkDone(r) ==
  /\ spc[r] = "Evaluating"
  /\ doneInfo' = IF ~queued[r] THEN doneInfo
                 ELSE [doneInfo EXCEPT ![r] =
                         IF wb[r] = NilWB THEN ZeroInfo ELSE content[wb[r]]]
  /\ pool' = ReleaseWB(wb[r])
  /\ wb' = [wb EXCEPT ![r] = NilWB]
  /\ spc' = [spc EXCEPT ![r] = "Idle"]
  /\ UNCHANGED <<queued, content, wrote>>

(* The runtime drops a pooled object (sync.Pool keeps nothing for sure).  *)
PoolDrop ==
  /\ \E o \in pool : pool' = pool \ {o}
  /\ UNCHANGED <<spc, wb, queued, content, wrote, doneInfo>>
BNext ==
  \/ \E r \in Req : BeginRequest(r) \/ Write(r) \/ AdmittedKVWorkDone(r)
  \/ PoolDrop

BSpec == BInit /\ [][BNext]_bvars
-----------------------------------------------------------------------------
BTypeOK ==
  /\ spc \in [Req -> {"Idle", "Evaluating"}]
  /\ wb \in [Req -> Objs \cup {NilWB}]
  /\ queued \in [Req -> BOOLEAN]
  /\ content \in [Objs -> Infos]
  /\ pool \subseteq Objs
  /\ wrote \in [Req -> Infos]
  /\ doneInfo \in [Req -> Infos]

(***************************************************************************)
(* A store queue is told exactly the bytes a request wrote: once a         *)
(* request with a store queue is done, the StoreWorkDoneInfo the queue got *)
(* is what its evaluation wrote, never bytes left in a pooled object by   *)
(* an earlier request.                                                     *)
(***************************************************************************)
DoneBytesMatchWrites ==
  \A r \in Req : spc[r] = "Idle" /\ queued[r] => doneInfo[r] = wrote[r]
=============================================================================
