----------------------- MODULE WriteBytesPoolProofs ------------------------
(***************************************************************************)
(* Proofs about the reuse of StoreWriteBytes objects, for every number of  *)
(* requests and objects.                                                   *)
(*                                                                         *)
(* DoneBytesMatchWrites is not inductive: it speaks of finished requests,  *)
(* but what a request reports is read at AdmittedKVWorkDone from the       *)
(* object it holds.  ObjectsOwned says that an object is held by at most   *)
(* one request and is not in the pool while held, so no other request      *)
(* writes to it or resets it; HeldBytesMatchWrites says that the object a  *)
(* request holds contains exactly what it wrote, which needs the reset of  *)
(* NewStoreWriteBytes.                                                     *)
(***************************************************************************)
EXTENDS WriteBytesPool, TLAPS

USE PoolAssumption

(* Only an evaluating request holds an object; an object is held by one    *)
(* request at most, and never also sits in the pool.                       *)
ObjectsOwned ==
  /\ \A r \in Req : spc[r] = "Idle" => wb[r] = NilWB
  /\ \A r, x \in Req : r # x /\ wb[r] # NilWB => wb[r] # wb[x]
  /\ \A r \in Req : wb[r] \notin pool

(* The object an evaluating request holds has exactly its writes in it; a *)
(* request that holds none wrote nothing.                                  *)
HeldBytesMatchWrites ==
  \A r \in Req : spc[r] = "Evaluating" =>
    IF wb[r] = NilWB THEN wrote[r] = ZeroInfo ELSE content[wb[r]] = wrote[r]

WBInv == BTypeOK /\ ObjectsOwned /\ HeldBytesMatchWrites /\ DoneBytesMatchWrites

LEMMA ZeroInfoType == ZeroInfo \in Infos
BY DEF ZeroInfo, Infos

LEMMA InitWBInv == BInit => WBInv
BY ZeroInfoType DEF BInit, WBInv, BTypeOK, ObjectsOwned, HeldBytesMatchWrites,
                    DoneBytesMatchWrites

LEMMA BeginRequestWBInv ==
  ASSUME WBInv, NEW r \in Req, BeginRequest(r) PROVE WBInv'
<1> USE ZeroInfoType DEF WBInv, BTypeOK, ObjectsOwned, HeldBytesMatchWrites,
                         DoneBytesMatchWrites
<1>1. spc[r] = "Idle" /\ wb[r] = NilWB
  BY DEF BeginRequest
<1>2. CASE \E o \in Objs : NewStoreWriteBytes(r, o) /\ wb' = [wb EXCEPT ![r] = o]
  (* The new object is held by nobody and leaves the pool, reset to zero. *)
  <2>1. PICK o \in Objs : NewStoreWriteBytes(r, o) /\ wb' = [wb EXCEPT ![r] = o]
    BY <1>2
  <2>2. o \notin Held
    BY <2>1 DEF NewStoreWriteBytes
  <2>3. \A x \in Req : wb[x] # o
    BY <2>2 DEF Held
  <2>4. QED
    BY <1>1, <2>1, <2>3 DEF BeginRequest, NewStoreWriteBytes
<1>3. CASE wb' = [wb EXCEPT ![r] = NilWB] /\ UNCHANGED <<pool, content>>
  BY <1>1, <1>3 DEF BeginRequest
<1>4. QED
  BY <1>2, <1>3 DEF BeginRequest

LEMMA WriteWBInv ==
  ASSUME WBInv, NEW r \in Req, Write(r) PROVE WBInv'
(* No other request holds r's object, so only r's contents change. *)
BY DEF Write, WBInv, BTypeOK, ObjectsOwned, HeldBytesMatchWrites,
       DoneBytesMatchWrites

LEMMA AdmittedKVWorkDoneWBInv ==
  ASSUME WBInv, NEW r \in Req, AdmittedKVWorkDone(r) PROVE WBInv'
<1> USE ZeroInfoType DEF WBInv, BTypeOK, ObjectsOwned, HeldBytesMatchWrites,
                         DoneBytesMatchWrites
<1>1. queued[r] => doneInfo'[r] = wrote[r]
  (* What the queue gets is what r's object holds. *)
  BY DEF AdmittedKVWorkDone
<1>2. pool' \subseteq Objs /\ \A x \in Req \ {r} : wb[x] \notin pool'
  BY DEF AdmittedKVWorkDone, ReleaseWB
<1>3. QED
  BY <1>1, <1>2 DEF AdmittedKVWorkDone

LEMMA NextWBInv == WBInv /\ [BNext]_bvars => WBInv'
<1> SUFFICES ASSUME WBInv, [BNext]_bvars PROVE WBInv'
  OBVIOUS
<1>1. CASE UNCHANGED bvars
  BY <1>1 DEF bvars, WBInv, BTypeOK, ObjectsOwned, HeldBytesMatchWrites,
     DoneBytesMatchWrites
<1>2. CASE PoolDrop
  BY <1>2 DEF PoolDrop, WBInv, BTypeOK, ObjectsOwned, HeldBytesMatchWrites,
     DoneBytesMatchWrites
<1>3. QED
  BY <1>1, <1>2, BeginRequestWBInv, WriteWBInv, AdmittedKVWorkDoneWBInv DEF BNext

(* DoneBytesMatchWrites: for any number of requests and pooled objects, a  *)
(* store queue is told in AdmittedKVWorkDone exactly the bytes the request *)
(* wrote, never bytes a pooled object kept from its previous user, because *)
(* NewStoreWriteBytes resets what pool.Get returns.                        *)
THEOREM DoneBytesCorrect == BSpec => []DoneBytesMatchWrites
<1>1. BSpec => []WBInv
  BY InitWBInv, NextWBInv, PTL DEF BSpec
<1>2. QED
  BY <1>1, PTL DEF WBInv
=============================================================================
