------------------------- MODULE ControllerAbstract -------------------------
(***************************************************************************)
(* What the Controller promises a caller about the tokens of one request,  *)
(* as the specification states it (sections 3 and 5): AdmitKVWork charges *)
(* at most one store queue, and then at most one of the KV and the elastic *)
(* CPU queues; a failing AdmitKVWork leaves nothing charged; and          *)
(* AdmittedKVWorkDone gives back everything the request was charged.      *)
(* A request is charged one queue at a time and never charged twice by    *)
(* the same queue.                                                         *)
(***************************************************************************)
CONSTANTS
  Req,           \* the requests
  StoreQueues    \* the store queues a write can be charged by

KVQueue == "kv"
CPUQueue == "elastic-cpu"
Queues == StoreQueues \cup {KVQueue, CPUQueue}

VARIABLES
  phase,   \* phase[r]: "Idle", "Admitting" (inside AdmitKVWork) or "Working"
  charged  \* charged[r]: the queues r holds a token of

avars == <<phase, charged>>

AInit ==
  /\ phase = [r \in Req |-> "Idle"]
  /\ charged = [r \in Req |-> {}]

(* AdmitKVWork is called; it may return at once with nothing charged. *)
Call(r) ==
  /\ phase[r] = "Idle"
  /\ phase' \in {[phase EXCEPT ![r] = "Admitting"], [phase EXCEPT ![r] = "Working"]}
  /\ UNCHANGED charged

(* A queue charges the request, possibly as the last step of AdmitKVWork. *)
(* A store queue charges first; the KV and elastic CPU queues exclude     *)
(* each other.                                                             *)
Charge(r, q) ==
  /\ phase[r] = "Admitting"
  /\ q \notin charged[r]
  /\ q \in StoreQueues => charged[r] = {}
  /\ q \in {KVQueue, CPUQueue} => charged[r] \cap {KVQueue, CPUQueue} = {}
  /\ charged' = [charged EXCEPT ![r] = @ \cup {q}]
  /\ phase' \in {phase, [phase EXCEPT ![r] = "Working"]}

(* AdmitKVWork returns a handle without a further charge. *)
Admitted(r) ==
  /\ phase[r] = "Admitting"
  /\ phase' = [phase EXCEPT ![r] = "Working"]
  /\ UNCHANGED charged

(* AdmitKVWork fails: every charge it made is undone. *)
Refused(r) ==
  /\ phase[r] = "Admitting"
  /\ phase' = [phase EXCEPT ![r] = "Idle"]
  /\ charged' = [charged EXCEPT ![r] = {}]

(* AdmittedKVWorkDone gives every token back. *)
Finish(r) ==
  /\ phase[r] = "Working"
  /\ phase' = [phase EXCEPT ![r] = "Idle"]
  /\ charged' = [charged EXCEPT ![r] = {}]

ANext ==
  \E r \in Req :
    \/ Call(r) \/ Admitted(r) \/ Refused(r) \/ Finish(r)
    \/ \E q \in Queues : Charge(r, q)

ASpec == AInit /\ [][ANext]_avars

=============================================================================
