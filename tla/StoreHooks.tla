----------------------------- MODULE StoreHooks -----------------------------
(***************************************************************************)
(* The out-of-band store hooks of the Controller.  A follower replica      *)
(* merges the stats of the raft entries it applies                        *)
(* (FollowerStoreWriteBytes.Merge) and reports each batch with            *)
(* FollowerStoreWriteBytes, as bypassed work of the store queue; ingested *)
(* snapshots are reported with SnapshotIngested.  A store queue is        *)
(* modelled by the last batch it was told of and a count of the           *)
(* ingestions it was asked to ignore.                                     *)
(***************************************************************************)
EXTENDS Naturals

CONSTANTS
  Stores,        \* store IDs
  QueuedStores,  \* the stores for which TryGetQueueForStore is non-nil
  ByteVals,      \* byte counts a single raft entry writes or ingests
  MaxBatch,      \* raft entries a follower merges before it reports
  MaxIgnored     \* ingestions a store queue is told to ignore, in a run

ASSUME HooksAssumption ==
  /\ QueuedStores \subseteq Stores /\ ByteVals \subseteq Nat /\ 0 \in ByteVals
  /\ MaxBatch \in Nat /\ MaxIgnored \in Nat

(* The fields of a FollowerStoreWriteBytes (lines 399-402). *)
FollowerBytes == [NumEntries : Nat, WriteBytes : Nat, IngestedBytes : Nat]
NoFollowerBytes == [NumEntries |-> 0, WriteBytes |-> 0, IngestedBytes |-> 0]

VARIABLES
  acc,        \* acc[s]: the follower stats merged for store s's current batch
  applied,    \* applied[s]: the entries of that batch, summed field by field (ghost)
  lastBatch,  \* lastBatch[s]: applied[s] at the last report (ghost)
  bypassed,   \* bypassed[s]: the last BypassedWorkDone of queued store s
  ignored     \* ignored[s]: StatsToIgnore calls on queued store s

hvars == <<acc, applied, lastBatch, bypassed, ignored>>

HInit ==
  /\ acc = [s \in Stores |-> NoFollowerBytes]
  /\ applied = [s \in Stores |-> NoFollowerBytes]
  /\ lastBatch = [s \in Stores |-> NoFollowerBytes]
  /\ bypassed = [s \in QueuedStores |-> NoFollowerBytes]
  /\ ignored = [s \in QueuedStores |-> 0]
-----------------------------------------------------------------------------
(* Fault: IngestedBytes left out of Merge (line 408). *)
MergeNoIngested(f, from) ==
  [NumEntries |-> f.NumEntries + from.NumEntries,
   WriteBytes |-> f.WriteBytes + from.WriteBytes,
   IngestedBytes |-> f.IngestedBytes]

(* FollowerStoreWriteBytes.Merge (lines 405-409): each of the three fields *)
(* of the struct is added to.                                              *)
Merge(f, from) ==
  [NumEntries |-> f.NumEntries + from.NumEntries,
   WriteBytes |-> f.WriteBytes + from.WriteBytes,
   IngestedBytes |-> f.IngestedBytes + from.IngestedBytes]

(* A follower replica of store s applies one raft entry and merges its     *)
(* stats into the batch's FollowerStoreWriteBytes.                         *)
ApplyFollowerEntry(s) ==
  /\ acc[s].NumEntries < MaxBatch
  /\ \E w, i \in ByteVals :
       /\ acc' = [acc EXCEPT ![s] = Merge(@, [NumEntries |-> 1, WriteBytes |-> w,
                                              IngestedBytes |-> i])]
       /\ applied' = [applied EXCEPT ![s] =
                          [NumEntries |-> @.NumEntries + 1, WriteBytes |-> @.WriteBytes + w,
                           IngestedBytes |-> @.IngestedBytes + i]]
  /\ UNCHANGED <<lastBatch, bypassed, ignored>>

(* Fault: the early return of line 378 taken when either count is zero. *)
ReportedEitherZero(f) == f.WriteBytes # 0 /\ f.IngestedBytes # 0

(* The bytes test of line 378: a batch with no bytes is not reported. *)
Reported(f) == ~(f.WriteBytes = 0 /\ f.IngestedBytes = 0)

(* FollowerStoreWriteBytes (lines 375-387) on the batch, after which the   *)
(* replica starts a new one.                                               *)
FollowerStoreWriteBytes(s) ==
  /\ acc[s].NumEntries > 0
  /\ bypassed' = IF Reported(acc[s]) /\ s \in QueuedStores
                 THEN [bypassed EXCEPT ![s] = acc[s]] ELSE bypassed
  /\ lastBatch' = [lastBatch EXCEPT ![s] = applied[s]]
  /\ acc' = [acc EXCEPT ![s] = NoFollowerBytes]
  /\ applied' = [applied EXCEPT ![s] = NoFollowerBytes]
  /\ UNCHANGED ignored

(* SnapshotIngested (lines 364-372): StatsToIgnore on a queued store. *)
SnapshotIngested(s) ==
  /\ s \in QueuedStores => ignored[s] < MaxIgnored
  /\ ignored' = IF s \in QueuedStores
                THEN [ignored EXCEPT ![s] = @ + 1] ELSE ignored
  /\ UNCHANGED <<acc, applied, lastBatch, bypassed>>

HNext ==
  \E s \in Stores :
    ApplyFollowerEntry(s) \/ FollowerStoreWriteBytes(s) \/ SnapshotIngested(s)

HSpec == HInit /\ [][HNext]_hvars
-----------------------------------------------------------------------------
HTypeOK ==
  /\ acc \in [Stores -> FollowerBytes]
  /\ applied \in [Stores -> FollowerBytes]
  /\ lastBatch \in [Stores -> FollowerBytes]
  /\ bypassed \in [QueuedStores -> FollowerBytes]
  /\ ignored \in [QueuedStores -> 0..MaxIgnored]

(***************************************************************************)
(* Every follower batch that wrote or ingested bytes on a queued store     *)
(* reaches its queue whole: entry count and both byte counts.              *)
(***************************************************************************)
FollowerBatchesReported ==
  \A s \in QueuedStores :
    lastBatch[s].WriteBytes + lastBatch[s].IngestedBytes > 0
      => bypassed[s] = lastBatch[s]
=============================================================================
