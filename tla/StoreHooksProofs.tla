------------------------- MODULE StoreHooksProofs --------------------------
(***************************************************************************)
(* Proofs about the out-of-band store hooks, for every set of stores, of   *)
(* byte counts and every batch bound.                                      *)
(*                                                                         *)
(* FollowerBatchesReported is not inductive: it speaks of the batch last   *)
(* reported, but whether the report is whole depends on the merged stats   *)
(* at the time of the report.  MergeSums says that the stats Merge has     *)
(* accumulated are, field by field, the sums of the entries applied since  *)
(* the last report; with it, the report carries exactly lastBatch.         *)
(***************************************************************************)
EXTENDS StoreHooks, TLAPS

USE HooksAssumption

(* Merge has accumulated every field of every applied entry. *)
MergeSums == \A s \in Stores : acc[s] = applied[s]

SHInv == HTypeOK /\ MergeSums /\ FollowerBatchesReported

(* Two FollowerStoreWriteBytes values with the same fields are equal. *)
LEMMA FollowerBytesExt ==
  ASSUME NEW f \in FollowerBytes, NEW g \in FollowerBytes,
         f.NumEntries = g.NumEntries, f.WriteBytes = g.WriteBytes,
         f.IngestedBytes = g.IngestedBytes
  PROVE  f = g
BY DEF FollowerBytes

(* Merge adds each field of from to the same field of f. *)
LEMMA MergeFields ==
  ASSUME NEW f \in FollowerBytes, NEW from \in FollowerBytes
  PROVE  /\ Merge(f, from) \in FollowerBytes
         /\ Merge(f, from).NumEntries = f.NumEntries + from.NumEntries
         /\ Merge(f, from).WriteBytes = f.WriteBytes + from.WriteBytes
         /\ Merge(f, from).IngestedBytes = f.IngestedBytes + from.IngestedBytes
BY DEF Merge, FollowerBytes

LEMMA InitSHInv == HInit => SHInv
BY DEF HInit, SHInv, HTypeOK, MergeSums, FollowerBatchesReported,
       NoFollowerBytes, FollowerBytes

LEMMA ApplyFollowerEntrySHInv ==
  ASSUME SHInv, NEW s \in Stores, ApplyFollowerEntry(s) PROVE SHInv'
<1>1. PICK w \in ByteVals, i \in ByteVals :
        /\ acc' = [acc EXCEPT ![s] = Merge(@, [NumEntries |-> 1, WriteBytes |-> w,
                                              IngestedBytes |-> i])]
        /\ applied' = [applied EXCEPT ![s] =
                           [NumEntries |-> @.NumEntries + 1, WriteBytes |-> @.WriteBytes + w,
                            IngestedBytes |-> @.IngestedBytes + i]]
  BY DEF ApplyFollowerEntry
<1> DEFINE e == [NumEntries |-> 1, WriteBytes |-> w, IngestedBytes |-> i]
<1>2. e \in FollowerBytes /\ acc[s] \in FollowerBytes /\ applied[s] \in FollowerBytes
  BY DEF FollowerBytes, SHInv, HTypeOK
<1>3. acc'[s] = Merge(acc[s], e)
  BY <1>1, <1>2 DEF SHInv, HTypeOK
<1>4. /\ applied'[s] \in FollowerBytes
      /\ applied'[s].NumEntries = applied[s].NumEntries + 1
      /\ applied'[s].WriteBytes = applied[s].WriteBytes + w
      /\ applied'[s].IngestedBytes = applied[s].IngestedBytes + i
  <2>1. applied'[s] = [NumEntries |-> applied[s].NumEntries + 1,
                      WriteBytes |-> applied[s].WriteBytes + w,
                      IngestedBytes |-> applied[s].IngestedBytes + i]
    BY <1>1 DEF SHInv, HTypeOK
  <2>2. QED
    BY <1>2, <2>1 DEF FollowerBytes
<1>5. acc'[s] = applied'[s]
  BY <1>2, <1>3, <1>4, MergeFields, FollowerBytesExt DEF SHInv, MergeSums
<1>6. acc' \in [Stores -> FollowerBytes] /\ applied' \in [Stores -> FollowerBytes]
  BY <1>1, <1>2, <1>3, <1>4, MergeFields DEF SHInv, HTypeOK
<1>7. \A x \in Stores \ {s} : acc'[x] = acc[x] /\ applied'[x] = applied[x]
  BY <1>1 DEF SHInv, HTypeOK
<1>8. QED
  BY <1>5, <1>6, <1>7 DEF ApplyFollowerEntry, SHInv, HTypeOK, MergeSums,
     FollowerBatchesReported

LEMMA FollowerStoreWriteBytesSHInv ==
  ASSUME SHInv, NEW s \in Stores, FollowerStoreWriteBytes(s) PROVE SHInv'
<1>1. acc[s] = applied[s] /\ applied[s] \in FollowerBytes
  BY DEF SHInv, MergeSums, HTypeOK
<1>2. HTypeOK'
  BY <1>1 DEF FollowerStoreWriteBytes, SHInv, HTypeOK, NoFollowerBytes,
     FollowerBytes
<1>3. MergeSums'
  BY DEF FollowerStoreWriteBytes, SHInv, HTypeOK, MergeSums
<1>4. FollowerBatchesReported'
  <2> SUFFICES ASSUME NEW x \in QueuedStores,
                      lastBatch'[x].WriteBytes + lastBatch'[x].IngestedBytes > 0
               PROVE  bypassed'[x] = lastBatch'[x]
    BY DEF FollowerBatchesReported
  <2>1. CASE x = s
    (* The batch just reported had bytes, so it passed line 378. *)
    <3>1. lastBatch'[x] = applied[s]
      BY <2>1 DEF FollowerStoreWriteBytes, SHInv, HTypeOK
    <3>2. Reported(acc[s])
      BY <1>1, <2>1, <3>1 DEF Reported, FollowerBytes
    <3>3. bypassed'[x] = acc[s]
      BY <2>1, <3>2 DEF FollowerStoreWriteBytes, SHInv, HTypeOK
    <3>4. QED
      BY <1>1, <3>1, <3>3
  <2>2. CASE x # s
    BY <2>2 DEF FollowerStoreWriteBytes, SHInv, HTypeOK, FollowerBatchesReported
  <2>3. QED
    BY <2>1, <2>2
<1>5. QED
  BY <1>2, <1>3, <1>4 DEF SHInv

LEMMA NextSHInv == SHInv /\ [HNext]_hvars => SHInv'
<1> SUFFICES ASSUME SHInv, [HNext]_hvars PROVE SHInv'
  OBVIOUS
<1>1. CASE UNCHANGED hvars
  BY <1>1 DEF hvars, SHInv, HTypeOK, MergeSums, FollowerBatchesReported
<1>2. ASSUME NEW s \in Stores, SnapshotIngested(s) PROVE SHInv'
  BY <1>2 DEF SnapshotIngested, SHInv, HTypeOK, MergeSums, FollowerBatchesReported
<1>3. QED
  BY <1>1, <1>2, ApplyFollowerEntrySHInv, FollowerStoreWriteBytesSHInv DEF HNext

(* FollowerBatchesReported: for every set of stores and all byte counts, a *)
(* follower batch that wrote or ingested bytes on a store with a queue is  *)
(* reported to that queue with every entry and byte it merged, by Merge   *)
(* and the zero-bytes test of FollowerStoreWriteBytes.                     *)
THEOREM FollowerReportsWhole == HSpec => []FollowerBatchesReported
<1>1. HSpec => []SHInv
  BY InitSHInv, NextSHInv, PTL DEF HSpec
<1>2. QED
  BY <1>1, PTL DEF SHInv
=============================================================================
