------------------------ MODULE TenantWeightsProofs ------------------------
(***************************************************************************)
(* Proofs about the tenant-weight loop, for every set of stores and of     *)
(* weight maps.                                                            *)
(*                                                                         *)
(* ShortCircuitSound is inductive by itself when the provider reports     *)
(* every store: the only step that sets allWeightsDisabled is a tick that *)
(* saw both settings off, and that tick pushes nil to every queue; no      *)
(* other step touches the flag or the weights.  With PartialReports the   *)
(* same tick leaves unreported stores alone, and the property fails (run  *)
(* weights_partial_reports), so the theorem assumes complete reports.      *)
(***************************************************************************)
EXTENDS TenantWeights, TLAPS

USE WeightsAssumption

(* What one push (PushWeights) leaves in the queues. *)
LEMMA PushWeightsFacts ==
  ASSUME NEW kvDisabled \in BOOLEAN, NEW kvStoresDisabled \in BOOLEAN,
         storeQW \in [QueuedStores -> PushedValues],
         PushWeights(kvDisabled, kvStoresDisabled, QueuedStores)
  PROVE  /\ kvQW' \in PushedValues /\ cpuQW' \in PushedValues
         /\ storeQW' \in [QueuedStores -> PushedValues]
         /\ kvDisabled => kvQW' = Nil /\ cpuQW' = Nil
         /\ ~PartialReports /\ kvStoresDisabled =>
              \A s \in QueuedStores : storeQW'[s] = Nil
BY DEF PushWeights, PushedValues

LEMMA InitWTypeOK == WInit => WTypeOK
BY DEF WInit, WTypeOK, PushedValues

LEMMA NextWTypeOK == WTypeOK /\ [WNext]_wvars => WTypeOK'
<1> SUFFICES ASSUME WTypeOK, [WNext]_wvars PROVE WTypeOK'
  OBVIOUS
<1>1. CASE Tick
  BY <1>1, PushWeightsFacts DEF Tick, WTypeOK
<1>2. QED
  BY <1>1 DEF WNext, wvars, WTypeOK, SetKVWeightsEnabled,
     SetStoresWeightsEnabled, Quiesce, Stop

(* The loop's weights and flags keep their types in every reachable state. *)
THEOREM WeightsTypeCorrect == WSpec => []WTypeOK
BY InitWTypeOK, NextWTypeOK, PTL DEF WSpec

LEMMA NextShortCircuitSound ==
  ASSUME ~PartialReports
  PROVE  WTypeOK /\ ShortCircuitSound /\ [WNext]_wvars => ShortCircuitSound'
<1> SUFFICES ASSUME WTypeOK, ShortCircuitSound, [WNext]_wvars
             PROVE  ShortCircuitSound'
  OBVIOUS
<1>1. CASE Tick
  (* The flag is set only by a tick that saw both settings off, and that  *)
  (* tick cleared every queue.                                            *)
  BY <1>1, PushWeightsFacts DEF Tick, WTypeOK, ShortCircuitSound,
     AllQueuesUnweighted
<1>2. QED
  BY <1>1 DEF WNext, wvars, ShortCircuitSound, AllQueuesUnweighted,
     SetKVWeightsEnabled, SetStoresWeightsEnabled, Quiesce, Stop

(* ShortCircuitSound: for every set of stores, when the provider reports  *)
(* every store, the loop skips ticks (lines 334-337) only after a tick    *)
(* that left every queue without tenant weights.                          *)
THEOREM ShortCircuitCorrect ==
  ~PartialReports => (WSpec => []ShortCircuitSound)
<1> SUFFICES ASSUME ~PartialReports PROVE WSpec => []ShortCircuitSound
  OBVIOUS
<1>1. WInit => ShortCircuitSound
  BY DEF WInit, ShortCircuitSound
<1>2. WTypeOK /\ ShortCircuitSound /\ [WNext]_wvars => ShortCircuitSound'
  BY NextShortCircuitSound
<1>3. QED
  BY <1>1, <1>2, InitWTypeOK, NextWTypeOK, PTL DEF WSpec
=============================================================================
