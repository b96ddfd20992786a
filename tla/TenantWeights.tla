--------------------------- MODULE TenantWeights ---------------------------
(***************************************************************************)
(* The tenant-weight loop that SetTenantWeightProvider starts (lines       *)
(* 319-361): a single goroutine that, on every tick, reads the two        *)
(* weighting settings, polls the host's provider and pushes node weights   *)
(* to the KV and elastic CPU queues and per-store weights to the store     *)
(* queues; once both settings are off it stops polling.  Cluster settings  *)
(* change at any time, and the stopper's quiesce channel ends the loop.   *)
(***************************************************************************)
EXTENDS Naturals

CONSTANTS
  Stores,        \* the stores whose weights the provider reports
  QueuedStores,  \* the stores for which TryGetQueueForStore is non-nil
  WeightMaps,    \* the tenant => weight maps a provider may return
  Nil,           \* a nil map pushed to a queue: no tenant weighting
  PartialReports \* the provider may leave stores out of weights.Stores

ASSUME WeightsAssumption ==
  /\ QueuedStores \subseteq Stores /\ WeightMaps # {} /\ Nil \notin WeightMaps
  /\ PartialReports \in BOOLEAN

VARIABLES
  kvWeightsEnabled,      \* admission.KVTenantWeightsEnabled
  storesWeightsEnabled,  \* admission.KVStoresTenantWeightsEnabled
  allWeightsDisabled,    \* the loop-local short-circuit flag
  kvQW,                  \* the weights last pushed to kvAdmissionQ
  cpuQW,                 \* the weights last pushed to elasticCPUWorkQueue
  storeQW,               \* storeQW[s]: the weights last pushed to s's queue
  quiesced,              \* stopper.ShouldQuiesce() is closed
  running                \* the goroutine has not returned

wvars == <<kvWeightsEnabled, storesWeightsEnabled, allWeightsDisabled,
           kvQW, cpuQW, storeQW, quiesced, running>>

PushedValues == WeightMaps \cup {Nil}

WInit ==
  /\ kvWeightsEnabled \in BOOLEAN
  /\ storesWeightsEnabled \in BOOLEAN
  /\ allWeightsDisabled = FALSE
  /\ kvQW = Nil
  /\ cpuQW = Nil
  /\ storeQW = [s \in QueuedStores |-> Nil]
  /\ quiesced = FALSE
  /\ running = TRUE

(* A cluster setting is changed. *)
SetKVWeightsEnabled(b) ==
  /\ kvWeightsEnabled' = b
  /\ UNCHANGED <<storesWeightsEnabled, allWeightsDisabled, kvQW, cpuQW,
                 storeQW, quiesced, running>>

SetStoresWeightsEnabled(b) ==
  /\ storesWeightsEnabled' = b
  /\ UNCHANGED <<kvWeightsEnabled, allWeightsDisabled, kvQW, cpuQW,
                 storeQW, quiesced, running>>

(* A poll of the provider (line 338) and the pushes of lines 339-353: the  *)
(* node weights go to the KV and elastic CPU queues, cleared to nil when   *)
(* kvDisabled; each reported store's weights go to its queue, if it has   *)
(* one, cleared to nil when kvStoresDisabled.  The provider reports every  *)
(* store, or, with PartialReports, any of them.                           *)
PushWeights(kvDisabled, kvStoresDisabled, storeDomain) ==
  \E node \in WeightMaps, perStore \in [Stores -> WeightMaps],
     reported \in IF PartialReports THEN SUBSET Stores ELSE {Stores} :
    LET pushedNode == IF kvDisabled THEN Nil ELSE node IN
    /\ kvQW' = pushedNode
    /\ cpuQW' = pushedNode
    /\ storeQW' = [s \in storeDomain |->
                     IF s \notin reported THEN storeQW[s]
                     ELSE IF kvStoresDisabled THEN Nil ELSE perStore[s]]

(* Fault: allWeightsDisabled recorded with "or" at line 354. *)
TickEitherDisabled ==
  /\ running
  /\ ~(allWeightsDisabled /\ ~kvWeightsEnabled /\ ~storesWeightsEnabled)
  /\ PushWeights(~kvWeightsEnabled, ~storesWeightsEnabled, QueuedStores)
  /\ allWeightsDisabled' = (~kvWeightsEnabled \/ ~storesWeightsEnabled)
  /\ UNCHANGED <<kvWeightsEnabled, storesWeightsEnabled, quiesced, running>>

(* Fault: the short-circuit of line 334 tests the settings only. *)
TickSkipsWhenDisabled ==
  /\ running
  /\ ~(~kvWeightsEnabled /\ ~storesWeightsEnabled)
  /\ PushWeights(~kvWeightsEnabled, ~storesWeightsEnabled, QueuedStores)
  /\ allWeightsDisabled' = (~kvWeightsEnabled /\ ~storesWeightsEnabled)
  /\ UNCHANGED <<kvWeightsEnabled, storesWeightsEnabled, quiesced, running>>

(* Fault: the q != nil check of line 347 lost; every reported store is    *)
(* pushed to.                                                            *)
TickEveryStore ==
  /\ running
  /\ ~(allWeightsDisabled /\ ~kvWeightsEnabled /\ ~storesWeightsEnabled)
  /\ PushWeights(~kvWeightsEnabled, ~storesWeightsEnabled, Stores)
  /\ allWeightsDisabled' = (~kvWeightsEnabled /\ ~storesWeightsEnabled)
  /\ UNCHANGED <<kvWeightsEnabled, storesWeightsEnabled, quiesced, running>>

(* One tick of the ticker (lines 331-354).  If both settings are off and   *)
(* were off at the last tick, the tick does nothing; otherwise the         *)
(* provider's weights are pushed, with the disabled kinds cleared to nil.  *)
Tick ==
  LET kvDisabled == ~kvWeightsEnabled
      kvStoresDisabled == ~storesWeightsEnabled
  IN
  /\ running
  /\ ~(allWeightsDisabled /\ kvDisabled /\ kvStoresDisabled)
  /\ PushWeights(kvDisabled, kvStoresDisabled, QueuedStores)
  /\ allWeightsDisabled' = (kvDisabled /\ kvStoresDisabled)
  /\ UNCHANGED <<kvWeightsEnabled, storesWeightsEnabled, quiesced, running>>

(* The stopper starts quiescing: its channel is closed once. *)
Quiesce ==
  /\ ~quiesced
  /\ quiesced' = TRUE
  /\ UNCHANGED <<kvWeightsEnabled, storesWeightsEnabled, allWeightsDisabled,
                 kvQW, cpuQW, storeQW, running>>

(* The select takes the quiesce case (lines 355-357): the ticker is        *)
(* stopped and the goroutine returns.  A tick that is ready at the same    *)
(* time may be taken first: select chooses at random.                      *)
Stop ==
  /\ running /\ quiesced
  /\ running' = FALSE
  /\ UNCHANGED <<kvWeightsEnabled, storesWeightsEnabled, allWeightsDisabled,
                 kvQW, cpuQW, storeQW, quiesced>>

WNext ==
  \/ \E b \in BOOLEAN : SetKVWeightsEnabled(b) \/ SetStoresWeightsEnabled(b)
  \/ Tick
  \/ Quiesce
  \/ Stop

(***************************************************************************)
(* Fairness: the ticker fires every ten minutes while the goroutine runs, *)
(* and a closed quiesce channel is eventually selected.  Setting changes   *)
(* and quiescing are the operator's and are not fair.                      *)
(***************************************************************************)
WFairness == WF_wvars(Tick) /\ WF_wvars(Stop)

WSpec == WInit /\ [][WNext]_wvars
WFairSpec == WSpec /\ WFairness

-----------------------------------------------------------------------------
WTypeOK ==
  /\ kvWeightsEnabled \in BOOLEAN
  /\ storesWeightsEnabled \in BOOLEAN
  /\ allWeightsDisabled \in BOOLEAN
  /\ kvQW \in PushedValues
  /\ cpuQW \in PushedValues
  /\ storeQW \in [QueuedStores -> PushedValues]
  /\ quiesced \in BOOLEAN
  /\ running \in BOOLEAN

(* Every queue runs without tenant weights. *)
AllQueuesUnweighted ==
  /\ kvQW = Nil /\ cpuQW = Nil
  /\ \A s \in QueuedStores : storeQW[s] = Nil

(***************************************************************************)
(* The short-circuit of lines 334-337 is sound: while the loop skips its  *)
(* ticks because it saw both settings off, no queue is left with weights   *)
(* pushed before the settings were turned off.                             *)
(***************************************************************************)
ShortCircuitSound == allWeightsDisabled => AllQueuesUnweighted

(***************************************************************************)
(* Turning weighting off takes effect: if both settings are off, then      *)
(* eventually every queue runs unweighted, unless a setting is turned on   *)
(* again or the loop is stopped first.                                     *)
(***************************************************************************)
DisablingClearsWeights ==
  (~kvWeightsEnabled /\ ~storesWeightsEnabled)
    ~> (AllQueuesUnweighted \/ kvWeightsEnabled \/ storesWeightsEnabled
        \/ ~running)

=============================================================================
