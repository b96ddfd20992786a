---------------------------- MODULE PacerProofs ----------------------------
(***************************************************************************)
(* Proofs about the Pacer, for every set of scans and every capacity of    *)
(* the elastic CPU queue.                                                  *)
(*                                                                         *)
(* PTypeOK alone is not inductive: Pace and Close subtract one from        *)
(* cpuHeld[p], which stays in Nat only because the Pacer held the token    *)
(* it gives back.  PacerAccounting supplies that fact.  PacerAccounting   *)
(* is not inductive with PTypeOK alone either: a Pace whose Admit fails    *)
(* leaves the scan in "Failed" with the handle it had, and Close then     *)
(* gives back a token if cur is set.  NoHandleWhileWaiting says that Pace  *)
(* cleared the handle before waiting, and that a new Pacer has none.       *)
(***************************************************************************)
EXTENDS Pacer, TLAPS

(* A scan with no Pacer, or waiting inside Pace, has no handle. *)
NoHandleWhileWaiting ==
  \A p \in Scans : ppc[p] \in {"NoPacer", "Admitting"} => ~cur[p]

PInv == PTypeOK /\ PacerAccounting /\ NoHandleWhileWaiting

(* The share a scan has of the queue, by PacerAccounting. *)
Share(p) == IF ppc[p] \in {"Loop", "Failed"} /\ cur[p] THEN 1 ELSE 0

LEMMA InitPInv == PInit => PInv
  BY DEF PInit, PInv, PTypeOK, PacerAccounting, NoHandleWhileWaiting, PPCs

(* One step of scan p changes only p's entries of the four functions, so   *)
(* the invariant of every other scan carries over.                         *)
LEMMA OtherScans ==
  ASSUME PInv, NEW p \in Scans,
         ppc' \in [Scans -> PPCs], cur' \in [Scans -> BOOLEAN],
         overLimit' \in [Scans -> BOOLEAN], cpuHeld' \in [Scans -> Nat],
         \A x \in Scans \ {p} : /\ ppc'[x] = ppc[x] /\ cur'[x] = cur[x]
                                /\ cpuHeld'[x] = cpuHeld[x],
         cpuHeld'[p] = Share(p)',
         ppc'[p] \in {"NoPacer", "Admitting"} => ~cur'[p]
  PROVE  PInv'
BY DEF PInv, PTypeOK, PacerAccounting, NoHandleWhileWaiting, Share

LEMMA NextPInv == PInv /\ [PNext]_pvars => PInv'
<1> SUFFICES ASSUME PInv, [PNext]_pvars PROVE PInv'
  OBVIOUS
<1> USE DEF PInv, PTypeOK, PacerAccounting, NoHandleWhileWaiting, PPCs, Share
<1>1. CASE UNCHANGED pvars
  BY <1>1 DEF pvars
<1>2. ASSUME NEW p \in Scans, AdmitRangefeedRequest(p) PROVE PInv'
  BY <1>2, OtherScans DEF AdmitRangefeedRequest
<1>3. ASSUME NEW p \in Scans, UseCPU(p) PROVE PInv'
  BY <1>3, OtherScans DEF UseCPU
<1>4. ASSUME NEW p \in Scans, Pace(p) PROVE PInv'
  (* An over-limit handle is the token p holds; without a handle p holds   *)
  (* none; either way p holds none once it waits in Admit.                 *)
  <2>1. cpuHeld'[p] = 0 /\ cpuHeld' \in [Scans -> Nat]
    BY <1>4 DEF Pace
  <2>2. QED
    BY <1>4, <2>1, OtherScans DEF Pace
<1>5. ASSUME NEW p \in Scans, PaceGranted(p) PROVE PInv'
  (* A scan waiting in Admit holds no token, so the grant is its only one. *)
  <2>1. cpuHeld[p] = 0
    BY <1>5 DEF PaceGranted
  <2>2. cpuHeld'[p] = 1 /\ cpuHeld' \in [Scans -> Nat]
    BY <1>5, <2>1 DEF PaceGranted
  <2>3. ppc'[p] = "Loop" /\ cur'[p] = TRUE
    BY <1>5 DEF PaceGranted
  <2>4. QED
    BY <1>5, <2>2, <2>3, OtherScans DEF PaceGranted
<1>6. ASSUME NEW p \in Scans, PaceNilHandle(p) \/ PaceError(p) PROVE PInv'
  BY <1>6, OtherScans DEF PaceNilHandle, PaceError
<1>7. ASSUME NEW p \in Scans, Close(p) PROVE PInv'
  <2>1. cpuHeld'[p] = 0 /\ cpuHeld' \in [Scans -> Nat]
    BY <1>7 DEF Close
  <2>2. QED
    BY <1>7, <2>1, OtherScans DEF Close
<1>8. QED
  BY <1>1, <1>2, <1>3, <1>4, <1>5, <1>6, <1>7 DEF PNext

(* PTypeOK holds in every reachable state of the Pacer. *)
THEOREM PacerTypeCorrect == PSpec => []PTypeOK
BY InitPInv, NextPInv, PTL DEF PSpec, PInv

(* PacerAccounting: for any number of scans and any capacity, a scan holds *)
(* an elastic CPU token exactly when its Pacer has a handle outside Pace;  *)
(* Pace gives an over-limit token back before waiting, and Close gives    *)
(* back exactly the token still held.                                      *)
THEOREM PacerTokensMatchHandle == PSpec => []PacerAccounting
BY InitPInv, NextPInv, PTL DEF PSpec, PInv
=============================================================================
