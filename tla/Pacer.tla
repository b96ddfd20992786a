------------------------------- MODULE Pacer -------------------------------
(***************************************************************************)
(* The Pacer of kvadmission: rangefeed catch-up scans are CPU-bound loops  *)
(* that call Pace every iteration and Close once done.  Each Pacer holds   *)
(* at most one elastic CPU token at a time; when its token is over its     *)
(* granted CPU time, Pace gives it back and waits for a new one.  The      *)
(* scans share the elastic CPU queue, which grants a token only while it   *)
(* has capacity (rangefeed work never bypasses admission).                *)
(***************************************************************************)
EXTENDS Naturals, FiniteSets

CONSTANTS
  Scans,   \* the goroutines running rangefeed catch-up scans
  CPUCap   \* tokens the elastic CPU queue hands out at once

ASSUME CPUCapAssumption == CPUCap \in Nat

VARIABLES
  ppc,        \* where each scan is: no Pacer, in its loop, inside Pace, failed
  cur,        \* p.cur # nil: the Pacer holds an elastic CPU work handle
  overLimit,  \* the held handle has used up the CPU time it was granted
  cpuHeld     \* cpuHeld[p]: elastic CPU tokens of p outstanding at the queue

pvars == <<ppc, cur, overLimit, cpuHeld>>

PPCs == {"NoPacer", "Loop", "Admitting", "Failed"}

(* Number of scans holding a token of the elastic CPU queue. *)
CPUInUse == Cardinality({x \in Scans : cpuHeld[x] > 0})

PInit ==
  /\ ppc = [p \in Scans |-> "NoPacer"]
  /\ cur = [p \in Scans |-> FALSE]
  /\ overLimit = [p \in Scans |-> FALSE]
  /\ cpuHeld = [p \in Scans |-> 0]

(* AdmitRangefeedRequest (lines 298-316) builds a Pacer with no handle.    *)
AdmitRangefeedRequest(p) ==
  /\ ppc[p] = "NoPacer"
  /\ ppc' = [ppc EXCEPT ![p] = "Loop"]
  /\ cur' = [cur EXCEPT ![p] = FALSE]
  /\ overLimit' = [overLimit EXCEPT ![p] = FALSE]
  /\ UNCHANGED cpuHeld

(* An iteration of the scan runs on the CPU past the held handle's grant,  *)
(* after which ElasticCPUWorkHandle.OverLimit reports true.                *)
UseCPU(p) ==
  /\ ppc[p] = "Loop"
  /\ cur[p] /\ ~overLimit[p]
  /\ overLimit' = [overLimit EXCEPT ![p] = TRUE]
  /\ UNCHANGED <<ppc, cur, cpuHeld>>

(* Fault: p.cur cleared without wq.AdmittedWorkDone (line 455). *)
PaceNoRelease(p) ==
  /\ ppc[p] = "Loop"
  /\ ~cur[p] \/ overLimit[p]
  /\ cur' = [cur EXCEPT ![p] = FALSE]
  /\ ppc' = [ppc EXCEPT ![p] = "Admitting"]
  /\ UNCHANGED <<overLimit, cpuHeld>>

(* Pace up to its suspension point (lines 449-460): an over-limit handle   *)
(* is given back and cleared, and with no handle the scan waits in Admit.  *)
(* A Pace that holds a handle within its limit returns at once and         *)
(* changes nothing; OverLimit on a nil handle is false.                    *)
Pace(p) ==
  /\ ppc[p] = "Loop"
  /\ ~cur[p] \/ overLimit[p]
  /\ cpuHeld' = IF cur[p] /\ overLimit[p]
                THEN [cpuHeld EXCEPT ![p] = @ - 1] ELSE cpuHeld
  /\ cur' = [cur EXCEPT ![p] = FALSE]
  /\ ppc' = [ppc EXCEPT ![p] = "Admitting"]
  /\ UNCHANGED overLimit

(* wq.Admit grants a token (lines 460-466) and Pace returns nil. *)
PaceGranted(p) ==
  /\ ppc[p] = "Admitting"
  /\ CPUInUse < CPUCap
  /\ cpuHeld' = [cpuHeld EXCEPT ![p] = @ + 1]
  /\ cur' = [cur EXCEPT ![p] = TRUE]
  /\ overLimit' = [overLimit EXCEPT ![p] = FALSE]
  /\ ppc' = [ppc EXCEPT ![p] = "Loop"]

(* wq.Admit returns a nil handle and no error, as it does when elastic CPU *)
(* control is disabled: p.cur stays nil and the next Pace admits again.    *)
PaceNilHandle(p) ==
  /\ ppc[p] = "Admitting"
  /\ ppc' = [ppc EXCEPT ![p] = "Loop"]
  /\ UNCHANGED <<cur, overLimit, cpuHeld>>

(* wq.Admit fails, e.g. on a cancelled context (lines 461-463): Pace      *)
(* returns the error and the caller abandons its loop.                     *)
PaceError(p) ==
  /\ ppc[p] = "Admitting"
  /\ ppc' = [ppc EXCEPT ![p] = "Failed"]
  /\ UNCHANGED <<cur, overLimit, cpuHeld>>

(* Fault: the p.cur == nil early return of line 471 lost. *)
CloseUnguarded(p) ==
  /\ ppc[p] \in {"Loop", "Failed"}
  /\ cpuHeld' = [cpuHeld EXCEPT ![p] = @ - 1]
  /\ cur' = [cur EXCEPT ![p] = FALSE]
  /\ ppc' = [ppc EXCEPT ![p] = "NoPacer"]
  /\ UNCHANGED overLimit

(* Fault: Close drops the handle without wq.AdmittedWorkDone (line 475). *)
CloseNoRelease(p) ==
  /\ ppc[p] \in {"Loop", "Failed"}
  /\ cur' = [cur EXCEPT ![p] = FALSE]
  /\ ppc' = [ppc EXCEPT ![p] = "NoPacer"]
  /\ UNCHANGED <<overLimit, cpuHeld>>

(* Close (lines 470-477), once the scan is done or has failed: a held      *)
(* handle is given back; with none it returns at once.                     *)
Close(p) ==
  /\ ppc[p] \in {"Loop", "Failed"}
  /\ cpuHeld' = IF cur[p] THEN [cpuHeld EXCEPT ![p] = @ - 1] ELSE cpuHeld
  /\ cur' = [cur EXCEPT ![p] = FALSE]
  /\ ppc' = [ppc EXCEPT ![p] = "NoPacer"]
  /\ UNCHANGED overLimit

PNext ==
  \E p \in Scans :
    \/ AdmitRangefeedRequest(p) \/ UseCPU(p)
    \/ Pace(p) \/ PaceGranted(p) \/ PaceNilHandle(p) \/ PaceError(p)
    \/ Close(p)

(***************************************************************************)
(* Fairness.  The elastic CPU queue grants a waiting Pacer when capacity   *)
(* is free again and again.  A scan holding a handle keeps running and so  *)
(* eventually uses up its grant, and a scan in its loop eventually either  *)
(* paces again or finishes and closes its Pacer (the scan is CPU-bound and *)
(* not blocked elsewhere).  Cancellation and new rangefeeds are not fair.  *)
(***************************************************************************)
PFairness ==
  \A p \in Scans :
    /\ SF_pvars(PaceGranted(p))
    /\ WF_pvars(UseCPU(p))
    /\ WF_pvars(Pace(p) \/ Close(p))

PSpec == PInit /\ [][PNext]_pvars
PFairSpec == PSpec /\ PFairness

-----------------------------------------------------------------------------
PTypeOK ==
  /\ ppc \in [Scans -> PPCs]
  /\ cur \in [Scans -> BOOLEAN]
  /\ overLimit \in [Scans -> BOOLEAN]
  /\ cpuHeld \in [Scans -> Nat]

(***************************************************************************)
(* A scan's share of the elastic CPU queue is exactly its Pacer's handle:  *)
(* one token while its Pacer holds a handle outside Pace, none while it    *)
(* waits inside Pace (the over-limit handle was given back before Pace     *)
(* blocked, so a waiting scan never sits on CPU tokens), and none once     *)
(* Close has run, whether the loop finished, failed, or never got a token. *)
(***************************************************************************)
PacerAccounting ==
  \A p \in Scans :
    cpuHeld[p] = IF ppc[p] \in {"Loop", "Failed"} /\ cur[p] THEN 1 ELSE 0

(***************************************************************************)
(* Cooperative scheduling works: every scan that waits inside Pace for CPU *)
(* budget is eventually let go, because every other holder of the queue's *)
(* tokens eventually exceeds its grant and gives the token back in Pace,  *)
(* or closes its Pacer.                                                    *)
(***************************************************************************)
PaceReturns ==
  \A p \in Scans : ppc[p] = "Admitting" ~> ppc[p] # "Admitting"
=============================================================================
