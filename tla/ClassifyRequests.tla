-------------------------- MODULE ClassifyRequests --------------------------
(***************************************************************************)
(* Successive calls of AdmitKVWork, each with its own tenant, header and   *)
(* the bulk-only setting of the moment, seen only through the             *)
(* classification they get.                                                *)
(***************************************************************************)
EXTENDS Classification

(* Header priorities are WorkPriority values written into the int32 field. *)
ASSUME HeaderPriorityAssumption == Priorities \subseteq -128..127

VARIABLE call   \* the inputs of the AdmitKVWork call being classified

Calls == [tenant : Tenants, isAdmin : BOOLEAN, source : Sources,
          pri : Priorities, bulkOnly : BOOLEAN]

BypassOf(c) == BypassAdmission(c.tenant, c.isAdmin, c.source, c.pri, c.bulkOnly)

CInit == call \in Calls

(* The next request arrives, with any tenant, header and setting. *)
NextCall == call' \in Calls

CSpec == CInit /\ [][NextCall]_call

-----------------------------------------------------------------------------
(***************************************************************************)
(* Every request AdmitKVWork classifies gets the bypass decision of the    *)
(* specification's precedence rules, steps 1-4 of section 4.1, with the    *)
(* header priority converted to a WorkPriority on the way.                 *)
(***************************************************************************)
BypassFollowsPrecedence ==
  BypassOf(call) = BypassSpec(call.tenant, call.isAdmin, call.source,
                              call.pri, call.bulkOnly)

(***************************************************************************)
(* The specification's concrete case (c) of section 8: any request that    *)
(* declares the OTHER source bypasses admission, regardless of its tenant. *)
(***************************************************************************)
OtherSourceBypasses == call.source = "OTHER" => BypassOf(call)
=============================================================================
