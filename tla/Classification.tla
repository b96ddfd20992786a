--------------------------- MODULE Classification ---------------------------
(***************************************************************************)
(* The classification policy of AdmitKVWork (lines 179-194): whether a     *)
(* request bypasses admission control, from its tenant, the admin flag     *)
(* and source of its AdmissionHeader, its priority, and the bulk-only      *)
(* cluster setting.  Each rule overrides the previous one, in the order of *)
(* the code.                                                               *)
(***************************************************************************)
EXTENDS Integers

CONSTANTS
  Tenants,     \* tenant IDs; 1 is the system tenant
  Priorities   \* AdmissionHeader.Priority values (an int32 field)

ASSUME InputAssumption == Tenants \subseteq Nat /\ Priorities \subseteq Int

SystemTenantID == 1
NormalPri == 0
Sources == {"OTHER", "FROM_SQL", "ROOT_KV"}

IsSystemTenantID(t) == t = SystemTenantID

(* admissionpb.WorkPriority(p): the int32 header priority converted to the *)
(* int8 WorkPriority, keeping its low eight bits as a signed value.        *)
ToWorkPriority(p) == ((p + 128) % 256) - 128

(* Fault: the overrides for a non-system tenant (lines 181-185) lost. *)
BypassAdmissionNoTenantOverride(tenant, isAdmin, source, pri, bulkOnly) ==
  isAdmin \/ source = "OTHER" \/ (bulkOnly /\ ToWorkPriority(pri) >= NormalPri)

BypassAdmission(tenant, isAdmin, source, pri, bulkOnly) ==
  LET fromSQL == ~IsSystemTenantID(tenant)
      src     == IF fromSQL THEN "FROM_SQL" ELSE source
      byAdmin == isAdmin /\ ~fromSQL
      byOther == byAdmin \/ src = "OTHER"
  IN  byOther \/ (bulkOnly /\ ToWorkPriority(pri) >= NormalPri)

(***************************************************************************)
(* The bypass rule of the specification (section 4.1, steps 1-4): a        *)
(* request bypasses admission iff bulk-only admission is on and its        *)
(* priority is at least normal, or it comes from the system tenant and is  *)
(* an admin request or declares the OTHER source.                          *)
(***************************************************************************)
BypassSpec(tenant, isAdmin, source, pri, bulkOnly) ==
  \/ bulkOnly /\ pri >= NormalPri
  \/ IsSystemTenantID(tenant) /\ (isAdmin \/ source = "OTHER")
=============================================================================
