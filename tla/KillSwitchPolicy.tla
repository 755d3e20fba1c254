-------------------------- MODULE KillSwitchPolicy --------------------------
(***************************************************************************)
(* The pure policy of the execution-control plane                          *)
(* (domain/kill_switch/policy.py): which moves between safety states are   *)
(* legal, what each class of finding asks for, and when a revalidation     *)
(* request is accepted.  No state: KillSwitch and TransactionSlice use it. *)
(***************************************************************************)
EXTENDS Integers

SafetyStates == {"RUNNING", "PAUSED", "REQUIRES_REVALIDATION", "KILLED"}

KillTriggers == {"ADMINISTRATIVE_KILL", "CRITICAL_DRIFT", "BINDING_VIOLATION"}

\* Mutant: a hold placed on a transaction that awaits revalidation.
PermittedSafetyPausable ==
  [s \in SafetyStates |->
     CASE s = "RUNNING" -> {"PAUSED", "REQUIRES_REVALIDATION", "KILLED"}
       [] s = "PAUSED" -> {"RUNNING", "REQUIRES_REVALIDATION", "KILLED"}
       [] s = "REQUIRES_REVALIDATION" -> {"RUNNING", "PAUSED", "KILLED"}
       [] s = "KILLED" -> {"REQUIRES_REVALIDATION"}]

\* PERMITTED_SAFETY_TRANSITIONS.
PermittedSafety ==
  [s \in SafetyStates |->
     CASE s = "RUNNING" -> {"PAUSED", "REQUIRES_REVALIDATION", "KILLED"}
       [] s = "PAUSED" -> {"RUNNING", "REQUIRES_REVALIDATION", "KILLED"}
       [] s = "REQUIRES_REVALIDATION" -> {"RUNNING", "KILLED"}
       [] s = "KILLED" -> {"REQUIRES_REVALIDATION"}]

\* validate_transition does not raise: staying put is a no-op.
MayMove(from, to) == from = to \/ to \in PermittedSafety[from]

(***************************************************************************)
(* A finding names the state to enforce and the trigger to record;         *)
(* NoFinding is the Python None.                                           *)
(***************************************************************************)
Finding(to, trigger) == [to |-> to, trigger |-> trigger]
NoFinding == Finding("RUNNING", "NONE")

\* Mutant: the tolerance is exceeded, not reached.
IntegrityFindingLate(status, unknowns, tolerance) ==
  IF status = "DRIFT" THEN Finding("KILLED", "CRITICAL_DRIFT")
  ELSE IF status = "UNKNOWN" /\ unknowns > tolerance
         THEN Finding("REQUIRES_REVALIDATION", "REPEATED_UNKNOWN")
         ELSE NoFinding

IntegrityFinding(status, unknowns, tolerance) ==
  IF status = "DRIFT" THEN Finding("KILLED", "CRITICAL_DRIFT")
  ELSE IF status = "UNKNOWN" /\ unknowns >= tolerance
         THEN Finding("REQUIRES_REVALIDATION", "REPEATED_UNKNOWN")
         ELSE NoFinding

(***************************************************************************)
(* The finding evaluate_and_enforce acts on: expiry shadows binding, and   *)
(* binding shadows integrity.  `unknowns` already counts this evaluation.  *)
(***************************************************************************)
EnforcedFinding(expired, bindingValid, status, unknowns, tolerance) ==
  IF expired THEN Finding("REQUIRES_REVALIDATION", "EXPIRED_AUTHORIZATION")
  ELSE IF ~bindingValid THEN Finding("KILLED", "BINDING_VIOLATION")
       ELSE IntegrityFinding(status, unknowns, tolerance)

\* An UNKNOWN is counted only when neither expiry nor binding returned first.
CountsUnknown(expired, bindingValid, status) ==
  ~expired /\ bindingValid /\ status = "UNKNOWN"

(***************************************************************************)
(* Revalidation: the claimed identifiers are those registered, one piece   *)
(* of evidence is authoritative or protocol-trusted, and the request is    *)
(* neither future-dated beyond 60 s nor older than 24 h (age in seconds).  *)
(***************************************************************************)
RevalidationAccepted(request, tx, context) ==
  /\ request.tx = tx
  /\ request.context = context
  /\ request.evidence \cap {"AUTHORITATIVE", "PROTOCOL_TRUSTED"} # {}
  /\ request.age >= -60
  /\ request.age <= 86400
=============================================================================
