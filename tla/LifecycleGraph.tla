--------------------------- MODULE LifecycleGraph ---------------------------
(***************************************************************************)
(* The transition graph of a transaction (domain/states/transitions.py).   *)
(***************************************************************************)

LifecycleStates ==
  {"CREATED", "EXECUTING", "OBSERVING", "VERIFYING", "PASS", "DRIFT",
   "UNKNOWN", "RESOLVING", "RECOVERING", "REVALIDATING", "ABSTAIN"}

\* What integrity evaluation returns (IntegrityStatus).
Verdicts == {"PASS", "DRIFT", "UNKNOWN"}

\* PERMITTED_TRANSITIONS.
PermittedTransitions ==
  [s \in LifecycleStates |->
     CASE s = "CREATED" -> {"EXECUTING"}
       [] s = "EXECUTING" -> {"OBSERVING"}
       [] s = "OBSERVING" -> {"VERIFYING"}
       [] s = "VERIFYING" -> Verdicts
       [] s = "DRIFT" -> {"RECOVERING", "RESOLVING", "ABSTAIN"}
       [] s = "UNKNOWN" -> {"RESOLVING", "ABSTAIN"}
       [] s \in {"RESOLVING", "RECOVERING"} -> {"REVALIDATING", "ABSTAIN"}
       [] s = "REVALIDATING" -> Verdicts \cup {"VERIFYING", "ABSTAIN"}
       [] s \in {"PASS", "ABSTAIN"} -> {}]

\* can_transition / validate_transition: self-transitions are refused.
CanTransition(from, to) ==
  /\ from \in LifecycleStates
  /\ from # to
  /\ to \in PermittedTransitions[from]

Terminal == {s \in LifecycleStates : PermittedTransitions[s] = {}}
=============================================================================
