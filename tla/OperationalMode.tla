--------------------------- MODULE OperationalMode ---------------------------
(***************************************************************************)
(* The operational deployment modes (services/operational_mode/ and        *)
(* domain/operational_mode/) and the two places that use them: the         *)
(* evaluation at the end of complete_transaction and the control plane,    *)
(* which changes the mode, decides reviews and lets payments through.      *)
(*                                                                         *)
(* A transaction is completed once; its verdict and its kill switch go on  *)
(* changing afterwards.  A review belongs to one transaction, so it is     *)
(* kept under the name of that transaction.  An evaluation is a value that *)
(* its caller keeps for as long as it likes: evals[t] has all of them.     *)
(***************************************************************************)
EXTENDS Integers, Sequences, KillSwitchPolicy

CONSTANTS
  Txs,
  Total,          \* max_total of each intent, in the currency of thresholds
  Foreign,        \* the transactions in another currency
  Actors,         \* who calls
  Agents,         \* the actors whose name has a forbidden keyword
  Policies,       \* the policies an operator may install
  InitialPolicy,
  Tolerance,      \* max_unknown_tolerance of the kill switch
  MaxChanges,     \* bound: recorded changes of the policy
  MaxEvaluations  \* bound: evaluations of one transaction by the control plane

Modes == {"SHADOW", "GUARDED", "HUMAN_REVIEW"}
Verdicts == {"PASS", "DRIFT", "UNKNOWN"}
NoThreshold == -1

PolicyRecords ==
  [mode : Modes, auto : BOOLEAN, onDrift : BOOLEAN, onUnknown : BOOLEAN,
   threshold : Nat \cup {NoThreshold}]

ASSUME PoliciesAssumption == InitialPolicy \in Policies /\ Policies \subseteq PolicyRecords
ASSUME TotalAssumption == Total \in [Txs -> Nat] /\ Foreign \subseteq Txs
ASSUME ActorsAssumption == Agents \subseteq Actors
ASSUME ToleranceAssumption == Tolerance \in Nat \ {0}
ASSUME BoundsAssumption == MaxChanges \in Nat /\ MaxEvaluations \in Nat

VARIABLES
  policy,   \* _policy
  changes,  \* _transition_history: the modes before and after
  review,   \* the review of each transaction
  at,       \* how far complete_transaction is
  status,   \* the verdict on each transaction
  ks,       \* the kill switch of each transaction
  evals,    \* the evaluations handed out for each transaction
  paid      \* the payments let through: a transaction, and by which evaluation

vars == <<policy, changes, review, at, status, ks, evals, paid>>

ReviewStatuses == {"NONE", "PENDING", "APPROVED", "REJECTED"}
NoReview == [status |-> "NONE", by |-> "nobody"]

Actions ==
  {"ALLOW_EXECUTION", "BLOCK_EXECUTION", "OBSERVE_ONLY", "TRIGGER_REMEDIATION",
   "REQUIRE_HUMAN_REVIEW", "TRIGGER_SAFETY_CONTROL"}

-----------------------------------------------------------------------------
(***************************************************************************)
(* OperationalModeEngine.evaluate.                                         *)
(***************************************************************************)

\* reviewed: the result names a review, whose decision it is an answer to.
Result(mode, action, reviewed, verdict, safety) ==
  [mode |-> mode, action |-> action, reviewed |-> reviewed, verdict |-> verdict,
   safety |-> safety,
   can |-> action \in {"ALLOW_EXECUTION", "OBSERVE_ONLY"},
   remediation |-> action = "TRIGGER_REMEDIATION"]

Unsafe(safety) == safety \in {"KILLED", "REQUIRES_REVALIDATION"}

GuardedAction(p, verdict, safety) ==
  IF Unsafe(safety) THEN "TRIGGER_SAFETY_CONTROL"
  ELSE IF safety = "PAUSED" THEN "BLOCK_EXECUTION"
  ELSE CASE verdict = "PASS"    -> "ALLOW_EXECUTION"
         [] verdict = "DRIFT"   -> IF p.auto THEN "TRIGGER_REMEDIATION" ELSE "BLOCK_EXECUTION"
         [] verdict = "UNKNOWN" -> "BLOCK_EXECUTION"

\* Mutant: the threshold is forgotten.
SensitiveUnlimited(p, t, verdict, safety) ==
  \/ safety # "RUNNING"
  \/ verdict = "DRIFT" /\ p.onDrift
  \/ verdict = "UNKNOWN" /\ p.onUnknown

\* A review is needed when there is none yet.
Sensitive(p, t, verdict, safety) ==
  \/ safety # "RUNNING"
  \/ verdict = "DRIFT" /\ p.onDrift
  \/ verdict = "UNKNOWN" /\ p.onUnknown
  \/ p.threshold # NoThreshold /\ t \notin Foreign /\ Total[t] > p.threshold

\* Mutant: an approval answers every objection but an unsafe state.
ReviewedActionTrusting(decision, verdict, safety) ==
  CASE decision = "REJECTED" -> "BLOCK_EXECUTION"
    [] decision = "APPROVED" ->
         IF Unsafe(safety) THEN "TRIGGER_SAFETY_CONTROL" ELSE "ALLOW_EXECUTION"
    [] decision = "PENDING"  -> "REQUIRE_HUMAN_REVIEW"

\* Mutant: an open review is no obstacle to what is verified.
ReviewedActionImpatient(decision, verdict, safety) ==
  CASE decision = "REJECTED" -> "BLOCK_EXECUTION"
    [] decision = "APPROVED" ->
         IF Unsafe(safety) THEN "TRIGGER_SAFETY_CONTROL"
         ELSE IF verdict = "PASS" /\ safety = "RUNNING" THEN "ALLOW_EXECUTION"
         ELSE "BLOCK_EXECUTION"
    [] decision = "PENDING"  ->
         IF verdict = "PASS" /\ safety = "RUNNING" THEN "ALLOW_EXECUTION"
         ELSE "REQUIRE_HUMAN_REVIEW"

ReviewedAction(decision, verdict, safety) ==
  CASE decision = "REJECTED" -> "BLOCK_EXECUTION"
    [] decision = "APPROVED" ->
         IF Unsafe(safety) THEN "TRIGGER_SAFETY_CONTROL"
         ELSE IF verdict = "PASS" /\ safety = "RUNNING" THEN "ALLOW_EXECUTION"
         ELSE "BLOCK_EXECUTION"
    [] decision = "PENDING"  -> "REQUIRE_HUMAN_REVIEW"

\* Mutant: no answer when nothing applies.
HumanReviewActionOpen(p, t, decision, verdict, safety) ==
  IF decision # "NONE" THEN ReviewedAction(decision, verdict, safety)
  ELSE IF Sensitive(p, t, verdict, safety) THEN "REQUIRE_HUMAN_REVIEW"
  ELSE IF verdict = "PASS" /\ safety = "RUNNING" THEN "ALLOW_EXECUTION"
  ELSE "NONE"

HumanReviewAction(p, t, decision, verdict, safety) ==
  IF decision # "NONE" THEN ReviewedAction(decision, verdict, safety)
  ELSE IF Sensitive(p, t, verdict, safety) THEN "REQUIRE_HUMAN_REVIEW"
  ELSE IF verdict = "PASS" /\ safety = "RUNNING" THEN "ALLOW_EXECUTION"
  ELSE "BLOCK_EXECUTION"

Evaluation(p, t, decision, verdict, safety) ==
  Result(p.mode,
         CASE p.mode = "SHADOW"       -> "OBSERVE_ONLY"
           [] p.mode = "GUARDED"      -> GuardedAction(p, verdict, safety)
           [] p.mode = "HUMAN_REVIEW" -> HumanReviewAction(p, t, decision, verdict, safety),
         p.mode = "HUMAN_REVIEW" /\ decision # "NONE", verdict, safety)

-----------------------------------------------------------------------------
Init ==
  /\ policy = InitialPolicy
  /\ changes = << >>
  /\ review = [t \in Txs |-> NoReview]
  /\ at = [t \in Txs |-> "executing"]
  /\ status = [t \in Txs |-> "NONE"]
  /\ ks = [t \in Txs |-> "RUNNING"]
  /\ evals = [t \in Txs |-> << >>]
  /\ paid = {}

\* Mutant: a change of the policy is recorded after it was made.
RecordedLate(new) == [from |-> new.mode, to |-> new.mode]

\* ModeTransitionRecord: the record is made before the policy is replaced.
Recorded(new) == [from |-> policy.mode, to |-> new.mode]

\* set_mode keeps the rest of the policy; agents are refused.
SetMode(a, mode) ==
  /\ a \notin Agents
  /\ Len(changes) < MaxChanges
  /\ policy' = [policy EXCEPT !.mode = mode]
  /\ changes' = Append(changes, Recorded(policy'))
  /\ UNCHANGED <<review, at, status, ks, evals, paid>>

UpdatePolicy(a, p) ==
  /\ a \notin Agents
  /\ Len(changes) < MaxChanges
  /\ policy' = p
  /\ changes' = Append(changes, Recorded(p))
  /\ UNCHANGED <<review, at, status, ks, evals, paid>>

\* complete_transaction begins: assert_can_execute of the kill switch.
CompleteBegin(t) ==
  /\ at[t] = "executing"
  /\ ks[t] = "RUNNING"
  /\ at' = [at EXCEPT ![t] = "verifying"]
  /\ UNCHANGED <<policy, changes, review, status, ks, evals, paid>>

(***************************************************************************)
(* The verdict is applied, the kill switch enforces, and the mode is       *)
(* evaluated with the state that was enforced, or RUNNING when nothing     *)
(* was; the session keeps this evaluation.  A review that is required is   *)
(* never made: its arguments name a field an intent does not have, and the *)
(* call raises with the verdict, the kill switch and the evaluation in     *)
(* place.                                                                  *)
(***************************************************************************)
CompleteEnforce(t, verdict, late, bound, unknowns) ==
  LET finding == EnforcedFinding(late, bound, verdict, unknowns, Tolerance)
      result == Evaluation(policy, t, review[t].status, verdict, finding.to)
      held == result.action = "REQUIRE_HUMAN_REVIEW" /\ review[t] = NoReview
  IN  /\ at[t] = "verifying"
      /\ bound \/ verdict = "DRIFT"
      /\ finding # NoFinding => MayMove(ks[t], finding.to)
      /\ status' = [status EXCEPT ![t] = verdict]
      /\ ks' = [ks EXCEPT ![t] = IF finding = NoFinding THEN @ ELSE finding.to]
      /\ evals' = [evals EXCEPT ![t] = Append(@, result)]
      /\ at' = [at EXCEPT ![t] = IF held THEN "raised" ELSE "answered"]
      /\ UNCHANGED <<policy, changes, review, paid>>

\* recover_transaction and resolve_unknown change the verdict; they do not
\* evaluate the mode.
Reverdict(t, verdict) ==
  /\ at[t] \in {"answered", "raised"}
  /\ status[t] \in {"DRIFT", "UNKNOWN"}
  /\ status' = [status EXCEPT ![t] = verdict]
  /\ UNCHANGED <<policy, changes, review, at, ks, evals, paid>>

\* Kills, pauses, resumptions and revalidations of the operator.
MoveSafety(t, to) ==
  /\ to # ks[t]
  /\ MayMove(ks[t], to)
  /\ ks' = [ks EXCEPT ![t] = to]
  /\ UNCHANGED <<policy, changes, review, at, status, evals, paid>>

\* evaluate_transaction answers the control plane by what is the case, and
\* keeps nothing: the answer is the caller's.
Evaluate(t) ==
  /\ status[t] # "NONE"
  /\ Len(evals[t]) < MaxEvaluations
  /\ evals' = [evals EXCEPT ![t] =
                 Append(@, Evaluation(policy, t, review[t].status, status[t], ks[t]))]
  /\ UNCHANGED <<policy, changes, review, at, status, ks, paid>>

\* create_review_requirement, whatever was evaluated before and of a
\* transaction in any state; a second call returns the first review.
OpenReview(t) ==
  /\ review[t] = NoReview
  /\ review' = [review EXCEPT ![t] = [status |-> "PENDING", by |-> "nobody"]]
  /\ UNCHANGED <<policy, changes, at, status, ks, evals, paid>>

\* Mutant: a settled review can be decided again.
MaySettleAgain(t, a) == review[t] # NoReview /\ a \notin Agents

\* The decision names a review that is open, and its reviewer is no agent.
MaySettle(t, a) == review[t].status = "PENDING" /\ a \notin Agents

SubmitReview(t, a, decision) ==
  /\ MaySettle(t, a)
  /\ review' = [review EXCEPT ![t] = [status |-> decision, by |-> a]]
  /\ UNCHANGED <<policy, changes, at, status, ks, evals, paid>>

\* assert_can_execute_payment looks at the evaluation it is handed, which
\* can be any; what is observed only is permitted by the evaluation itself.
Pay(t, i) ==
  /\ evals[t][i].can
  /\ paid' = paid \cup {<<t, i>>}
  /\ UNCHANGED <<policy, changes, review, at, status, ks, evals>>

Control ==
  \/ \E a \in Actors, mode \in Modes : SetMode(a, mode)
  \/ \E a \in Actors, p \in Policies : UpdatePolicy(a, p)
  \/ \E t \in Txs, a \in Actors, decision \in {"APPROVED", "REJECTED"} :
       SubmitReview(t, a, decision)

Next ==
  \/ Control
  \/ \E t \in Txs :
       \/ CompleteBegin(t)
       \/ \E verdict \in Verdicts, late \in BOOLEAN, bound \in BOOLEAN,
             unknowns \in 1 .. Tolerance : CompleteEnforce(t, verdict, late, bound, unknowns)
       \/ \E verdict \in Verdicts : Reverdict(t, verdict)
       \/ \E to \in SafetyStates : MoveSafety(t, to)
       \/ Evaluate(t) \/ OpenReview(t)
       \/ \E i \in DOMAIN evals[t] : Pay(t, i)

Spec == Init /\ [][Next]_vars

-----------------------------------------------------------------------------
(***************************************************************************)
(* Properties.                                                             *)
(***************************************************************************)

EvaluationResults ==
  [mode : Modes, action : Actions, reviewed : BOOLEAN, verdict : Verdicts,
   safety : SafetyStates, can : BOOLEAN, remediation : BOOLEAN]

\* Every variable has its type, and every evaluation names an action.
TypeOK ==
  /\ policy \in PolicyRecords
  /\ changes \in Seq([from : Modes, to : Modes])
  /\ review \in [Txs -> [status : ReviewStatuses, by : Actors \cup {"nobody"}]]
  /\ at \in [Txs -> {"executing", "verifying", "answered", "raised"}]
  /\ status \in [Txs -> Verdicts \cup {"NONE"}]
  /\ ks \in [Txs -> SafetyStates]
  /\ evals \in [Txs -> Seq(EvaluationResults)]
  /\ \A p \in paid : p[1] \in Txs /\ p[2] \in DOMAIN evals[p[1]]

(***************************************************************************)
(* The history of the modes is a chain from the first mode to the mode in  *)
(* force: every record starts where the one before ended, whichever of the *)
(* two operations made it.                                                 *)
(***************************************************************************)
ModeAudit ==
  \A i \in 1 .. Len(changes) + 1 :
    (IF i = 1 THEN InitialPolicy.mode ELSE changes[i - 1].to)
      = (IF i = Len(changes) + 1 THEN policy.mode ELSE changes[i].from)

(***************************************************************************)
(* Under human review a payment of an amount above the threshold is        *)
(* permitted only with the approval of a human, though the policy, the     *)
(* verdict and the kill switch change between review and evaluation.       *)
(***************************************************************************)
Permitted(e) == e.mode = "HUMAN_REVIEW" /\ e.can

LargePaymentsApproved ==
  [][\A t \in Txs :
       (/\ Len(evals'[t]) > Len(evals[t])
        /\ Permitted(evals'[t][Len(evals'[t])])
        /\ policy.threshold # NoThreshold /\ t \notin Foreign /\ Total[t] > policy.threshold)
       => review[t].status = "APPROVED" /\ review[t].by \in Actors \ Agents]_vars

(***************************************************************************)
(* "Approval does not fabricate PASS": outside SHADOW no evaluation        *)
(* permits execution, nor anything else than PASS on a RUNNING transaction *)
(* did, whatever was approved before.                                      *)
(***************************************************************************)
PermitIsEarned ==
  \A t \in Txs : \A i \in DOMAIN evals[t] :
    evals[t][i].can /\ evals[t][i].mode # "SHADOW" =>
      evals[t][i].verdict = "PASS" /\ evals[t][i].safety = "RUNNING"

(***************************************************************************)
(* "Settled reviews cannot be modified or re-decided": a payment that was  *)
(* let through on the strength of a review rests, for good, on the         *)
(* approval of a human, however long the caller kept the evaluation and    *)
(* whatever was submitted about the review since.                          *)
(***************************************************************************)
DecisionsHold ==
  \A p \in paid :
    Permitted(evals[p[1]][p[2]]) /\ evals[p[1]][p[2]].reviewed =>
      review[p[1]].status = "APPROVED" /\ review[p[1]].by \in Actors \ Agents

(***************************************************************************)
(* "In HUMAN_REVIEW mode, if review is required, create the bound          *)
(* requirement": a completion that was held has its review.                *)
(***************************************************************************)
HeldHasReview ==
  \A t \in Txs : at[t] = "raised" => review[t] # NoReview

=============================================================================
