------------------------ MODULE OperationalModeProofs ------------------------
(***************************************************************************)
(* Proofs about the operational modes, for any transactions, actors,       *)
(* policies, amounts and number of changes.                                *)
(***************************************************************************)
EXTENDS OperationalMode, TLAPS

-----------------------------------------------------------------------------
(***************************************************************************)
(* What one evaluation answers.                                            *)
(***************************************************************************)

LEMMA ActionType ==
  ASSUME NEW p, p.mode \in Modes, NEW t, NEW decision \in ReviewStatuses,
         NEW verdict \in Verdicts, NEW safety \in SafetyStates
  PROVE  Evaluation(p, t, decision, verdict, safety).action \in Actions
  <1>1. GuardedAction(p, verdict, safety) \in Actions
    BY DEF GuardedAction, Actions, Verdicts
  <1>2. decision # "NONE" => ReviewedAction(decision, verdict, safety) \in Actions
    BY DEF ReviewedAction, Actions, ReviewStatuses
  <1>3. HumanReviewAction(p, t, decision, verdict, safety) \in Actions
    BY <1>2 DEF HumanReviewAction, Actions
  <1>4. "OBSERVE_ONLY" \in Actions
    BY DEF Actions
  <1> QED
    BY <1>1, <1>3, <1>4 DEF Evaluation, Result, Modes

LEMMA ResultType ==
  ASSUME NEW mode \in Modes, NEW action \in Actions, NEW reviewed \in BOOLEAN,
         NEW verdict \in Verdicts, NEW safety \in SafetyStates
  PROVE  Result(mode, action, reviewed, verdict, safety) \in EvaluationResults
  <1> DEFINE can == action \in {"ALLOW_EXECUTION", "OBSERVE_ONLY"}
             remediation == action = "TRIGGER_REMEDIATION"
             e == [mode |-> mode, action |-> action, reviewed |-> reviewed,
                   verdict |-> verdict, safety |-> safety,
                   can |-> can, remediation |-> remediation]
  <1>1. can \in BOOLEAN /\ remediation \in BOOLEAN
    OBVIOUS
  <1>2. e = Result(mode, action, reviewed, verdict, safety)
    BY Zenon DEF Result
  <1> HIDE DEF can, remediation
  <1>3. e \in EvaluationResults
    BY <1>1 DEF EvaluationResults
  <1> QED
    BY <1>2, <1>3

LEMMA EvaluationType ==
  ASSUME NEW p, p.mode \in Modes, NEW t, NEW decision \in ReviewStatuses,
         NEW verdict \in Verdicts, NEW safety \in SafetyStates
  PROVE  Evaluation(p, t, decision, verdict, safety) \in EvaluationResults
  <1> DEFINE reviewed == p.mode = "HUMAN_REVIEW" /\ decision # "NONE"
  <1> PICK action : Evaluation(p, t, decision, verdict, safety)
                      = Result(p.mode, action, reviewed, verdict, safety)
    BY Zenon DEF Evaluation
  <1>1. Result(p.mode, action, reviewed, verdict, safety).action = action
    BY DEF Result
  <1>2. action \in Actions
    BY <1>1, ActionType
  <1>3. reviewed \in BOOLEAN
    OBVIOUS
  <1> HIDE DEF reviewed
  <1> QED
    BY <1>2, <1>3, ResultType

\* Outside SHADOW only a PASS of a RUNNING transaction is permitted.
LEMMA PermitLemma ==
  ASSUME NEW p, p.mode \in Modes, NEW t, NEW decision \in ReviewStatuses,
         NEW verdict \in Verdicts, NEW safety \in SafetyStates,
         Evaluation(p, t, decision, verdict, safety).can,
         Evaluation(p, t, decision, verdict, safety).mode # "SHADOW"
  PROVE  /\ Evaluation(p, t, decision, verdict, safety).verdict = "PASS"
         /\ Evaluation(p, t, decision, verdict, safety).safety = "RUNNING"
  <1>1. CASE p.mode = "GUARDED"
    BY <1>1 DEF Evaluation, Result, GuardedAction, Unsafe, Verdicts, SafetyStates
  <1>2. CASE p.mode = "HUMAN_REVIEW"
    BY <1>2 DEF Evaluation, Result, HumanReviewAction, ReviewedAction, ReviewStatuses
  <1>3. p.mode # "SHADOW"
    BY DEF Evaluation, Result
  <1> QED
    BY <1>1, <1>2, <1>3 DEF Modes

\* Under human review what is permitted has no review, or an approval; it has
\* the approval if it names a review, or the amount is above the threshold.
LEMMA ReviewLemma ==
  ASSUME NEW p, p.mode \in Modes, NEW t, NEW decision \in ReviewStatuses,
         NEW verdict \in Verdicts, NEW safety \in SafetyStates,
         Permitted(Evaluation(p, t, decision, verdict, safety))
  PROVE  /\ Evaluation(p, t, decision, verdict, safety).reviewed => decision = "APPROVED"
         /\ (p.threshold # NoThreshold /\ t \notin Foreign /\ Total[t] > p.threshold)
              => decision = "APPROVED"
  <1>1. /\ p.mode = "HUMAN_REVIEW"
        /\ Evaluation(p, t, decision, verdict, safety).reviewed => decision # "NONE"
    BY DEF Evaluation, Result, Permitted
  <1>2. HumanReviewAction(p, t, decision, verdict, safety) \in {"ALLOW_EXECUTION", "OBSERVE_ONLY"}
    BY <1>1 DEF Evaluation, Result, Permitted
  <1>3. decision \in {"NONE", "APPROVED"}
    BY <1>2 DEF HumanReviewAction, ReviewedAction, ReviewStatuses
  <1>4. decision = "NONE" => ~ Sensitive(p, t, verdict, safety)
    BY <1>2 DEF HumanReviewAction
  <1> QED
    BY <1>1, <1>3, <1>4 DEF Sensitive

\* The state a finding enforces.
LEMMA FindingState ==
  ASSUME NEW late, NEW bound, NEW verdict, NEW n
  PROVE  EnforcedFinding(late, bound, verdict, n, Tolerance).to \in SafetyStates
  BY DEF EnforcedFinding, IntegrityFinding, Finding, NoFinding, SafetyStates

-----------------------------------------------------------------------------
(***************************************************************************)
(* The invariant.  A decided review has a human reviewer.  What was        *)
(* permitted under human review in the light of a review has its approval, *)
(* for good: a review is decided only while it is open.  Nothing is said   *)
(* of what was evaluated before its review was opened.                     *)
(***************************************************************************)
Reviewed ==
  \A t \in Txs :
    /\ review[t].status \in {"APPROVED", "REJECTED"} => review[t].by \in Actors \ Agents
    /\ \A i \in DOMAIN evals[t] :
         Permitted(evals[t][i]) /\ evals[t][i].reviewed => review[t].status = "APPROVED"

Inv == TypeOK /\ Reviewed /\ PermitIsEarned /\ ModeAudit

LEMMA InitInv == Init => Inv
  <1> SUFFICES ASSUME Init PROVE Inv
    OBVIOUS
  <1>1. TypeOK
    <2>1. policy \in PolicyRecords
      BY PoliciesAssumption DEF Init
    <2>2. NoReview \in [status : ReviewStatuses, by : Actors \cup {"nobody"}]
      BY DEF NoReview, ReviewStatuses
    <2> QED
      BY <2>1, <2>2 DEF Init, TypeOK, SafetyStates
  <1>2. Reviewed /\ PermitIsEarned
    BY DEF Init, Reviewed, PermitIsEarned, NoReview
  <1>3. ModeAudit
    BY DEF Init, ModeAudit
  <1> QED
    BY <1>1, <1>2, <1>3 DEF Inv

\* A recorded change continues the chain of modes.
LEMMA ChangeAudit ==
  ASSUME ModeAudit, NEW p, policy' = p, changes' = Append(changes, Recorded(p)),
         changes \in Seq([from : Modes, to : Modes]), policy.mode \in Modes, p.mode \in Modes
  PROVE  ModeAudit'
  <1>1. Recorded(p) \in [from : Modes, to : Modes]
    BY DEF Recorded
  <1>2. /\ Len(changes') = Len(changes) + 1 /\ Len(changes) \in Nat
        /\ \A i \in 1 .. Len(changes) : changes'[i] = changes[i]
        /\ changes'[Len(changes) + 1] = Recorded(p)
    BY <1>1
  <1> SUFFICES ASSUME NEW i \in 1 .. Len(changes') + 1
               PROVE  (IF i = 1 THEN InitialPolicy.mode ELSE changes'[i - 1].to)
                        = (IF i = Len(changes') + 1 THEN policy'.mode ELSE changes'[i].from)
    BY DEF ModeAudit
  <1>3. CASE i = Len(changes) + 2
    BY <1>2, <1>3 DEF Recorded
  <1>4. CASE i = Len(changes) + 1
    <2>1. (IF i = 1 THEN InitialPolicy.mode ELSE changes[i - 1].to) = policy.mode
      BY <1>2, <1>4 DEF ModeAudit
    <2>2. i # 1 => changes'[i - 1] = changes[i - 1]
      BY <1>2, <1>4
    <2>3. changes'[i].from = policy.mode
      BY <1>2, <1>4 DEF Recorded
    <2> QED
      BY <1>2, <1>4, <2>1, <2>2, <2>3
  <1>5. CASE i \in 1 .. Len(changes)
    <2>1. (IF i = 1 THEN InitialPolicy.mode ELSE changes[i - 1].to) = changes[i].from
      BY <1>2, <1>5 DEF ModeAudit
    <2>2. /\ changes'[i] = changes[i]
          /\ i # 1 => changes'[i - 1] = changes[i - 1]
      BY <1>2, <1>5
    <2> QED
      BY <1>2, <1>5, <2>1, <2>2
  <1> QED
    BY <1>2, <1>3, <1>4, <1>5

\* A new evaluation of one transaction under the policy in force.
LEMMA NewEvaluation ==
  ASSUME Inv, NEW t \in Txs, NEW verdict \in Verdicts, NEW safety \in SafetyStates,
         evals' = [evals EXCEPT ![t] =
                     Append(@, Evaluation(policy, t, review[t].status, verdict, safety))],
         UNCHANGED <<review, paid>>
  PROVE  /\ Reviewed' /\ PermitIsEarned'
         /\ evals' \in [Txs -> Seq(EvaluationResults)]
         /\ \A p \in paid' : p[1] \in Txs /\ p[2] \in DOMAIN evals'[p[1]]
  <1> DEFINE e == Evaluation(policy, t, review[t].status, verdict, safety)
  <1>1. policy.mode \in Modes /\ review[t].status \in ReviewStatuses
    BY DEF Inv, TypeOK, PolicyRecords
  <1>2. e \in EvaluationResults
    BY <1>1, EvaluationType
  <1>3. e.can /\ e.mode # "SHADOW" => e.verdict = "PASS" /\ e.safety = "RUNNING"
    BY <1>1, PermitLemma
  <1>4. Permitted(e) /\ e.reviewed => review[t].status = "APPROVED"
    BY <1>1, ReviewLemma
  <1> HIDE DEF e
  <1>5. evals \in [Txs -> Seq(EvaluationResults)]
    BY DEF Inv, TypeOK
  <1>6. /\ evals' \in [Txs -> Seq(EvaluationResults)]
        /\ \A u \in Txs \ {t} : evals'[u] = evals[u]
        /\ evals'[t] = Append(evals[t], e)
    BY <1>2, <1>5 DEF e
  <1>7. /\ DOMAIN evals'[t] = DOMAIN evals[t] \cup {Len(evals[t]) + 1}
        /\ \A i \in DOMAIN evals[t] : evals'[t][i] = evals[t][i]
        /\ evals'[t][Len(evals[t]) + 1] = e
    BY <1>2, <1>5, <1>6
  <1>8. Reviewed'
    <2> SUFFICES ASSUME NEW u \in Txs
                 PROVE  /\ review[u].status \in {"APPROVED", "REJECTED"}
                             => review[u].by \in Actors \ Agents
                        /\ \A i \in DOMAIN evals'[u] :
                             Permitted(evals'[u][i]) /\ evals'[u][i].reviewed
                               => review[u].status = "APPROVED"
      BY DEF Reviewed, Permitted
    <2>1. CASE u = t
      BY <1>4, <1>7, <2>1 DEF Inv, Reviewed
    <2>2. CASE u # t
      BY <1>6, <2>2 DEF Inv, Reviewed
    <2> QED
      BY <2>1, <2>2
  <1>9. PermitIsEarned'
    <2> SUFFICES ASSUME NEW u \in Txs, NEW i \in DOMAIN evals'[u],
                        evals'[u][i].can, evals'[u][i].mode # "SHADOW"
                 PROVE  evals'[u][i].verdict = "PASS" /\ evals'[u][i].safety = "RUNNING"
      BY DEF PermitIsEarned
    <2>1. CASE u = t
      BY <1>3, <1>7, <2>1 DEF Inv, PermitIsEarned
    <2>2. CASE u # t
      BY <1>6, <2>2 DEF Inv, PermitIsEarned
    <2> QED
      BY <2>1, <2>2
  <1> QED
    BY <1>6, <1>7, <1>8, <1>9 DEF Inv, TypeOK

-----------------------------------------------------------------------------
\* Where neither an evaluation nor a review changes, their part is kept.
LEMMA KeptReviews ==
  ASSUME Inv, UNCHANGED <<review, evals>> PROVE Reviewed' /\ PermitIsEarned'
  BY DEF Inv, Reviewed, PermitIsEarned, Permitted

LEMMA NextInv == Inv /\ [Next]_vars => Inv'
  <1> SUFFICES ASSUME Inv, [Next]_vars PROVE Inv'
    OBVIOUS
  <1>1. ASSUME NEW a \in Actors, NEW mode \in Modes, SetMode(a, mode) PROVE Inv'
    <2>1. policy' \in PolicyRecords /\ policy.mode \in Modes /\ policy'.mode \in Modes
      BY <1>1 DEF SetMode, Inv, TypeOK, PolicyRecords
    <2>2. ModeAudit'
      BY <1>1, <2>1, ChangeAudit DEF SetMode, Inv, TypeOK
    <2>3. Recorded(policy') \in [from : Modes, to : Modes]
      BY <2>1 DEF Recorded
    <2>4. TypeOK'
      BY <1>1, <2>1, <2>3 DEF SetMode, Inv, TypeOK
    <2> QED
      BY <1>1, <2>2, <2>4, KeptReviews DEF SetMode, Inv
  <1>2. ASSUME NEW a \in Actors, NEW p \in Policies, UpdatePolicy(a, p) PROVE Inv'
    <2>1. p \in PolicyRecords /\ policy.mode \in Modes /\ p.mode \in Modes
      BY PoliciesAssumption DEF Inv, TypeOK, PolicyRecords
    <2>2. ModeAudit'
      BY <1>2, <2>1, ChangeAudit DEF UpdatePolicy, Inv, TypeOK
    <2>3. Recorded(p) \in [from : Modes, to : Modes]
      BY <2>1 DEF Recorded
    <2>4. TypeOK'
      BY <1>2, <2>1, <2>3 DEF UpdatePolicy, Inv, TypeOK
    <2> QED
      BY <1>2, <2>2, <2>4, KeptReviews DEF UpdatePolicy, Inv
  <1>3. ASSUME NEW t \in Txs, NEW a \in Actors, NEW decision \in {"APPROVED", "REJECTED"},
               SubmitReview(t, a, decision)
        PROVE  Inv'
    <2>1. review[t].status = "PENDING" /\ a \in Actors \ Agents
      BY <1>3 DEF SubmitReview, MaySettle
    <2>2. review' \in [Txs -> [status : ReviewStatuses, by : Actors \cup {"nobody"}]]
      BY <1>3 DEF SubmitReview, Inv, TypeOK, ReviewStatuses
    <2>3. \A i \in DOMAIN evals[t] : ~ (Permitted(evals[t][i]) /\ evals[t][i].reviewed)
      BY <2>1 DEF Inv, Reviewed
    <2>4. review'[t] = [status |-> decision, by |-> a]
      BY <1>3 DEF SubmitReview, Inv, TypeOK
    <2>5. \A u \in Txs \ {t} : review'[u] = review[u]
      BY <1>3 DEF SubmitReview, Inv, TypeOK
    <2>6. UNCHANGED <<policy, changes, at, status, ks, evals, paid>>
      BY <1>3 DEF SubmitReview
    <2>7. Reviewed'
      BY <2>1, <2>3, <2>4, <2>5, <2>6 DEF Inv, Reviewed, Permitted
    <2>8. PermitIsEarned' /\ ModeAudit'
      BY <2>6 DEF Inv, PermitIsEarned, ModeAudit
    <2> QED
      BY <2>2, <2>6, <2>7, <2>8 DEF Inv, TypeOK
  <1>4. ASSUME NEW t \in Txs, CompleteBegin(t) PROVE Inv'
    BY <1>4, KeptReviews DEF CompleteBegin, Inv, TypeOK, ModeAudit
  <1>5. ASSUME NEW t \in Txs, NEW verdict \in Verdicts, NEW late \in BOOLEAN,
               NEW bound \in BOOLEAN, NEW unknowns \in 1 .. Tolerance,
               CompleteEnforce(t, verdict, late, bound, unknowns)
        PROVE  Inv'
    <2> DEFINE finding == EnforcedFinding(late, bound, verdict, unknowns, Tolerance)
    <2>1. finding.to \in SafetyStates
      BY FindingState
    <2> HIDE DEF finding
    <2>2. /\ evals' = [evals EXCEPT ![t] =
                         Append(@, Evaluation(policy, t, review[t].status, verdict, finding.to))]
          /\ status' = [status EXCEPT ![t] = verdict]
          /\ ks' = [ks EXCEPT ![t] = IF finding = NoFinding THEN @ ELSE finding.to]
          /\ \E to \in {"raised", "answered"} : at' = [at EXCEPT ![t] = to]
          /\ UNCHANGED <<policy, changes, review, paid>>
      BY <1>5 DEF CompleteEnforce, finding
    <2>3. /\ Reviewed' /\ PermitIsEarned'
          /\ evals' \in [Txs -> Seq(EvaluationResults)]
          /\ \A p \in paid' : p[1] \in Txs /\ p[2] \in DOMAIN evals'[p[1]]
      BY <2>1, <2>2, NewEvaluation
    <2>4. status' \in [Txs -> Verdicts \cup {"NONE"}] /\ ks' \in [Txs -> SafetyStates]
      BY <2>1, <2>2 DEF Inv, TypeOK
    <2>5. at' \in [Txs -> {"executing", "verifying", "answered", "raised"}]
      BY <2>2 DEF Inv, TypeOK
    <2>6. TypeOK'
      BY <2>2, <2>3, <2>4, <2>5 DEF Inv, TypeOK
    <2>7. ModeAudit'
      BY <2>2 DEF Inv, ModeAudit
    <2> QED
      BY <2>3, <2>6, <2>7 DEF Inv
  <1>6. ASSUME NEW t \in Txs, NEW verdict \in Verdicts, Reverdict(t, verdict) PROVE Inv'
    BY <1>6, KeptReviews DEF Reverdict, Inv, TypeOK, ModeAudit
  <1>7. ASSUME NEW t \in Txs, NEW to \in SafetyStates, MoveSafety(t, to) PROVE Inv'
    BY <1>7, KeptReviews DEF MoveSafety, Inv, TypeOK, ModeAudit
  <1>8. ASSUME NEW t \in Txs, Evaluate(t) PROVE Inv'
    <2>1. status[t] \in Verdicts /\ ks[t] \in SafetyStates
      BY <1>8 DEF Evaluate, Inv, TypeOK
    <2>2. /\ Reviewed' /\ PermitIsEarned'
          /\ evals' \in [Txs -> Seq(EvaluationResults)]
          /\ \A p \in paid' : p[1] \in Txs /\ p[2] \in DOMAIN evals'[p[1]]
      BY <1>8, <2>1, NewEvaluation DEF Evaluate
    <2> QED
      BY <1>8, <2>2 DEF Evaluate, Inv, TypeOK, ModeAudit
  <1>9. ASSUME NEW t \in Txs, OpenReview(t) PROVE Inv'
    <2>1. /\ review[t].status # "APPROVED"
          /\ review' = [review EXCEPT ![t] = [status |-> "PENDING", by |-> "nobody"]]
          /\ UNCHANGED <<policy, changes, at, status, ks, evals, paid>>
      BY <1>9 DEF OpenReview, NoReview
    <2>2. review'[t].status = "PENDING" /\ \A u \in Txs \ {t} : review'[u] = review[u]
      BY <2>1 DEF Inv, TypeOK
    <2>3. Reviewed'
      BY <2>1, <2>2 DEF Inv, Reviewed, Permitted
    <2>4. PermitIsEarned' /\ ModeAudit'
      BY <2>1 DEF Inv, PermitIsEarned, ModeAudit
    <2> QED
      BY <2>1, <2>3, <2>4 DEF Inv, TypeOK, ReviewStatuses
  <1>10. ASSUME NEW t \in Txs, NEW i \in DOMAIN evals[t], Pay(t, i) PROVE Inv'
    <2>1. /\ paid' = paid \cup {<<t, i>>}
          /\ UNCHANGED <<policy, changes, review, at, status, ks, evals>>
      BY <1>10 DEF Pay
    <2> QED
      BY <2>1, KeptReviews DEF Inv, TypeOK, ModeAudit
  <1>11. CASE UNCHANGED vars
    BY <1>11, KeptReviews DEF vars, Inv, TypeOK, ModeAudit
  <1> QED
    BY <1>1, <1>2, <1>3, <1>4, <1>5, <1>6, <1>7, <1>8, <1>9, <1>10, <1>11 DEF Next, Control
-----------------------------------------------------------------------------
LEMMA InvHolds == Spec => []Inv
  BY InitInv, NextInv, PTL DEF Spec

(***************************************************************************)
(* Every variable has its type, and every evaluation made names an action  *)
(* (OperationalModeEngine.evaluate).                                       *)
(***************************************************************************)
THEOREM TypeCorrect == Spec => []TypeOK
  <1>1. Inv => TypeOK
    BY DEF Inv
  <1> QED
    BY <1>1, InvHolds, PTL

(***************************************************************************)
(* The record of mode transitions is a chain from the first mode to the    *)
(* one in force (set_mode and update_policy, engine.py).                   *)
(***************************************************************************)
THEOREM ModesAreAudited == Spec => []ModeAudit
  <1>1. Inv => ModeAudit
    BY DEF Inv
  <1> QED
    BY <1>1, InvHolds, PTL

(***************************************************************************)
(* "Approval does not fabricate PASS": outside SHADOW what is permitted    *)
(* was a PASS of a RUNNING transaction.                                    *)
(***************************************************************************)
THEOREM PermitsAreEarned == Spec => []PermitIsEarned
  <1>1. Inv => PermitIsEarned
    BY DEF Inv
  <1> QED
    BY <1>1, InvHolds, PTL

\* What a step makes of the evaluations: it keeps them, or evaluates one
\* transaction with the policy and the review in force.
LEMMA EvaluationStep ==
  ASSUME Inv, [Next]_vars, NEW t \in Txs, Len(evals'[t]) > Len(evals[t])
  PROVE  \E verdict \in Verdicts, safety \in SafetyStates :
           evals'[t][Len(evals'[t])] = Evaluation(policy, t, review[t].status, verdict, safety)
  <1>0. evals \in [Txs -> Seq(EvaluationResults)]
    BY DEF Inv, TypeOK
  <1>1. ASSUME NEW u \in Txs, NEW verdict \in Verdicts, NEW safety \in SafetyStates,
               evals' = [evals EXCEPT ![u] =
                           Append(@, Evaluation(policy, u, review[u].status, verdict, safety))]
        PROVE  evals'[t][Len(evals'[t])]
                 = Evaluation(policy, t, review[t].status, verdict, safety)
    <2> DEFINE e == Evaluation(policy, u, review[u].status, verdict, safety)
    <2>1. policy.mode \in Modes /\ review[u].status \in ReviewStatuses
      BY DEF Inv, TypeOK, PolicyRecords
    <2>2. e \in EvaluationResults
      BY <2>1, EvaluationType
    <2> HIDE DEF e
    <2>3. evals' = [evals EXCEPT ![u] = Append(@, e)]
      BY <1>1 DEF e
    <2>4. CASE u # t
      <3>1. evals'[t] = evals[t] /\ Len(evals[t]) \in Nat
        BY <1>0, <2>3, <2>4
      <3> QED
        BY <3>1
    <2>5. CASE u = t
      <3>1. evals'[t] = Append(evals[t], e)
        BY <1>0, <2>3, <2>5
      <3>2. evals'[t][Len(evals'[t])] = e
        BY <1>0, <2>2, <3>1
      <3> QED
        BY <2>5, <3>2 DEF e
    <2> QED
      BY <2>4, <2>5
  <1>2. ASSUME NEW u \in Txs, Evaluate(u)
        PROVE  \E verdict \in Verdicts, safety \in SafetyStates :
                 evals'[t][Len(evals'[t])]
                   = Evaluation(policy, t, review[t].status, verdict, safety)
    <2>1. status[u] \in Verdicts /\ ks[u] \in SafetyStates
      BY <1>2 DEF Evaluate, Inv, TypeOK
    <2>2. evals' = [evals EXCEPT ![u] =
                      Append(@, Evaluation(policy, u, review[u].status, status[u], ks[u]))]
      BY <1>2 DEF Evaluate
    <2> QED
      BY <1>1, <2>1, <2>2
  <1>3. ASSUME NEW u \in Txs, NEW verdict \in Verdicts, NEW late \in BOOLEAN,
               NEW bound \in BOOLEAN, NEW unknowns \in 1 .. Tolerance,
               CompleteEnforce(u, verdict, late, bound, unknowns)
        PROVE  \E safety \in SafetyStates :
                 evals'[t][Len(evals'[t])]
                   = Evaluation(policy, t, review[t].status, verdict, safety)
    <2> DEFINE finding == EnforcedFinding(late, bound, verdict, unknowns, Tolerance)
    <2>1. finding.to \in SafetyStates
      BY FindingState
    <2> HIDE DEF finding
    <2>2. evals' = [evals EXCEPT ![u] =
                      Append(@, Evaluation(policy, u, review[u].status, verdict, finding.to))]
      BY <1>3 DEF CompleteEnforce, finding
    <2> QED
      BY <1>1, <2>1, <2>2
  <1>4. ASSUME evals' = evals PROVE FALSE
    BY <1>0, <1>4
  <1>5. ASSUME \/ Control
               \/ \E u \in Txs :
                    \/ CompleteBegin(u) \/ OpenReview(u)
                    \/ \E i \in DOMAIN evals[u] : Pay(u, i)
                    \/ \E verdict \in Verdicts : Reverdict(u, verdict)
                    \/ \E to \in SafetyStates : MoveSafety(u, to)
               \/ UNCHANGED vars
        PROVE  FALSE
    BY <1>4, <1>5 DEF Control, SetMode, UpdatePolicy, SubmitReview, CompleteBegin, OpenReview,
                Pay, Reverdict, MoveSafety, vars
  <1> QED
    BY <1>2, <1>3, <1>5 DEF Next

(***************************************************************************)
(* Under human review an amount above the threshold is permitted only      *)
(* with the approval of a human (evaluate and submit_review_decision).     *)
(***************************************************************************)
THEOREM LargePaymentsNeedApproval == Spec => LargePaymentsApproved
  <1>1. Inv /\ [Next]_vars =>
          [\A t \in Txs :
             (/\ Len(evals'[t]) > Len(evals[t])
              /\ Permitted(evals'[t][Len(evals'[t])])
              /\ policy.threshold # NoThreshold /\ t \notin Foreign /\ Total[t] > policy.threshold)
             => review[t].status = "APPROVED" /\ review[t].by \in Actors \ Agents]_vars
    <2> SUFFICES ASSUME Inv, Next, NEW t \in Txs, Len(evals'[t]) > Len(evals[t]),
                        Permitted(evals'[t][Len(evals'[t])]),
                        policy.threshold # NoThreshold, t \notin Foreign,
                        Total[t] > policy.threshold
                 PROVE  review[t].status = "APPROVED" /\ review[t].by \in Actors \ Agents
      OBVIOUS
    <2> PICK verdict \in Verdicts, safety \in SafetyStates :
               evals'[t][Len(evals'[t])]
                 = Evaluation(policy, t, review[t].status, verdict, safety)
      BY EvaluationStep
    <2>1. policy.mode \in Modes /\ review[t].status \in ReviewStatuses
      BY DEF Inv, TypeOK, PolicyRecords
    <2>2. review[t].status = "APPROVED"
      BY <2>1, ReviewLemma
    <2> QED
      BY <2>2 DEF Inv, Reviewed
  <1> QED
    BY <1>1, InvHolds, PTL DEF Spec, LargePaymentsApproved

(***************************************************************************)
(* A payment let through under human review by an evaluation that names a  *)
(* review has the approval of a human, whatever happened between the       *)
(* evaluation and the payment, and since (submit_human_review and          *)
(* assert_can_execute_payment).                                            *)
(***************************************************************************)
THEOREM PaymentsRestOnDecisions == Spec => []DecisionsHold
  <1>1. Inv => DecisionsHold
    BY DEF Inv, TypeOK, Reviewed, DecisionsHold
  <1> QED
    BY <1>1, InvHolds, PTL
=============================================================================
