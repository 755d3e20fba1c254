------------------------------- MODULE Trace --------------------------------
(***************************************************************************)
(* The integrity trace (domain/trace/engine.py): what a transaction is     *)
(* known to have gone through, told as the status of eight stages, and the *)
(* first of them that diverged.                                            *)
(*                                                                         *)
(* A trace is a function of a view v of the transaction: a record that     *)
(* says which of its objects exist (intent, context, order, payment,       *)
(* outcome, record, mrdp), when each of them was stamped (`...At`), and    *)
(* what the engine tells apart in them.  The comparisons of an order or a  *)
(* payment with the intent are the sets orderFaults and paymentFaults.     *)
(* Evidence references and the wording of discrepancies are left out.      *)
(***************************************************************************)
EXTENDS Integers, Sequences, FiniteSets, FiniteSetsExt

NoTime == -1

StageName ==
  <<"INTENT", "AGENT", "MERCHANT", "ORDER", "ATTEMPT", "PAYMENT", "GATEWAY", "COMPLETION">>
Stages == DOMAIN StageName

StageStatuses == {"CONFIRMED_VALID", "DIVERGENCE_DETECTED", "UNKNOWN", "UNREACHED"}

\* A step of the trace; `lacks` is the evidence it reports as missing.
Step(status, findings, at) ==
  [status |-> status, findings |-> findings, at |-> at, lacks |-> {}]
Valid(at) == Step("CONFIRMED_VALID", {}, at)
Diverging(findings, at) == Step("DIVERGENCE_DETECTED", findings, at)
Unreached == Step("UNREACHED", {}, NoTime)
Lacking(what, finding, at) == [Step("UNKNOWN", {finding}, at) EXCEPT !.lacks = {what}]

\* Findings, if any, make the stage diverge.
Judged(findings, at) == IF findings = {} THEN Valid(at) ELSE Diverging(findings, at)

\* The violations of the binding verification, none before it was made.
Codes(v) == IF v.outcome THEN v.codes ELSE {}
Stamp(present, at) == IF present THEN at ELSE NoTime

-----------------------------------------------------------------------------
(***************************************************************************)
(* The stages.                                                             *)
(***************************************************************************)

IntentStep(v) ==
  IF ~v.intent
    THEN Lacking("intent_contract", "INTENT_MISSING", v.ref)
    ELSE Judged((IF v.late THEN {"INTENT_EXPIRED"} ELSE {})
                  \cup (IF v.ceiling > 0 THEN {} ELSE {"INTENT_INVALID_AMOUNT"}),
                v.issuedAt)

AgentStep(v) ==
  IF "AGENT_MISMATCH" \in Codes(v) THEN Diverging({"AGENT_MISMATCH"}, v.verifiedAt)
  ELSE IF ~v.context THEN Lacking("agent_binding_context", "AGENT_BINDING_MISSING", NoTime)
  ELSE Valid(v.contextAt)

MerchantStep(v) ==
  IF "MERCHANT_MISMATCH" \in Codes(v) THEN Diverging({"MERCHANT_MISMATCH"}, v.verifiedAt)
  ELSE IF ~v.context /\ ~v.order
         THEN Lacking("merchant_evidence", "MERCHANT_EVIDENCE_MISSING", NoTime)
  ELSE Valid(Stamp(v.context, v.contextAt))

OrderStep(v) ==
  IF "ORDER_MISMATCH" \in Codes(v) THEN Diverging({"ORDER_MISMATCH"}, v.verifiedAt)
  ELSE IF v.order THEN Judged(v.orderFaults, v.orderAt)
  ELSE IF v.state = "CREATED" THEN Unreached
  ELSE Lacking("gateway_order", "ORDER_RECORD_MISSING", NoTime)

AttemptCodes == {"ATTEMPT_MISMATCH", "DUPLICATE_ATTEMPT_REUSED", "CROSS_TRANSACTION_REUSE"}

\* The stage of the attempt takes its time from the kill switch.
AttemptStep(v) ==
  LET limit == IF v.record /\ v.trigger = "ATTEMPT_LIMIT_EXCEEDED" THEN {v.trigger} ELSE {}
      findings == (Codes(v) \cap AttemptCodes) \cup limit
  IN  IF findings # {} THEN Diverging(findings, Stamp(v.record, v.recordAt))
      ELSE IF v.state = "CREATED" THEN Unreached ELSE Valid(NoTime)

PaymentCodes == {"PAYMENT_MISMATCH", "AMOUNT_NON_SUFFICIENCY"}

\* Nothing was paid yet, and nothing needs to be.
BeforePayment(v) == ~v.payment /\ v.state \in {"CREATED", "EXECUTING"}

\* Mutant: only the binding of the payment is looked at, not the verdict.
PaymentStepUnjudged(v) ==
  IF Codes(v) \cap PaymentCodes # {}
    THEN Diverging(Codes(v) \cap PaymentCodes, Stamp(v.outcome, v.verifiedAt))
  ELSE IF BeforePayment(v) THEN Unreached
  ELSE IF ~v.payment THEN Lacking("payment_record", "PAYMENT_RECORD_MISSING", NoTime)
  ELSE Judged(v.paymentFaults, v.paymentAt)

\* A DRIFT is put down to the payment, with the violations it came with;
\* otherwise the payment itself is compared with the intent.
PaymentStep(v) ==
  LET findings == (Codes(v) \cap PaymentCodes)
                    \cup (IF v.status = "DRIFT" THEN v.viol ELSE {})
  IN  IF findings # {} THEN Diverging(findings, Stamp(v.outcome, v.verifiedAt))
      ELSE IF BeforePayment(v) THEN Unreached
      ELSE IF ~v.payment THEN Lacking("payment_record", "PAYMENT_RECORD_MISSING", NoTime)
      ELSE Judged(v.paymentFaults, v.paymentAt)

GatewayStep(v) ==
  IF v.badSignature THEN Diverging({"SIGNATURE_VERIFICATION_FAILED"}, NoTime)
  ELSE IF "UNRESOLVED_PROVIDER_STATE" \in Codes(v)
         THEN Step("UNKNOWN", {"UNRESOLVED_PROVIDER_STATE"}, v.verifiedAt)
  ELSE IF BeforePayment(v) THEN Unreached
  ELSE Valid(NoTime)

\* Mutant: a transaction whose outcome is unknown counts as completed.
CompletionStepSanguine(v, earlier) ==
  IF \E i \in DOMAIN earlier : earlier[i].status = "DIVERGENCE_DETECTED" THEN Unreached
  ELSE IF v.state \in {"CREATED", "EXECUTING", "OBSERVING", "VERIFYING"} THEN Unreached
  ELSE Valid(Stamp(v.mrdp, v.mrdpAt))

\* What is neither PASS nor UNKNOWN nor still on its way counts as completed.
CompletionStep(v, earlier) ==
  IF \E i \in DOMAIN earlier : earlier[i].status = "DIVERGENCE_DETECTED" THEN Unreached
  ELSE IF v.state = "PASS" \/ (v.mrdp /\ v.status = "PASS") THEN Valid(Stamp(v.mrdp, v.mrdpAt))
  ELSE IF v.state = "UNKNOWN" \/ v.status = "UNKNOWN"
         THEN Step("UNKNOWN", {"TERMINAL_OUTCOME_UNKNOWN"}, NoTime)
  ELSE IF v.state \in {"CREATED", "EXECUTING", "OBSERVING", "VERIFYING"} THEN Unreached
  ELSE Valid(NoTime)

-----------------------------------------------------------------------------
(***************************************************************************)
(* The trace.                                                              *)
(***************************************************************************)

Steps(v) ==
  LET earlier == <<IntentStep(v), AgentStep(v), MerchantStep(v), OrderStep(v),
                   AttemptStep(v), PaymentStep(v), GatewayStep(v)>>
  IN  Append(earlier, CompletionStep(v, earlier))

StagesWith(steps, status) == {i \in Stages : steps[i].status = status}

\* The number of the first stage that diverged, 0 if none did, and when.
FirstDivergence(steps) ==
  LET diverging == StagesWith(steps, "DIVERGENCE_DETECTED")
  IN  IF diverging = {} THEN 0 ELSE Min(diverging)

DetectedAt(steps, ref) ==
  LET i == FirstDivergence(steps)
  IN  IF steps[i].at = NoTime THEN ref ELSE steps[i].at

\* Earlier stages nothing is known of: the fault may lie there.
Uncertainties(steps) ==
  {i \in StagesWith(steps, "UNKNOWN") : i < FirstDivergence(steps)}

MissingEvidence(steps) == UNION {steps[i].lacks : i \in Stages}

\* Where a trigger of the kill switch is placed.
TriggerStage(trigger) ==
  CASE trigger \in {"EXPIRED_AUTHORIZATION", "POLICY_VIOLATION"} -> 1
    [] trigger = "CAPABILITY_VIOLATION" -> 2
    [] trigger = "BINDING_VIOLATION" -> 4
    [] trigger = "ATTEMPT_LIMIT_EXCEEDED" -> 5
    [] trigger = "CRITICAL_DRIFT" -> 6
    [] trigger = "REPEATED_UNKNOWN" -> 7
    [] OTHER -> 8

FaultLocations(v, steps) ==
  UNION {{<<i, f>> : f \in steps[i].findings} : i \in StagesWith(steps, "DIVERGENCE_DETECTED")}
    \cup (IF v.ks = "RUNNING" THEN {}
          ELSE IF v.record THEN {<<TriggerStage(v.trigger), v.trigger>>}
          ELSE {<<8, "SAFETY_INTERVENTION">>})

\* The verdict of the integrity engine where there is one.
Decision(v, steps) ==
  IF v.status # "NONE" THEN v.status
  ELSE IF StagesWith(steps, "DIVERGENCE_DETECTED") # {} THEN "DRIFT"
  ELSE IF StagesWith(steps, "UNKNOWN") # {} THEN "UNKNOWN"
  ELSE "PASS"

BuildTrace(v) ==
  LET steps == Steps(v)
  IN  [steps |-> steps, decision |-> Decision(v, steps), first |-> FirstDivergence(steps),
       uncertain |-> Uncertainties(steps), missing |-> MissingEvidence(steps),
       faults |-> FaultLocations(v, steps)]
=============================================================================
