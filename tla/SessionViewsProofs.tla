------------------------- MODULE SessionViewsProofs -------------------------
(***************************************************************************)
(* Theorems about the views of SessionViews, for any transactions,         *)
(* payments, charges and bounds, with one caller at a time: what the trace *)
(* says of a drift and of a completion, which checkpoints can be trusted,  *)
(* and that no order of calls looks like a clock that went back.           *)
(***************************************************************************)
EXTENDS SessionViews, TransactionSliceProofs, SequenceTheorems

-----------------------------------------------------------------------------
(***************************************************************************)
(* The slice under the views: whatever it keeps, it keeps with them.       *)
(***************************************************************************)

LEMMA ViewStep == ViewNext => Next \/ UNCHANGED vars
<1> SUFFICES ASSUME ViewNext PROVE Next \/ UNCHANGED vars
  OBVIOUS
<1>1. ASSUME NEW w \in Threads, ViewContinue(w) PROVE Continue(w)
  BY <1>1 DEF ViewContinue, ViewCreateOrder, ViewCreateFail, ViewCompleteUnresolved,
     ViewCompleteObserve, ViewCompleteEnforce, ViewRecoverExecute, ViewRecoverEnter,
     ViewRecoverFinish, ViewResolveFinish, Continue, Create, Complete, Recover, Resolve
<1>2. ASSUME NEW w \in Threads, NEW t \in Txs, ViewCall(w, t) PROVE Call(w, t)
  BY <1>2 DEF ViewCall, ViewCreateBegin, ViewCompleteBegin, ViewRecoverBegin,
     ViewRecoverAbstain, ViewResolveBegin, ViewResolveExhausted, Call, CallRecover, CallResolve
<1>3. ASSUME ViewEnvironment PROVE Environment \/ UNCHANGED vars
  BY <1>3 DEF ViewEnvironment, ViewPay, Tick, Environment
<1>4. QED
  BY <1>1, <1>2, <1>3 DEF ViewNext, Next

(***************************************************************************)
(* Every behaviour of the slice with its stamps and clock is a behaviour   *)
(* of the slice: what is proved of the one holds of the other.             *)
(***************************************************************************)
THEOREM ViewsKeepTheSlice == ViewSpec => Spec
<1>1. ViewInit => Init
  BY DEF ViewInit
<1>2. [ViewNext]_allVars => [Next]_vars
  BY ViewStep DEF allVars
<1>3. QED
  BY <1>1, <1>2, PTL DEF ViewSpec, Spec

-----------------------------------------------------------------------------
(***************************************************************************)
(* The engines, for every view.                                            *)
(***************************************************************************)

LEMMA SmallestStage ==
  ASSUME NEW S \in SUBSET (1 .. 8), S # {}
  PROVE  Min(S) \in S /\ \A i \in S : Min(S) <= i
<1>1. \E x \in S : \A y \in S : x <= y
  <2> SUFFICES ASSUME \A x \in S : \E y \in S : y < x PROVE FALSE
    OBVIOUS
  <2>1. \A k \in 1 .. 8 : (\A j \in 1 .. 8 : j < k => j \notin S) => k \notin S
    OBVIOUS
  <2>2. 1 \notin S /\ 2 \notin S /\ 3 \notin S /\ 4 \notin S
    BY <2>1
  <2>3. 5 \notin S /\ 6 \notin S /\ 7 \notin S /\ 8 \notin S
    BY <2>1, <2>2
  <2>4. PICK x \in S : x \in 1 .. 8
    OBVIOUS
  <2>5. x \in {1, 2, 3, 4, 5, 6, 7, 8}
    BY <2>4
  <2>6. QED
    BY <2>2, <2>3, <2>5
<1>2. QED
  BY <1>1 DEF Min

LEMMA LargestStage ==
  ASSUME NEW S \in SUBSET (1 .. 8), S # {}
  PROVE  Max(S) \in S /\ \A i \in S : i <= Max(S)
<1>1. \E x \in S : \A y \in S : x >= y
  <2> SUFFICES ASSUME \A x \in S : \E y \in S : y > x PROVE FALSE
    OBVIOUS
  <2>1. \A k \in 1 .. 8 : (\A j \in 1 .. 8 : j > k => j \notin S) => k \notin S
    OBVIOUS
  <2>2. 8 \notin S /\ 7 \notin S /\ 6 \notin S /\ 5 \notin S
    BY <2>1
  <2>3. 4 \notin S /\ 3 \notin S /\ 2 \notin S /\ 1 \notin S
    BY <2>1, <2>2
  <2>4. PICK x \in S : x \in 1 .. 8
    OBVIOUS
  <2>5. x \in {1, 2, 3, 4, 5, 6, 7, 8}
    BY <2>4
  <2>6. QED
    BY <2>2, <2>3, <2>5
<1>2. QED
  BY <1>1 DEF Max

LEMMA Appended ==
  ASSUME NEW T, NEW q \in Seq(T), NEW h \in T, NEW n, n = Len(q), NEW m, m = n + 1
  PROVE  /\ DOMAIN Append(q, h) = 1 .. m
         /\ \A i \in 1 .. n : Append(q, h)[i] = q[i]
         /\ Append(q, h)[m] = h
<1>1. /\ Append(q, h) \in Seq(T) /\ Len(Append(q, h)) = Len(q) + 1
      /\ \A i \in 1 .. Len(q) : Append(q, h)[i] = q[i]
      /\ Append(q, h)[Len(q) + 1] = h
  BY AppendProperties
<1>2. QED
  BY <1>1

LEMMA EighthStep ==
  ASSUME NEW a, NEW b, NEW c, NEW d, NEW e, NEW f, NEW g, NEW h
  PROVE  LET s == Append(<<a, b, c, d, e, f, g>>, h)
         IN  /\ DOMAIN s = 1 .. 8
             /\ s[1] = a /\ s[2] = b /\ s[3] = c /\ s[4] = d
             /\ s[5] = e /\ s[6] = f /\ s[7] = g /\ s[8] = h
<1>1. PICK T, q :
        /\ T = {a, b, c, d, e, f, g, h} /\ q = <<a, b, c, d, e, f, g>>
  OBVIOUS
<1>2. q \in Seq(T) /\ h \in T
  BY <1>1
<1>3. \A n, m : n = Len(q) /\ m = n + 1 =>
        /\ DOMAIN Append(q, h) = 1 .. m
        /\ \A i \in 1 .. n : Append(q, h)[i] = q[i]
        /\ Append(q, h)[m] = h
  BY <1>2, Appended
<1>4. Len(q) = 7
  BY <1>1
<1>5. /\ DOMAIN Append(q, h) = 1 .. 8
      /\ \A i \in 1 .. 7 : Append(q, h)[i] = q[i]
      /\ Append(q, h)[8] = h
  BY <1>3, <1>4
<1>6. q[1] = a /\ q[2] = b /\ q[3] = c /\ q[4] = d /\ q[5] = e /\ q[6] = f /\ q[7] = g
  BY <1>1
<1>7. QED
  BY <1>1, <1>5, <1>6

Earlier(v) ==
  <<IntentStep(v), AgentStep(v), MerchantStep(v), OrderStep(v), AttemptStep(v),
    PaymentStep(v), GatewayStep(v)>>

LEMMA StepsOf ==
  ASSUME NEW v
  PROVE  LET s == Steps(v)
         IN  /\ DOMAIN s = 1 .. 8
             /\ s[1] = IntentStep(v) /\ s[2] = AgentStep(v) /\ s[3] = MerchantStep(v)
             /\ s[4] = OrderStep(v) /\ s[5] = AttemptStep(v) /\ s[6] = PaymentStep(v)
             /\ s[7] = GatewayStep(v) /\ s[8] = CompletionStep(v, Earlier(v))
BY EighthStep DEF Steps, Earlier

LEMMA StagesAre == Stages = 1 .. 8
BY DEF Stages, StageName

\* What a stage can be told.
LEMMA StepFields ==
  ASSUME NEW status, NEW findings, NEW at, NEW what, NEW finding
  PROVE  /\ Step(status, findings, at).status = status
         /\ Step(status, findings, at).findings = findings
         /\ Step(status, findings, at).at = at
         /\ Valid(at).status = "CONFIRMED_VALID" /\ Unreached.status = "UNREACHED"
         /\ Diverging(findings, at).status = "DIVERGENCE_DETECTED"
         /\ Diverging(findings, at).findings = findings
         /\ Diverging(findings, at).at = at
         /\ Lacking(what, finding, at).status = "UNKNOWN"
         /\ Lacking(what, finding, at).at = at
BY DEF Step, Valid, Unreached, Diverging, Lacking

\* A stage that diverged says why.
LEMMA FindingsOf ==
  ASSUME NEW v, NEW i \in 1 .. 8, Steps(v)[i].status = "DIVERGENCE_DETECTED"
  PROVE  Steps(v)[i].findings # {}
<1> USE StepFields
<1>1. \A findings, at : Judged(findings, at).status = "DIVERGENCE_DETECTED" =>
                          Judged(findings, at).findings # {}
  BY DEF Judged
<1>2. IntentStep(v).status = "DIVERGENCE_DETECTED" => IntentStep(v).findings # {}
  BY <1>1 DEF IntentStep
<1>3. AgentStep(v).status = "DIVERGENCE_DETECTED" => AgentStep(v).findings # {}
  BY DEF AgentStep
<1>4. MerchantStep(v).status = "DIVERGENCE_DETECTED" => MerchantStep(v).findings # {}
  BY DEF MerchantStep
<1>5. OrderStep(v).status = "DIVERGENCE_DETECTED" => OrderStep(v).findings # {}
  BY <1>1 DEF OrderStep
<1>6. AttemptStep(v).status = "DIVERGENCE_DETECTED" => AttemptStep(v).findings # {}
  BY DEF AttemptStep
<1>7. PaymentStep(v).status = "DIVERGENCE_DETECTED" => PaymentStep(v).findings # {}
  BY <1>1 DEF PaymentStep
<1>8. GatewayStep(v).status = "DIVERGENCE_DETECTED" => GatewayStep(v).findings # {}
  BY DEF GatewayStep
<1>9. CompletionStep(v, Earlier(v)).status # "DIVERGENCE_DETECTED"
  BY DEF CompletionStep
<1>10. i \in {1, 2, 3, 4, 5, 6, 7, 8}
  OBVIOUS
<1>11. QED
  BY <1>2, <1>3, <1>4, <1>5, <1>6, <1>7, <1>8, <1>9, <1>10, StepsOf

LEMMA WithStatus ==
  ASSUME NEW steps, NEW status
  PROVE  /\ StagesWith(steps, status) \in SUBSET (1 .. 8)
         /\ \A i \in 1 .. 8 : i \in StagesWith(steps, status) <=> steps[i].status = status
BY StagesAre DEF StagesWith

\* Once a stage diverged, the first that did is named with a fault.
LEMMA Located ==
  ASSUME NEW v, NEW i \in 1 .. 8, Steps(v)[i].status = "DIVERGENCE_DETECTED"
  PROVE  LET first == FirstDivergence(Steps(v))
         IN  /\ first \in 1 .. 8 /\ first # 0
             /\ Steps(v)[first].status = "DIVERGENCE_DETECTED"
             /\ \E fault \in FaultLocations(v, Steps(v)) : fault[1] = first
<1>1. PICK steps : steps = Steps(v)
  OBVIOUS
<1>2. PICK S : S = StagesWith(steps, "DIVERGENCE_DETECTED")
  OBVIOUS
<1>3. /\ S \in SUBSET (1 .. 8) /\ S # {}
      /\ \A j \in S : steps[j].status = "DIVERGENCE_DETECTED"
  BY <1>1, <1>2, WithStatus
<1>4. PICK first : first = Min(S)
  OBVIOUS
<1>5. first \in S
  BY <1>3, <1>4, SmallestStage
<1>6. FirstDivergence(steps) = first
  BY <1>2, <1>3, <1>4 DEF FirstDivergence
<1>7. PICK f : f \in steps[first].findings
  BY <1>1, <1>3, <1>5, FindingsOf
<1>8. <<first, f>> \in FaultLocations(v, steps)
  <2>1. <<first, f>> \in {<<first, g>> : g \in steps[first].findings}
    BY <1>7
  <2>2. {<<first, g>> : g \in steps[first].findings}
          \in {{<<j, g>> : g \in steps[j].findings} : j \in S}
    BY <1>5
  <2>3. <<first, f>> \in UNION {{<<j, g>> : g \in steps[j].findings} : j \in S}
    BY <2>1, <2>2
  <2>4. QED
    BY <1>2, <2>3 DEF FaultLocations
<1>9. <<first, f>>[1] = first
  OBVIOUS
<1>10. first # 0
  BY <1>3, <1>5
<1>11. QED
  BY <1>1, <1>3, <1>5, <1>6, <1>8, <1>9, <1>10

\* The verdict DRIFT makes the stage of the payment diverge.
LEMMA DriftDiverges ==
  ASSUME NEW v, v.status = "DRIFT", v.viol # {}
  PROVE  /\ Steps(v)[6].status = "DIVERGENCE_DETECTED"
         /\ PaymentStep(v).status = "DIVERGENCE_DETECTED"
<1> DEFINE findings == (Codes(v) \cap PaymentCodes)
                         \cup (IF v.status = "DRIFT" THEN v.viol ELSE {})
<1>1. findings # {}
  OBVIOUS
<1>2. PaymentStep(v) = Diverging(findings, Stamp(v.outcome, v.verifiedAt))
  BY <1>1 DEF PaymentStep
<1> HIDE DEF findings
<1>3. QED
  BY <1>2, StepsOf, StepFields

\* A drift is not confirmed as completed, and neither is what is unknown.
LEMMA NotConfirmed ==
  ASSUME NEW v, v.state # "PASS", v.status # "PASS",
         \/ v.state \in {"CREATED", "EXECUTING", "OBSERVING", "VERIFYING"}
         \/ v.status = "DRIFT" /\ v.viol # {}
         \/ v.status = "UNKNOWN"
  PROVE  Steps(v)[8].status # "CONFIRMED_VALID"
<1>1. DOMAIN Earlier(v) = 1 .. 7 /\ Earlier(v)[6] = PaymentStep(v)
  BY DEF Earlier
<1>2. v.status = "DRIFT" /\ v.viol # {} => Earlier(v)[6].status = "DIVERGENCE_DETECTED"
  BY <1>1, DriftDiverges
<1>3. v.status = "DRIFT" /\ v.viol # {} => CompletionStep(v, Earlier(v)) = Unreached
  BY <1>1, <1>2 DEF CompletionStep
<1>4. CompletionStep(v, Earlier(v)).status # "CONFIRMED_VALID"
  BY <1>3, StepFields DEF CompletionStep
<1>5. QED
  BY <1>4, StepsOf

\* Only the payment, what the gateway says of it, and the completion are
\* ever left out, and nothing after them is valid then.
LEMMA ReachedInOrder ==
  ASSUME NEW v, v.order, v.state # "CREATED", ~(v.mrdp /\ v.status = "PASS"),
         NEW i \in 1 .. 8, NEW j \in 1 .. 8, j < i, Steps(v)[j].status = "UNREACHED"
  PROVE  Steps(v)[i].status # "CONFIRMED_VALID"
<1> USE StepFields
<1>1. \A findings, at : Judged(findings, at).status # "UNREACHED"
  BY DEF Judged
<1>2. /\ IntentStep(v).status # "UNREACHED" /\ AgentStep(v).status # "UNREACHED"
      /\ MerchantStep(v).status # "UNREACHED"
  <2>1. IntentStep(v).status # "UNREACHED"
    BY <1>1 DEF IntentStep
  <2>2. AgentStep(v).status # "UNREACHED"
    BY DEF AgentStep
  <2>3. MerchantStep(v).status # "UNREACHED"
    BY DEF MerchantStep
  <2>4. QED
    BY <2>1, <2>2, <2>3
<1>3. OrderStep(v).status # "UNREACHED" /\ AttemptStep(v).status # "UNREACHED"
  BY <1>1 DEF OrderStep, AttemptStep
<1>4. j \in {1, 2, 3, 4, 5, 6, 7} /\ i \in {1, 2, 3, 4, 5, 6, 7, 8}
  OBVIOUS
<1>5. j \in {6, 7}
  BY <1>2, <1>3, <1>4, StepsOf
<1>6. BeforePayment(v)
  <2>1. PaymentStep(v).status = "UNREACHED" => BeforePayment(v)
    BY <1>1 DEF PaymentStep
  <2>2. GatewayStep(v).status = "UNREACHED" => BeforePayment(v)
    BY DEF GatewayStep
  <2>3. QED
    BY <1>5, <2>1, <2>2, StepsOf
<1>7. GatewayStep(v).status # "CONFIRMED_VALID"
  BY <1>6 DEF GatewayStep
<1>8. CompletionStep(v, Earlier(v)).status # "CONFIRMED_VALID"
  <2>1. v.state = "EXECUTING"
    BY <1>6 DEF BeforePayment
  <2>2. QED
    BY <2>1 DEF CompletionStep
<1>9. i \in {7, 8}
  BY <1>4, <1>5
<1>10. QED
  BY <1>7, <1>8, <1>9, StepsOf

LEMMA StatusOf ==
  ASSUME NEW v, NEW i \in 1 .. 8
  PROVE  Steps(v)[i].status \in StageStatuses
<1> USE StepFields DEF StageStatuses
<1>1. \A findings, at : Judged(findings, at).status \in StageStatuses
  BY DEF Judged
<1>2. IntentStep(v).status \in StageStatuses
  BY <1>1 DEF IntentStep
<1>3. AgentStep(v).status \in StageStatuses
  BY DEF AgentStep
<1>4. MerchantStep(v).status \in StageStatuses
  BY DEF MerchantStep
<1>5. OrderStep(v).status \in StageStatuses
  BY <1>1 DEF OrderStep
<1>6. AttemptStep(v).status \in StageStatuses
  BY DEF AttemptStep
<1>7. PaymentStep(v).status \in StageStatuses
  BY <1>1 DEF PaymentStep
<1>8. GatewayStep(v).status \in StageStatuses
  BY DEF GatewayStep
<1>9. CompletionStep(v, Earlier(v)).status \in StageStatuses
  BY DEF CompletionStep
<1>10. i \in {1, 2, 3, 4, 5, 6, 7, 8}
  OBVIOUS
<1>11. QED
  BY <1>2, <1>3, <1>4, <1>5, <1>6, <1>7, <1>8, <1>9, <1>10, StepsOf

\* Before the last valid checkpoint nothing is left out, unknown or diverged.
LEMMA TrustedPrefix ==
  ASSUME NEW v, v.order, v.state # "CREATED", ~(v.mrdp /\ v.status = "PASS"),
         NEW i \in 1 .. LastValid(BuildTrace(v))
  PROVE  CheckpointStatus(Steps(v)[i].status) = "VALID" /\ i \in 1 .. 8
<1>1. PICK trace : trace = BuildTrace(v)
  OBVIOUS
<1>2. trace.steps = Steps(v)
  BY <1>1 DEF BuildTrace
<1>3. PICK barrier, trusted :
        /\ barrier = StagesWith(trace.steps, "UNKNOWN")
                       \cup StagesWith(trace.steps, "DIVERGENCE_DETECTED")
        /\ trusted = {k \in StagesWith(trace.steps, "CONFIRMED_VALID") :
                        \A b \in barrier : k < b}
  OBVIOUS
<1>4. LastValid(trace) = IF trusted = {} THEN 0 ELSE Max(trusted)
  BY <1>3 DEF LastValid
<1>5. trusted # {}
  BY <1>1, <1>4
<1>6. trusted \in SUBSET (1 .. 8)
  BY <1>3, WithStatus
<1>7. PICK last : last = Max(trusted) /\ last \in trusted
  BY <1>5, <1>6, LargestStage
<1>8. last \in 1 .. 8 /\ i \in 1 .. last
  BY <1>1, <1>4, <1>5, <1>6, <1>7
<1>9. Steps(v)[last].status = "CONFIRMED_VALID" /\ \A b \in barrier : last < b
  BY <1>2, <1>3, <1>7, WithStatus
<1>10. i \in 1 .. 8 /\ i \notin barrier
  <2>1. barrier \in SUBSET (1 .. 8)
    BY <1>3, WithStatus
  <2>2. QED
    BY <1>8, <1>9, <2>1
<1>11. Steps(v)[i].status \notin {"UNKNOWN", "DIVERGENCE_DETECTED"}
  BY <1>2, <1>3, <1>10, WithStatus
<1>12. Steps(v)[i].status # "UNREACHED"
  BY <1>8, <1>9, <1>10, ReachedInOrder
<1>13. Steps(v)[i].status = "CONFIRMED_VALID"
  BY <1>10, <1>11, <1>12, StatusOf DEF StageStatuses
<1>14. QED
  BY <1>10, <1>13 DEF CheckpointStatus

-----------------------------------------------------------------------------
(***************************************************************************)
(* Told.  What the sessions say of themselves, whatever calls interleave:  *)
(* there is a verdict exactly in the states that have one, and a drift     *)
(* comes with what drifted.                                                *)
(***************************************************************************)

Begun == {"ABSENT", "EXECUTING", "OBSERVING", "VERIFYING"}
Answering == {"DRIFT", "UNKNOWN", "RESOLVING", "RECOVERING", "REVALIDATING", "ABSTAIN"}

TellsOf(s) ==
  /\ sess[s].sm \in Begun \cup Answering \cup {"PASS"}
  /\ sess[s].sm \in Begun => sess[s].status = "NONE"
  /\ sess[s].sm \in Answering => sess[s].status \in {"DRIFT", "UNKNOWN"}
  /\ sess[s].status = "DRIFT" => sess[s].viol # {}

Told == \A s \in Sessions : TellsOf(s)

LEMMA DriftViolates ==
  ASSUME NEW bundle, NEW events, NEW repeated,
         Verdict(bundle, events, repeated).status = "DRIFT"
  PROVE  Verdict(bundle, events, repeated).viol # {}
<1> DEFINE econ == Economic(Authoritative(bundle.amounts), MaxTotal)
           sem == Semantic(Authoritative(bundle.items))
           temp == Temporal(events, repeated, 1)
           verdict == Verdict(bundle, events, repeated)
<1>1. verdict.status = Overall({econ, sem, temp})
  BY DEF Verdict, Evaluate
<1>2. /\ econ = "DRIFT" => "OVERCHARGE" \in verdict.viol
      /\ sem = "DRIFT" => "ITEMS" \in verdict.viol
      /\ temp = "DRIFT" => "TEMPORAL" \in verdict.viol
  BY DEF Verdict, Evaluate
<1> HIDE DEF econ, sem, temp, verdict
<1>3. econ = "DRIFT" \/ sem = "DRIFT" \/ temp = "DRIFT"
  <2>1. verdict.status = "DRIFT"
    BY DEF verdict
  <2>2. QED
    BY <1>1, <2>1 DEF Overall
<1>4. verdict.viol # {}
  BY <1>2, <1>3
<1>5. QED
  BY <1>4 DEF verdict

LEMMA ObservationViolates ==
  ASSUME NEW w \in Threads, NEW o \in Observations(w), o.verdict.status = "DRIFT"
  PROVE  o.verdict.viol # {}
<1>1. \A viol : o.verdict # Unresolved(viol)
  BY DEF Unresolved
<1>2. CASE o.verdict = Verdict(th[w].bundle, th[w].events, th[w].repeated)
  BY <1>2, DriftViolates
<1>3. ASSUME NEW p, o.verdict = Verdict(o.bundle, th[w].events \cup o.events,
                               th[w].repeated \/ PaymentEvent("res", p) \in th[w].events)
      PROVE  o.verdict.viol # {}
  <2>1. PICK bundle, events, repeated :
          o.verdict = Verdict(bundle, events, repeated)
    BY <1>3
  <2>2. QED
    BY <2>1, DriftViolates
<1>4. QED
  BY <1>1, <1>2, <1>3, ObservationCases

LEMMA BindingViolates ==
  ASSUME NEW w \in Threads, VerdictsSound, At(w, "enforce"),
         BoundVerdict(th[w].verdict, th[w].valid).status = "DRIFT"
  PROVE  BoundVerdict(th[w].verdict, th[w].valid).viol # {}
<1>1. CASE th[w].valid
  <2>1. BoundVerdict(th[w].verdict, th[w].valid) = th[w].verdict
    BY <1>1 DEF BoundVerdict
  <2>2. th[w].verdict = Verdict(sess[th[w].s].bundle, sess[th[w].s].events, FALSE)
    BY DEF VerdictsSound, CallSound
  <2>3. QED
    BY <2>1, <2>2, DriftViolates
<1>2. CASE ~th[w].valid
  BY <1>2 DEF BoundVerdict
<1>3. QED
  BY <1>1, <1>2

LEMMA ToldWrite ==
  ASSUME Told, NEW w, NEW s, Writes(w, s), TellsOf(s)'
  PROVE  Told'
BY DEF Told, TellsOf, Writes

\* A session that got a verdict is in the state of that verdict.
LEMMA ToldVerdict ==
  ASSUME NEW s, sess'[s].sm = sess'[s].status, sess'[s].status \in Verdicts,
         sess'[s].status = "DRIFT" => sess'[s].viol # {}
  PROVE  TellsOf(s)'
BY DEF TellsOf, Begun, Answering, Verdicts

LEMMA ToldStep == TypeOK /\ Exclusive /\ VerdictsSound /\ Told /\ [Next]_vars => Told'
<1> SUFFICES ASSUME TypeOK, Exclusive, VerdictsSound, Told, [Next]_vars PROVE Told'
  OBVIOUS
<1> USE DEF Begun, Answering
<1>1. ASSUME NEW w \in Threads, CreateOrder(w) PROVE Told'
  <2>1. PICK s \in Sessions :
          Writes(w, s) /\ sess'[s].sm = "EXECUTING" /\ sess'[s].status = "NONE"
    BY <1>1, CreateOrderEffect
  <2>2. TellsOf(s)'
    BY <2>1 DEF TellsOf
  <2>3. QED
    BY <2>1, <2>2, ToldWrite
<1>2. ASSUME NEW w \in Threads, NEW t, CreateBegin(w, t) \/ CreateFail(w) \/ ResolveRaise(w)
      PROVE  Told'
  BY <1>2, ElsewhereEffect DEF Told, TellsOf
<1>3. ASSUME NEW w \in Threads, NEW t \in Txs, NEW p \in Payments, CompleteBegin(w, t, p)
      PROVE  Told'
  <2>1. PICK s \in Sessions :
          Writes(w, s) /\ VerdictKept(s) /\ sess[s].sm = "EXECUTING" /\ sess'[s].sm = "OBSERVING"
    BY <1>3, CompleteBeginEffect DEF Writes
  <2>2. TellsOf(s)'
    BY <2>1 DEF Told, TellsOf, VerdictKept
  <2>3. QED
    BY <2>1, <2>2, ToldWrite
<1>4. ASSUME NEW w \in Threads, CompleteUnresolved(w) PROVE Told'
  <2>1. PICK s \in Sessions :
          Writes(w, s) /\ sess'[s].sm = "UNKNOWN" /\ sess'[s].status = "UNKNOWN"
    BY <1>4, CompleteUnresolvedEffect DEF Writes
  <2>2. TellsOf(s)'
    BY <2>1, ToldVerdict DEF Verdicts
  <2>3. QED
    BY <2>1, <2>2, ToldWrite
<1>5. ASSUME NEW w \in Threads, CompleteObserve(w) PROVE Told'
  <2>1. PICK s \in Sessions :
          Writes(w, s) /\ VerdictKept(s) /\ sess[s].sm = "OBSERVING" /\ sess'[s].sm = "VERIFYING"
    BY <1>5, CompleteObserveEffect, HolderIsFree DEF Writes
  <2>2. TellsOf(s)'
    BY <2>1 DEF Told, TellsOf, VerdictKept
  <2>3. QED
    BY <2>1, <2>2, ToldWrite
<1>6. ASSUME NEW w \in Threads, CompleteEnforce(w) PROVE Told'
  <2>1. PICK verdict, s :
          /\ verdict = BoundVerdict(th[w].verdict, th[w].valid) /\ s = th[w].s
    OBVIOUS
  <2>2. /\ Writes(w, s) /\ At(w, "enforce")
        /\ sess'[s].sm = verdict.status /\ sess'[s].status = verdict.status
        /\ sess'[s].viol = verdict.viol /\ verdict.status \in Verdicts
    BY <1>6, <2>1, CompleteEnforceEffect
  <2>3. verdict.status = "DRIFT" => verdict.viol # {}
    BY <2>1, <2>2, BindingViolates
  <2>4. TellsOf(s)'
    BY <2>2, <2>3, ToldVerdict
  <2>5. QED
    BY <2>2, <2>4, ToldWrite
<1>7. ASSUME NEW w \in Threads, NEW t \in Txs, RecoverBegin(w, t) PROVE Told'
  <2>1. PICK s \in Sessions :
          /\ Writes(w, s) /\ VerdictKept(s) /\ sess[s].sm \in RecoveryStates
          /\ sess'[s].sm = Engaged(sess[s].sm)
    BY <1>7, RecoverBeginEffect DEF Writes
  <2>2. TellsOf(s)'
    BY <2>1 DEF Told, TellsOf, VerdictKept, Engaged, RecoveryStates
  <2>3. QED
    BY <2>1, <2>2, ToldWrite
<1>8. ASSUME NEW w \in Threads, NEW t \in Txs, RecoverAbstain(w, t) \/ ResolveExhausted(w, t)
      PROVE  Told'
  <2>1. PICK s \in Sessions :
          /\ Writes(w, s) /\ VerdictKept(s) /\ sess[s].sm \in RecoveryStates
          /\ sess'[s].sm = "ABSTAIN"
    BY <1>8, AbstainEffect DEF Writes
  <2>2. TellsOf(s)'
    BY <2>1 DEF Told, TellsOf, VerdictKept, RecoveryStates
  <2>3. QED
    BY <2>1, <2>2, ToldWrite
<1>9. ASSUME NEW w \in Threads, Execute(w) \/ RecoverRaise(w) \/ RecoverEnter(w)
      PROVE  Told'
  <2>1. PICK s \in Sessions :
          /\ Writes(w, s) /\ VerdictKept(s)
          /\ \/ sess'[s].sm = sess[s].sm
             \/ Move(s, "REVALIDATING") /\ sess'[s].sm = "REVALIDATING"
    BY <1>9, ExecutedEffect DEF Writes
  <2>2. Move(s, "REVALIDATING") => sess[s].sm \in {"RESOLVING", "RECOVERING"}
    BY RevalidatingFrom
  <2>3. TellsOf(s)'
    BY <2>1, <2>2 DEF Told, TellsOf, VerdictKept
  <2>4. QED
    BY <2>1, <2>3, ToldWrite
<1>10. ASSUME NEW w \in Threads, RecoverFinish(w) PROVE Told'
  <2>1. PICK s, verdict, bundle, events, repeated :
          /\ s = th[w].s /\ verdict = Verdict(bundle, events, repeated)
          /\ bundle = Netted(sess[s].bundle, th[w].exec)
          /\ events = sess'[s].events /\ repeated = sess'[s].repeated
    OBVIOUS
  <2>2. /\ Writes(w, s) /\ sess'[s].sm = verdict.status /\ sess'[s].status = verdict.status
        /\ sess'[s].viol = verdict.viol /\ verdict.status \in Verdicts
    BY <1>10, <2>1, RecoverFinishEffect
  <2>3. verdict.status = "DRIFT" => verdict.viol # {}
    BY <2>1, DriftViolates
  <2>4. TellsOf(s)'
    BY <2>2, <2>3, ToldVerdict
  <2>5. QED
    BY <2>2, <2>4, ToldWrite
<1>11. ASSUME NEW w \in Threads, NEW t \in Txs, ResolveBegin(w, t) PROVE Told'
  <2>1. PICK s \in Sessions :
          /\ Writes(w, s) /\ VerdictKept(s) /\ sess[s].sm \in ResolutionStates
          /\ sess'[s].sm = "RESOLVING"
    BY <1>11, ResolveBeginEffect DEF Writes
  <2>2. TellsOf(s)'
    BY <2>1 DEF Told, TellsOf, VerdictKept, ResolutionStates
  <2>3. QED
    BY <2>1, <2>2, ToldWrite
<1>12. ASSUME NEW w \in Threads, ResolveFinish(w) PROVE Told'
  <2>1. PICK o \in Observations(w) :
          /\ Writes(w, th[w].s)
          /\ sess'[th[w].s].sm = o.verdict.status
          /\ sess'[th[w].s].status = o.verdict.status
          /\ sess'[th[w].s].viol = o.verdict.viol /\ o.verdict.status \in Verdicts
    BY <1>12, ResolveFinishEffect
  <2>2. PICK s : s = th[w].s
    OBVIOUS
  <2>3. o.verdict.status = "DRIFT" => o.verdict.viol # {}
    BY ObservationViolates
  <2>4. /\ Writes(w, s) /\ sess'[s].sm = sess'[s].status /\ sess'[s].status \in Verdicts
        /\ sess'[s].status = "DRIFT" => sess'[s].viol # {}
    BY <2>1, <2>2, <2>3
  <2>5. TellsOf(s)'
    BY <2>4, ToldVerdict
  <2>6. QED
    BY <2>4, <2>5, ToldWrite
<1>13. CASE Environment \/ UNCHANGED vars
  BY <1>13, EnvironmentEffect DEF Told, TellsOf
<1>14. QED
  BY <1>1, <1>2, <1>3, <1>4, <1>5, <1>6, <1>7, <1>8, <1>9, <1>10, <1>11, <1>12, <1>13,
     StepCases

LEMMA ToldInitially == Init => Told
BY DEF Init, Told, TellsOf, NoSession, Begun, Answering

LEMMA SessionsTell == Spec => [](TypeOK /\ Exclusive /\ VerdictsSound /\ Owned /\ Told)
<1>1. Init => Exclusive /\ VerdictsSound /\ Owned /\ Told
  BY ExclusiveInitially, SoundInitially, OwnedInitially, ToldInitially
<1>2. TypeOK /\ TypeOK' /\ (Exclusive /\ VerdictsSound /\ Owned /\ Told) /\ [Next]_vars
        => (Exclusive /\ VerdictsSound /\ Owned /\ Told)'
  BY ExclusiveStep, SoundStep, OwnedInvariant, ToldStep
<1>3. QED
  BY <1>1, <1>2, TypeCorrect, PTL DEF Spec

-----------------------------------------------------------------------------
(***************************************************************************)
(* What the views answer.                                                  *)
(***************************************************************************)

LEMMA ViewOf ==
  ASSUME NEW t
  PROVE  LET v == View(t)
             s == cur[t]
         IN  /\ v.order = TRUE /\ v.state = sess[s].sm /\ v.status = sess[s].status
             /\ v.viol = sess[s].viol /\ v.mrdp = HasProof(s)
BY DEF View

LEMMA TraceOf ==
  ASSUME NEW t, NEW a \in GetTrace(t)
  PROVE  cur[t] # 0 /\ a.view = View(t) /\ a.trace = BuildTrace(View(t))
BY DEF GetTrace, Views

LEMMA TraceFields ==
  ASSUME NEW v
  PROVE  /\ BuildTrace(v).steps = Steps(v)
         /\ BuildTrace(v).first = FirstDivergence(Steps(v))
         /\ BuildTrace(v).faults = FaultLocations(v, Steps(v))
BY DEF BuildTrace

(***************************************************************************)
(* A DRIFT is located: whichever call found it -- completion, a recovery   *)
(* that did not help, a resolution -- and whatever was violated, the trace *)
(* names a stage that diverged, and a fault at it.                         *)
(***************************************************************************)
THEOREM DriftIsAlwaysLocated == ViewSpec => []DriftIsLocated
<1>1. ASSUME TypeOK, Told, NEW t \in Txs, cur[t] # 0, sess[cur[t]].status = "DRIFT",
             NEW a \in GetTrace(t)
      PROVE  a.trace.first # 0 /\ \E fault \in a.trace.faults : fault[1] = a.trace.first
  <2>1. PICK v : v = View(t)
    OBVIOUS
  <2>2. v.status = "DRIFT" /\ v.viol # {}
    BY <1>1, <2>1, ViewOf, CurrentSession DEF Told, TellsOf
  <2>3. Steps(v)[6].status = "DIVERGENCE_DETECTED"
    BY <2>2, DriftDiverges
  <2>4. /\ FirstDivergence(Steps(v)) # 0
        /\ \E fault \in FaultLocations(v, Steps(v)) : fault[1] = FirstDivergence(Steps(v))
    BY <2>3, Located
  <2>5. /\ a.trace.first = FirstDivergence(Steps(v))
        /\ a.trace.faults = FaultLocations(v, Steps(v))
    BY <1>1, <2>1, TraceOf, TraceFields
  <2>6. QED
    BY <2>4, <2>5
<1>2. TypeOK /\ Exclusive /\ VerdictsSound /\ Owned /\ Told => DriftIsLocated
  BY <1>1 DEF DriftIsLocated
<1>3. QED
  BY <1>2, SessionsTell, ViewsKeepTheSlice, PTL

(***************************************************************************)
(* Only PASS is confirmed: no state that the lifecycle can be in, and no   *)
(* call that stopped half way, falls through to the last line of           *)
(* _evaluate_completion_stage except PASS.                                 *)
(***************************************************************************)
THEOREM OnlyPassIsConfirmed == ViewSpec => []CompletionMeansPass
<1>1. ASSUME TypeOK, Owned, Told, NEW t \in Txs, cur[t] # 0, sess[cur[t]].sm # "PASS",
             NEW a \in GetTrace(t)
      PROVE  a.trace.steps[8].status # "CONFIRMED_VALID"
  <2>1. PICK v : v = View(t)
    OBVIOUS
  <2>2. cur[t] \in Sessions /\ sess[cur[t]].sm # "ABSENT"
    BY <1>1, CurrentSession DEF Owned, Used
  <2>3. TellsOf(cur[t])
    BY <1>1, <2>2 DEF Told
  <2>4. /\ v.state # "PASS" /\ v.status # "PASS"
        /\ \/ v.state \in {"CREATED", "EXECUTING", "OBSERVING", "VERIFYING"}
           \/ v.status = "DRIFT" /\ v.viol # {}
           \/ v.status = "UNKNOWN"
    BY <1>1, <2>1, <2>2, <2>3, ViewOf DEF TellsOf, Begun, Answering
  <2>5. Steps(v)[8].status # "CONFIRMED_VALID"
    BY <2>4, NotConfirmed
  <2>6. QED
    BY <1>1, <2>1, <2>5, TraceOf, TraceFields
<1>2. TypeOK /\ Exclusive /\ VerdictsSound /\ Owned /\ Told => CompletionMeansPass
  BY <1>1 DEF CompletionMeansPass
<1>3. QED
  BY <1>2, SessionsTell, ViewsKeepTheSlice, PTL

(***************************************************************************)
(* The last valid checkpoint can be trusted: every checkpoint up to it is  *)
(* VALID, although some stages are left out and others are judged without  *)
(* looking at those before them.                                           *)
(***************************************************************************)
THEOREM LastValidIsTrusted == ViewSpec => []LastValidTrusted
<1>1. ASSUME TypeOK, Told, NEW t \in Txs, NEW a \in GetCheckpoints(t),
             NEW i \in 1 .. a.timeline.lastValid
      PROVE  a.timeline.status[i] = "VALID"
  <2>1. PICK v : v = View(t)
    OBVIOUS
  <2>2. PICK trace : trace = BuildTrace(v)
    OBVIOUS
  <2>3. cur[t] # 0 /\ a.timeline = Timeline(v, trace)
    BY <1>1, <2>1, <2>2 DEF GetCheckpoints, GetTrace, Views
  <2>4. cur[t] \in Sessions /\ TellsOf(cur[t])
    BY <1>1, <2>3, CurrentSession DEF Told
  <2>5. v.order /\ v.state # "CREATED" /\ ~(v.mrdp /\ v.status = "PASS")
    BY <2>1, <2>4, ViewOf DEF TellsOf, Begun, Answering, HasProof
  <2>6. /\ a.timeline.lastValid = LastValid(trace)
        /\ \A j \in 1 .. 8 : a.timeline.status[j] = CheckpointStatus(Steps(v)[j].status)
    BY <2>2, <2>3, StagesAre, TraceFields DEF Timeline
  <2>7. CheckpointStatus(Steps(v)[i].status) = "VALID" /\ i \in 1 .. 8
    BY <2>2, <2>5, <2>6, TrustedPrefix
  <2>8. QED
    BY <2>6, <2>7
<1>2. TypeOK /\ Exclusive /\ VerdictsSound /\ Owned /\ Told => LastValidTrusted
  BY <1>1 DEF LastValidTrusted
<1>3. QED
  BY <1>2, SessionsTell, ViewsKeepTheSlice, PTL

-----------------------------------------------------------------------------
(***************************************************************************)
(* Stamped.  The stamps of a session are in the order the handlers give    *)
(* them, and what they kept of a completion explains what the kill switch  *)
(* was told: the trace still shows, after recoveries and resolutions, why  *)
(* there is a record.                                                      *)
(***************************************************************************)

CodesKept == {"CROSS_TRANSACTION_REUSE", "ORDER_MISMATCH", "DUPLICATE_ATTEMPT_REUSED"}

TriggersKept == {"NONE", "EXPIRED_AUTHORIZATION", "BINDING_VIOLATION", "CRITICAL_DRIFT",
                 "REPEATED_UNKNOWN"}

FactRecords ==
  [pay : {0} \cup Payments, failed : BOOLEAN, outcome : BOOLEAN, codes : SUBSET CodesKept,
   record : BOOLEAN, trigger : TriggersKept, recordTo : SafetyStates, recordAt : Nat,
   createdAt : Nat, updatedAt : Nat, evaluatedAt : Nat, verifiedAt : Nat, moved : Nat]

ClockTyped ==
  /\ clock \in Nat /\ began \in Nat
  /\ paidAt \in [Payments -> Nat]
  /\ facts \in [Sessions -> FactRecords]

InOrder(s) ==
  LET f == facts[s]
  IN  /\ f.createdAt <= f.updatedAt /\ f.createdAt <= f.moved
      /\ sess[s].status # "NONE" => f.createdAt <= f.evaluatedAt /\ f.evaluatedAt <= f.moved
      /\ f.record => /\ f.outcome /\ f.verifiedAt <= f.recordAt
                     /\ sess[s].status # "NONE"
      /\ f.pay # 0 => Paid(f.pay) /\ paidAt[f.pay] <= f.verifiedAt

\* A drift that nothing can recover.
BeyondRecovery(s) ==
  /\ sess[s].sm \in {"DRIFT", "ABSTAIN"} /\ sess[s].status = "DRIFT"
  /\ "OVERCHARGE" \notin sess[s].viol

Overpaid(s) == facts[s].pay # 0 /\ gw[facts[s].pay].amount > MaxTotal

Explained(s) ==
  facts[s].record /\ facts[s].recordTo # "RUNNING" =>
    expired \/ facts[s].codes # {} \/ Overpaid(s) \/ BeyondRecovery(s)

CallInOrder(w) ==
  LET s == th[w].s
      f == facts[s]
  IN  /\ At(w, "order") => unknowns[th[w].tx] = 0
      /\ Completing(w) => s = cur[th[w].tx] /\ (th[w].late => expired)
      /\ At(w, "observe") => clock <= f.moved
      /\ At(w, "enforce") =>
           /\ f.outcome /\ f.verifiedAt <= f.moved /\ f.pay = th[w].pay
           /\ f.codes = {} => th[w].valid
           /\ sess[s].bundle = ObservedAtCompletion(th[w].pay)
      /\ Executing(w) => f.moved <= began + 1
      /\ At(w, "resolve") => f.moved <= began

\* An evaluation is counted for a transaction that has its verdict.
CountedOnce ==
  \A t \in Txs : unknowns[t] # 0 => cur[t] # 0 /\ sess[cur[t]].status # "NONE"

Stamped ==
  /\ ClockTyped
  /\ \A p \in Payments : paidAt[p] <= clock
  /\ \A s \in Sessions : InOrder(s) /\ Explained(s)
  /\ \A w \in Threads : CallInOrder(w)
  /\ CountedOnce

\* What the stamps of a step leave alone.
Alike(f, g) ==
  /\ g.record = f.record /\ g.recordTo = f.recordTo /\ g.recordAt = f.recordAt
  /\ g.codes = f.codes /\ g.pay = f.pay /\ g.outcome = f.outcome
  /\ g.verifiedAt = f.verifiedAt /\ g.createdAt = f.createdAt

MovedTo(f, m) == [f EXCEPT !.moved = m]
EvaluatedTo(f, e, m) == [f EXCEPT !.evaluatedAt = e, !.moved = m]
UpdatedTo(f, e, m, u) == [f EXCEPT !.evaluatedAt = e, !.moved = m, !.updatedAt = u]
\* With the verdict the session may be marked as updated.
AtVerdict(f, g, e, m) == g = EvaluatedTo(f, e, m) \/ g = UpdatedTo(f, e, m, m)

LEMMA MovedOn ==
  ASSUME NEW f \in FactRecords, NEW m \in Nat
  PROVE  LET g == MovedTo(f, m)
         IN  /\ g \in FactRecords /\ Alike(f, g) /\ g.moved = m
             /\ g.evaluatedAt = f.evaluatedAt /\ g.updatedAt = f.updatedAt
BY DEF FactRecords, Alike, MovedTo

LEMMA Evaluated ==
  ASSUME NEW f \in FactRecords, NEW e \in Nat, NEW m \in Nat,
         NEW g, AtVerdict(f, g, e, m)
  PROVE  /\ g \in FactRecords /\ Alike(f, g) /\ g.moved = m
         /\ g.evaluatedAt = e /\ g.updatedAt \in {f.updatedAt, m}
<1>1. CASE g = EvaluatedTo(f, e, m)
  BY <1>1 DEF FactRecords, Alike, EvaluatedTo
<1>2. CASE g = UpdatedTo(f, e, m, m)
  BY <1>2 DEF FactRecords, Alike, UpdatedTo
<1>3. QED
  BY <1>1, <1>2 DEF AtVerdict

LEMMA FactTypes ==
  ASSUME ClockTyped, NEW s \in Sessions
  PROVE  /\ facts[s] \in FactRecords
         /\ facts[s].createdAt \in Nat /\ facts[s].updatedAt \in Nat
         /\ facts[s].evaluatedAt \in Nat /\ facts[s].verifiedAt \in Nat
         /\ facts[s].recordAt \in Nat /\ facts[s].moved \in Nat
         /\ facts[s].pay \in {0} \cup Payments
         /\ clock \in Nat /\ began \in Nat
         /\ \A p \in Payments : paidAt[p] \in Nat
BY DEF ClockTyped, FactRecords

\* A step that stamps one session anew and learns nothing of its payment.
LEMMA Restamp ==
  ASSUME TypeOK, Stamped, NEW w \in Threads, NEW s, Writes(w, s),
         NEW g \in FactRecords, Alike(facts[s], g), facts' = [facts EXCEPT ![s] = g],
         UNCHANGED <<clock, paidAt, gw, expired, unknowns, cur>>, began' \in Nat,
         g.createdAt <= g.updatedAt, g.createdAt <= g.moved,
         sess'[s].status # "NONE" => g.createdAt <= g.evaluatedAt /\ g.evaluatedAt <= g.moved,
         sess[s].status # "NONE" => sess'[s].status # "NONE",
         BeyondRecovery(s) => BeyondRecovery(s)',
         CallInOrder(w)'
  PROVE  Stamped'
<1>1. s \in Sessions /\ facts \in [Sessions -> FactRecords]
  BY DEF Writes, Stamped, ClockTyped
<1>2. /\ facts'[s] = g
      /\ \A r \in Sessions : r # s => facts'[r] = facts[r] /\ sess'[r] = sess[r]
  BY <1>1 DEF Writes
<1>3. ClockTyped'
  BY <1>1, <1>2 DEF Stamped, ClockTyped
<1>4. ASSUME NEW r \in Sessions, r # s PROVE InOrder(r)' /\ Explained(r)'
  <2>1. InOrder(r) /\ Explained(r)
    BY DEF Stamped
  <2>2. InOrder(r)'
    BY <1>2, <1>4, <2>1 DEF InOrder, Paid
  <2>3. Explained(r)'
    BY <1>2, <1>4, <2>1 DEF Explained, Overpaid, BeyondRecovery
  <2>4. QED
    BY <2>2, <2>3
<1>5. InOrder(s) /\ Explained(s)
  BY <1>1 DEF Stamped
<1>6. InOrder(s)'
  BY <1>2, <1>5 DEF InOrder, Paid, Alike
<1>7. Explained(s)'
  BY <1>2, <1>5 DEF Explained, Overpaid, Alike
<1>8. CountedOnce'
  BY <1>1, <1>2, CurrentSession DEF Stamped, CountedOnce
<1>9. \A v \in Threads : CallInOrder(v)'
  BY OneCaller
<1>10. (\A p \in Payments : paidAt[p] <= clock)'
  BY DEF Stamped
<1>11. QED
  BY <1>3, <1>4, <1>6, <1>7, <1>8, <1>9, <1>10 DEF Stamped

\* A transition, and a verdict, on a session whose stamps are in order.
LEMMA RestampMoved ==
  ASSUME TypeOK, Stamped, NEW w \in Threads, NEW s, Writes(w, s), VerdictKept(s),
         NEW m \in Nat, facts[s].moved <= m,
         facts' = [facts EXCEPT ![s] = MovedTo(facts[s], m)],
         UNCHANGED <<clock, paidAt, gw, expired, unknowns, cur>>, began' \in Nat,
         BeyondRecovery(s) => BeyondRecovery(s)',
         CallInOrder(w)'
  PROVE  Stamped'
<1>1. s \in Sessions /\ InOrder(s)
  BY DEF Writes, Stamped
<1>2. PICK f : f = facts[s]
  OBVIOUS
<1>3. PICK g : g = MovedTo(f, m)
  OBVIOUS
<1>4. /\ f \in FactRecords /\ f.createdAt \in Nat /\ f.updatedAt \in Nat
      /\ f.evaluatedAt \in Nat /\ f.moved \in Nat
  BY <1>1, <1>2, FactTypes DEF Stamped
<1>5. /\ g \in FactRecords /\ Alike(f, g) /\ g.moved = m
      /\ g.evaluatedAt = f.evaluatedAt /\ g.updatedAt = f.updatedAt
  BY <1>3, <1>4, MovedOn
<1>6. g.createdAt = f.createdAt
  BY <1>5 DEF Alike
<1>7. /\ g.createdAt <= g.updatedAt /\ g.createdAt <= g.moved
      /\ sess'[s].status # "NONE" => g.createdAt <= g.evaluatedAt /\ g.evaluatedAt <= g.moved
  BY <1>1, <1>2, <1>4, <1>5, <1>6 DEF InOrder, VerdictKept
<1>8. sess[s].status # "NONE" => sess'[s].status # "NONE"
  BY DEF VerdictKept
<1>9. QED
  BY <1>2, <1>3, <1>5, <1>7, <1>8, Restamp

LEMMA RestampEvaluated ==
  ASSUME TypeOK, Stamped, NEW w \in Threads, NEW s, Writes(w, s), sess'[s].status # "NONE",
         NEW e \in Nat, NEW m \in Nat, facts[s].moved <= e, e <= m,
         \/ facts' = [facts EXCEPT ![s] = EvaluatedTo(facts[s], e, m)]
         \/ facts' = [facts EXCEPT ![s] = UpdatedTo(facts[s], e, m, m)],
         UNCHANGED <<clock, paidAt, gw, expired, unknowns, cur>>, began' \in Nat,
         ~BeyondRecovery(s), CallInOrder(w)'
  PROVE  Stamped'
<1>1. s \in Sessions /\ InOrder(s)
  BY DEF Writes, Stamped
<1>2. PICK f : f = facts[s]
  OBVIOUS
<1>3. PICK g : AtVerdict(f, g, e, m) /\ facts' = [facts EXCEPT ![s] = g]
  BY <1>2 DEF AtVerdict
<1>4. f \in FactRecords /\ f.createdAt \in Nat /\ f.updatedAt \in Nat /\ f.moved \in Nat
  BY <1>1, <1>2, FactTypes DEF Stamped
<1>5. /\ g \in FactRecords /\ Alike(f, g) /\ g.moved = m
      /\ g.evaluatedAt = e /\ g.updatedAt \in {f.updatedAt, m}
  BY <1>3, <1>4, Evaluated
<1>6. g.createdAt = f.createdAt
  BY <1>5 DEF Alike
<1>7. f.createdAt <= f.updatedAt /\ f.createdAt <= f.moved /\ f.moved <= e
  BY <1>1, <1>2 DEF InOrder
<1>8. /\ g.createdAt <= g.updatedAt /\ g.createdAt <= g.moved
      /\ g.createdAt <= g.evaluatedAt /\ g.evaluatedAt <= g.moved
  BY <1>4, <1>5, <1>6, <1>7
<1>9. QED
  BY <1>2, <1>3, <1>5, <1>8, Restamp

\* A completion begins, or finds no payment.
LEMMA CompletionStamps ==
  ASSUME TypeOK, Exclusive, Stamped, NEW w \in Threads,
         \/ ViewCompleteUnresolved(w)
         \/ \E t \in Txs, p \in Payments : ViewCompleteBegin(w, t, p)
  PROVE  Stamped'
<1>1. ASSUME NEW t \in Txs, NEW p \in Payments, ViewCompleteBegin(w, t, p) PROVE Stamped'
  <2>1. CompleteBegin(w, t, p)
    BY <1>1 DEF ViewCompleteBegin
  <2>2. PICK s : s = cur[t]
    OBVIOUS
  <2>3. /\ Writes(w, s) /\ VerdictKept(s)
        /\ sess[s].sm = "EXECUTING" /\ sess'[s].sm = "OBSERVING"
    BY <2>1, <2>2, CompleteBeginEffect
  <2>4. s \in Sessions /\ facts \in [Sessions -> FactRecords]
    BY <2>3 DEF Writes, Stamped, ClockTyped
  <2>5. PICK f, m : f = facts[s] /\ m = IF clock < f.moved THEN f.moved + Pause ELSE clock
    OBVIOUS
  <2>6. f \in FactRecords /\ f.moved \in Nat /\ clock \in Nat
    BY <2>4, <2>5, FactTypes DEF Stamped
  <2>7. m \in Nat /\ f.moved <= m /\ clock <= m
    BY <2>5, <2>6 DEF Pause
  <2>8. facts' = [facts EXCEPT ![s] = MovedTo(f, m)]
    BY <1>1, <2>2, <2>5 DEF ViewCompleteBegin, MovedTo
  <2>9. /\ UNCHANGED <<clock, paidAt, gw, expired, unknowns, cur>>
        /\ began' \in Nat
    BY <1>1, <2>6 DEF ViewCompleteBegin, CompleteBegin, gate, env
  <2>10. th'[w] = [pc |-> "observe", tx |-> t, s |-> s, pay |-> p, late |-> expired]
    BY <2>1, <2>2 DEF CompleteBegin, Goto, TypeOK
  <2>11. CallInOrder(w)'
    <3>1. facts'[s].moved = m
      BY <2>4, <2>6, <2>8 DEF FactRecords, MovedTo
    <3>2. (cur[th[w].tx])' = s /\ th'[w].s = s
      BY <2>2, <2>9, <2>10
    <3>3. clock' <= facts'[s].moved
      BY <2>7, <2>9, <3>1
    <3>4. th'[w].pc = "observe" /\ (th'[w].late => expired')
      BY <2>9, <2>10
    <3>5. QED
      BY <3>2, <3>3, <3>4 DEF CallInOrder, Executing, At, Completing
  <2>12. BeyondRecovery(s) => BeyondRecovery(s)'
    BY <2>3 DEF BeyondRecovery
  <2>13. QED
    BY <2>3, <2>5, <2>7, <2>8, <2>9, <2>11, <2>12, RestampMoved
<1>2. ASSUME ViewCompleteUnresolved(w) PROVE Stamped'
  <2>1. CompleteUnresolved(w)
    BY <1>2 DEF ViewCompleteUnresolved
  <2>2. PICK s : s = th[w].s
    OBVIOUS
  <2>3. Writes(w, s) /\ sess'[s].status = "UNKNOWN" /\ th'[w] = Idle /\ sess[s].sm = "OBSERVING"
    BY <2>1, <2>2, CompleteUnresolvedEffect, HolderIsFree
  <2>4. s \in Sessions /\ facts \in [Sessions -> FactRecords]
    BY <2>3 DEF Writes, Stamped, ClockTyped
  <2>5. PICK f, e, m : f = facts[s] /\ e = f.moved + Pause /\ m = f.moved + Pause + Pause
    OBVIOUS
  <2>6. f.moved \in Nat /\ began \in Nat
    BY <2>4, <2>5, FactTypes DEF Stamped
  <2>7. e \in Nat /\ m \in Nat /\ f.moved <= e /\ e <= m
    BY <2>5, <2>6 DEF Pause
  <2>8. facts' = [facts EXCEPT ![s] = EvaluatedTo(f, e, m)]
    BY <1>2, <2>2, <2>4, <2>5 DEF ViewCompleteUnresolved, EvaluatedTo
  <2>9. /\ UNCHANGED <<clock, paidAt, gw, expired, unknowns, cur>>
        /\ began' \in Nat
    BY <1>2, <2>6 DEF ViewCompleteUnresolved, CompleteUnresolved, gate, env
  <2>10. CallInOrder(w)'
    BY <2>3 DEF CallInOrder, Executing, At, Completing, Idle
  <2>11. ~BeyondRecovery(s)
    BY <2>3 DEF BeyondRecovery
  <2>12. QED
    BY <2>3, <2>5, <2>7, <2>8, <2>9, <2>10, <2>11, RestampEvaluated
<1>3. QED
  BY <1>1, <1>2

\* The time of a recovery or a resolution is not before the last transition.
LEMMA CallTimes ==
  ASSUME ClockTyped, NEW s \in Sessions
  PROVE  /\ RecoverTime(s) \in Nat /\ facts[s].moved <= RecoverTime(s)
         /\ ResolveTime(s) \in Nat /\ facts[s].moved <= ResolveTime(s)
BY FactTypes DEF RecoverTime, ResolveTime, Later, Pause

\* A call asks for a recovery or a resolution, or gives up.
LEMMA CallStamps ==
  ASSUME TypeOK, Stamped, NEW w \in Threads, NEW t \in Txs,
         \/ ViewRecoverBegin(w, t) \/ ViewRecoverAbstain(w, t)
         \/ ViewResolveBegin(w, t) \/ ViewResolveExhausted(w, t)
  PROVE  Stamped'
<1>1. PICK s : s = cur[t]
  OBVIOUS
<1>2. PICK f : f = facts[s]
  OBVIOUS
<1>3. s \in Sessions
  BY <1>1, CurrentSession DEF ViewRecoverBegin, RecoverBegin, ViewRecoverAbstain, RecoverAbstain,
     ViewResolveBegin, ResolveBegin, ViewResolveExhausted, ResolveExhausted
<1>4. facts \in [Sessions -> FactRecords] /\ f.moved \in Nat /\ began \in Nat
  BY <1>2, <1>3, FactTypes DEF Stamped, ClockTyped
<1>5. /\ RecoverTime(s) \in Nat /\ f.moved <= RecoverTime(s)
      /\ ResolveTime(s) \in Nat /\ f.moved <= ResolveTime(s)
  BY <1>2, <1>3, CallTimes DEF Stamped
<1>6. IsIdle(w)
  BY DEF ViewRecoverBegin, RecoverBegin, ViewRecoverAbstain, RecoverAbstain,
     ViewResolveBegin, ResolveBegin, ViewResolveExhausted, ResolveExhausted
<1>7. CASE ViewRecoverBegin(w, t)
  <2>1. PICK m : m = IF sess[s].sm \in {"DRIFT", "UNKNOWN"} THEN RecoverTime(s) + 1 ELSE f.moved
    OBVIOUS
  <2>2. m \in Nat /\ f.moved <= m /\ m <= RecoverTime(s) + 1
    BY <1>4, <1>5, <2>1
  <2>3. RecoverBegin(w, t) /\ began' = RecoverTime(s)
    BY <1>1, <1>7 DEF ViewRecoverBegin
  <2>4. facts' = [facts EXCEPT ![s] = MovedTo(f, m)]
    BY <1>1, <1>2, <1>7, <2>1 DEF ViewRecoverBegin, MovedTo
  <2>5. UNCHANGED <<clock, paidAt, gw, expired, unknowns, cur>>
    BY <1>7 DEF ViewRecoverBegin, RecoverBegin, gate, env
  <2>6. Writes(w, s) /\ VerdictKept(s) /\ Recoverable(s) /\ th'[w].pc = "execute"
    BY <1>1, <2>3, RecoverBeginEffect
  <2>7. ~BeyondRecovery(s)
    BY <2>6 DEF BeyondRecovery, Recoverable
  <2>8. th'[w].s = s
    BY <1>1, <2>3 DEF RecoverBegin, Goto, TypeOK
  <2>9. facts'[s].moved = m
    BY <1>2, <1>3, <1>4, <2>4 DEF FactRecords, MovedTo
  <2>10. CallInOrder(w)'
    BY <2>2, <2>3, <2>6, <2>8, <2>9 DEF CallInOrder, Executing, At, Completing
  <2>11. QED
    BY <1>2, <1>5, <2>2, <2>3, <2>4, <2>5, <2>6, <2>7, <2>10, RestampMoved
<1>8. CASE ViewResolveBegin(w, t)
  <2>1. PICK m : m = IF sess[s].sm = "UNKNOWN" THEN ResolveTime(s) ELSE f.moved
    OBVIOUS
  <2>2. m \in Nat /\ f.moved <= m /\ m <= ResolveTime(s)
    BY <1>4, <1>5, <2>1
  <2>3. ResolveBegin(w, t) /\ began' = ResolveTime(s)
    BY <1>1, <1>8 DEF ViewResolveBegin
  <2>4. facts' = [facts EXCEPT ![s] = MovedTo(f, m)]
    BY <1>1, <1>2, <1>8, <2>1 DEF ViewResolveBegin, MovedTo
  <2>5. UNCHANGED <<clock, paidAt, gw, expired, unknowns, cur>>
    BY <1>8 DEF ViewResolveBegin, ResolveBegin, gate, env
  <2>6. Writes(w, s) /\ VerdictKept(s) /\ sess[s].sm \in ResolutionStates
    BY <1>1, <2>3, ResolveBeginEffect
  <2>7. ~BeyondRecovery(s)
    BY <2>6 DEF BeyondRecovery, ResolutionStates
  <2>8. th'[w] = Idle \/ (th'[w].pc = "resolve" /\ th'[w].s = s)
    BY <1>1, <1>6, <2>3 DEF ResolveBegin, Goto, TypeOK, IsIdle
  <2>9. facts'[s].moved = m
    BY <1>2, <1>3, <1>4, <2>4 DEF FactRecords, MovedTo
  <2>10. CallInOrder(w)'
    BY <2>2, <2>3, <2>8, <2>9 DEF CallInOrder, Executing, At, Completing, Idle
  <2>11. QED
    BY <1>2, <1>5, <2>2, <2>3, <2>4, <2>5, <2>6, <2>7, <2>10, RestampMoved
<1>9. CASE ViewRecoverAbstain(w, t) \/ ViewResolveExhausted(w, t)
  <2>1. RecoverAbstain(w, t) \/ ResolveExhausted(w, t)
    BY <1>9 DEF ViewRecoverAbstain, ViewResolveExhausted
  <2>2. Writes(w, s) /\ VerdictKept(s) /\ sess'[s].sm = "ABSTAIN" /\ th' = th
    BY <1>1, <2>1, AbstainEffect
  <2>3. PICK m \in {RecoverTime(s), ResolveTime(s)} :
          facts' = [facts EXCEPT ![s] = MovedTo(f, m)]
    BY <1>1, <1>2, <1>9 DEF ViewRecoverAbstain, ViewResolveExhausted, MovedTo
  <2>4. m \in Nat /\ f.moved <= m
    BY <1>5, <2>3
  <2>5. UNCHANGED <<clock, paidAt, gw, expired, unknowns, cur>> /\ began' \in Nat
    BY <1>4, <1>9, <2>1 DEF ViewRecoverAbstain, ViewResolveExhausted, RecoverAbstain,
       ResolveExhausted, gate, env
  <2>6. BeyondRecovery(s) => BeyondRecovery(s)'
    BY <2>2 DEF BeyondRecovery, VerdictKept
  <2>7. CallInOrder(w)'
    BY <1>6, <2>2 DEF CallInOrder, Executing, At, Completing, IsIdle, Idle
  <2>8. QED
    BY <1>2, <2>2, <2>3, <2>4, <2>5, <2>6, <2>7, RestampMoved
<1>10. QED
  BY <1>7, <1>8, <1>9

\* A recovery acts and looks again; a resolution observes.
LEMMA AnswerStamps ==
  ASSUME TypeOK, Exclusive, Stamped, NEW w \in Threads,
         \/ ViewRecoverExecute(w) \/ ViewRecoverEnter(w)
         \/ ViewRecoverFinish(w) \/ ViewResolveFinish(w)
  PROVE  Stamped'
<1>1. PICK s : s = th[w].s
  OBVIOUS
<1>2. PICK f : f = facts[s]
  OBVIOUS
<1>3. s \in Sessions
  <2>1. \/ Execute(w) \/ RecoverRaise(w) \/ RecoverEnter(w)
        \/ RecoverFinish(w) \/ ResolveFinish(w)
    BY DEF ViewRecoverExecute, ViewRecoverEnter, ViewRecoverFinish, ViewResolveFinish
  <2>2. Writes(w, s)
    BY <1>1, <2>1, ExecutedEffect, RecoverFinishEffect, ResolveFinishEffect
  <2>3. QED
    BY <2>2 DEF Writes
<1>4. facts \in [Sessions -> FactRecords] /\ f.moved \in Nat /\ began \in Nat
  BY <1>2, <1>3, FactTypes DEF Stamped, ClockTyped
<1>5. /\ Executing(w) => f.moved <= began + 1
      /\ At(w, "resolve") => f.moved <= began
  BY <1>1, <1>2 DEF Stamped, CallInOrder
<1>6. CASE ViewRecoverExecute(w) \/ ViewRecoverEnter(w)
  <2>1. Execute(w) \/ RecoverRaise(w) \/ RecoverEnter(w)
    BY <1>6 DEF ViewRecoverExecute, ViewRecoverEnter
  <2>2. /\ Writes(w, s) /\ VerdictKept(s) /\ Executing(w)
        /\ \/ /\ sess'[s].sm = sess[s].sm
              /\ th'[w].pc \in {"idle", "budget", "count", "record", "executed"}
           \/ /\ Move(s, "REVALIDATING") /\ sess'[s].sm = "REVALIDATING"
              /\ th'[w].pc = "revalidate"
    BY <1>1, <2>1, ExecutedEffect
  <2>3. \/ /\ th'[w].pc \in {"idle", "revalidate"}
           /\ facts'[s] = f \/ ViewRecoverEnter(w)
        \/ /\ th'[w].pc \in {"budget", "count", "record", "executed"} /\ th'[w].s = s
           /\ ViewRecoverExecute(w)
    <3>1. Execute(w) =>
            th'[w].pc \in {"budget", "count", "record", "executed"} /\ th'[w].s = s
      BY <1>1, ExecuteStep DEF TypeOK
    <3>2. RecoverRaise(w) \/ RecoverEnter(w) => th'[w].pc \in {"idle", "revalidate"}
      BY EnterStep DEF RecoverRaise, Return, Goto, Idle, TypeOK
    <3>3. QED
      BY <1>2, <1>6, <3>1, <3>2 DEF ViewRecoverExecute, ViewRecoverEnter, viewVars
  <2>4. PICK m : m = IF ViewRecoverEnter(w) /\ sess'[s].sm = "REVALIDATING"
                       THEN began + 1 + Pause ELSE f.moved
    OBVIOUS
  <2>5. m \in Nat /\ f.moved <= m
    BY <1>4, <1>5, <2>2, <2>4 DEF Pause
  <2>6. facts' = [facts EXCEPT ![s] = MovedTo(f, m)]
    <3>1. f \in FactRecords
      BY <1>2, <1>3, <1>4
    <3>2. MovedTo(f, f.moved) = f
      BY <3>1 DEF MovedTo, FactRecords
    <3>3. CASE ViewRecoverEnter(w)
      BY <1>1, <1>2, <2>4, <3>3 DEF ViewRecoverEnter, MovedTo
    <3>4. CASE ~ViewRecoverEnter(w)
      BY <1>2, <1>3, <1>4, <1>6, <2>4, <3>2, <3>4 DEF ViewRecoverExecute, viewVars
    <3>5. QED
      BY <3>3, <3>4
  <2>7. UNCHANGED <<clock, paidAt, began, gw, expired, unknowns, cur>>
    <3>1. UNCHANGED <<gw, expired, unknowns, cur>>
      BY <2>1, ExecuteStep, EnterStep DEF RecoverRaise, gate, env
    <3>2. QED
      BY <1>6, <3>1 DEF ViewRecoverExecute, ViewRecoverEnter, viewVars
  <2>8. BeyondRecovery(s) => BeyondRecovery(s)'
    BY <2>2, RevalidatingFrom DEF BeyondRecovery, VerdictKept
  <2>9. CallInOrder(w)'
    <3>1. CASE th'[w].pc \in {"idle", "revalidate"}
      BY <3>1 DEF CallInOrder, Executing, At, Completing
    <3>2. CASE /\ th'[w].pc \in {"budget", "count", "record", "executed"} /\ th'[w].s = s
               /\ ViewRecoverExecute(w)
      <4>1. facts' = facts
        BY <3>2 DEF ViewRecoverExecute, viewVars
      <4>2. QED
        BY <1>2, <1>5, <2>2, <2>7, <3>2, <4>1 DEF CallInOrder, Executing, At, Completing
    <3>3. QED
      BY <2>3, <3>1, <3>2
  <2>10. QED
    BY <1>2, <1>4, <2>2, <2>5, <2>6, <2>7, <2>8, <2>9, RestampMoved
<1>7. CASE ViewRecoverFinish(w)
  <2>1. RecoverFinish(w)
    BY <1>7 DEF ViewRecoverFinish
  <2>2. /\ Writes(w, s) /\ sess'[s].status \in Verdicts /\ th'[w] = Idle
        /\ sess[s].sm = "REVALIDATING"
    BY <1>1, <2>1, RecoverFinishEffect, HolderIsFree
  <2>3. PICK e, m : e = f.moved /\ m = f.moved + Pause
    OBVIOUS
  <2>4. e \in Nat /\ m \in Nat /\ f.moved <= e /\ e <= m
    BY <1>4, <2>3 DEF Pause
  <2>5. facts' = [facts EXCEPT ![s] = EvaluatedTo(f, e, m)]
    BY <1>1, <1>2, <1>3, <1>4, <1>7, <2>3 DEF ViewRecoverFinish, EvaluatedTo
  <2>6. UNCHANGED <<clock, paidAt, gw, expired, unknowns, cur>> /\ began' \in Nat
    BY <1>4, <1>7 DEF ViewRecoverFinish, RecoverFinish, gate, env
  <2>7. CallInOrder(w)'
    BY <2>2 DEF CallInOrder, Executing, At, Completing, Idle
  <2>8. ~BeyondRecovery(s) /\ sess'[s].status # "NONE"
    BY <2>2 DEF BeyondRecovery, Verdicts
  <2>9. QED
    BY <1>2, <2>2, <2>4, <2>5, <2>6, <2>7, <2>8, RestampEvaluated
<1>8. CASE ViewResolveFinish(w)
  <2>1. ResolveFinish(w)
    BY <1>8 DEF ViewResolveFinish
  <2>2. /\ Writes(w, s) /\ sess'[s].status \in Verdicts /\ th'[w] = Idle
        /\ Move(s, "REVALIDATING") /\ At(w, "resolve")
    BY <1>1, <2>1, ResolveFinishEffect
  <2>3. PICK e, m : e = began /\ m = Later(began, f.moved + Pause) + Pause
    OBVIOUS
  <2>4. e \in Nat /\ m \in Nat /\ f.moved <= e /\ e <= m
    BY <1>4, <1>5, <2>2, <2>3 DEF Pause, Later
  <2>5. facts' = [facts EXCEPT ![s] = UpdatedTo(f, e, m, m)]
    BY <1>1, <1>2, <1>3, <1>4, <1>8, <2>3 DEF ViewResolveFinish, UpdatedTo
  <2>6. UNCHANGED <<clock, paidAt, gw, expired, unknowns, cur>> /\ began' \in Nat
    <3>1. UNCHANGED <<clock, began, paidAt>>
      BY <1>8 DEF ViewResolveFinish
    <3>2. UNCHANGED <<gw, expired, unknowns, cur>>
      BY <2>1 DEF ResolveFinish, gate, env
    <3>3. QED
      BY <1>4, <3>1, <3>2
  <2>7. CallInOrder(w)'
    BY <2>2 DEF CallInOrder, Executing, At, Completing, Idle
  <2>8. ~BeyondRecovery(s) /\ sess'[s].status # "NONE"
    BY <2>2, RevalidatingFrom DEF BeyondRecovery, Verdicts
  <2>9. QED
    BY <1>2, <2>2, <2>4, <2>5, <2>6, <2>7, <2>8, RestampEvaluated
<1>9. QED
  BY <1>6, <1>7, <1>8

\* A step that touches neither a session nor what was paid.
LEMMA StampsKept ==
  ASSUME TypeOK, Stamped, UNCHANGED <<sess, cur, gw, paidAt, facts>>,
         clock' \in Nat, clock <= clock', began' \in Nat, expired => expired',
         \A t \in Txs : unknowns'[t] # 0 => unknowns[t] # 0,
         \A w \in Threads : CallInOrder(w)'
  PROVE  Stamped'
<1>1. ClockTyped' /\ (\A p \in Payments : paidAt[p] <= clock)'
  BY FactTypes DEF Stamped, ClockTyped
<1>2. ASSUME NEW s \in Sessions PROVE InOrder(s)' /\ Explained(s)'
  <2>1. InOrder(s) /\ Explained(s)
    BY DEF Stamped
  <2>2. InOrder(s)'
    BY <2>1 DEF InOrder, Paid
  <2>3. Explained(s)'
    BY <2>1 DEF Explained, Overpaid, BeyondRecovery
  <2>4. QED
    BY <2>2, <2>3
<1>3. CountedOnce'
  BY DEF Stamped, CountedOnce
<1>4. QED
  BY <1>1, <1>2, <1>3 DEF Stamped

\* A creation begins, or the gateway refuses it; time passes, the intent
\* expires, and the kill switch has other callers.
LEMMA ElsewhereStamps ==
  ASSUME TypeOK, Stamped,
         \/ \E w \in Threads : ViewCreateFail(w) \/ \E t \in Txs : ViewCreateBegin(w, t)
         \/ Tick
         \/ (Expire \/ \E t \in Txs : Kill(t) \/ Resume(t)) /\ UNCHANGED viewVars
  PROVE  Stamped'
<1>1. clock \in Nat /\ began \in Nat
  BY DEF Stamped, ClockTyped
<1>2. ASSUME NEW w \in Threads, NEW t \in Txs, ViewCreateBegin(w, t) PROVE Stamped'
  <2>1. /\ UNCHANGED <<sess, cur, gw, paidAt, facts, clock, expired>> /\ began' = clock
        /\ unknowns' = [unknowns EXCEPT ![t] = 0]
        /\ th' = [th EXCEPT ![w] = [pc |-> "order", tx |-> t, late |-> expired]]
    BY <1>2 DEF ViewCreateBegin, CreateBegin, Goto, env
  <2>2. unknowns \in [Txs -> Nat] /\ th \in [Threads -> ThreadRecords]
    BY DEF TypeOK
  <2>3. unknowns'[t] = 0 /\ \A r \in Txs : r # t => unknowns'[r] = unknowns[r]
    BY <2>1, <2>2
  <2>4. th'[w].pc = "order" /\ th'[w].tx = t
    BY <2>1, <2>2
  <2>5. CallInOrder(w)'
    BY <2>3, <2>4 DEF CallInOrder, Executing, At, Completing
  <2>6. \A v \in Threads : CallInOrder(v)'
    BY <2>5, OneCaller
  <2>7. QED
    BY <1>1, <2>1, <2>3, <2>6, StampsKept
<1>3. ASSUME NEW w \in Threads, ViewCreateFail(w) PROVE Stamped'
  <2>1. /\ UNCHANGED <<sess, cur, gw, paidAt, facts, clock, began, expired, unknowns>>
        /\ th' = [th EXCEPT ![w] = Idle]
    BY <1>3 DEF ViewCreateFail, CreateFail, Return, Goto, env, gate, viewVars
  <2>2. th'[w] = Idle
    BY <2>1 DEF TypeOK
  <2>3. CallInOrder(w)'
    BY <2>2 DEF CallInOrder, Executing, At, Completing, Idle
  <2>4. \A v \in Threads : CallInOrder(v)'
    BY <2>3, OneCaller
  <2>5. QED
    BY <1>1, <2>1, <2>4, StampsKept
<1>4. CASE Tick
  <2>1. /\ UNCHANGED <<sess, cur, gw, paidAt, facts, began, expired, unknowns, th>>
        /\ clock' = clock + TickLength /\ \A w \in Threads : IsIdle(w)
    BY <1>4 DEF Tick, vars, env, gate
  <2>2. clock' \in Nat /\ clock <= clock'
    BY <1>1, <2>1, TimeAssumption
  <2>3. \A v \in Threads : CallInOrder(v)'
    BY <2>1 DEF CallInOrder, Executing, At, Completing, IsIdle, Idle
  <2>4. QED
    BY <1>1, <2>1, <2>2, <2>3, StampsKept
<1>5. CASE (Expire \/ \E t \in Txs : Kill(t) \/ Resume(t)) /\ UNCHANGED viewVars
  <2>1. UNCHANGED <<sess, cur, gw, paidAt, facts, clock, began, th>>
    BY <1>5 DEF Expire, Kill, Resume, env, viewVars
  <2>2. expired => expired'
    BY <1>5 DEF Expire, Kill, Resume, env
  <2>3. \A t \in Txs : unknowns'[t] = unknowns[t] \/ unknowns'[t] = 0
    BY <1>5 DEF Expire, Kill, Resume, gate, TypeOK
  <2>4. ASSUME NEW v \in Threads PROVE CallInOrder(v)'
    <3>1. CallInOrder(v)
      BY DEF Stamped
    <3>2. At(v, "order") => unknowns'[th[v].tx] = 0
      BY <2>3, <3>1, ThreadAt DEF CallInOrder
    <3>3. QED
      BY <2>1, <2>2, <3>1, <3>2 DEF CallInOrder, Executing, At, Completing, ObservedAtCompletion
  <2>5. QED
    BY <1>1, <2>1, <2>2, <2>3, <2>4, StampsKept
<1>6. QED
  BY <1>2, <1>3, <1>4, <1>5

\* A payment is made: none that a session keeps, or a completion works with.
LEMMA PayStamps ==
  ASSUME TypeOK, Stamped, NEW p \in Payments, ViewPay(p)
  PROVE  Stamped'
<1>1. /\ UNCHANGED <<sess, cur, unknowns, expired, th, clock, began, facts>>
      /\ ~Paid(p) /\ paidAt' = [paidAt EXCEPT ![p] = clock]
  BY DEF ViewPay, Pay, gate, viewVars
<1>2. PICK s \in Sessions, c \in Charges :
        gw' = [gw EXCEPT ![p] = [order |-> s, amount |-> c.amount, captured |-> c.captured,
                                 items |-> c.items, late |-> expired]]
  BY DEF ViewPay, Pay
<1>3. gw'[p].order = s /\ s # 0 /\ \A q \in Payments : q # p => gw'[q] = gw[q]
  BY <1>2, BoundsAssumption DEF TypeOK, Sessions
<1>4. clock \in Nat /\ paidAt \in [Payments -> Nat]
  BY DEF Stamped, ClockTyped
<1>5. /\ paidAt'[p] = clock /\ \A q \in Payments : q # p => paidAt'[q] = paidAt[q]
      /\ paidAt' \in [Payments -> Nat]
  BY <1>1, <1>4
<1>6. ClockTyped' /\ (\A q \in Payments : paidAt[q] <= clock)'
  BY <1>1, <1>4, <1>5 DEF Stamped, ClockTyped
<1>7. ASSUME NEW r \in Sessions, facts[r].pay # 0
      PROVE  facts[r].pay \in Payments /\ facts[r].pay # p
  <2>1. facts[r].pay \in Payments
    BY <1>7, FactTypes DEF Stamped
  <2>2. Paid(facts[r].pay)
    BY <1>7 DEF Stamped, InOrder
  <2>3. QED
    BY <1>1, <2>1, <2>2
<1>8. ASSUME NEW r \in Sessions PROVE InOrder(r)' /\ Explained(r)'
  <2>1. InOrder(r) /\ Explained(r)
    BY DEF Stamped
  <2>2. InOrder(r)'
    BY <1>1, <1>3, <1>5, <1>7, <2>1 DEF InOrder, Paid
  <2>3. Explained(r)'
    BY <1>1, <1>3, <1>7, <2>1 DEF Explained, Overpaid, BeyondRecovery
  <2>4. QED
    BY <2>2, <2>3
<1>9. ASSUME NEW w \in Threads PROVE CallInOrder(w)'
  <2>1. CallInOrder(w)
    BY DEF Stamped
  <2>2. At(w, "enforce") => gw'[th[w].pay] = gw[th[w].pay]
    <3> SUFFICES ASSUME At(w, "enforce") PROVE gw'[th[w].pay] = gw[th[w].pay]
      OBVIOUS
    <3>1. th[w].s \in Sessions /\ th[w].pay \in Payments
      BY ThreadAt
    <3>2. facts[th[w].s].pay = th[w].pay
      BY <2>1 DEF CallInOrder
    <3>3. th[w].pay # 0
      BY <3>1, BoundsAssumption DEF Payments
    <3>4. QED
      BY <1>3, <1>7, <3>1, <3>2, <3>3
  <2>3. At(w, "enforce") =>
          ObservedAtCompletion(th[w].pay)' = ObservedAtCompletion(th[w].pay)
    BY <1>1, <2>2 DEF ObservedAtCompletion
  <2>4. QED
    BY <1>1, <2>1, <2>3 DEF CallInOrder, Executing, At, Completing
<1>10. CountedOnce'
  BY <1>1 DEF Stamped, CountedOnce
<1>11. QED
  BY <1>6, <1>8, <1>9, <1>10 DEF Stamped

\* A step that stamps one session, whose payment and record it may set.
LEMMA OneStamped ==
  ASSUME TypeOK, Stamped, NEW w \in Threads, NEW s \in Sessions, NEW g \in FactRecords,
         facts' = [facts EXCEPT ![s] = g],
         \A r \in Sessions : r # s => sess'[r] = sess[r],
         UNCHANGED <<clock, began, paidAt, gw, expired>>,
         InOrder(s)', Explained(s)', CallInOrder(w)', CountedOnce'
  PROVE  Stamped'
<1>1. facts \in [Sessions -> FactRecords]
  BY DEF Stamped, ClockTyped
<1>2. \A r \in Sessions : r # s => facts'[r] = facts[r]
  BY <1>1
<1>3. ClockTyped' /\ (\A p \in Payments : paidAt[p] <= clock)'
  BY <1>1 DEF Stamped, ClockTyped
<1>4. ASSUME NEW r \in Sessions, r # s PROVE InOrder(r)' /\ Explained(r)'
  <2>1. InOrder(r) /\ Explained(r)
    BY DEF Stamped
  <2>2. InOrder(r)'
    BY <1>2, <1>4, <2>1 DEF InOrder, Paid
  <2>3. Explained(r)'
    BY <1>2, <1>4, <2>1 DEF Explained, Overpaid, BeyondRecovery
  <2>4. QED
    BY <2>2, <2>3
<1>5. \A v \in Threads : CallInOrder(v)'
  BY OneCaller
<1>6. QED
  BY <1>3, <1>4, <1>5 DEF Stamped

\* The session of a fresh order has its first stamps, and nothing counted.
LEMMA CreateStamps ==
  ASSUME TypeOK, Owned, Stamped, NEW w \in Threads, ViewCreateOrder(w)
  PROVE  Stamped'
<1>1. CreateOrder(w) /\ At(w, "order")
  BY DEF ViewCreateOrder, CreateOrder
<1>2. PICK t \in Txs : t = th[w].tx
  BY <1>1, ThreadAt
<1>3. PICK s \in Sessions :
        /\ IsNext(s)
        /\ sess' = [sess EXCEPT ![s] = NewSession(th[w].tx, th[w].late)]
        /\ cur' = [cur EXCEPT ![th[w].tx] = s]
  BY <1>1 DEF CreateOrder
<1>4. PICK r \in Sessions :
        /\ IsNext(r)
        /\ facts' = [facts EXCEPT ![r] = [NoFacts EXCEPT !.createdAt = began,
                                            !.updatedAt = began, !.moved = began + Pause]]
  BY DEF ViewCreateOrder
<1>5. r = s
  <2>1. s \in Nat /\ r \in Nat
    BY BoundsAssumption DEF Sessions
  <2>2. ~(r < s) /\ ~(s < r)
    BY <1>3, <1>4 DEF IsNext
  <2>3. QED
    BY <2>1, <2>2
<1>6. PICK g : g = [NoFacts EXCEPT !.createdAt = began, !.updatedAt = began,
                                   !.moved = began + Pause]
  OBVIOUS
<1>7. began \in Nat /\ facts \in [Sessions -> FactRecords]
  BY DEF Stamped, ClockTyped
<1>8. /\ g.pay = 0 /\ g.record = FALSE /\ g.createdAt = began /\ g.updatedAt = began
      /\ g.moved = began + Pause
  BY <1>6 DEF NoFacts
<1>9. g \in FactRecords
  <2>1. /\ g.failed = FALSE /\ g.outcome = FALSE /\ g.codes = {} /\ g.trigger = "NONE"
        /\ g.recordTo = "RUNNING" /\ g.recordAt = 0 /\ g.evaluatedAt = 0 /\ g.verifiedAt = 0
    BY <1>6 DEF NoFacts
  <2>2. g = [pay |-> 0, failed |-> FALSE, outcome |-> FALSE, codes |-> {}, record |-> FALSE,
             trigger |-> "NONE", recordTo |-> "RUNNING", recordAt |-> 0,
             createdAt |-> began, updatedAt |-> began, evaluatedAt |-> 0,
             verifiedAt |-> 0, moved |-> began + Pause]
    BY <1>6 DEF NoFacts
  <2>3. "RUNNING" \in SafetyStates /\ "NONE" \in TriggersKept /\ began + Pause \in Nat
    BY <1>7 DEF SafetyStates, TriggersKept, Pause
  <2>4. QED
    BY <1>7, <2>2, <2>3 DEF FactRecords
<1>10. facts' = [facts EXCEPT ![s] = g] /\ facts'[s] = g
  BY <1>4, <1>5, <1>6, <1>7
<1>11. /\ \A q \in Sessions : q # s => sess'[q] = sess[q]
       /\ sess'[s].status = "NONE" /\ sess'[s].sm = "EXECUTING"
  BY <1>3 DEF TypeOK, NewSession, NoSession
<1>12. UNCHANGED <<clock, began, paidAt, gw, expired, unknowns>> /\ th'[w] = Idle
  BY <1>1 DEF ViewCreateOrder, CreateOrder, Return, Goto, gate, env, TypeOK
<1>13. InOrder(s)'
  BY <1>7, <1>8, <1>10, <1>11 DEF InOrder, Pause
<1>14. Explained(s)'
  BY <1>8, <1>10 DEF Explained
<1>15. CallInOrder(w)'
  BY <1>12 DEF CallInOrder, Executing, At, Completing, Idle
<1>16. CountedOnce'
  <2> SUFFICES ASSUME NEW q \in Txs, unknowns[q] # 0
               PROVE  cur'[q] # 0 /\ sess'[cur'[q]].status # "NONE"
    BY <1>12 DEF CountedOnce
  <2>1. q # t
    BY <1>1, <1>2 DEF Stamped, CallInOrder
  <2>2. cur'[q] = cur[q] /\ cur[q] # 0 /\ sess[cur[q]].status # "NONE"
    BY <1>2, <1>3, <2>1 DEF Stamped, CountedOnce, TypeOK
  <2>3. cur[q] \in Sessions /\ cur[q] # s
    BY <1>3, <2>2, CurrentSession DEF Owned, IsNext
  <2>4. QED
    BY <1>11, <2>2, <2>3
<1>17. QED
  BY <1>9, <1>10, <1>11, <1>12, <1>13, <1>14, <1>15, <1>16, OneStamped

\* A binding without a violation is a valid one.
LEMMA CodesTell ==
  ASSUME NEW t, NEW s, NEW p
  PROVE  /\ BindingCodes(t, s, p) \in SUBSET CodesKept
         /\ BindingCodes(t, s, p) = {} => BindingValid(t, s, p)
BY DEF BindingCodes, BindingValid, CodesKept

\* g is what a session with the fields f keeps of the payment.
KeepsPayment(g, f, p, failed, codes, at) ==
  /\ f \in FactRecords /\ p \in Payments /\ failed \in BOOLEAN
  /\ codes \in SUBSET CodesKept /\ at \in Nat
  /\ g = PaymentKept(f, p, failed, codes, at)

LEMMA PaymentFields ==
  ASSUME NEW g, NEW f, NEW p, NEW failed, NEW codes, NEW at,
         KeepsPayment(g, f, p, failed, codes, at)
  PROVE  /\ g \in FactRecords /\ g.pay = p /\ g.outcome = TRUE /\ g.codes = codes
         /\ g.verifiedAt = at /\ g.moved = at
         /\ g.record = f.record /\ g.createdAt = f.createdAt
         /\ g.updatedAt = f.updatedAt /\ g.evaluatedAt = f.evaluatedAt
BY DEF FactRecords, PaymentKept, KeepsPayment

\* The payment is fetched: it was made before, and no record is kept yet.
LEMMA ObserveStamps ==
  ASSUME TypeOK, Exclusive, Told, Stamped, NEW w \in Threads, ViewCompleteObserve(w)
  PROVE  Stamped'
<1>1. CompleteObserve(w) /\ At(w, "observe")
  BY DEF ViewCompleteObserve, CompleteObserve
<1>2. PICK t, s, p : t = th[w].tx /\ s = th[w].s /\ p = th[w].pay
  OBVIOUS
<1>3. t \in Txs /\ s \in Sessions /\ p \in Payments /\ p # 0
  BY <1>1, <1>2, ThreadAt, BoundsAssumption DEF Payments
<1>4. PICK f, m, codes : f = facts[s] /\ m = f.moved + Pause /\ codes = BindingCodes(t, s, p)
  OBVIOUS
<1>5. PICK failed \in BOOLEAN :
        facts' = [facts EXCEPT ![s] = PaymentKept(f, p, failed, codes, m)]
  BY <1>2, <1>4 DEF ViewCompleteObserve
<1>6. PICK g : g = PaymentKept(f, p, failed, codes, m)
  OBVIOUS
<1>7. /\ facts \in [Sessions -> FactRecords] /\ f \in FactRecords /\ f.moved \in Nat
      /\ f.createdAt \in Nat /\ f.updatedAt \in Nat /\ f.evaluatedAt \in Nat
      /\ clock \in Nat /\ paidAt[p] \in Nat
  BY <1>3, <1>4, FactTypes DEF Stamped, ClockTyped
<1>8. m \in Nat /\ f.moved <= m /\ clock <= m /\ paidAt[p] <= m
  <2>1. clock <= f.moved
    BY <1>1, <1>2, <1>4 DEF Stamped, CallInOrder
  <2>2. paidAt[p] <= clock
    BY <1>3 DEF Stamped
  <2>3. QED
    BY <1>4, <1>7, <2>1, <2>2 DEF Pause
<1>9. /\ g \in FactRecords /\ g.pay = p /\ g.outcome = TRUE /\ g.codes = codes
      /\ g.verifiedAt = m /\ g.moved = m
      /\ g.record = f.record /\ g.createdAt = f.createdAt /\ g.updatedAt = f.updatedAt
      /\ g.evaluatedAt = f.evaluatedAt
  <2>1. f \in FactRecords /\ m \in Nat /\ codes \in SUBSET CodesKept
    BY <1>4, <1>7, <1>8, CodesTell
  <2>2. KeepsPayment(g, f, p, failed, codes, m)
    BY <1>3, <1>5, <1>6, <2>1 DEF KeepsPayment
  <2>3. QED
    BY <2>2, PaymentFields
<1>10. facts' = [facts EXCEPT ![s] = g] /\ facts'[s] = g
  BY <1>3, <1>5, <1>6, <1>7
<1>11. /\ Writes(w, s) /\ VerdictKept(s) /\ sess[s].sm = "OBSERVING"
       /\ sess'[s].bundle = ObservedAtCompletion(p)
  BY <1>1, <1>2, CompleteObserveEffect, HolderIsFree
<1>12. sess[s].status = "NONE" /\ sess'[s].status = "NONE"
  BY <1>3, <1>11 DEF Told, TellsOf, Begun, VerdictKept
<1>13. f.record = FALSE /\ f.createdAt <= f.updatedAt /\ f.createdAt <= f.moved
  BY <1>3, <1>4, <1>7, <1>12 DEF Stamped, InOrder, FactRecords
<1>14. UNCHANGED <<clock, began, paidAt>>
  BY DEF ViewCompleteObserve
<1>15. UNCHANGED <<gw, expired, cur, unknowns>> /\ Paid(p)
  BY <1>1, <1>2 DEF CompleteObserve, gate, env
<1>16. InOrder(s)'
  <2>1. Paid(p)'
    BY <1>15 DEF Paid
  <2>2. g.createdAt <= g.updatedAt /\ g.createdAt <= g.moved /\ paidAt'[p] <= g.verifiedAt
    BY <1>7, <1>8, <1>9, <1>13, <1>14
  <2>3. QED
    BY <1>9, <1>10, <1>12, <1>13, <2>1, <2>2 DEF InOrder
<1>17. Explained(s)'
  BY <1>9, <1>10, <1>13 DEF Explained
<1>18. /\ th'[w].pc = "enforce" /\ th'[w].tx = t /\ th'[w].s = s /\ th'[w].pay = p
       /\ th'[w].late = th[w].late /\ th'[w].valid = BindingValid(t, s, p)
  <2>1. PICK verdict :
          th' = [th EXCEPT ![w] = [pc |-> "enforce", tx |-> t, s |-> s, pay |-> p,
                                   late |-> th[w].late, valid |-> BindingValid(t, s, p),
                                   verdict |-> verdict]]
    BY <1>1, <1>2 DEF CompleteObserve, Goto
  <2>2. QED
    BY <2>1 DEF TypeOK
<1>19. CallInOrder(w)'
  <2>1. s = cur'[t] /\ (th'[w].late => expired')
    BY <1>1, <1>2, <1>15, <1>18 DEF Stamped, CallInOrder, Completing
  <2>2. g.codes = {} => th'[w].valid
    BY <1>4, <1>9, <1>18, CodesTell
  <2>3. (sess[s].bundle = ObservedAtCompletion(th[w].pay))'
    BY <1>11, <1>15, <1>18 DEF ObservedAtCompletion
  <2>4. facts'[s].outcome /\ facts'[s].verifiedAt <= facts'[s].moved /\ facts'[s].pay = p
    BY <1>8, <1>9, <1>10
  <2>5. QED
    BY <1>10, <1>18, <2>1, <2>2, <2>3, <2>4 DEF CallInOrder, Executing, At
<1>20. CountedOnce'
  BY <1>3, <1>11, <1>15, CurrentSession DEF Stamped, CountedOnce, Writes, VerdictKept
<1>21. \A r \in Sessions : r # s => sess'[r] = sess[r]
  BY <1>11 DEF Writes
<1>22. QED
  BY <1>3, <1>9, <1>10, <1>14, <1>15, <1>16, <1>17, <1>19, <1>20, <1>21, OneStamped

\* g is what a session with the fields f keeps of the verdict.
KeepsVerdict(g, f, finding, at) ==
  /\ f \in FactRecords /\ at \in Nat
  /\ finding.to \in SafetyStates /\ finding.trigger \in TriggersKept
  /\ g = VerdictKeptAt(f, finding, at)

LEMMA VerdictFields ==
  ASSUME NEW g, NEW f, NEW finding, NEW at, KeepsVerdict(g, f, finding, at)
  PROVE  /\ g \in FactRecords /\ g.record = (finding # NoFinding) /\ g.recordTo = finding.to
         /\ g.recordAt = at /\ g.evaluatedAt = f.moved /\ g.moved = f.moved + Pause
         /\ g.pay = f.pay /\ g.outcome = f.outcome /\ g.codes = f.codes
         /\ g.verifiedAt = f.verifiedAt /\ g.createdAt = f.createdAt
         /\ g.updatedAt = f.updatedAt
<1>1. (finding # NoFinding) \in BOOLEAN /\ f.moved \in Nat /\ f.moved + Pause \in Nat
  BY DEF KeepsVerdict, FactRecords, Pause
<1>2. PICK record, e, m, to, trigger :
        /\ record = (finding # NoFinding) /\ e = f.moved /\ m = f.moved + Pause
        /\ to = finding.to /\ trigger = finding.trigger
  OBVIOUS
<1>3. g = [f EXCEPT !.evaluatedAt = e, !.moved = m, !.record = record,
                    !.trigger = trigger, !.recordTo = to, !.recordAt = at]
  BY <1>2 DEF KeepsVerdict, VerdictKeptAt
<1>4. /\ record \in BOOLEAN /\ e \in Nat /\ m \in Nat /\ at \in Nat /\ f \in FactRecords
      /\ to \in SafetyStates /\ trigger \in TriggersKept
  BY <1>1, <1>2 DEF KeepsVerdict
<1>5. /\ g \in FactRecords /\ g.record = record /\ g.recordTo = to
      /\ g.recordAt = at /\ g.evaluatedAt = e /\ g.moved = m
      /\ g.pay = f.pay /\ g.outcome = f.outcome /\ g.codes = f.codes
      /\ g.verifiedAt = f.verifiedAt /\ g.createdAt = f.createdAt
      /\ g.updatedAt = f.updatedAt
  BY <1>3, <1>4 DEF FactRecords
<1>6. QED
  BY <1>2, <1>5

\* A finding of a first evaluation is about an expiry, a binding or a drift.
LEMMA FirstFinding ==
  ASSUME NEW late \in BOOLEAN, NEW valid \in BOOLEAN, NEW status, NEW count \in {0, 1},
         MaxUnknown \in Nat, MaxUnknown >= 2
  PROVE  LET finding == EnforcedFinding(late, valid, status, count, MaxUnknown)
         IN  /\ finding.to \in SafetyStates /\ finding.trigger \in TriggersKept
             /\ finding.to # "RUNNING" => late \/ ~valid \/ status = "DRIFT"
BY DEF EnforcedFinding, IntegrityFinding, Finding, NoFinding, SafetyStates, TriggersKept

\* The verdict of a completion, and what it tells the kill switch.
LEMMA EnforceStamps ==
  ASSUME MaxUnknown \in Nat, MaxUnknown >= 2,
         TypeOK, TypeOK', Exclusive, VerdictsSound, Told, Stamped,
         NEW w \in Threads, ViewCompleteEnforce(w)
  PROVE  Stamped'
<1>1. CompleteEnforce(w) /\ At(w, "enforce")
  BY DEF ViewCompleteEnforce, CompleteEnforce
<1>2. PICK t, s, p, late, valid, verdict :
        /\ t = th[w].tx /\ s = th[w].s /\ p = th[w].pay
        /\ late = th[w].late /\ valid = th[w].valid
        /\ verdict = BoundVerdict(th[w].verdict, th[w].valid)
  OBVIOUS
<1>3. /\ t \in Txs /\ s \in Sessions /\ p \in Payments /\ p # 0 /\ s # 0
      /\ late \in BOOLEAN /\ valid \in BOOLEAN
  BY <1>1, <1>2, ThreadAt, BoundsAssumption DEF Payments, Sessions
<1>4. /\ Writes(w, s) /\ EvidenceKept(s) /\ th'[w] = Idle
      /\ sess'[s].sm = verdict.status /\ sess'[s].status = verdict.status
      /\ sess'[s].viol = verdict.viol /\ verdict.status \in Verdicts
  BY <1>1, <1>2, CompleteEnforceEffect
<1>5. PICK f, m : f = facts[s] /\ m = f.moved + Pause
  OBVIOUS
<1>6. /\ facts \in [Sessions -> FactRecords] /\ f \in FactRecords /\ f.moved \in Nat
      /\ f.createdAt \in Nat /\ f.updatedAt \in Nat /\ f.verifiedAt \in Nat
  BY <1>3, <1>5, FactTypes DEF Stamped, ClockTyped
<1>7. m \in Nat /\ f.moved <= m
  BY <1>5, <1>6 DEF Pause
<1>8. /\ s = cur[t] /\ (late => expired)
      /\ f.outcome /\ f.verifiedAt <= f.moved /\ f.pay = p /\ (f.codes = {} => valid)
      /\ sess[s].bundle = ObservedAtCompletion(p)
  BY <1>1, <1>2, <1>5 DEF Stamped, CallInOrder, Completing, At
<1>9. sess[s].status = "NONE"
  BY <1>1, <1>2, <1>3, HolderIsFree DEF Told, TellsOf, Begun
<1>10. unknowns[t] = 0
  BY <1>3, <1>8, <1>9 DEF Stamped, CountedOnce
<1>11. /\ Enforced(t, late, verdict.status, valid) /\ UNCHANGED <<cur, gw, expired>>
  BY <1>1, <1>2 DEF CompleteEnforce, env
<1>12. /\ unknowns'[t] \in {0, 1}
       /\ \A r \in Txs : r # t => unknowns'[r] = unknowns[r]
  BY <1>3, <1>10, <1>11 DEF Enforced, TypeOK
<1>13. PICK finding :
         /\ finding = EnforcedFinding(late, valid, verdict.status, unknowns'[t], MaxUnknown)
         /\ facts' = [facts EXCEPT ![s] = VerdictKeptAt(f, finding, m)]
         /\ UNCHANGED <<clock, began, paidAt>>
  BY <1>2, <1>5 DEF ViewCompleteEnforce, RecordTime
<1>14. /\ finding.to \in SafetyStates /\ finding.trigger \in TriggersKept
       /\ finding.to # "RUNNING" => late \/ ~valid \/ verdict.status = "DRIFT"
  BY <1>3, <1>12, <1>13, FirstFinding
<1>15. PICK g : g = VerdictKeptAt(f, finding, m)
  OBVIOUS
<1>16. KeepsVerdict(g, f, finding, m)
  BY <1>6, <1>7, <1>14, <1>15 DEF KeepsVerdict
<1>17. /\ g \in FactRecords /\ g.recordTo = finding.to
       /\ g.recordAt = m /\ g.evaluatedAt = f.moved /\ g.moved = m
       /\ g.pay = p /\ g.outcome /\ g.codes = f.codes
       /\ g.verifiedAt = f.verifiedAt /\ g.createdAt = f.createdAt
       /\ g.updatedAt = f.updatedAt
  BY <1>5, <1>8, <1>16, VerdictFields
<1>18. facts' = [facts EXCEPT ![s] = g] /\ facts'[s] = g
  BY <1>3, <1>6, <1>13, <1>15
<1>19. /\ f.createdAt <= f.updatedAt /\ f.createdAt <= f.moved
       /\ Paid(p) /\ paidAt[p] <= f.verifiedAt
  BY <1>3, <1>5, <1>8 DEF Stamped, InOrder
<1>20. sess'[s].status # "NONE"
  BY <1>4 DEF Verdicts
<1>21. InOrder(s)'
  <2>1. Paid(p)' /\ paidAt' = paidAt
    BY <1>11, <1>13, <1>19 DEF Paid
  <2>2. g.createdAt <= g.moved /\ g.verifiedAt <= g.recordAt
    BY <1>6, <1>7, <1>8, <1>17, <1>19
  <2>3. QED
    BY <1>7, <1>17, <1>18, <1>19, <1>20, <2>1, <2>2 DEF InOrder
<1>22. Explained(s)'
  <2> SUFFICES ASSUME finding.to # "RUNNING"
               PROVE  expired' \/ facts'[s].codes # {} \/ Overpaid(s)' \/ BeyondRecovery(s)'
    BY <1>17, <1>18 DEF Explained
  <2>1. CASE late
    BY <1>8, <1>11, <2>1
  <2>2. CASE ~valid
    BY <1>8, <1>17, <1>18, <2>2
  <2>3. CASE valid /\ verdict.status = "DRIFT" /\ "OVERCHARGE" \in verdict.viol
    <3>1. verdict = Verdict(sess[s].bundle, sess[s].events, FALSE)
      BY <1>1, <1>2, <2>3 DEF VerdictsSound, CallSound, BoundVerdict
    <3>2. sess[s].bundle \in Bundles
      BY <1>3 DEF TypeOK, SessionRecords
    <3>3. \A a \in sess[s].bundle.amounts : a > MaxTotal
      BY <2>3, <3>1, <3>2, OverchargeMeans
    <3>4. gw[p].amount > MaxTotal
      BY <1>8, <3>3 DEF ObservedAtCompletion
    <3>5. QED
      BY <1>3, <1>11, <1>17, <1>18, <3>4 DEF Overpaid
  <2>4. CASE verdict.status = "DRIFT" /\ "OVERCHARGE" \notin verdict.viol
    BY <1>4, <2>4 DEF BeyondRecovery
  <2>5. QED
    BY <1>14, <2>1, <2>2, <2>3, <2>4
<1>23. CallInOrder(w)'
  BY <1>4 DEF CallInOrder, Executing, At, Completing, Idle
<1>24. CountedOnce'
  <2> SUFFICES ASSUME NEW q \in Txs, unknowns'[q] # 0
               PROVE  cur'[q] # 0 /\ sess'[cur'[q]].status # "NONE"
    BY DEF CountedOnce
  <2>1. CASE q = t
    BY <1>3, <1>8, <1>11, <1>20, <2>1
  <2>2. CASE q # t
    <3>1. cur[q] # 0 /\ sess[cur[q]].status # "NONE"
      BY <1>12, <2>2 DEF Stamped, CountedOnce
    <3>2. cur[q] \in Sessions
      BY <3>1, CurrentSession
    <3>3. sess'[cur[q]].status # "NONE"
      BY <1>4, <1>20, <3>1, <3>2 DEF Writes
    <3>4. QED
      BY <1>11, <3>1, <3>3
  <2>3. QED
    BY <2>1, <2>2
<1>25. QED
  BY <1>3, <1>4, <1>11, <1>13, <1>17, <1>18, <1>21, <1>22, <1>23, <1>24, OneStamped DEF Writes

LEMMA StampedStep ==
  ASSUME MaxUnknown \in Nat, MaxUnknown >= 2,
         TypeOK, TypeOK', Exclusive, VerdictsSound, Owned, Told, Stamped, [ViewNext]_allVars
  PROVE  Stamped'
<1>1. ASSUME NEW w \in Threads, ViewContinue(w) PROVE Stamped'
  <2>1. ViewCreateOrder(w) => Stamped'
    BY CreateStamps
  <2>2. ViewCreateFail(w) => Stamped'
    BY ElsewhereStamps
  <2>3. ViewCompleteUnresolved(w) => Stamped'
    BY CompletionStamps
  <2>4. ViewCompleteObserve(w) => Stamped'
    BY ObserveStamps
  <2>5. ViewCompleteEnforce(w) => Stamped'
    BY EnforceStamps
  <2>6. \/ ViewRecoverExecute(w) \/ ViewRecoverEnter(w)
        \/ ViewRecoverFinish(w) \/ ViewResolveFinish(w)
        => Stamped'
    BY AnswerStamps
  <2>7. QED
    BY <1>1, <2>1, <2>2, <2>3, <2>4, <2>5, <2>6 DEF ViewContinue
<1>2. ASSUME NEW w \in Threads, NEW t \in Txs, ViewCall(w, t) PROVE Stamped'
  <2>1. ViewCreateBegin(w, t) => Stamped'
    BY ElsewhereStamps
  <2>2. (\E p \in Payments : ViewCompleteBegin(w, t, p)) => Stamped'
    BY CompletionStamps
  <2>3. ViewRecoverBegin(w, t) \/ ViewRecoverAbstain(w, t)
          \/ ViewResolveBegin(w, t) \/ ViewResolveExhausted(w, t) => Stamped'
    BY CallStamps
  <2>4. QED
    BY <1>2, <2>1, <2>2, <2>3 DEF ViewCall
<1>3. ASSUME ViewEnvironment PROVE Stamped'
  <2>1. (\E p \in Payments : ViewPay(p)) => Stamped'
    BY PayStamps
  <2>2. \/ Tick
        \/ (Expire \/ \E t \in Txs : Kill(t) \/ Resume(t)) /\ UNCHANGED viewVars
        => Stamped'
    BY ElsewhereStamps
  <2>3. QED
    BY <1>3, <2>1, <2>2 DEF ViewEnvironment
<1>4. CASE UNCHANGED allVars
  <2>1. UNCHANGED <<cur, sess, th, unknowns, gw, expired, clock, began, paidAt, facts>>
    BY <1>4 DEF allVars, viewVars, vars, gate, env
  <2>2. clock \in Nat /\ began \in Nat
    BY DEF Stamped, ClockTyped
  <2>3. \A w \in Threads : CallInOrder(w)'
    BY <2>1 DEF Stamped, CallInOrder, Executing, At, Completing, ObservedAtCompletion
  <2>4. QED
    BY <2>1, <2>2, <2>3, StampsKept
<1>5. QED
  BY <1>1, <1>2, <1>3, <1>4 DEF ViewNext

LEMMA StampedInitially == ViewInit => Stamped
<1> SUFFICES ASSUME ViewInit PROVE Stamped
  OBVIOUS
<1>1. NoFacts \in FactRecords
  BY DEF NoFacts, FactRecords, SafetyStates, TriggersKept
<1>2. ClockTyped /\ \A p \in Payments : paidAt[p] <= clock
  BY <1>1 DEF ViewInit, ClockTyped
<1>3. ASSUME NEW s \in Sessions PROVE InOrder(s) /\ Explained(s)
  <2>1. facts[s] = NoFacts /\ sess[s].status = "NONE"
    BY DEF ViewInit, Init, NoSession
  <2>2. /\ facts[s].createdAt = 0 /\ facts[s].updatedAt = 0 /\ facts[s].moved = 0
        /\ facts[s].record = FALSE /\ facts[s].pay = 0
    BY <2>1 DEF NoFacts
  <2>3. QED
    BY <2>1, <2>2 DEF InOrder, Explained
<1>4. ASSUME NEW w \in Threads PROVE CallInOrder(w)
  BY DEF ViewInit, Init, CallInOrder, Executing, At, Completing, Idle
<1>5. CountedOnce
  BY DEF ViewInit, Init, CountedOnce
<1>6. QED
  BY <1>2, <1>3, <1>4, <1>5 DEF Stamped

SessionInv == TypeOK /\ Exclusive /\ VerdictsSound /\ Owned /\ Told

LEMMA ViewsStamped ==
  ASSUME MaxUnknown \in Nat, MaxUnknown >= 2
  PROVE  ViewSpec => [](SessionInv /\ Stamped)
<1>1. Spec => []SessionInv
  BY SessionsTell DEF SessionInv
<1>2. SessionInv /\ SessionInv' /\ Stamped /\ [ViewNext]_allVars => Stamped'
  BY StampedStep DEF SessionInv
<1>3. QED
  BY <1>1, <1>2, StampedInitially, ViewsKeepTheSlice, PTL DEF ViewSpec

-----------------------------------------------------------------------------
(***************************************************************************)
(* What the report makes of a view whose stamps are in order.              *)
(***************************************************************************)

\* Everything is there that a session always has, and no code it never has.
Furnished(v) ==
  /\ v.intent = TRUE /\ v.issuedAt = 0 /\ v.context = TRUE /\ v.order = TRUE
  /\ v.orderFaults = {} /\ v.badSignature = FALSE /\ v.codes \subseteq CodesKept
  /\ \A e \in v.events : e[1] = "order"

\* Its times are in order; completedAt is the only one it may lack.
Timed(v) ==
  /\ v.ref \in Nat /\ v.createdAt \in Nat /\ v.createdAt <= v.ref
  /\ v.evaluatedAt \in Nat /\ v.verifiedAt \in Nat /\ v.recordAt \in Nat
  /\ v.status # "NONE" => v.createdAt <= v.evaluatedAt /\ v.evaluatedAt <= v.ref
  /\ \/ v.completedAt \in Nat /\ v.createdAt <= v.completedAt
     \/ v.completedAt = NoTime
  /\ v.record => v.outcome /\ v.verifiedAt <= v.recordAt
  /\ v.payment => v.paymentAt \in Nat /\ v.paymentAt <= v.verifiedAt

\* An intervention has its reason.
Reasoned(v) ==
  v.record /\ v.recordTo # "RUNNING" =>
    \/ v.late
    \/ v.codes # {}
    \/ v.payment /\ v.paymentFaults # {}
    \/ v.status = "DRIFT" /\ v.viol # {}

LEMMA InTime ==
  ASSUME NEW start, NEW end, NEW limit,
         start = NoTime \/ end = NoTime \/ ~(end < start)
  PROVE  Duration(start, end, limit).status # "INVALID"
BY DEF Duration, Unmeasured, Measured

LEMMA NeverInvalid ==
  /\ NotApplicable.status # "INVALID"
  /\ \A eighths, floor : Ratio(eighths, floor).status # "INVALID"
BY DEF NotApplicable, Ratio, Measured

LEMMA NoEvent ==
  ASSUME NEW v, Furnished(v), NEW kinds, "order" \notin kinds
  PROVE  TimeOf(v, kinds) = NoTime
BY DEF TimeOf, Furnished

\* What diverged has the time of the intent, of the verification or of the
\* payment, or that of the intervention.
LEMMA DivergedAt ==
  ASSUME NEW v, Furnished(v), Timed(v),
         NEW i \in 1 .. 8, Steps(v)[i].status = "DIVERGENCE_DETECTED"
  PROVE  /\ Steps(v)[i].at \in Nat \/ Steps(v)[i].at = NoTime
         /\ v.record => Steps(v)[i].at \in Nat /\ Steps(v)[i].at <= v.recordAt
<1> DEFINE Dated(step) ==
      step.status = "DIVERGENCE_DETECTED" =>
        /\ step.at \in Nat \/ step.at = NoTime
        /\ v.record => step.at \in Nat /\ step.at <= v.recordAt
<1> USE StepFields
<1>1. \A findings, at :
        /\ Judged(findings, at).status = "DIVERGENCE_DETECTED" => Judged(findings, at).at = at
        /\ Judged({}, at).status # "DIVERGENCE_DETECTED"
  BY DEF Judged
<1>2. /\ v.recordAt \in Nat /\ v.verifiedAt \in Nat /\ v.issuedAt = 0
      /\ v.record => v.outcome /\ v.verifiedAt <= v.recordAt
  BY DEF Timed, Furnished
<1>3. Dated(IntentStep(v))
  <2>1. IntentStep(v).status = "DIVERGENCE_DETECTED" => IntentStep(v).at = v.issuedAt
    BY <1>1 DEF IntentStep
  <2>2. QED
    BY <1>2, <2>1
<1>4. Codes(v) \subseteq CodesKept
  BY DEF Codes, Furnished
<1>5. Dated(AgentStep(v)) /\ Dated(MerchantStep(v))
  BY <1>4 DEF AgentStep, MerchantStep, CodesKept, Furnished
<1>6. Dated(OrderStep(v))
  <2>1. OrderStep(v).status = "DIVERGENCE_DETECTED" => OrderStep(v).at = v.verifiedAt
    BY <1>1 DEF OrderStep, Furnished
  <2>2. QED
    BY <1>2, <2>1
<1>7. Dated(AttemptStep(v))
  <2>1. AttemptStep(v).status = "DIVERGENCE_DETECTED" =>
          AttemptStep(v).at = Stamp(v.record, v.recordAt)
    BY DEF AttemptStep
  <2>2. QED
    BY <1>2, <2>1 DEF Stamp
<1>8. Dated(PaymentStep(v))
  <2>1. PaymentStep(v).status = "DIVERGENCE_DETECTED" =>
          \/ PaymentStep(v).at = Stamp(v.outcome, v.verifiedAt)
          \/ v.payment /\ PaymentStep(v).at = v.paymentAt
    BY <1>1 DEF PaymentStep
  <2>2. v.payment => v.paymentAt \in Nat /\ v.paymentAt <= v.verifiedAt
    BY DEF Timed
  <2>3. QED
    BY <1>2, <2>1, <2>2 DEF Stamp
<1>9. Dated(GatewayStep(v)) /\ Dated(CompletionStep(v, Earlier(v)))
  BY DEF GatewayStep, CompletionStep, Furnished
<1>10. i \in {1, 2, 3, 4, 5, 6, 7, 8}
  OBVIOUS
<1> HIDE DEF Dated
<1>11. Dated(Steps(v)[i])
  BY <1>3, <1>5, <1>6, <1>7, <1>8, <1>9, <1>10, StepsOf
<1>12. QED
  BY <1>11 DEF Dated

\* What nothing is known of has no time.
LEMMA UnknownAt ==
  ASSUME NEW v, Furnished(v), NEW i \in 1 .. 8, Steps(v)[i].status = "UNKNOWN"
  PROVE  Steps(v)[i].at = NoTime
<1> USE StepFields
<1>1. \A findings, at : Judged(findings, at).status # "UNKNOWN"
  BY DEF Judged
<1>2. IntentStep(v).status # "UNKNOWN" /\ AgentStep(v).status # "UNKNOWN"
  BY <1>1 DEF IntentStep, AgentStep, Furnished
<1>3. MerchantStep(v).status # "UNKNOWN" /\ OrderStep(v).status # "UNKNOWN"
  BY <1>1 DEF MerchantStep, OrderStep, Furnished
<1>4. AttemptStep(v).status # "UNKNOWN"
  BY DEF AttemptStep
<1>5. PaymentStep(v).status = "UNKNOWN" => PaymentStep(v).at = NoTime
  BY <1>1 DEF PaymentStep
<1>6. GatewayStep(v).status # "UNKNOWN"
  <2>1. "UNRESOLVED_PROVIDER_STATE" \notin Codes(v)
    BY DEF Codes, CodesKept, Furnished
  <2>2. QED
    BY <2>1 DEF GatewayStep
<1>7. CompletionStep(v, Earlier(v)).status = "UNKNOWN" => CompletionStep(v, Earlier(v)).at = NoTime
  BY DEF CompletionStep
<1>8. i \in {1, 2, 3, 4, 5, 6, 7, 8}
  OBVIOUS
<1>9. QED
  BY <1>2, <1>3, <1>4, <1>5, <1>6, <1>7, <1>8, StepsOf

\* The trace still shows why there was an intervention.
LEMMA ReasonShown ==
  ASSUME NEW v, Furnished(v), Timed(v), Reasoned(v), v.record, v.recordTo # "RUNNING"
  PROVE  \E i \in 1 .. 8 : Steps(v)[i].status = "DIVERGENCE_DETECTED"
<1> USE StepFields
<1>1. \A findings, at : findings # {} => Judged(findings, at).status = "DIVERGENCE_DETECTED"
  BY DEF Judged
<1>2. CASE v.late
  <2>1. IntentStep(v).status = "DIVERGENCE_DETECTED"
    BY <1>1, <1>2 DEF IntentStep, Furnished
  <2>2. QED
    BY <2>1, StepsOf
<1>3. CASE v.codes # {}
  <2>1. Codes(v) = v.codes
    BY DEF Timed, Codes
  <2>2. CASE "ORDER_MISMATCH" \in v.codes
    <3>1. OrderStep(v).status = "DIVERGENCE_DETECTED"
      BY <2>1, <2>2 DEF OrderStep
    <3>2. QED
      BY <3>1, StepsOf
  <2>3. CASE "ORDER_MISMATCH" \notin v.codes
    <3>1. v.codes \cap AttemptCodes # {}
      BY <1>3, <2>3 DEF Furnished, CodesKept, AttemptCodes
    <3>2. AttemptStep(v).status = "DIVERGENCE_DETECTED"
      <4>1. PICK limit :
              limit = IF v.record /\ v.trigger = "ATTEMPT_LIMIT_EXCEEDED"
                        THEN {v.trigger} ELSE {}
        OBVIOUS
      <4>2. PICK findings : findings = (Codes(v) \cap AttemptCodes) \cup limit
        OBVIOUS
      <4>3. findings # {}
        BY <2>1, <3>1, <4>2
      <4>4. AttemptStep(v) = Diverging(findings, Stamp(v.record, v.recordAt))
        BY <4>1, <4>2, <4>3 DEF AttemptStep
      <4>5. QED
        BY <4>4 DEF Diverging, Step
    <3>3. QED
      BY <3>2, StepsOf
  <2>4. QED
    BY <2>2, <2>3
<1>4. CASE v.payment /\ v.paymentFaults # {}
  <2>1. PaymentStep(v).status = "DIVERGENCE_DETECTED"
    BY <1>1, <1>4 DEF PaymentStep, BeforePayment
  <2>2. QED
    BY <2>1, StepsOf
<1>5. CASE v.status = "DRIFT" /\ v.viol # {}
  BY <1>5, DriftDiverges
<1>6. QED
  BY <1>2, <1>3, <1>4, <1>5 DEF Reasoned

\* When the divergence, or the verdict, was detected.
LEMMA DetectionTold ==
  ASSUME NEW v, Furnished(v), Timed(v), NEW trace, trace = BuildTrace(v)
  PROVE  /\ trace.first = 0 => Detection(v, trace) = EvaluatedAt(v)
         /\ trace.first # 0 =>
              /\ trace.first \in 1 .. 8
              /\ trace.steps[trace.first].status = "DIVERGENCE_DETECTED"
              /\ Detection(v, trace) = IF trace.steps[trace.first].at = NoTime
                                         THEN v.ref ELSE trace.steps[trace.first].at
         /\ (\E i \in 1 .. 8 : trace.steps[i].status = "DIVERGENCE_DETECTED")
              => trace.first # 0
<1>1. PICK steps : steps = Steps(v)
  OBVIOUS
<1>2. trace.steps = steps /\ trace.first = FirstDivergence(steps)
  BY <1>1, TraceFields
<1>3. PICK S : S = StagesWith(steps, "DIVERGENCE_DETECTED")
  OBVIOUS
<1>4. S \in SUBSET (1 .. 8) /\ \A i \in 1 .. 8 : i \in S <=> steps[i].status = "DIVERGENCE_DETECTED"
  BY <1>3, WithStatus
<1>5. FirstDivergence(steps) = IF S = {} THEN 0 ELSE Min(S)
  BY <1>3 DEF FirstDivergence
<1>6. S # {} => Min(S) \in S /\ Min(S) # 0
  BY <1>4, SmallestStage
<1>7. trace.first = 0 <=> S = {}
  BY <1>2, <1>5, <1>6
<1>8. trace.first # 0 => trace.first \in S
  BY <1>2, <1>5, <1>6
<1>9. Detection(v, trace) =
        IF trace.first # 0
          THEN IF steps[trace.first].at = NoTime THEN v.ref ELSE steps[trace.first].at
          ELSE EvaluatedAt(v)
  BY <1>2 DEF Detection, DetectedAt
<1>10. QED
  BY <1>2, <1>4, <1>7, <1>8, <1>9

LEMMA DetectInTime ==
  ASSUME NEW v, Furnished(v), Timed(v), NEW trace, trace = BuildTrace(v), NEW policy
  PROVE  TimeToDetect(v, trace, policy).status # "INVALID"
<1>1. /\ v.createdAt \in Nat /\ v.createdAt # NoTime /\ v.ref \in Nat /\ v.createdAt <= v.ref
      /\ v.evaluatedAt \in Nat /\ (v.status # "NONE" => v.createdAt <= v.evaluatedAt)
  BY DEF Timed, NoTime
<1>2. PICK trigger, end :
        /\ trigger = Either(IF trace.first = 0 THEN NoTime ELSE trace.steps[trace.first].at,
                            Either(v.createdAt, FirstEvent(v)))
        /\ end = Detection(v, trace)
  OBVIOUS
<1>3. Either(v.createdAt, FirstEvent(v)) = v.createdAt
  BY <1>1 DEF Either
<1>4. CASE trace.first = 0
  <2>1. trigger = v.createdAt
    BY <1>2, <1>3, <1>4 DEF Either
  <2>2. end = EvaluatedAt(v)
    BY <1>2, <1>4, DetectionTold
  <2>3. end = NoTime \/ ~(end < trigger)
    BY <1>1, <2>1, <2>2 DEF EvaluatedAt
  <2>4. QED
    BY <1>2, <2>3, InTime, NeverInvalid DEF TimeToDetect
<1>5. CASE trace.first # 0
  <2>1. PICK at : at = trace.steps[trace.first].at
    OBVIOUS
  <2>2. at \in Nat \/ at = NoTime
    BY <1>5, <2>1, DetectionTold, DivergedAt, TraceFields
  <2>3. end = IF at = NoTime THEN v.ref ELSE at
    BY <1>2, <1>5, <2>1, DetectionTold
  <2>4. trigger = IF at = NoTime THEN v.createdAt ELSE at
    BY <1>2, <1>3, <1>5, <2>1 DEF Either
  <2>5. ~(end < trigger)
    BY <1>1, <2>2, <2>3, <2>4
  <2>6. QED
    BY <1>2, <2>5, InTime, NeverInvalid DEF TimeToDetect
<1>6. QED
  BY <1>4, <1>5

LEMMA InterveneInTime ==
  ASSUME NEW v, Furnished(v), Timed(v), Reasoned(v),
         NEW trace, trace = BuildTrace(v), NEW policy
  PROVE  TimeToIntervene(v, trace, policy).status # "INVALID"
<1>1. CASE ~v.record \/ v.recordTo = "RUNNING"
  BY <1>1, NeverInvalid DEF TimeToIntervene
<1>2. CASE v.record /\ v.recordTo # "RUNNING"
  <2>1. trace.first # 0
    BY <1>2, ReasonShown, DetectionTold, TraceFields
  <2>2. PICK at : at = trace.steps[trace.first].at
    OBVIOUS
  <2>3. at \in Nat /\ at <= v.recordAt
    BY <1>2, <2>1, <2>2, DetectionTold, DivergedAt, TraceFields
  <2>4. Detection(v, trace) = at
    BY <2>1, <2>2, <2>3, DetectionTold DEF NoTime
  <2>5. v.recordAt \in Nat
    BY DEF Timed
  <2>6. ~(v.recordAt < Detection(v, trace))
    BY <2>3, <2>4, <2>5
  <2>7. QED
    BY <2>6, <1>2, InTime DEF TimeToIntervene
<1>3. QED
  BY <1>1, <1>2

LEMMA OthersInTime ==
  ASSUME NEW v, Furnished(v), Timed(v), NEW trace, trace = BuildTrace(v), NEW policy
  PROVE  /\ TimeToRevalidate(v, policy).status # "INVALID"
         /\ TimeToFinalDecision(v, policy).status # "INVALID"
         /\ UnknownExposure(v, trace, policy).status # "INVALID"
<1>1. TimeToRevalidate(v, policy).status # "INVALID"
  BY NoEvent, InTime, NeverInvalid DEF TimeToRevalidate
<1>2. TimeToFinalDecision(v, policy).status # "INVALID"
  <2>1. /\ v.createdAt \in Nat /\ v.createdAt # NoTime
        /\ v.evaluatedAt \in Nat /\ (v.status # "NONE" => v.createdAt <= v.evaluatedAt)
        /\ \/ v.completedAt \in Nat /\ v.createdAt <= v.completedAt
           \/ v.completedAt = NoTime
    BY DEF Timed, NoTime
  <2>2. PICK start, end :
          /\ start = Either(v.createdAt, IF v.intent THEN v.issuedAt ELSE FirstEvent(v))
          /\ end = Either(v.completedAt, EvaluatedAt(v))
    OBVIOUS
  <2>3. start = v.createdAt
    BY <2>1, <2>2 DEF Either
  <2>4. end = NoTime \/ ~(end < start)
    BY <2>1, <2>2, <2>3 DEF Either, EvaluatedAt
  <2>5. QED
    BY <2>2, <2>4, InTime DEF TimeToFinalDecision
<1>3. UnknownExposure(v, trace, policy).status # "INVALID"
  <2>1. PICK stages : stages = StagesWith(trace.steps, "UNKNOWN")
    OBVIOUS
  <2>2. /\ stages \in SUBSET (1 .. 8)
        /\ \A i \in 1 .. 8 : i \in stages <=> Steps(v)[i].status = "UNKNOWN"
    BY <2>1, WithStatus, TraceFields
  <2>3. PICK end : end = Either(TimeOf(v, {"resolution"}), v.ref)
    OBVIOUS
  <2>4. end = v.ref
    BY <2>3, NoEvent DEF Either
  <2>5. CASE v.status = "UNKNOWN"
    <3>1. EvaluatedAt(v) = v.evaluatedAt /\ v.evaluatedAt \in Nat /\ v.ref \in Nat
          /\ v.evaluatedAt <= v.ref
      BY <2>5 DEF EvaluatedAt, Timed
    <3>2. ~(end < EvaluatedAt(v))
      BY <2>4, <3>1
    <3>3. QED
      BY <2>3, <2>5, <3>2, InTime DEF UnknownExposure
  <2>6. CASE v.status # "UNKNOWN" /\ stages = {}
    BY <2>1, <2>6, NeverInvalid DEF UnknownExposure
  <2>7. CASE v.status # "UNKNOWN" /\ stages # {}
    <3>1. PICK first : first = Min(stages) /\ first \in stages
      BY <2>2, <2>7, SmallestStage
    <3>2. trace.steps[first].at = NoTime
      BY <2>2, <3>1, UnknownAt, TraceFields
    <3>3. QED
      BY <2>1, <2>3, <2>7, <3>1, <3>2, InTime DEF UnknownExposure
  <2>8. QED
    BY <2>5, <2>6, <2>7
<1>4. QED
  BY <1>1, <1>2, <1>3

\* Every view is in order once the clock has passed the session's stamps.
LEMMA ViewsInOrder ==
  ASSUME TypeOK, Told, Stamped, NEW t \in Txs, cur[t] # 0, facts[cur[t]].moved <= clock
  PROVE  Furnished(View(t)) /\ Timed(View(t)) /\ Reasoned(View(t))
<1>1. PICK v, s, f : v = View(t) /\ s = cur[t] /\ f = facts[s]
  OBVIOUS
<1>2. s \in Sessions
  BY <1>1, CurrentSession
<1>3. /\ f \in FactRecords /\ f.pay \in {0} \cup Payments
      /\ f.createdAt \in Nat /\ f.updatedAt \in Nat /\ f.evaluatedAt \in Nat
      /\ f.verifiedAt \in Nat /\ f.recordAt \in Nat /\ f.moved \in Nat /\ clock \in Nat
      /\ \A p \in Payments : paidAt[p] \in Nat
  BY <1>1, <1>2, FactTypes DEF Stamped
<1>4. f.codes \subseteq CodesKept
  BY <1>3 DEF FactRecords
<1>5. InOrder(s) /\ Explained(s) /\ TellsOf(s)
  BY <1>2 DEF Stamped, Told
<1>6. /\ v.intent = TRUE /\ v.issuedAt = 0 /\ v.context = TRUE /\ v.order = TRUE
      /\ v.orderFaults = {} /\ v.badSignature = FALSE /\ v.codes = f.codes
      /\ v.events = {<<"order", f.createdAt>>}
  BY <1>1 DEF View
<1>7. /\ v.ref = clock /\ v.createdAt = f.createdAt /\ v.evaluatedAt = f.evaluatedAt
      /\ v.verifiedAt = f.verifiedAt /\ v.recordAt = f.recordAt
      /\ v.status = sess[s].status /\ v.completedAt = CompletedAt(s)
      /\ v.record = f.record /\ v.outcome = f.outcome /\ v.payment = (f.pay # 0)
      /\ v.paymentAt = IF f.pay = 0 THEN NoTime ELSE paidAt[f.pay]
  BY <1>1 DEF View
<1>8. /\ v.late = expired /\ v.recordTo = f.recordTo /\ v.viol = sess[s].viol
      /\ v.paymentFaults = IF f.pay = 0 THEN {} ELSE PaymentFaults(s)
  BY <1>1 DEF View
<1>9. Furnished(v)
  BY <1>4, <1>6 DEF Furnished
<1>10. Timed(v)
  <2>1. v.createdAt <= v.ref
    BY <1>1, <1>3, <1>5, <1>7 DEF InOrder
  <2>2. v.status # "NONE" => v.createdAt <= v.evaluatedAt /\ v.evaluatedAt <= v.ref
    BY <1>1, <1>3, <1>5, <1>7 DEF InOrder
  <2>3. \/ v.completedAt \in Nat /\ v.createdAt <= v.completedAt
        \/ v.completedAt = NoTime
    BY <1>1, <1>3, <1>5, <1>7 DEF InOrder, CompletedAt
  <2>4. v.record => v.outcome /\ v.verifiedAt <= v.recordAt
    BY <1>1, <1>5, <1>7 DEF InOrder
  <2>5. v.payment => v.paymentAt \in Nat /\ v.paymentAt <= v.verifiedAt
    BY <1>1, <1>3, <1>5, <1>7 DEF InOrder
  <2>6. QED
    BY <1>3, <1>7, <2>1, <2>2, <2>3, <2>4, <2>5 DEF Timed
<1>11. Reasoned(v)
  <2> SUFFICES ASSUME v.record, v.recordTo # "RUNNING"
               PROVE  \/ v.late
                      \/ v.codes # {}
                      \/ v.payment /\ v.paymentFaults # {}
                      \/ v.status = "DRIFT" /\ v.viol # {}
    BY DEF Reasoned
  <2>1. expired \/ f.codes # {} \/ Overpaid(s) \/ BeyondRecovery(s)
    BY <1>1, <1>5, <1>7, <1>8 DEF Explained
  <2>2. Overpaid(s) => v.payment /\ v.paymentFaults # {}
    BY <1>1, <1>7, <1>8 DEF Overpaid, PaymentFaults
  <2>3. BeyondRecovery(s) => v.status = "DRIFT" /\ v.viol # {}
    BY <1>5, <1>7, <1>8 DEF BeyondRecovery, TellsOf
  <2>4. QED
    BY <1>6, <1>8, <2>1, <2>2, <2>3
<1>12. QED
  BY <1>1, <1>9, <1>10, <1>11

LEMMA ReportOf ==
  ASSUME NEW t, NEW a \in GetReport(t)
  PROVE  /\ cur[t] # 0
         /\ \E timeline : a.report = ComputeReport(View(t), BuildTrace(View(t)), timeline, Policy)
<1>1. PICK c \in GetCheckpoints(t) :
        a = [view |-> c.view, report |-> ComputeReport(c.view, c.trace, c.timeline, Policy)]
  BY DEF GetReport
<1>2. PICK b \in GetTrace(t) :
        c = [view |-> b.view, trace |-> b.trace, timeline |-> Timeline(b.view, b.trace)]
  BY DEF GetCheckpoints
<1>3. cur[t] # 0 /\ b.view = View(t) /\ b.trace = BuildTrace(View(t))
  BY TraceOf
<1>4. c.view = View(t) /\ c.trace = BuildTrace(View(t))
  BY <1>2, <1>3
<1>5. QED
  BY <1>1, <1>3, <1>4

LEMMA MetricsOf ==
  ASSUME NEW v, NEW trace, NEW timeline, NEW policy
  PROVE  LET metrics == ComputeReport(v, trace, timeline, policy).metrics
         IN  /\ DOMAIN metrics = {"detect", "prove", "intervene", "revalidate", "final",
                                  "unknown", "coverage", "valid", "completeness"}
             /\ metrics.detect = TimeToDetect(v, trace, policy)
             /\ metrics.intervene = TimeToIntervene(v, trace, policy)
             /\ metrics.revalidate = TimeToRevalidate(v, policy)
             /\ metrics.final = TimeToFinalDecision(v, policy)
             /\ metrics.unknown = UnknownExposure(v, trace, policy)
             /\ metrics.coverage = CheckpointCoverage(timeline, policy)
             /\ metrics.valid = CheckpointValidRatio(timeline, policy)
             /\ metrics.completeness = TraceCompleteness(trace, policy)
BY DEF ComputeReport

(***************************************************************************)
(* No clock goes back: once the clock has passed the last stamp of a       *)
(* session, no duration of its report but the time to prove is that of a   *)
(* clock anomaly, whatever calls were made, in whatever order.  The kill   *)
(* switch's tolerance is 2 in the code (max_unknown_tolerance of           *)
(* KillSwitchService); with 1, a single UNKNOWN is recorded, nothing       *)
(* diverged, and the report takes the time of the next verdict for that of *)
(* the detection: the time to intervene would be negative.                 *)
(***************************************************************************)
THEOREM NoClockGoesBack ==
  ASSUME MaxUnknown \in Nat, MaxUnknown >= 2
  PROVE  ViewSpec => []NoClockAnomaly
<1>1. ASSUME TypeOK, Told, Stamped, NEW t \in Txs, cur[t] # 0, facts[cur[t]].moved <= clock,
             NEW a \in GetReport(t), NEW m \in DOMAIN a.report.metrics \ {"prove"}
      PROVE  a.report.metrics[m].status # "INVALID"
  <2>1. PICK v, trace : v = View(t) /\ trace = BuildTrace(v)
    OBVIOUS
  <2>2. PICK timeline : a.report = ComputeReport(v, trace, timeline, Policy)
    BY <1>1, <2>1, ReportOf
  <2>3. Furnished(v) /\ Timed(v) /\ Reasoned(v)
    BY <1>1, <2>1, ViewsInOrder
  <2>4. PICK metrics : metrics = ComputeReport(v, trace, timeline, Policy).metrics
    OBVIOUS
  <2>5. m \in {"detect", "intervene", "revalidate", "final", "unknown",
               "coverage", "valid", "completeness"}
    BY <1>1, <2>2, <2>4, MetricsOf
  <2>6. metrics.detect.status # "INVALID"
    BY <2>1, <2>3, <2>4, DetectInTime, MetricsOf
  <2>7. metrics.intervene.status # "INVALID"
    BY <2>1, <2>3, <2>4, InterveneInTime, MetricsOf
  <2>8. /\ metrics.revalidate.status # "INVALID" /\ metrics.final.status # "INVALID"
        /\ metrics.unknown.status # "INVALID"
    BY <2>1, <2>3, <2>4, OthersInTime, MetricsOf
  <2>9. /\ metrics.coverage.status # "INVALID" /\ metrics.valid.status # "INVALID"
        /\ metrics.completeness.status # "INVALID"
    <3>1. /\ CheckpointCoverage(timeline, Policy).status # "INVALID"
          /\ CheckpointValidRatio(timeline, Policy).status # "INVALID"
          /\ TraceCompleteness(trace, Policy).status # "INVALID"
      BY NeverInvalid DEF CheckpointCoverage, CheckpointValidRatio, TraceCompleteness
    <3>2. QED
      BY <2>4, <3>1, MetricsOf
  <2>10. QED
    BY <2>2, <2>4, <2>5, <2>6, <2>7, <2>8, <2>9
<1>2. SessionInv /\ Stamped => NoClockAnomaly
  BY <1>1 DEF SessionInv, NoClockAnomaly
<1>3. QED
  BY <1>2, ViewsStamped, PTL
=============================================================================
