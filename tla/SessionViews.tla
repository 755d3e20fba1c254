---------------------------- MODULE SessionViews ----------------------------
(***************************************************************************)
(* What the read-only services answer about a session while the payment    *)
(* slice works on it: get_integrity_trace, get_integrity_checkpoints and   *)
(* get_integrity_sla_metrics of services/transaction_service.py.  They are *)
(* functions of the session, of the kill switch and of the clock, so they  *)
(* are evaluated in every state.                                           *)
(*                                                                         *)
(* The payment slice is TransactionSlice; this module adds the fields of a *)
(* session the slice has no use for, and time.  Handlers stamp what they   *)
(* do with times they derive from the moment they began: 5 ms are the unit *)
(* here, and every step of a handler is Pause later than the one before,   *)
(* whatever the gateway takes.  One caller at a time: with two, the state  *)
(* machine refuses stamps that go back (TransactionSlice has that race,    *)
(* and the resolution that is refused its transition, ResolveRaise).       *)
(***************************************************************************)
EXTENDS TransactionSlice, Sla

CONSTANTS
  TickLength,  \* time that passes between two calls, when it passes
  MaxClock,    \* bound: ticks of the clock
  Policy       \* the thresholds of the SLA report

ASSUME TimeAssumption == TickLength \in Nat \ {0} /\ MaxClock \in Nat
ASSUME PolicyAssumption ==
  Policy \in [{"detect", "prove", "intervene", "revalidate", "final", "unknown",
               "coverage", "valid", "completeness"} -> Nat]
ASSUME OneCaller == \A w, x \in Threads : w = x

\* timedelta(milliseconds=10).
Pause == 2

VARIABLES
  clock,   \* now
  began,   \* the time stamp the call in progress works with
  paidAt,  \* created_at of the payments
  facts    \* the fields of the sessions that only the views read

viewVars == <<clock, began, paidAt, facts>>
allVars == <<vars, viewVars>>

(***************************************************************************)
(* pay: the payment kept, 0 for none; failed: its status is "failed";      *)
(* codes: the violations of the binding outcome kept; the kill switch      *)
(* record kept; moved: state_machine.updated_at.                           *)
(***************************************************************************)
NoFacts ==
  [pay |-> 0, failed |-> FALSE, outcome |-> FALSE, codes |-> {}, record |-> FALSE,
   trigger |-> "NONE", recordTo |-> "RUNNING", recordAt |-> 0, createdAt |-> 0,
   updatedAt |-> 0, evaluatedAt |-> 0, verifiedAt |-> 0, moved |-> 0]

Later(a, b) == IF a > b THEN a ELSE b

-----------------------------------------------------------------------------
(***************************************************************************)
(* The handlers, with what they stamp.                                     *)
(***************************************************************************)

ViewCreateBegin(w, t) ==
  /\ CreateBegin(w, t)
  /\ began' = clock
  /\ UNCHANGED <<clock, paidAt, facts>>

ViewCreateOrder(w) ==
  /\ CreateOrder(w)
  /\ \E s \in Sessions :
       /\ IsNext(s)
       /\ facts' = [facts EXCEPT ![s] = [NoFacts EXCEPT !.createdAt = began,
                                           !.updatedAt = began, !.moved = began + Pause]]
  /\ UNCHANGED <<clock, began, paidAt>>

ViewCreateFail(w) == CreateFail(w) /\ UNCHANGED viewVars

ViewCompleteBegin(w, t, p) ==
  /\ CompleteBegin(w, t, p)
  /\ began' = clock
  /\ facts' = [facts EXCEPT ![cur[t]].moved = IF clock < @ THEN @ + Pause ELSE clock]
  /\ UNCHANGED <<clock, paidAt>>

\* No payment was found, and none is kept.
ViewCompleteUnresolved(w) ==
  LET s == th[w].s
      verified == facts[s].moved + Pause
  IN  /\ CompleteUnresolved(w)
      /\ facts' = [facts EXCEPT ![s].evaluatedAt = verified, ![s].moved = verified + Pause]
      /\ UNCHANGED <<clock, began, paidAt>>

\* The violations of the binding, which a payment another transaction has
\* consumed cuts short.
BindingCodes(t, s, p) ==
  IF payTx[p] \notin {NoTx, t} THEN {"CROSS_TRANSACTION_REUSE"}
  ELSE (IF bound[t] = s /\ gw[p].order = bound[t] THEN {} ELSE {"ORDER_MISMATCH"})
         \cup (IF consumed[t] THEN {"DUPLICATE_ATTEMPT_REUSED"} ELSE {})

\* What the session keeps of the payment that was fetched.
PaymentKept(f, p, failed, codes, at) ==
  [f EXCEPT !.pay = p, !.failed = failed, !.outcome = TRUE, !.codes = codes,
            !.verifiedAt = at, !.moved = at]

\* A payment that is not captured may be one that failed.
ViewCompleteObserve(w) ==
  LET s == th[w].s
      p == th[w].pay
  IN  /\ CompleteObserve(w)
      /\ \E failed \in (IF gw[p].captured THEN {FALSE} ELSE BOOLEAN) :
           facts' = [facts EXCEPT ![s] =
                       PaymentKept(facts[s], p, failed, BindingCodes(th[w].tx, s, p),
                                   facts[s].moved + Pause)]
      /\ UNCHANGED <<clock, began, paidAt>>

\* Mutant: the intervention is stamped with the moment the call began.
RecordTimeOfCall(s) == began

\* The kill switch is told the time of the verdict.
RecordTime(s) == facts[s].moved + Pause

\* What it keeps of the verdict, and of what the kill switch answered.
VerdictKeptAt(f, finding, at) ==
  [f EXCEPT !.evaluatedAt = f.moved, !.moved = f.moved + Pause,
            !.record = finding # NoFinding, !.trigger = finding.trigger,
            !.recordTo = finding.to, !.recordAt = at]

ViewCompleteEnforce(w) ==
  LET t == th[w].tx
      s == th[w].s
      status == BoundVerdict(th[w].verdict, th[w].valid).status
      finding == EnforcedFinding(th[w].late, th[w].valid, status, unknowns'[t], MaxUnknown)
  IN  /\ CompleteEnforce(w)
      /\ facts' = [facts EXCEPT ![s] = VerdictKeptAt(facts[s], finding, RecordTime(s))]
      /\ UNCHANGED <<clock, began, paidAt>>

\* recover_transaction moves its time stamp past the last transition.
RecoverTime(s) == IF clock <= facts[s].moved THEN facts[s].moved + Pause ELSE clock

ViewRecoverAbstain(w, t) ==
  /\ RecoverAbstain(w, t)
  /\ facts' = [facts EXCEPT ![cur[t]].moved = RecoverTime(cur[t])]
  /\ UNCHANGED <<clock, began, paidAt>>

ViewRecoverBegin(w, t) ==
  LET s == cur[t]
  IN  /\ RecoverBegin(w, t)
      /\ began' = RecoverTime(s)
      /\ facts' = [facts EXCEPT ![s].moved =
                     IF sess[s].sm \in {"DRIFT", "UNKNOWN"} THEN RecoverTime(s) + 1 ELSE @]
      /\ UNCHANGED <<clock, paidAt>>

\* The executor looks its key up, counts and records, or raises.
ViewRecoverExecute(w) ==
  /\ Execute(w) \/ RecoverRaise(w)
  /\ UNCHANGED viewVars

\* The session moved, if it could.
ViewRecoverEnter(w) ==
  LET s == th[w].s
  IN  /\ RecoverEnter(w)
      /\ facts' = [facts EXCEPT ![s].moved =
                     IF sess'[s].sm = "REVALIDATING" THEN began + 1 + Pause ELSE @]
      /\ UNCHANGED <<clock, began, paidAt>>

ViewRecoverFinish(w) ==
  LET s == th[w].s
  IN  /\ RecoverFinish(w)
      /\ facts' = [facts EXCEPT ![s].evaluatedAt = facts[s].moved, ![s].moved = @ + Pause]
      /\ UNCHANGED <<clock, began, paidAt>>

ResolveTime(s) == Later(clock, facts[s].moved + Pause)

ViewResolveExhausted(w, t) ==
  /\ ResolveExhausted(w, t)
  /\ facts' = [facts EXCEPT ![cur[t]].moved = ResolveTime(cur[t])]
  /\ UNCHANGED <<clock, began, paidAt>>

ViewResolveBegin(w, t) ==
  LET s == cur[t]
  IN  /\ ResolveBegin(w, t)
      /\ began' = ResolveTime(s)
      /\ facts' = [facts EXCEPT ![s].moved =
                     IF sess[s].sm = "UNKNOWN" THEN ResolveTime(s) ELSE @]
      /\ UNCHANGED <<clock, paidAt>>

\* Resolution alone says when it updated the session; it keeps no payment.
ViewResolveFinish(w) ==
  LET s == th[w].s
      final == Later(began, facts[s].moved + Pause) + Pause
  IN  /\ ResolveFinish(w)
      /\ facts' = [facts EXCEPT ![s].evaluatedAt = began, ![s].moved = final,
                                ![s].updatedAt = final]
      /\ UNCHANGED <<clock, began, paidAt>>

ViewPay(p) ==
  /\ Pay(p)
  /\ paidAt' = [paidAt EXCEPT ![p] = clock]
  /\ UNCHANGED <<clock, began, facts>>

\* No time passes during a call: a payment that a call waits for was made
\* before the call, only the gateway does not report it yet.
Tick ==
  /\ \A w \in Threads : IsIdle(w)
  /\ clock < MaxClock * TickLength
  /\ clock' = clock + TickLength
  /\ UNCHANGED <<vars, began, paidAt, facts>>

-----------------------------------------------------------------------------
ViewInit ==
  /\ Init
  /\ clock = 0
  /\ began = 0
  /\ paidAt = [p \in Payments |-> 0]
  /\ facts = [s \in Sessions |-> NoFacts]

ViewContinue(w) ==
  \/ ViewCreateOrder(w) \/ ViewCreateFail(w)
  \/ ViewCompleteUnresolved(w) \/ ViewCompleteObserve(w) \/ ViewCompleteEnforce(w)
  \/ ViewRecoverExecute(w) \/ ViewRecoverEnter(w) \/ ViewRecoverFinish(w)
  \/ ViewResolveFinish(w)

ViewCall(w, t) ==
  \/ ViewCreateBegin(w, t)
  \/ \E p \in Payments : ViewCompleteBegin(w, t, p)
  \/ ViewRecoverBegin(w, t) \/ ViewRecoverAbstain(w, t)
  \/ ViewResolveBegin(w, t) \/ ViewResolveExhausted(w, t)

ViewEnvironment ==
  \/ \E p \in Payments : ViewPay(p)
  \/ Tick
  \/ (Expire \/ \E t \in Txs : Kill(t) \/ Resume(t)) /\ UNCHANGED viewVars

ViewNext ==
  \/ \E w \in Threads : ViewContinue(w) \/ \E t \in Txs : ViewCall(w, t)
  \/ ViewEnvironment

ViewSpec == ViewInit /\ [][ViewNext]_allVars

-----------------------------------------------------------------------------
(***************************************************************************)
(* The views.                                                              *)
(***************************************************************************)

\* The comparison of the payment kept with the contract.
PaymentFaults(s) ==
  (IF gw[facts[s].pay].amount > MaxTotal THEN {"PAYMENT_AMOUNT_EXCEEDED"} ELSE {})
    \cup (IF facts[s].failed THEN {"PAYMENT_FAILED"} ELSE {})

\* A proof goes with a verdict other than PASS; an ABSTAIN keeps it.
HasProof(s) == sess[s].resp # "NONE" /\ sess[s].status \in {"DRIFT", "UNKNOWN"}

\* "If transaction completed, use session.updated_at".
CompletedAt(s) == IF sess[s].resp = "NONE" THEN NoTime ELSE facts[s].updatedAt

(***************************************************************************)
(* What build_trace_from_session and get_sla_report_for_session read off   *)
(* the session of t.  The order was made to measure, and no event of a     *)
(* session is of a kind that the report looks for.                         *)
(***************************************************************************)
View(t) ==
  LET s == cur[t]
      f == facts[s]
  IN  [intent |-> TRUE, late |-> expired, ceiling |-> MaxTotal, issuedAt |-> 0,
       context |-> TRUE, contextAt |-> f.createdAt,
       order |-> TRUE, orderFaults |-> {}, orderAt |-> f.createdAt,
       payment |-> f.pay # 0,
       paymentFaults |-> IF f.pay = 0 THEN {} ELSE PaymentFaults(s),
       paymentAt |-> IF f.pay = 0 THEN NoTime ELSE paidAt[f.pay],
       outcome |-> f.outcome, codes |-> f.codes, verifiedAt |-> f.verifiedAt,
       status |-> sess[s].status, viol |-> sess[s].viol, evaluatedAt |-> f.evaluatedAt,
       ks |-> ks[t], record |-> f.record, trigger |-> f.trigger,
       recordTo |-> f.recordTo, recordAt |-> f.recordAt,
       state |-> sess[s].sm, mrdp |-> HasProof(s), mrdpAt |-> f.evaluatedAt + Pause,
       badSignature |-> FALSE, ref |-> clock,
       createdAt |-> f.createdAt, completedAt |-> CompletedAt(s),
       events |-> {<<"order", f.createdAt>>}]

(***************************************************************************)
(* The answers about t: the trace, the timeline and the report of its      *)
(* view; there is none before the transaction exists.  (Bound variables,   *)
(* so that TLC computes each part once.)                                   *)
(***************************************************************************)
Views(t) == IF cur[t] = 0 THEN {} ELSE {View(t)}

GetTrace(t) == {[view |-> v, trace |-> BuildTrace(v)] : v \in Views(t)}

GetCheckpoints(t) ==
  {[view |-> a.view, trace |-> a.trace, timeline |-> Timeline(a.view, a.trace)] :
     a \in GetTrace(t)}

GetReport(t) ==
  {[view |-> a.view, report |-> ComputeReport(a.view, a.trace, a.timeline, Policy)] :
     a \in GetCheckpoints(t)}

-----------------------------------------------------------------------------
(***************************************************************************)
(* Properties.                                                             *)
(***************************************************************************)

(***************************************************************************)
(* A DRIFT is located: however the verdict came about (completion, a       *)
(* recovery that did not help, a resolution that found an overcharge), the *)
(* trace names a stage that diverged and at least one fault there.         *)
(***************************************************************************)
DriftIsLocated ==
  \A t \in Txs : cur[t] # 0 /\ sess[cur[t]].status = "DRIFT" =>
    \A a \in GetTrace(t) :
      a.trace.first # 0 /\ \E fault \in a.trace.faults : fault[1] = a.trace.first

(***************************************************************************)
(* The trace confirms the completion only of a transaction in PASS: no     *)
(* other state of the lifecycle (a recovery under way, an ABSTAIN, a call  *)
(* that raised half way) falls through to the last line of                 *)
(* _evaluate_completion_stage, which confirms it.                          *)
(***************************************************************************)
CompletionMeansPass ==
  \A t \in Txs : cur[t] # 0 /\ sess[cur[t]].sm # "PASS" =>
    \A a \in GetTrace(t) : a.trace.steps[8].status # "CONFIRMED_VALID"

(***************************************************************************)
(* "Highest sequence VALID checkpoint before divergence/unknown": all the  *)
(* checkpoints up to the last valid one are VALID, in every session.       *)
(***************************************************************************)
LastValidTrusted ==
  \A t \in Txs : \A a \in GetCheckpoints(t) :
    \A i \in 1 .. a.timeline.lastValid : a.timeline.status[i] = "VALID"

(***************************************************************************)
(* Once the clock has passed the last stamp of a session (the handlers     *)
(* stamp ahead of it), no stamp makes the report speak of a clock anomaly, *)
(* whatever the order of the calls.  The time to prove is left out: the    *)
(* report measures it to `updated_at`, which is the time of creation       *)
(* unless the session was resolved.                                        *)
(***************************************************************************)
NoClockAnomaly ==
  \A t \in Txs : cur[t] # 0 /\ facts[cur[t]].moved <= clock =>
    \A a \in GetReport(t) : \A m \in DOMAIN a.report.metrics \ {"prove"} :
      a.report.metrics[m].status # "INVALID"
=============================================================================
