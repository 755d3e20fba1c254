-------------------------- MODULE TransactionSlice --------------------------
(***************************************************************************)
(* The payment slice (services/transaction_service.py) with the services   *)
(* it composes: transaction binding, recovery executor, unknown observer   *)
(* and the execution gate of the kill switch, over an external payment     *)
(* gateway.                                                                *)
(*                                                                         *)
(* create, complete, recover and resolve are synchronous handlers that a   *)
(* pool of threads runs over shared dictionaries without a lock.  Each is  *)
(* cut where another thread can matter: at the calls to the gateway, where *)
(* the recovery executor reads or writes its dictionaries, and between the *)
(* check of the payment binding and its consumption.  th[w] says where     *)
(* thread w is and what it holds in local variables, among them `late`,    *)
(* whether the intent had expired when the call began: every later step of *)
(* the call uses that moment.  A call that returns early or raises without *)
(* changing state is not a step.                                           *)
(*                                                                         *)
(* A session is the TransactionSession object of one creation, and the     *)
(* order created for it has the same number: a second creation of the      *)
(* same transaction replaces the session and leaves the old object to the  *)
(* threads that hold it.                                                   *)
(***************************************************************************)
EXTENDS Integrity, LifecycleGraph, KillSwitchPolicy

CONSTANTS
  Txs,          \* transactions, one per intent
  Threads,      \* worker threads of the HTTP server
  Keys,         \* idempotency keys clients supply
  NoTx,         \* no transaction
  MaxSessions,  \* bound: creations that reach the gateway
  MaxPayments,  \* bound: payments made at the gateway
  Charges,      \* what a payment can be: amount, captured, items named
  RefundAmounts,\* amounts a client can ask back; 0 is "no amount given"
  MaxTotal,     \* the contract's ceiling
  MaxRecovery,  \* MAX_RECOVERY_ATTEMPTS
  MaxResolution,\* MAX_RESOLUTION_ATTEMPTS
  MaxUnknown,   \* max_unknown_tolerance of the kill switch
  Events        \* bound: which of "expiry", "operator" happen

ASSUME BoundsAssumption ==
  /\ MaxSessions \in Nat /\ MaxPayments \in Nat
  /\ MaxTotal \in Nat /\ MaxRecovery \in Nat /\ MaxResolution \in Nat
ASSUME RefundAssumption == RefundAmounts \subseteq Nat
ASSUME ChargesAssumption ==
  Charges \subseteq [amount : Nat, captured : BOOLEAN,
                     items : {"authorized", "diverging", "unstated"}]
ASSUME NoTxAssumption == NoTx \notin Txs
ASSUME ThreadsAssumption == IsFiniteSet(Threads)

Sessions == 1 .. MaxSessions
Payments == 1 .. MaxPayments

VARIABLES
  cur,       \* _sessions / _intent_to_tx: the current session, 0 before creation
  sess,      \* the session objects
  ks,        \* _states of the kill switch
  unknowns,  \* _unknown_counts of the kill switch
  bound,     \* _contexts of the binding service: the order bound, 0 if none
  consumed,  \* _consumed_attempts: the transaction's attempt was consumed
  payTx,     \* _payment_to_tx
  gw,        \* payments at the gateway
  done,      \* _idempotency_records of the recovery executor
  execAtt,   \* _attempt_counts of the recovery executor
  obsAtt,    \* _attempt_counts of the unknown observer
  expired,   \* the clock is past expires_at
  th         \* threads

binding == <<bound, consumed, payTx>>
gate == <<ks, unknowns>>
counters == <<done, execAtt, obsAtt>>
env == <<gw, expired>>
vars == <<cur, sess, gate, binding, counters, env, th>>

-----------------------------------------------------------------------------
(***************************************************************************)
(* Sessions.                                                               *)
(***************************************************************************)

EvidenceKinds == {"authorized", "diverging"}

\* An EvidenceBundle: observed amounts, executed items, refunds on record.
NoEvidence == [amounts |-> {}, items |-> {}, refunds |-> {}]

NoSession ==
  [owner |-> NoTx, sm |-> "ABSENT", status |-> "NONE", viol |-> {},
   bundle |-> NoEvidence, events |-> {}, repeated |-> FALSE,
   late |-> FALSE, ratt |-> 0, satt |-> 0, resp |-> "NONE", disc |-> 0,
   calls |-> {}]

\* The session of a fresh order; `late` says the intent had already expired.
NewSession(t, late) ==
  [NoSession EXCEPT !.owner = t, !.sm = "EXECUTING", !.late = late]

Used(s) == sess[s].sm # "ABSENT"

\* The orders come one after the other.
IsNext(s) == ~Used(s) /\ \A r \in Sessions : r < s => Used(r)

Move(s, to) == CanTransition(sess[s].sm, to)

-----------------------------------------------------------------------------
(***************************************************************************)
(* Evidence, events and verdicts.                                          *)
(***************************************************************************)

NoPayment == [order |-> 0, amount |-> 0, captured |-> FALSE,
              items |-> "unstated", late |-> FALSE]

Paid(p) == gw[p].order # 0

\* Everything the gateway reports has the AUTHORITATIVE rank.
Authoritative(values) == {[rank |-> 5, at |-> 0, value |-> v] : v \in values}

\* The contract allows one successful capture.
Verdict(bundle, events, repeated) ==
  Evaluate(Authoritative(bundle.amounts), Authoritative(bundle.items),
           events, repeated, MaxTotal, 1)

Event(id, kind, late) == [id |-> id, kind |-> kind, late |-> late]

OrderEvent(s) == Event(<<"order", s, 0>>, "order", sess[s].late)

PaymentEvent(prefix, p) ==
  Event(<<prefix, p, 0>>, IF gw[p].captured THEN "capture" ELSE "payment", gw[p].late)

\* Its id tells the executions of one key apart.
RecoveryEvent(d) == Event(<<d.key, d.by>>, d.type, FALSE)

\* The evidence complete_transaction reads off a payment: one whose notes do
\* not name the item leaves the items unknown.
ObservedAtCompletion(p) ==
  [amounts |-> {gw[p].amount},
   items |-> {gw[p].items} \ {"unstated"},
   refunds |-> {}]

\* The observer, instead, then takes the item from the contract.
ObservedAtResolution(p) ==
  [amounts |-> {gw[p].amount},
   items |-> {IF gw[p].items = "unstated" THEN "authorized" ELSE gw[p].items},
   refunds |-> {}]

\* The evidence a recovery action leaves; only a refund leaves some.
RecoveryEvidence(d) ==
  [amounts |-> {}, items |-> {},
   refunds |-> IF d.type = "REFUND" THEN {d.amt} ELSE {}]

\* Mutant: of the refunds only those newly observed are kept.
MergeNewRefunds(a, b) ==
  [amounts |-> a.amounts \cup b.amounts,
   items |-> a.items \cup b.items,
   refunds |-> b.refunds]

Merge(a, b) ==
  [amounts |-> a.amounts \cup b.amounts,
   items |-> a.items \cup b.items,
   refunds |-> a.refunds \cup b.refunds]

\* Mutant: the ceiling less the amount.
OverchargesReversed(bundle) == {MaxTotal - a : a \in {b \in bundle.amounts : b > MaxTotal}}

Overcharges(bundle) == {a - MaxTotal : a \in {b \in bundle.amounts : b > MaxTotal}}

(***************************************************************************)
(* build_mrdp: the discrepancy amount of the proof a verdict is answered   *)
(* with, computed from the amount on record and not from the net of        *)
(* earlier refunds; 0 when the proof states none.                          *)
(***************************************************************************)
Discrepancy(status, viol, bundle) ==
  IF status = "DRIFT" /\ "OVERCHARGE" \in viol /\ Overcharges(bundle) # {}
    THEN CHOOSE d \in Overcharges(bundle) : TRUE
    ELSE 0

\* apply_integrity_result, the proof and the response: the session after a
\* verdict on the evidence it holds.
Answered(session, verdict) ==
  [session EXCEPT !.sm = verdict.status, !.status = verdict.status,
                  !.viol = verdict.viol, !.resp = verdict.status,
                  !.disc = Discrepancy(verdict.status, verdict.viol, session.bundle)]

-----------------------------------------------------------------------------
(***************************************************************************)
(* Threads.                                                                *)
(***************************************************************************)

Idle == [pc |-> "idle"]
IsIdle(w) == th[w] = Idle
At(w, pc) == th[w].pc = pc

Goto(w, local) == th' = [th EXCEPT ![w] = local]
Return(w) == Goto(w, Idle)

-----------------------------------------------------------------------------
(***************************************************************************)
(* create_transaction.  An intent already known is answered from its       *)
(* session.  Otherwise the kill switch registers the transaction, and      *)
(* with it forgets what it held against it; then the order is created.     *)
(***************************************************************************)

\* Mutant: no intent-level duplicate defense.
CreateBeginAlways(w, t) ==
  /\ IsIdle(w)
  /\ ks' = [ks EXCEPT ![t] = "RUNNING"]
  /\ unknowns' = [unknowns EXCEPT ![t] = 0]
  /\ Goto(w, [pc |-> "order", tx |-> t, late |-> expired])
  /\ UNCHANGED <<cur, sess, binding, counters, env>>

CreateBegin(w, t) ==
  /\ IsIdle(w)
  /\ cur[t] = 0
  /\ ks' = [ks EXCEPT ![t] = "RUNNING"]
  /\ unknowns' = [unknowns EXCEPT ![t] = 0]
  /\ Goto(w, [pc |-> "order", tx |-> t, late |-> expired])
  /\ UNCHANGED <<cur, sess, binding, counters, env>>

\* The order exists: the binding is registered and the session stored.
CreateOrder(w) ==
  LET t == th[w].tx
  IN  /\ At(w, "order")
      /\ \E s \in Sessions :
           /\ IsNext(s)
           /\ sess' = [sess EXCEPT ![s] = NewSession(t, th[w].late)]
           /\ cur' = [cur EXCEPT ![t] = s]
           /\ bound' = [bound EXCEPT ![t] = s]
      /\ consumed' = [consumed EXCEPT ![t] = FALSE]
      /\ Return(w)
      /\ UNCHANGED <<gate, payTx, counters, env>>

\* The gateway refused: the exception leaves the registration behind.
CreateFail(w) ==
  /\ At(w, "order")
  /\ Return(w)
  /\ UNCHANGED <<cur, sess, gate, binding, counters, env>>

-----------------------------------------------------------------------------
(***************************************************************************)
(* complete_transaction.  The signature is checked by the gateway's        *)
(* adapter; any payment may come with a signature for the order.           *)
(***************************************************************************)

CompleteBegin(w, t, p) ==
  LET s == cur[t]
  IN  /\ IsIdle(w)
      /\ s # 0
      /\ ks[t] = "RUNNING"
      /\ sess[s].resp = "NONE"
      /\ Move(s, "OBSERVING")
      /\ sess' = [sess EXCEPT ![s].sm = "OBSERVING"]
      /\ Goto(w, [pc |-> "observe", tx |-> t, s |-> s, pay |-> p, late |-> expired])
      /\ UNCHANGED <<cur, gate, binding, counters, env>>

\* Polling found nothing, or the gateway kept timing out: UNKNOWN, answered
\* without binding verification and without the kill switch.
CompleteUnresolved(w) ==
  LET s == th[w].s
  IN  /\ At(w, "observe")
      /\ sess' = [sess EXCEPT ![s].sm = "UNKNOWN", ![s].status = "UNKNOWN",
                              ![s].resp = "UNKNOWN"]
      /\ Return(w)
      /\ UNCHANGED <<cur, gate, binding, counters, env>>

\* Mutant: the gateway's own order is not compared with the bound one.
BindingValidByClaim(t, s, p) ==
  /\ payTx[p] \in {NoTx, t}
  /\ bound[t] = s
  /\ ~consumed[t]

(***************************************************************************)
(* verify_transaction_binding: the payment is not another transaction's,   *)
(* the session's order is the one bound, the attempt is not consumed, and  *)
(* the gateway's payment is for the bound order.                           *)
(***************************************************************************)
BindingValid(t, s, p) ==
  /\ payTx[p] \in {NoTx, t}
  /\ bound[t] = s
  /\ ~consumed[t]
  /\ gw[p].order = bound[t]

\* The payment was fetched: evidence and events are stored, the verdict is
\* computed and the binding verified against what is registered now.
CompleteObserve(w) ==
  LET s == th[w].s
      p == th[w].pay
      bundle == ObservedAtCompletion(p)
      events == {OrderEvent(s), PaymentEvent("pay", p)}
  IN  /\ At(w, "observe")
      /\ Paid(p)
      /\ sess' = [sess EXCEPT ![s].sm = "VERIFYING", ![s].bundle = bundle,
                              ![s].events = events]
      /\ Goto(w, [pc |-> "enforce", tx |-> th[w].tx, s |-> s, pay |-> p,
                  late |-> th[w].late,
                  valid |-> BindingValid(th[w].tx, s, p),
                  verdict |-> Verdict(bundle, events, FALSE)])
      /\ UNCHANGED <<cur, gate, binding, counters, env>>

\* A failed binding makes the result DRIFT whatever the evidence says.
BoundVerdict(verdict, valid) ==
  IF valid THEN verdict
           ELSE [status |-> "DRIFT", viol |-> verdict.viol \cup {"BINDING"}]

Enforced(t, late, status, valid) ==
  LET counted == unknowns[t] + (IF CountsUnknown(late, valid, status) THEN 1 ELSE 0)
      finding == EnforcedFinding(late, valid, status, counted, MaxUnknown)
  IN  /\ unknowns' = [unknowns EXCEPT ![t] = counted]
      /\ ks' = [ks EXCEPT ![t] = IF finding = NoFinding THEN @ ELSE finding.to]

(***************************************************************************)
(* A verified captured payment consumes the attempt.  consume_attempt      *)
(* raises for a payment another transaction consumed since the binding was *)
(* verified, which would leave the session in VERIFYING; ConsumeNeverRaises*)
(* says that this does not happen.                                         *)
(***************************************************************************)
CompleteEnforce(w) ==
  LET t == th[w].tx
      s == th[w].s
      p == th[w].pay
      verdict == BoundVerdict(th[w].verdict, th[w].valid)
      consumes == th[w].valid /\ gw[p].captured
  IN  /\ At(w, "enforce")
      /\ consumes => payTx[p] \in {NoTx, t}
      /\ payTx' = [payTx EXCEPT ![p] = IF consumes THEN t ELSE @]
      /\ consumed' = [consumed EXCEPT ![t] = @ \/ consumes]
      /\ sess' = [sess EXCEPT ![s] = Answered(@, verdict)]
      /\ Enforced(t, th[w].late, verdict.status, th[w].valid)
      /\ Return(w)
      /\ UNCHANGED <<cur, bound, counters, env>>

-----------------------------------------------------------------------------
(***************************************************************************)
(* recover_transaction.  An action request names an action, an amount and  *)
(* an idempotency key; VOID stands with CANCEL, HOLD with NOTIFY, and      *)
(* CAPTURE for every request the validator never admits.                   *)
(***************************************************************************)

ActionTypes == {"REFUND", "NOTIFY", "CANCEL", "CAPTURE"}
Request(type, amt, key) == [type |-> type, amt |-> amt, key |-> key]

\* Mutant: a recovery being revalidated can be started over.
RecoveryStatesWide == {"DRIFT", "UNKNOWN", "RESOLVING", "RECOVERING", "REVALIDATING"}

\* The states recover_transaction proceeds from.
RecoveryStates == {"DRIFT", "UNKNOWN", "RESOLVING", "RECOVERING"}

\* Mutant: the last attempt of the budget is made.
RecoverableToTheEnd(s) ==
  /\ sess[s].ratt < MaxRecovery
  /\ ~expired
  /\ \/ /\ sess[s].status = "UNKNOWN"
        /\ "CONFLICT" \notin sess[s].viol
     \/ /\ sess[s].status = "DRIFT"
        /\ "OVERCHARGE" \in sess[s].viol
        /\ sess[s].disc > 0

(***************************************************************************)
(* classify_recovery, for the attempt that would be the next one: the last *)
(* attempt of the budget already abstains.  An overcharge whose            *)
(* discrepancy the proof states is recoverable by a refund; an UNKNOWN     *)
(* without conflict by looking again.                                      *)
(***************************************************************************)
Recoverable(s) ==
  /\ sess[s].ratt + 1 < MaxRecovery
  /\ ~expired
  /\ \/ /\ sess[s].status = "UNKNOWN"
        /\ "CONFLICT" \notin sess[s].viol
     \/ /\ sess[s].status = "DRIFT"
        /\ "OVERCHARGE" \in sess[s].viol
        /\ sess[s].disc > 0

\* The request the service makes up when the client sends none.
Synthesized(t, s) ==
  IF sess[s].status = "DRIFT"
    THEN Request("REFUND", sess[s].disc, <<"rec", t, sess[s].ratt + 1>>)
    ELSE Request("NOTIFY", 0, <<"obs", t, sess[s].ratt + 1>>)

ClientRequests ==
  [type : {"REFUND"}, amt : RefundAmounts, key : {<<"client", k, 0>> : k \in Keys}]
    \cup [type : {"NOTIFY", "CANCEL", "CAPTURE"}, amt : {0},
          key : {<<"client", k, 0>> : k \in Keys}]

(***************************************************************************)
(* validate_action_request: a stated amount stays within the contract's    *)
(* ceiling and, for a refund, within the discrepancy if the proof has one. *)
(***************************************************************************)
ActionValid(request, disc) ==
  /\ request.type # "CAPTURE"
  /\ request.amt <= MaxTotal
  /\ request.type = "REFUND" /\ disc > 0 => request.amt <= disc

\* Nothing can be recovered, or the request is unsafe: ABSTAIN.
RecoverAbstain(w, t) ==
  LET s == cur[t]
  IN  /\ IsIdle(w)
      /\ s # 0
      /\ sess[s].sm \in RecoveryStates
      /\ \/ ~Recoverable(s)
         \/ \E request \in ClientRequests : ~ActionValid(request, sess[s].disc)
      /\ sess' = [sess EXCEPT ![s].sm = "ABSTAIN", ![s].resp = "ABSTAIN"]
      /\ UNCHANGED <<cur, gate, binding, counters, env, th>>

\* A session another call left in RESOLVING or RECOVERING does not move.
Engaged(state) ==
  IF state = "DRIFT" THEN "RECOVERING"
  ELSE IF state = "UNKNOWN" THEN "RESOLVING" ELSE state

RecoverBegin(w, t) ==
  LET s == cur[t]
  IN  /\ IsIdle(w)
      /\ s # 0
      /\ sess[s].sm \in RecoveryStates
      /\ Recoverable(s)
      /\ \E request \in ClientRequests \cup {Synthesized(t, s)} :
           /\ ActionValid(request, sess[s].disc)
           /\ Goto(w, [pc |-> "execute", tx |-> t, s |-> s, req |-> request])
      /\ sess' = [sess EXCEPT ![s].sm = Engaged(@),
                              ![s].calls = @ \cup {w}]
      /\ UNCHANGED <<cur, gate, binding, counters, env>>

-----------------------------------------------------------------------------
(***************************************************************************)
(* RecoveryExecutor.execute.  It looks the key up, reads the count of the  *)
(* intent and validates the request, writes the count back, and records    *)
(* the execution, over an earlier one of the same key: four steps, between *)
(* which other threads run.                                                *)
(***************************************************************************)
Execution(w) ==
  [key |-> th[w].req.key, tx |-> th[w].tx, type |-> th[w].req.type,
   amt |-> th[w].req.amt, by |-> w]

Recorded(key) == {d \in done : d.key = key}

\* The thread goes on in the executor.
Proceed(w, pc) == Goto(w, [th[w] EXCEPT !.pc = pc])

\* The key is known: its execution is answered, by whomever it was.
RecoverReplay(w) ==
  /\ At(w, "execute")
  /\ \E d \in Recorded(th[w].req.key) :
       Goto(w, [pc |-> "executed", tx |-> th[w].tx, s |-> th[w].s, exec |-> d])
  /\ UNCHANGED <<cur, sess, gate, binding, counters, env>>

\* A new key is executed in a legal state, the one the session was in when
\* the executor was called.
RecoverLookup(w) ==
  /\ At(w, "execute")
  /\ Recorded(th[w].req.key) = {}
  /\ sess[th[w].s].sm \in RecoveryStates
  /\ Proceed(w, "budget")
  /\ UNCHANGED <<cur, sess, gate, binding, counters, env>>

\* The attempts of the intent are within its budget.
RecoverAttempt(w) ==
  /\ At(w, "budget")
  /\ execAtt[th[w].tx] < MaxRecovery
  /\ Goto(w, [pc |-> "count", tx |-> th[w].tx, s |-> th[w].s, req |-> th[w].req,
              attempts |-> execAtt[th[w].tx]])
  /\ UNCHANGED <<cur, sess, gate, binding, counters, env>>

\* One more than was read.
RecoverCount(w) ==
  /\ At(w, "count")
  /\ execAtt' = [execAtt EXCEPT ![th[w].tx] = th[w].attempts + 1]
  /\ Goto(w, [pc |-> "record", tx |-> th[w].tx, s |-> th[w].s, req |-> th[w].req])
  /\ UNCHANGED <<cur, sess, gate, binding, done, obsAtt, env>>

RecoverRecord(w) ==
  /\ At(w, "record")
  /\ done' = (done \ Recorded(th[w].req.key)) \cup {Execution(w)}
  /\ Goto(w, [pc |-> "executed", tx |-> th[w].tx, s |-> th[w].s, exec |-> Execution(w)])
  /\ UNCHANGED <<cur, sess, gate, binding, execAtt, obsAtt, env>>

\* The executor raises; the session stays where it is.
RecoverRaise(w) ==
  /\ \/ /\ At(w, "execute")
        /\ Recorded(th[w].req.key) = {}
        /\ sess[th[w].s].sm \notin RecoveryStates
     \/ /\ At(w, "budget")
        /\ execAtt[th[w].tx] >= MaxRecovery
  /\ sess' = [sess EXCEPT ![th[w].s].calls = @ \ {w}]
  /\ Return(w)
  /\ UNCHANGED <<cur, gate, binding, counters, env>>

-----------------------------------------------------------------------------
(* recover_transaction goes on. *)

\* Mutant: the transition to REVALIDATING is not validated.
RecoverEnterUnchecked(w) ==
  LET s == th[w].s
  IN  /\ At(w, "executed")
      /\ sess' = [sess EXCEPT ![s].ratt = @ + 1, ![s].calls = @ \ {w},
                              ![s].sm = "REVALIDATING"]
      /\ Proceed(w, "revalidate")
      /\ UNCHANGED <<cur, gate, binding, counters, env>>

(***************************************************************************)
(* The action was executed, or its key replayed.  The session counts the   *)
(* attempt and enters REVALIDATING, with a time stamp taken when the call  *)
(* began.  Another thread may have left the session in a state from which  *)
(* that transition is illegal, or given it a verdict with a later stamp    *)
(* (the session's `calls` are those begun since its last verdict): the     *)
(* transition is then refused and the call ends there.                     *)
(***************************************************************************)
RecoverEnter(w) ==
  LET s == th[w].s
      refused == ~Move(s, "REVALIDATING") \/ w \notin sess[s].calls
      counted == [sess EXCEPT ![s].ratt = @ + 1, ![s].calls = @ \ {w}]
  IN  /\ At(w, "executed")
      /\ \/ /\ refused
            /\ sess' = counted
            /\ Return(w)
         \/ /\ Move(s, "REVALIDATING")
            /\ sess' = [counted EXCEPT ![s].sm = "REVALIDATING"]
            /\ Proceed(w, "revalidate")
      /\ UNCHANGED <<cur, gate, binding, counters, env>>

(***************************************************************************)
(* revalidate_recovery: only the refund of this recovery is netted against *)
(* the amount on record.                                                   *)
(***************************************************************************)
Netted(bundle, d) ==
  IF d.type # "REFUND"
    THEN bundle
    ELSE [bundle EXCEPT !.amounts = {IF a > d.amt THEN a - d.amt ELSE 0 : a \in @}]

RecoverFinish(w) ==
  LET s == th[w].s
      d == th[w].exec
      event == RecoveryEvent(d)
      repeated == sess[s].repeated \/ event \in sess[s].events
      events == sess[s].events \cup {event}
      verdict == Verdict(Netted(sess[s].bundle, d), events, repeated)
  IN  /\ At(w, "revalidate")
      /\ sess' = [sess EXCEPT ![s] =
                    Answered([sess[s] EXCEPT !.bundle = Merge(sess[s].bundle, RecoveryEvidence(d)),
                                             !.events = events, !.repeated = repeated,
                                             !.calls = {}], verdict)]
      /\ Return(w)
      /\ UNCHANGED <<cur, gate, binding, counters, env>>

-----------------------------------------------------------------------------
(***************************************************************************)
(* resolve_transaction, without the optional idempotency key: with one the *)
(* call always raises (the observer has no get_cached_result).             *)
(***************************************************************************)

ResolutionStates == {"UNKNOWN", "RESOLVING"}

Conflicting(bundle) ==
  Cardinality(bundle.amounts) > 1 \/ Cardinality(bundle.refunds) > 1

(***************************************************************************)
(* diagnose_unknown: whether to give up, and why, to ask the gateway for   *)
(* the missing amount, or to hold.                                         *)
(***************************************************************************)
Diagnosis(t, s) ==
  IF obsAtt[t] + 1 >= MaxResolution \/ expired THEN "abstain"
  ELSE IF Conflicting(sess[s].bundle) THEN "conflict"
       ELSE IF sess[s].bundle.amounts = {} THEN "fetch" ELSE "hold"

\* The session's budget is spent: ABSTAIN, and ResolutionExhaustedError
\* instead of a new response.
ResolveExhausted(w, t) ==
  LET s == cur[t]
  IN  /\ IsIdle(w)
      /\ s # 0
      /\ sess[s].sm \in ResolutionStates
      /\ sess[s].satt >= MaxResolution
      /\ sess' = [sess EXCEPT ![s].sm = "ABSTAIN"]
      /\ UNCHANGED <<cur, gate, binding, counters, env, th>>

\* Mutant: the attempt is not counted.
ResolveBeginUncounted(w, t) ==
  LET s == cur[t]
  IN  /\ IsIdle(w)
      /\ s # 0
      /\ sess[s].sm \in ResolutionStates
      /\ sess[s].satt < MaxResolution
      /\ sess' = [sess EXCEPT ![s].sm = "RESOLVING"]
      /\ Goto(w, [pc |-> "resolve", s |-> s, plan |-> Diagnosis(t, s),
                  bundle |-> sess[s].bundle, events |-> sess[s].events,
                  repeated |-> sess[s].repeated])
      /\ UNCHANGED <<cur, gate, binding, counters, env>>

\* The attempt is counted by session and by intent, and the evidence and
\* events on record are copied; the gateway is asked after this step.
ResolveBegin(w, t) ==
  LET s == cur[t]
  IN  /\ IsIdle(w)
      /\ s # 0
      /\ sess[s].sm \in ResolutionStates
      /\ sess[s].satt < MaxResolution
      /\ sess' = [sess EXCEPT ![s].sm = "RESOLVING", ![s].satt = @ + 1]
      /\ IF obsAtt[t] < MaxResolution
           THEN /\ obsAtt' = [obsAtt EXCEPT ![t] = @ + 1]
                /\ Goto(w, [pc |-> "resolve", s |-> s, plan |-> Diagnosis(t, s),
                            bundle |-> sess[s].bundle, events |-> sess[s].events,
                            repeated |-> sess[s].repeated])
           ELSE UNCHANGED <<obsAtt, th>>   \* the observer raises
      /\ UNCHANGED <<cur, gate, binding, done, execAtt, env>>

\* The most recent payment of the order, if there is one.
LatestOf(s) ==
  {p \in Payments : gw[p].order = s /\ \A q \in Payments : gw[q].order = s => q <= p}

Unresolved(viol) == [status |-> "UNKNOWN", viol |-> viol]

\* What the observer returns: a verdict, and what it newly observed.
Observation(w, p) ==
  LET event == PaymentEvent("res", p)
      bundle == Merge(th[w].bundle, ObservedAtResolution(p))
  IN  [verdict |-> Verdict(bundle, th[w].events \cup {event},
                           th[w].repeated \/ event \in th[w].events),
       bundle |-> bundle, events |-> {event}]

NoObservation(w, verdict) ==
  [verdict |-> verdict, bundle |-> sess[th[w].s].bundle, events |-> {}]

\* A gateway that times out yields no observation.
Observations(w) ==
  LET unchanged == NoObservation(w, Verdict(th[w].bundle, th[w].events, th[w].repeated))
  IN  IF th[w].plan = "abstain" THEN {NoObservation(w, Unresolved({}))}
      ELSE IF th[w].plan = "conflict" THEN {NoObservation(w, Unresolved({"CONFLICT"}))}
      ELSE {unchanged} \cup
             {Observation(w, p) :
                p \in IF th[w].plan = "fetch" THEN LatestOf(th[w].s) ELSE {}}

\* New evidence overwrites the bundle with the copy and what was observed;
\* new events join those now on record.
ResolveFinish(w) ==
  LET s == th[w].s
  IN  /\ At(w, "resolve")
      /\ Move(s, "REVALIDATING")
      /\ \E o \in Observations(w) :
           sess' = [sess EXCEPT ![s] =
                      Answered([sess[s] EXCEPT !.bundle = o.bundle,
                                               !.events = sess[s].events \cup o.events,
                                               !.calls = {}], o.verdict)]
      /\ Return(w)
      /\ UNCHANGED <<cur, gate, binding, counters, env>>

\* Another thread moved the session meanwhile: the transition is refused.
ResolveRaise(w) ==
  /\ At(w, "resolve")
  /\ ~Move(th[w].s, "REVALIDATING")
  /\ Return(w)
  /\ UNCHANGED <<cur, sess, gate, binding, counters, env>>

-----------------------------------------------------------------------------
(***************************************************************************)
(* The surroundings: the payer, the clock, and the callers of the kill     *)
(* switch (KillSwitch has its operations one by one; here a kill and a     *)
(* revalidated resumption).                                                *)
(***************************************************************************)

\* The next payment is made for some order; whether it is captured, and how
\* its notes name the item, is up to the gateway.
Pay(p) ==
  /\ ~Paid(p) /\ \A q \in Payments : q < p => Paid(q)
  /\ \E s \in Sessions, c \in Charges :
       /\ Used(s)
       /\ gw' = [gw EXCEPT ![p] = [order |-> s, amount |-> c.amount,
                                   captured |-> c.captured, items |-> c.items,
                                   late |-> expired]]
  /\ UNCHANGED <<cur, sess, gate, binding, counters, expired, th>>

Expire ==
  /\ "expiry" \in Events
  /\ ~expired
  /\ expired' = TRUE
  /\ UNCHANGED <<cur, sess, gate, binding, counters, gw, th>>

Kill(t) ==
  /\ "operator" \in Events
  /\ ks[t] # "KILLED"
  /\ ks' = [ks EXCEPT ![t] = "KILLED"]
  /\ UNCHANGED <<cur, sess, unknowns, binding, counters, env, th>>

Resume(t) ==
  /\ "operator" \in Events
  /\ cur[t] # 0
  /\ ks[t] # "RUNNING"
  /\ ks' = [ks EXCEPT ![t] = "RUNNING"]
  /\ unknowns' = [unknowns EXCEPT ![t] = 0]
  /\ UNCHANGED <<cur, sess, binding, counters, env, th>>

-----------------------------------------------------------------------------
Init ==
  /\ cur = [t \in Txs |-> 0]
  /\ sess = [s \in Sessions |-> NoSession]
  /\ ks = [t \in Txs |-> "KILLED"]
  /\ unknowns = [t \in Txs |-> 0]
  /\ bound = [t \in Txs |-> 0]
  /\ consumed = [t \in Txs |-> FALSE]
  /\ payTx = [p \in Payments |-> NoTx]
  /\ gw = [p \in Payments |-> NoPayment]
  /\ done = {}
  /\ execAtt = [t \in Txs |-> 0]
  /\ obsAtt = [t \in Txs |-> 0]
  /\ expired = FALSE
  /\ th = [w \in Threads |-> Idle]

Create(w) == CreateOrder(w) \/ CreateFail(w)

Complete(w) == CompleteUnresolved(w) \/ CompleteObserve(w) \/ CompleteEnforce(w)

Execute(w) ==
  \/ RecoverReplay(w) \/ RecoverLookup(w) \/ RecoverAttempt(w)
  \/ RecoverCount(w) \/ RecoverRecord(w)

Recover(w) == Execute(w) \/ RecoverRaise(w) \/ RecoverEnter(w) \/ RecoverFinish(w)

Resolve(w) == ResolveFinish(w) \/ ResolveRaise(w)

\* A call in progress goes on.
Continue(w) == Create(w) \/ Complete(w) \/ Recover(w) \/ Resolve(w)

\* A client of transaction t asks for its recovery or its resolution.
CallRecover(w, t) == RecoverBegin(w, t) \/ RecoverAbstain(w, t)
CallResolve(w, t) == ResolveBegin(w, t) \/ ResolveExhausted(w, t)

Call(w, t) ==
  \/ CreateBegin(w, t)
  \/ \E p \in Payments : CompleteBegin(w, t, p)
  \/ CallRecover(w, t)
  \/ CallResolve(w, t)

Environment ==
  \/ \E p \in Payments : Pay(p)
  \/ Expire
  \/ \E t \in Txs : Kill(t) \/ Resume(t)

Next ==
  \/ \E w \in Threads : Continue(w) \/ \E t \in Txs : Call(w, t)
  \/ Environment

Spec == Init /\ [][Next]_vars

(***************************************************************************)
(* The server runs the calls it accepted, and the client of a transaction  *)
(* without a final verdict keeps asking for recovery or resolution.        *)
(***************************************************************************)
Fairness ==
  /\ \A w \in Threads : WF_vars(Continue(w))
  /\ \A t \in Txs :
       WF_vars(\E w \in Threads : CallRecover(w, t) \/ CallResolve(w, t))

FairSpec == Spec /\ Fairness

-----------------------------------------------------------------------------
(***************************************************************************)
(* Properties.                                                             *)
(***************************************************************************)

Keyed == {<<"client", k, 0>> : k \in Keys}
           \cup {<<prefix, t, n>> : prefix \in {"rec", "obs"}, t \in Txs, n \in 1 .. MaxRecovery}

EventIds == (Keyed \X Threads) \cup {<<"order", s, 0>> : s \in Sessions}
                  \cup {<<prefix, p, 0>> : prefix \in {"pay", "res"}, p \in Payments}

EventKinds == {"order", "capture", "payment"} \cup ActionTypes

EventRecords == [id : EventIds, kind : EventKinds, late : BOOLEAN]

Violations == {"OVERCHARGE", "ITEMS", "TEMPORAL", "CONFLICT", "BINDING"}

Bundles ==
  [amounts : SUBSET Nat, items : SUBSET EvidenceKinds, refunds : SUBSET Nat]

VerdictRecords == [status : Verdicts, viol : SUBSET Violations]

SessionRecords ==
  [owner : Txs \cup {NoTx}, sm : LifecycleStates \cup {"ABSENT"},
   status : Verdicts \cup {"NONE"}, viol : SUBSET Violations, bundle : Bundles,
   events : SUBSET EventRecords, repeated : BOOLEAN, late : BOOLEAN,
   ratt : Nat, satt : Nat, resp : Verdicts \cup {"NONE", "ABSTAIN"},
   disc : Nat, calls : SUBSET Threads]

PaymentRecords ==
  [order : 0 .. MaxSessions, amount : Nat, captured : BOOLEAN,
   items : EvidenceKinds \cup {"unstated"}, late : BOOLEAN]

RequestRecords == [type : ActionTypes, amt : Nat, key : Keyed]

Executions ==
  [key : Keyed, tx : Txs, type : ActionTypes, amt : Nat, by : Threads]

ThreadRecords ==
  {Idle}
    \cup [pc : {"order"}, tx : Txs, late : BOOLEAN]
    \cup [pc : {"observe"}, tx : Txs, s : Sessions, pay : Payments, late : BOOLEAN]
    \cup [pc : {"enforce"}, tx : Txs, s : Sessions, pay : Payments, late : BOOLEAN,
          valid : BOOLEAN, verdict : VerdictRecords]
    \cup [pc : {"execute", "budget", "record"}, tx : Txs, s : Sessions, req : RequestRecords]
    \cup [pc : {"count"}, tx : Txs, s : Sessions, req : RequestRecords, attempts : Nat]
    \cup [pc : {"executed", "revalidate"}, tx : Txs, s : Sessions, exec : Executions]
    \cup [pc : {"resolve"}, s : Sessions, plan : {"abstain", "conflict", "fetch", "hold"},
          bundle : Bundles, events : SUBSET EventRecords, repeated : BOOLEAN]

\* The shared dictionaries and the locals hold what they are meant to hold.
TypeOK ==
  /\ cur \in [Txs -> 0 .. MaxSessions]
  /\ sess \in [Sessions -> SessionRecords]
  /\ ks \in [Txs -> SafetyStates]
  /\ unknowns \in [Txs -> Nat]
  /\ bound \in [Txs -> 0 .. MaxSessions]
  /\ consumed \in [Txs -> BOOLEAN]
  /\ payTx \in [Payments -> Txs \cup {NoTx}]
  /\ gw \in [Payments -> PaymentRecords]
  /\ done \subseteq Executions
  /\ execAtt \in [Txs -> Nat]
  /\ obsAtt \in [Txs -> Nat]
  /\ expired \in BOOLEAN
  /\ th \in [Threads -> ThreadRecords]

\* Nobody is working on transaction t.
Quiet(t) ==
  \A w \in Threads : ~IsIdle(w) => IF At(w, "resolve") THEN sess[th[w].s].owner # t
                                                       ELSE th[w].tx # t

L == INSTANCE Lifecycle WITH state <- [s \in Sessions |-> sess[s].sm]

(***************************************************************************)
(* The handlers move every session as the state machine promises, however  *)
(* their steps interleave.                                                 *)
(***************************************************************************)
ImplementsLifecycle == L!Spec

(***************************************************************************)
(* A session that ends in PASS has an amount on record which, less one     *)
(* refund made for it, is within the contract's ceiling, and an authorized *)
(* item ("missing evidence is not PASS").                                  *)
(***************************************************************************)
PassWithinBudget ==
  \A s \in Sessions : sess[s].sm = "PASS" =>
    /\ \E a \in sess[s].bundle.amounts, r \in sess[s].bundle.refunds \cup {0} :
         a - r <= MaxTotal
    /\ sess[s].bundle.items = {"authorized"}

(***************************************************************************)
(* Every refund the executor recorded is in the evidence of the session it *)
(* was made for, once the call that made it has ended.                     *)
(***************************************************************************)
RefundsOnRecord ==
  \A d \in done :
    d.type = "REFUND" /\ Quiet(d.tx) =>
      d.amt \in sess[cur[d.tx]].bundle.refunds

\* At most one payment of a transaction is accepted as its capture
\* (max_successful_captures is 1), across retries of creation and completion.
OneCapture ==
  \A t \in Txs : \A p, q \in Payments : payTx[p] = t /\ payTx[q] = t => p = q

(***************************************************************************)
(* A payment is consumed for the transaction whose order the gateway       *)
(* charged, and stays so, even when completions race with creations.       *)
(***************************************************************************)
ConsumedByOwner ==
  \A p \in Payments :
    payTx[p] # NoTx => Paid(p) /\ sess[gw[p].order].owner = payTx[p]

(***************************************************************************)
(* PASS and ABSTAIN close the record: neither evidence nor verdict nor the *)
(* answer changes afterwards, whatever calls were still in progress.       *)
(***************************************************************************)
ClosedRecord ==
  [][\A s \in Sessions : sess[s].sm \in Terminal =>
       /\ sess'[s].bundle = sess[s].bundle
       /\ sess'[s].status = sess[s].status
       /\ sess'[s].resp = sess[s].resp]_vars

(***************************************************************************)
(* Between the verification of a binding and its consumption no other      *)
(* transaction can consume the payment: the second check never raises      *)
(* DuplicatePaymentBindingError half-way through a completion.             *)
(***************************************************************************)
ConsumeNeverRaises ==
  \A w \in Threads :
    At(w, "enforce") /\ th[w].valid /\ gw[th[w].pay].captured
      => payTx[th[w].pay] \in {NoTx, th[w].tx}

\* Where a call of recover_transaction is in the executor, or has just left it.
Executing(w) == th[w].pc \in {"execute", "budget", "count", "record", "executed"}

(***************************************************************************)
(* The recoveries of a session, those it has counted and those under way,  *)
(* exceed its budget by no more than the calls that run at once: however   *)
(* the executor's reads and writes interleave, each call is counted, and   *)
(* none begins once one attempt of the budget is left.                     *)
(***************************************************************************)
ExecutionsBounded ==
  \A s \in Sessions :
    LET recoveries == sess[s].ratt + Cardinality({w \in Threads : Executing(w) /\ th[w].s = s})
    IN  recoveries > 0 => recoveries <= MaxRecovery + Cardinality(Threads) - 2

(***************************************************************************)
(* A transaction found in DRIFT or UNKNOWN ends in PASS or ABSTAIN if its  *)
(* client keeps asking: the attempt budgets leave no endless loop.         *)
(***************************************************************************)
VerdictReached ==
  \A s \in Sessions :
    sess[s].sm \in {"DRIFT", "UNKNOWN"} ~> sess[s].sm \in {"PASS", "ABSTAIN"}

=============================================================================
