----------------------- MODULE TransactionSliceProofs -----------------------
(***************************************************************************)
(* Theorems about TransactionSlice, for any transactions, threads, keys,   *)
(* payments and bounds, however the calls interleave: types and budgets,   *)
(* who owns a payment, that the sessions move as the state machine         *)
(* promises, that a closed record does not change, and what PASS means.    *)
(***************************************************************************)
EXTENDS TransactionSlice, FiniteSetTheorems, TLAPS

-----------------------------------------------------------------------------
(***************************************************************************)
(* Types of the operators.                                                 *)
(***************************************************************************)

LEMMA VerdictType ==
  ASSUME NEW bundle, NEW events, NEW repeated
  PROVE  Verdict(bundle, events, repeated) \in VerdictRecords
<1>1. \A amounts, max : Economic(amounts, max) \in Verdicts
  BY DEF Economic, Verdicts
<1>2. \A items : Semantic(items) \in Verdicts
  BY DEF Semantic, Verdicts
<1>3. \A evs, rep, max : Temporal(evs, rep, max) \in Verdicts
  BY DEF Temporal, Verdicts
<1>4. \A statuses : Overall(statuses) \in Verdicts
  BY DEF Overall, Verdicts
<1>5. QED
  BY <1>4 DEF Verdict, Evaluate, VerdictRecords, Violations

LEMMA DiscrepancyType ==
  ASSUME NEW bundle \in Bundles, NEW status, NEW viol
  PROVE  Discrepancy(status, viol, bundle) \in Nat
<1>1. Overcharges(bundle) \subseteq Nat
  BY BoundsAssumption DEF Overcharges, Bundles
<1>2. Overcharges(bundle) # {} =>
        (CHOOSE d \in Overcharges(bundle) : TRUE) \in Overcharges(bundle)
  OBVIOUS
<1>3. QED
  BY <1>1, <1>2 DEF Discrepancy

LEMMA EventTypes ==
  ASSUME TypeOK
  PROVE  /\ \A s \in Sessions : OrderEvent(s) \in EventRecords
         /\ \A p \in Payments, prefix \in {"pay", "res"} :
              PaymentEvent(prefix, p) \in EventRecords
         /\ \A d \in Executions : RecoveryEvent(d) \in EventRecords
BY DEF TypeOK, OrderEvent, PaymentEvent, RecoveryEvent, Event, EventRecords,
       EventIds, EventKinds, Executions, SessionRecords, PaymentRecords

LEMMA BundleTypes ==
  ASSUME TypeOK
  PROVE  /\ NoEvidence \in Bundles
         /\ \A p \in Payments : ObservedAtCompletion(p) \in Bundles
         /\ \A p \in Payments : ObservedAtResolution(p) \in Bundles
         /\ \A a, b \in Bundles : Merge(a, b) \in Bundles
BY DEF TypeOK, NoEvidence, ObservedAtCompletion, ObservedAtResolution, Merge,
       Bundles, PaymentRecords, EvidenceKinds

LEMMA RecoveryEvidenceType ==
  ASSUME NEW d \in Executions PROVE RecoveryEvidence(d) \in Bundles
BY DEF RecoveryEvidence, Executions, Bundles

\* A session keeps its type when one field takes a value of the field's type.
LEMMA FieldTypes ==
  ASSUME NEW x \in SessionRecords
  PROVE  /\ \A v \in LifecycleStates : [x EXCEPT !.sm = v] \in SessionRecords
         /\ \A v \in Verdicts : [x EXCEPT !.status = v] \in SessionRecords
         /\ \A v \in SUBSET Violations : [x EXCEPT !.viol = v] \in SessionRecords
         /\ \A v \in Bundles : [x EXCEPT !.bundle = v] \in SessionRecords
         /\ \A v \in SUBSET EventRecords : [x EXCEPT !.events = v] \in SessionRecords
         /\ \A v \in BOOLEAN : [x EXCEPT !.repeated = v] \in SessionRecords
         /\ \A v \in Nat : [x EXCEPT !.ratt = v] \in SessionRecords
         /\ \A v \in Nat : [x EXCEPT !.satt = v] \in SessionRecords
         /\ \A v \in Verdicts \cup {"NONE", "ABSTAIN"} :
              [x EXCEPT !.resp = v] \in SessionRecords
         /\ \A v \in Nat : [x EXCEPT !.disc = v] \in SessionRecords
         /\ \A v \in SUBSET Threads : [x EXCEPT !.calls = v] \in SessionRecords
<1>1. \A v \in LifecycleStates : [x EXCEPT !.sm = v] \in SessionRecords
  BY DEF SessionRecords
<1>2. \A v \in Verdicts : [x EXCEPT !.status = v] \in SessionRecords
  BY DEF SessionRecords
<1>3. \A v \in SUBSET Violations : [x EXCEPT !.viol = v] \in SessionRecords
  BY DEF SessionRecords
<1>4. \A v \in Bundles : [x EXCEPT !.bundle = v] \in SessionRecords
  BY DEF SessionRecords
<1>5. \A v \in SUBSET EventRecords : [x EXCEPT !.events = v] \in SessionRecords
  BY DEF SessionRecords
<1>6. \A v \in BOOLEAN : [x EXCEPT !.repeated = v] \in SessionRecords
  BY DEF SessionRecords
<1>7. /\ \A v \in Nat : [x EXCEPT !.ratt = v] \in SessionRecords
      /\ \A v \in Nat : [x EXCEPT !.satt = v] \in SessionRecords
      /\ \A v \in Nat : [x EXCEPT !.disc = v] \in SessionRecords
  BY DEF SessionRecords
<1>8. \A v \in Verdicts \cup {"NONE", "ABSTAIN"} : [x EXCEPT !.resp = v] \in SessionRecords
  BY DEF SessionRecords
<1>9. \A v \in SUBSET Threads : [x EXCEPT !.calls = v] \in SessionRecords
  BY DEF SessionRecords
<1>10. QED
  BY <1>1, <1>2, <1>3, <1>4, <1>5, <1>6, <1>7, <1>8, <1>9

LEMMA AnsweredType ==
  ASSUME NEW x \in SessionRecords, NEW verdict \in VerdictRecords
  PROVE  Answered(x, verdict) \in SessionRecords
<1>1. /\ verdict.status \in Verdicts /\ verdict.status \in LifecycleStates
      /\ verdict.viol \in SUBSET Violations
  BY DEF VerdictRecords, Verdicts, LifecycleStates
<1>2. Discrepancy(verdict.status, verdict.viol, x.bundle) \in Nat
  BY DiscrepancyType DEF SessionRecords
<1> DEFINE a == [x EXCEPT !.sm = verdict.status]
           b == [a EXCEPT !.status = verdict.status]
           c == [b EXCEPT !.viol = verdict.viol]
           d == [c EXCEPT !.resp = verdict.status]
           e == [d EXCEPT !.disc = Discrepancy(verdict.status, verdict.viol, x.bundle)]
<1>3. a \in SessionRecords
  BY <1>1, FieldTypes
<1>4. b \in SessionRecords
  <2> HIDE DEF a
  <2> QED  BY <1>1, <1>3, FieldTypes
<1>5. c \in SessionRecords
  <2> HIDE DEF b
  <2> QED  BY <1>1, <1>4, FieldTypes
<1>6. d \in SessionRecords
  <2> HIDE DEF c
  <2> QED  BY <1>1, <1>5, FieldTypes
<1>7. e \in SessionRecords
  <2> HIDE DEF d
  <2> QED  BY <1>2, <1>6, FieldTypes
<1>8. Answered(x, verdict) = e
  BY DEF Answered
<1>9. QED
  BY <1>7, <1>8

\* What a thread holds at each place.
LEMMA ThreadAt ==
  ASSUME TypeOK, NEW w \in Threads
  PROVE  /\ At(w, "order") => th[w] \in [pc : {"order"}, tx : Txs, late : BOOLEAN]
         /\ At(w, "observe") =>
              th[w] \in [pc : {"observe"}, tx : Txs, s : Sessions, pay : Payments,
                         late : BOOLEAN]
         /\ At(w, "enforce") =>
              th[w] \in [pc : {"enforce"}, tx : Txs, s : Sessions, pay : Payments,
                         late : BOOLEAN, valid : BOOLEAN, verdict : VerdictRecords]
         /\ At(w, "execute") \/ At(w, "budget") \/ At(w, "record") =>
              th[w] \in [pc : {"execute", "budget", "record"}, tx : Txs, s : Sessions,
                         req : RequestRecords]
         /\ At(w, "count") =>
              th[w] \in [pc : {"count"}, tx : Txs, s : Sessions,
                         req : RequestRecords, attempts : Nat]
         /\ At(w, "executed") \/ At(w, "revalidate") =>
              th[w] \in [pc : {"executed", "revalidate"}, tx : Txs, s : Sessions,
                         exec : Executions]
         /\ At(w, "resolve") =>
              th[w] \in [pc : {"resolve"}, s : Sessions,
                         plan : {"abstain", "conflict", "fetch", "hold"},
                         bundle : Bundles, events : SUBSET EventRecords,
                         repeated : BOOLEAN]
<1>1. th[w] \in ThreadRecords
  BY DEF TypeOK
<1>2. QED
  BY <1>1 DEF ThreadRecords, At, Idle

LEMMA RequestTypes ==
  ASSUME TypeOK, NEW t \in Txs, NEW s \in Sessions
  PROVE  /\ ClientRequests \subseteq RequestRecords
         /\ Recoverable(s) => Synthesized(t, s) \in RequestRecords
<1>1. ClientRequests \subseteq RequestRecords
  <2>1. {<<"client", k, 0>> : k \in Keys} \subseteq Keyed
    BY DEF Keyed
  <2> DEFINE ClientKeys == {<<"client", k, 0>> : k \in Keys}
  <2> HIDE DEF ClientKeys
  <2>2. ClientRequests = [type : {"REFUND"}, amt : RefundAmounts, key : ClientKeys]
          \cup [type : {"NOTIFY", "CANCEL", "CAPTURE"}, amt : {0}, key : ClientKeys]
    BY DEF ClientRequests, ClientKeys
  <2>3. ClientKeys \subseteq Keyed
    BY <2>1 DEF ClientKeys
  <2>4. [type : {"REFUND"}, amt : RefundAmounts, key : ClientKeys] \subseteq RequestRecords
    <3> SUFFICES ASSUME NEW r \in [type : {"REFUND"}, amt : RefundAmounts, key : ClientKeys]
                 PROVE  r \in [type : ActionTypes, amt : Nat, key : Keyed]
      BY DEF RequestRecords
    <3>1. r.amt \in Nat /\ r.key \in Keyed /\ r.type \in ActionTypes
      BY <2>3, RefundAssumption DEF ActionTypes
    <3>2. r = [type |-> r.type, amt |-> r.amt, key |-> r.key]
      OBVIOUS
    <3>3. QED
      BY <3>1, <3>2
  <2>5. [type : {"NOTIFY", "CANCEL", "CAPTURE"}, amt : {0}, key : ClientKeys]
          \subseteq RequestRecords
    BY <2>3 DEF RequestRecords, ActionTypes
  <2>6. QED
    BY <2>2, <2>4, <2>5
<1>2. ASSUME Recoverable(s) PROVE Synthesized(t, s) \in RequestRecords
  <2>1. /\ sess[s].ratt \in Nat /\ sess[s].disc \in Nat
        /\ sess[s].ratt + 1 \in 1 .. MaxRecovery
    BY <1>2, BoundsAssumption DEF Recoverable, TypeOK, SessionRecords
  <2>2. /\ <<"rec", t, sess[s].ratt + 1>> \in Keyed
        /\ <<"obs", t, sess[s].ratt + 1>> \in Keyed
    BY <2>1 DEF Keyed
  <2>3. QED
    BY <2>1, <2>2 DEF Synthesized, Request, RequestRecords, ActionTypes
<1>3. QED
  BY <1>1, <1>2

\* A thread in the executor holds a transaction and a session of it.
LEMMA ExecutorHolds ==
  ASSUME TypeOK, NEW w \in Threads, Executing(w)
  PROVE  th[w].tx \in Txs /\ th[w].s \in Sessions
BY ThreadAt DEF Executing, At

LEMMA ExecutionType ==
  ASSUME TypeOK, NEW w \in Threads, At(w, "record")
  PROVE  Execution(w) \in Executions
<1>1. th[w].tx \in Txs /\ th[w].req \in RequestRecords
  BY ThreadAt
<1>2. QED
  BY <1>1 DEF Execution, Executions, RequestRecords

(***************************************************************************)
(* A step of the executor moves its thread on and touches nothing but the  *)
(* executor's own dictionaries.                                            *)
(***************************************************************************)
LEMMA ExecuteStep ==
  ASSUME TypeOK, NEW w \in Threads, Execute(w)
  PROVE  /\ Executing(w) /\ th[w].pc # "executed"
         /\ UNCHANGED <<cur, sess, ks, unknowns, bound, consumed, payTx, obsAtt, gw, expired>>
         /\ \E local \in ThreadRecords :
              /\ th' = [th EXCEPT ![w] = local]
              /\ local.pc \in {"budget", "count", "record", "executed"}
              /\ local.tx = th[w].tx /\ local.s = th[w].s
<1> USE DEF gate, binding, counters, env, At, Executing, Proceed, Goto
<1>1. CASE RecoverReplay(w)
  <2>1. th[w].tx \in Txs /\ th[w].s \in Sessions
    BY <1>1, ThreadAt DEF RecoverReplay
  <2>2. PICK d \in done :
          th' = [th EXCEPT ![w] = [pc |-> "executed", tx |-> th[w].tx, s |-> th[w].s,
                                   exec |-> d]]
    BY <1>1 DEF RecoverReplay, Recorded
  <2>3. [pc |-> "executed", tx |-> th[w].tx, s |-> th[w].s, exec |-> d] \in ThreadRecords
    BY <2>1 DEF ThreadRecords, TypeOK
  <2>4. QED
    BY <1>1, <2>2, <2>3 DEF RecoverReplay
<1>2. CASE RecoverLookup(w)
  <2> DEFINE local == [th[w] EXCEPT !.pc = "budget"]
  <2>1. th[w] \in [pc : {"execute", "budget", "record"}, tx : Txs, s : Sessions,
                   req : RequestRecords]
    BY <1>2, ThreadAt DEF RecoverLookup
  <2>2. /\ local \in [pc : {"execute", "budget", "record"}, tx : Txs, s : Sessions,
                      req : RequestRecords]
        /\ local.pc = "budget" /\ local.tx = th[w].tx /\ local.s = th[w].s
    BY <2>1
  <2>3. local \in ThreadRecords
    BY <2>2 DEF ThreadRecords
  <2>4. QED
    BY <1>2, <2>2, <2>3 DEF RecoverLookup
<1>3. CASE RecoverAttempt(w)
  <2> DEFINE local == [pc |-> "count", tx |-> th[w].tx, s |-> th[w].s, req |-> th[w].req,
                       attempts |-> execAtt[th[w].tx]]
  <2>1. th[w].tx \in Txs /\ th[w].s \in Sessions /\ th[w].req \in RequestRecords
    BY <1>3, ThreadAt DEF RecoverAttempt
  <2>2. local \in ThreadRecords
    BY <2>1 DEF ThreadRecords, TypeOK
  <2>3. QED
    BY <1>3, <2>2 DEF RecoverAttempt
<1>4. CASE RecoverCount(w)
  <2> DEFINE local == [pc |-> "record", tx |-> th[w].tx, s |-> th[w].s, req |-> th[w].req]
  <2>1. th[w].tx \in Txs /\ th[w].s \in Sessions /\ th[w].req \in RequestRecords
    BY <1>4, ThreadAt DEF RecoverCount
  <2>2. local \in ThreadRecords
    BY <2>1 DEF ThreadRecords
  <2>3. QED
    BY <1>4, <2>2 DEF RecoverCount
<1>5. CASE RecoverRecord(w)
  <2> DEFINE local == [pc |-> "executed", tx |-> th[w].tx, s |-> th[w].s,
                       exec |-> Execution(w)]
  <2>1. th[w].tx \in Txs /\ th[w].s \in Sessions /\ Execution(w) \in Executions
    BY <1>5, ThreadAt, ExecutionType DEF RecoverRecord
  <2>2. local \in ThreadRecords
    BY <2>1 DEF ThreadRecords
  <2>3. QED
    BY <1>5, <2>2 DEF RecoverRecord
<1>6. QED
  BY <1>1, <1>2, <1>3, <1>4, <1>5 DEF Execute

\* What a step of the executor does to its dictionaries.
LEMMA ExecuteRecords ==
  ASSUME TypeOK, NEW w \in Threads, Execute(w)
  PROVE  done' \subseteq Executions /\ execAtt' \in [Txs -> Nat]
<1>1. CASE RecoverCount(w)
  <2>1. th[w].attempts + 1 \in Nat
    BY <1>1, ThreadAt DEF RecoverCount
  <2>2. QED
    BY <1>1, <2>1 DEF RecoverCount, TypeOK
<1>2. CASE RecoverRecord(w)
  BY <1>2, ExecutionType DEF RecoverRecord, TypeOK
<1>3. CASE RecoverReplay(w) \/ RecoverLookup(w) \/ RecoverAttempt(w)
  BY <1>3 DEF RecoverReplay, RecoverLookup, RecoverAttempt, TypeOK, counters
<1>4. QED
  BY <1>1, <1>2, <1>3 DEF Execute

LEMMA ObservationTypes ==
  ASSUME TypeOK, NEW w \in Threads, At(w, "resolve"), NEW o \in Observations(w)
  PROVE  /\ o.verdict \in VerdictRecords
         /\ o.bundle \in Bundles
         /\ o.events \subseteq EventRecords
<1>1. /\ th[w].s \in Sessions /\ th[w].bundle \in Bundles
      /\ th[w].events \subseteq EventRecords
      /\ sess[th[w].s].bundle \in Bundles
  BY ThreadAt DEF TypeOK, SessionRecords
<1>2. \A viol \in SUBSET Violations : Unresolved(viol) \in VerdictRecords
  BY DEF Unresolved, VerdictRecords, Verdicts
<1>3. \A verdict \in VerdictRecords :
        LET n == NoObservation(w, verdict)
        IN  n.verdict \in VerdictRecords /\ n.bundle \in Bundles /\ n.events = {}
  BY <1>1 DEF NoObservation
<1>4. ASSUME NEW p \in Payments
      PROVE  LET n == Observation(w, p)
             IN  /\ n.verdict \in VerdictRecords /\ n.bundle \in Bundles
                 /\ n.events \subseteq EventRecords
  <2>1. Merge(th[w].bundle, ObservedAtResolution(p)) \in Bundles
    BY <1>1, BundleTypes
  <2>2. PaymentEvent("res", p) \in EventRecords
    BY EventTypes
  <2>3. QED
    BY <2>1, <2>2, VerdictType DEF Observation
<1>5. \/ \E verdict \in VerdictRecords : o = NoObservation(w, verdict)
      \/ \E p \in Payments : o = Observation(w, p)
  BY <1>2, VerdictType DEF Observations, LatestOf, Violations
<1>6. QED
  BY <1>3, <1>4, <1>5

-----------------------------------------------------------------------------
(***************************************************************************)
(* Type correctness, one lemma per handler.                                *)
(***************************************************************************)

USE DEF binding, gate, counters, env

LEMMA CreateType ==
  ASSUME TypeOK, NEW w \in Threads, NEW t \in Txs, CreateBegin(w, t) \/ Create(w)
  PROVE  TypeOK'
<1>1. CASE CreateBegin(w, t)
  BY <1>1 DEF CreateBegin, TypeOK, SafetyStates, Goto, ThreadRecords
<1>2. CASE CreateOrder(w)
  <2>1. th[w] \in [pc : {"order"}, tx : Txs, late : BOOLEAN]
    BY <1>2, ThreadAt DEF CreateOrder
  <2>2. PICK s \in Sessions :
          /\ sess' = [sess EXCEPT ![s] = NewSession(th[w].tx, th[w].late)]
          /\ cur' = [cur EXCEPT ![th[w].tx] = s]
          /\ bound' = [bound EXCEPT ![th[w].tx] = s]
    BY <1>2 DEF CreateOrder
  <2>3. NewSession(th[w].tx, th[w].late) \in SessionRecords
    BY <2>1, BundleTypes
       DEF NewSession, NoSession, SessionRecords, LifecycleStates, Verdicts
  <2>4. s \in 0 .. MaxSessions
    BY BoundsAssumption DEF Sessions
  <2>5. QED
    BY <1>2, <2>1, <2>2, <2>3, <2>4
       DEF CreateOrder, TypeOK, Return, Goto, ThreadRecords
<1>3. CASE CreateFail(w)
  BY <1>3 DEF CreateFail, TypeOK, Return, Goto, ThreadRecords
<1>4. QED
  BY <1>1, <1>2, <1>3 DEF Create

LEMMA CompleteType ==
  ASSUME TypeOK, NEW w \in Threads,
         Complete(w) \/ \E t \in Txs, p \in Payments : CompleteBegin(w, t, p)
  PROVE  TypeOK'
<1>1. ASSUME NEW t \in Txs, NEW p \in Payments, CompleteBegin(w, t, p) PROVE TypeOK'
  <2>1. cur[t] \in Sessions
    BY <1>1, BoundsAssumption DEF CompleteBegin, TypeOK, Sessions
  <2>2. [sess[cur[t]] EXCEPT !.sm = "OBSERVING"] \in SessionRecords
    BY <2>1, FieldTypes DEF TypeOK, LifecycleStates
  <2>3. sess' \in [Sessions -> SessionRecords]
    BY <1>1, <2>1, <2>2 DEF CompleteBegin, TypeOK
  <2>4. QED
    BY <1>1, <2>1, <2>3 DEF CompleteBegin, TypeOK, Goto, ThreadRecords
<1>2. CASE CompleteUnresolved(w)
  <2>1. th[w].s \in Sessions
    BY <1>2, ThreadAt DEF CompleteUnresolved
  <2> DEFINE a == [sess[th[w].s] EXCEPT !.sm = "UNKNOWN"]
             b == [a EXCEPT !.status = "UNKNOWN"]
             c == [b EXCEPT !.resp = "UNKNOWN"]
  <2>2. c \in SessionRecords
    <3>1. a \in SessionRecords
      BY <2>1, FieldTypes DEF TypeOK, LifecycleStates
    <3>2. b \in SessionRecords
      <4> HIDE DEF a
      <4> QED  BY <3>1, FieldTypes DEF Verdicts
    <3> HIDE DEF b
    <3>3. QED
      BY <3>2, FieldTypes DEF Verdicts
  <2>3. sess' = [sess EXCEPT ![th[w].s] = c]
    BY <1>2 DEF CompleteUnresolved
  <2>4. sess' \in [Sessions -> SessionRecords]
    BY <2>1, <2>2, <2>3 DEF TypeOK
  <2>5. QED
    BY <1>2, <2>4 DEF CompleteUnresolved, TypeOK, Return, Goto, ThreadRecords
<1>3. CASE CompleteObserve(w)
  <2> DEFINE s == th[w].s
             p == th[w].pay
             bundle == ObservedAtCompletion(p)
             events == {OrderEvent(s), PaymentEvent("pay", p)}
  <2>1. th[w] \in [pc : {"observe"}, tx : Txs, s : Sessions, pay : Payments,
                   late : BOOLEAN]
    BY <1>3, ThreadAt DEF CompleteObserve
  <2>2. bundle \in Bundles /\ events \subseteq EventRecords
    BY <2>1, BundleTypes, EventTypes
  <2>3. Verdict(bundle, events, FALSE) \in VerdictRecords
    BY VerdictType
  <2>4. BindingValid(th[w].tx, s, p) \in BOOLEAN
    BY DEF BindingValid
  <2> HIDE DEF bundle, events
  <2>5. sess' \in [Sessions -> SessionRecords]
    <3> DEFINE a == [sess[s] EXCEPT !.sm = "VERIFYING"]
               b == [a EXCEPT !.bundle = bundle]
               c == [b EXCEPT !.events = events]
    <3>1. a \in SessionRecords
      BY <2>1, FieldTypes DEF TypeOK, LifecycleStates
    <3>2. b \in SessionRecords
      <4> HIDE DEF a
      <4> QED  BY <2>2, <3>1, FieldTypes
    <3>3. c \in SessionRecords
      <4> HIDE DEF b
      <4> QED  BY <2>2, <3>2, FieldTypes
    <3>4. sess' = [sess EXCEPT ![s] = c]
      BY <1>3 DEF CompleteObserve, bundle, events
    <3> HIDE DEF c
    <3>5. QED
      BY <2>1, <3>3, <3>4 DEF TypeOK
  <2>6. th' \in [Threads -> ThreadRecords]
    BY <1>3, <2>1, <2>3, <2>4
       DEF CompleteObserve, TypeOK, Goto, ThreadRecords, bundle, events
  <2>7. QED
    BY <1>3, <2>5, <2>6 DEF CompleteObserve, TypeOK
<1>4. CASE CompleteEnforce(w)
  <2> DEFINE t == th[w].tx
             s == th[w].s
             verdict == BoundVerdict(th[w].verdict, th[w].valid)
  <2>1. th[w] \in [pc : {"enforce"}, tx : Txs, s : Sessions, pay : Payments,
                   late : BOOLEAN, valid : BOOLEAN, verdict : VerdictRecords]
    BY <1>4, ThreadAt DEF CompleteEnforce
  <2>2. verdict \in VerdictRecords
    BY <2>1 DEF BoundVerdict, VerdictRecords, Verdicts, Violations
  <2> HIDE DEF verdict
  <2>3. Answered(sess[s], verdict) \in SessionRecords
    BY <2>1, <2>2, AnsweredType DEF TypeOK
  <2>4. sess' = [sess EXCEPT ![s] = Answered(sess[s], verdict)]
    BY <1>4 DEF CompleteEnforce, verdict
  <2>5. sess' \in [Sessions -> SessionRecords]
    BY <2>1, <2>3, <2>4 DEF TypeOK
  <2>6. unknowns' \in [Txs -> Nat] /\ ks' \in [Txs -> SafetyStates]
    BY <1>4, <2>1
       DEF CompleteEnforce, Enforced, TypeOK, SafetyStates, EnforcedFinding,
           IntegrityFinding, Finding, NoFinding
  <2>7. /\ payTx' \in [Payments -> Txs \cup {NoTx}]
        /\ consumed' \in [Txs -> BOOLEAN]
        /\ th' \in [Threads -> ThreadRecords]
    BY <1>4, <2>1 DEF CompleteEnforce, TypeOK, Return, Goto, ThreadRecords
  <2>8. QED
    BY <1>4, <2>5, <2>6, <2>7 DEF CompleteEnforce, TypeOK
<1>5. QED
  BY <1>1, <1>2, <1>3, <1>4 DEF Complete

\* The session of a call that leaves the executor, refused or not.
Counted(w) ==
  [[sess[th[w].s] EXCEPT !.ratt = @ + 1] EXCEPT !.calls = @ \ {w}]

Entered(w) == [Counted(w) EXCEPT !.sm = "REVALIDATING"]

LEMMA EnterStep ==
  ASSUME TypeOK, NEW w \in Threads, RecoverEnter(w)
  PROVE  /\ At(w, "executed") /\ Executing(w)
         /\ th[w].tx \in Txs /\ th[w].s \in Sessions /\ th[w].exec \in Executions
         /\ UNCHANGED <<cur, ks, unknowns, bound, consumed, payTx, done, execAtt, obsAtt,
                        gw, expired>>
         /\ \/ /\ ~Move(th[w].s, "REVALIDATING") \/ w \notin sess[th[w].s].calls
               /\ sess' = [sess EXCEPT ![th[w].s] = Counted(w)]
               /\ th' = [th EXCEPT ![w] = Idle]
            \/ /\ Move(th[w].s, "REVALIDATING")
               /\ sess' = [sess EXCEPT ![th[w].s] = Entered(w)]
               /\ th' = [th EXCEPT ![w] = [pc |-> "revalidate", tx |-> th[w].tx,
                                           s |-> th[w].s, exec |-> th[w].exec]]
<1>1. th[w] \in [pc : {"executed", "revalidate"}, tx : Txs, s : Sessions, exec : Executions]
  BY ThreadAt DEF RecoverEnter
<1>2. [th[w] EXCEPT !.pc = "revalidate"]
        = [pc |-> "revalidate", tx |-> th[w].tx, s |-> th[w].s, exec |-> th[w].exec]
  BY <1>1
<1>3. \/ /\ ~Move(th[w].s, "REVALIDATING") \/ w \notin sess[th[w].s].calls
         /\ sess' = [sess EXCEPT ![th[w].s] = Counted(w)]
         /\ th' = [th EXCEPT ![w] = Idle]
      \/ /\ Move(th[w].s, "REVALIDATING")
         /\ sess' = [sess EXCEPT ![th[w].s] = Entered(w)]
         /\ th' = [th EXCEPT ![w] = [th[w] EXCEPT !.pc = "revalidate"]]
  BY <1>1 DEF RecoverEnter, Counted, Entered, TypeOK, Return, Proceed, Goto
<1>4. QED
  BY <1>1, <1>2, <1>3 DEF RecoverEnter, At, Executing

\* What the session of such a call keeps.
LEMMA EnteredSession ==
  ASSUME TypeOK, NEW w \in Threads, th[w].s \in Sessions
  PROVE  /\ sess[th[w].s] \in SessionRecords
         /\ Counted(w) \in SessionRecords /\ Entered(w) \in SessionRecords
         /\ \A x \in {Counted(w), Entered(w)} :
              /\ x.ratt = sess[th[w].s].ratt + 1
              /\ x.calls = sess[th[w].s].calls \ {w}
              /\ x.owner = sess[th[w].s].owner /\ x.bundle = sess[th[w].s].bundle
              /\ x.events = sess[th[w].s].events /\ x.repeated = sess[th[w].s].repeated
              /\ x.status = sess[th[w].s].status /\ x.viol = sess[th[w].s].viol
              /\ x.disc = sess[th[w].s].disc /\ x.resp = sess[th[w].s].resp
              /\ x.satt = sess[th[w].s].satt /\ x.late = sess[th[w].s].late
         /\ Counted(w).sm = sess[th[w].s].sm /\ Entered(w).sm = "REVALIDATING"
<1>1. sess[th[w].s] \in SessionRecords
  BY DEF TypeOK
<1>2. Counted(w) \in SessionRecords
  <2> DEFINE a == [sess[th[w].s] EXCEPT !.ratt = @ + 1]
  <2>1. sess[th[w].s].ratt + 1 \in Nat /\ a.calls \ {w} \in SUBSET Threads
    BY <1>1 DEF SessionRecords
  <2>2. a \in SessionRecords
    BY <1>1, <2>1, FieldTypes
  <2>3. Counted(w) = [a EXCEPT !.calls = @ \ {w}]
    BY DEF Counted
  <2> HIDE DEF a
  <2>4. QED
    BY <2>1, <2>2, <2>3, FieldTypes
<1>3. Entered(w) \in SessionRecords
  <2>1. "REVALIDATING" \in LifecycleStates
    BY DEF LifecycleStates
  <2>2. QED
    BY <1>2, <2>1 DEF Entered, SessionRecords
<1> DEFINE Kept(x) ==
             /\ x.ratt = sess[th[w].s].ratt + 1
             /\ x.calls = sess[th[w].s].calls \ {w}
             /\ x.owner = sess[th[w].s].owner /\ x.bundle = sess[th[w].s].bundle
             /\ x.events = sess[th[w].s].events /\ x.repeated = sess[th[w].s].repeated
             /\ x.status = sess[th[w].s].status /\ x.viol = sess[th[w].s].viol
             /\ x.disc = sess[th[w].s].disc /\ x.resp = sess[th[w].s].resp
             /\ x.satt = sess[th[w].s].satt /\ x.late = sess[th[w].s].late
<1>4. Kept(Counted(w)) /\ Counted(w).sm = sess[th[w].s].sm
  BY <1>1 DEF Counted, SessionRecords
<1>5. Kept(Entered(w)) /\ Entered(w).sm = "REVALIDATING"
  BY <1>2, <1>4 DEF Entered, SessionRecords
<1>6. QED
  BY <1>1, <1>2, <1>3, <1>4, <1>5

LEMMA RecoverType ==
  ASSUME TypeOK, NEW w \in Threads, Recover(w) \/ \E t \in Txs : CallRecover(w, t)
  PROVE  TypeOK'
<1>1. ASSUME NEW t \in Txs, RecoverAbstain(w, t) PROVE TypeOK'
  <2> DEFINE a == [sess[cur[t]] EXCEPT !.sm = "ABSTAIN"]
             b == [a EXCEPT !.resp = "ABSTAIN"]
  <2>1. cur[t] \in Sessions
    BY <1>1, BoundsAssumption DEF RecoverAbstain, TypeOK, Sessions
  <2>2. a \in SessionRecords
    BY <2>1, FieldTypes DEF TypeOK, LifecycleStates
  <2>3. b \in SessionRecords
    <3> HIDE DEF a
    <3>1. QED
      BY <2>2, FieldTypes
  <2>4. sess' = [sess EXCEPT ![cur[t]] = b]
    BY <1>1 DEF RecoverAbstain
  <2>5. sess' \in [Sessions -> SessionRecords]
    <3> HIDE DEF b
    <3>1. QED
      BY <2>1, <2>3, <2>4 DEF TypeOK
  <2>6. QED
    BY <1>1, <2>5 DEF RecoverAbstain, TypeOK
<1>2. ASSUME NEW t \in Txs, RecoverBegin(w, t) PROVE TypeOK'
  <2> DEFINE s == cur[t]
             a == [sess[s] EXCEPT !.sm = Engaged(@)]
             b == [a EXCEPT !.calls = @ \cup {w}]
  <2>1. s \in Sessions
    BY <1>2, BoundsAssumption DEF RecoverBegin, TypeOK, Sessions
  <2>2. Engaged(sess[s].sm) \in LifecycleStates
    BY <1>2 DEF RecoverBegin, RecoveryStates, Engaged, LifecycleStates
  <2>3. a \in SessionRecords
    BY <2>1, <2>2, FieldTypes DEF TypeOK
  <2>4. b \in SessionRecords
    <3>1. a.calls \cup {w} \in SUBSET Threads
      BY <2>3 DEF SessionRecords
    <3> HIDE DEF a
    <3>2. QED
      BY <2>3, <3>1, FieldTypes
  <2>5. sess' = [sess EXCEPT ![s] = b]
    BY <1>2 DEF RecoverBegin
  <2>6. sess' \in [Sessions -> SessionRecords]
    <3> HIDE DEF b
    <3>1. QED
      BY <2>1, <2>4, <2>5 DEF TypeOK
  <2>7. PICK req \in ClientRequests \cup {Synthesized(t, s)} :
          th' = [th EXCEPT ![w] = [pc |-> "execute", tx |-> t, s |-> s, req |-> req]]
    BY <1>2 DEF RecoverBegin, Goto
  <2>8. req \in RequestRecords
    BY <1>2, <2>1, <2>7, RequestTypes DEF RecoverBegin
  <2>9. th' \in [Threads -> ThreadRecords]
    BY <2>1, <2>7, <2>8 DEF TypeOK, ThreadRecords
  <2>10. QED
    BY <1>2, <2>6, <2>9 DEF RecoverBegin, TypeOK
<1>3. CASE Execute(w)
  BY <1>3, ExecuteStep, ExecuteRecords DEF TypeOK
<1>4. CASE RecoverEnter(w)
  <2>1. sess' \in [Sessions -> SessionRecords]
    BY <1>4, EnterStep, EnteredSession DEF TypeOK
  <2>2. th' \in [Threads -> ThreadRecords]
    BY <1>4, EnterStep DEF TypeOK, ThreadRecords
  <2>3. QED
    BY <1>4, <2>1, <2>2, EnterStep DEF TypeOK
<1>5. CASE RecoverRaise(w)
  <2>1. th[w].s \in Sessions
    BY <1>5, ExecutorHolds DEF RecoverRaise, Executing, At
  <2>2. sess[th[w].s] \in SessionRecords
        /\ sess[th[w].s].calls \ {w} \in SUBSET Threads
    BY <2>1 DEF TypeOK, SessionRecords
  <2> DEFINE a == [sess[th[w].s] EXCEPT !.calls = @ \ {w}]
  <2>3. a \in SessionRecords
    BY <2>2, FieldTypes
  <2>4. sess' = [sess EXCEPT ![th[w].s] = a]
    BY <1>5 DEF RecoverRaise
  <2>5. sess' \in [Sessions -> SessionRecords]
    <3> HIDE DEF a
    <3>1. QED
      BY <2>1, <2>3, <2>4 DEF TypeOK
  <2>6. QED
    BY <1>5, <2>5 DEF RecoverRaise, TypeOK, Return, Goto, ThreadRecords
<1>6. CASE RecoverFinish(w)
  <2> DEFINE s == th[w].s
             d == th[w].exec
             event == RecoveryEvent(d)
             repeated == sess[s].repeated \/ event \in sess[s].events
             events == sess[s].events \cup {event}
             verdict == Verdict(Netted(sess[s].bundle, d), events, repeated)
             bundle == Merge(sess[s].bundle, RecoveryEvidence(d))
             a == [sess[s] EXCEPT !.bundle = bundle]
             b == [a EXCEPT !.events = events]
             c == [b EXCEPT !.repeated = repeated]
             e == [c EXCEPT !.calls = {}]
  <2>1. s \in Sessions /\ d \in Executions
    BY <1>6, ThreadAt DEF RecoverFinish
  <2>2. sess[s] \in SessionRecords
    BY <2>1 DEF TypeOK
  <2>3. events \in SUBSET EventRecords /\ bundle \in Bundles /\ repeated \in BOOLEAN
    <3>1. sess[s].bundle \in Bundles /\ sess[s].events \in SUBSET EventRecords
          /\ sess[s].repeated \in BOOLEAN
      BY <2>2 DEF SessionRecords
    <3>2. event \in EventRecords
      BY <2>1, EventTypes
    <3>3. RecoveryEvidence(d) \in Bundles
      BY <2>1, RecoveryEvidenceType
    <3>4. QED
      BY <3>1, <3>2, <3>3, BundleTypes
  <2>4. verdict \in VerdictRecords
    BY VerdictType
  <2>5. sess' = [sess EXCEPT ![s] = Answered(e, verdict)]
    BY <1>6 DEF RecoverFinish
  <2>6. e \in SessionRecords
    <3> HIDE DEF events, bundle, repeated
    <3>1. a \in SessionRecords
      BY <2>2, <2>3, FieldTypes
    <3>2. b \in SessionRecords
      <4> HIDE DEF a
      <4> QED  BY <2>3, <3>1, FieldTypes
    <3>3. c \in SessionRecords
      <4> HIDE DEF b
      <4> QED  BY <2>3, <3>2, FieldTypes
    <3> HIDE DEF c
    <3>4. QED
      BY <3>3, FieldTypes
  <2> HIDE DEF e, verdict
  <2>7. Answered(e, verdict) \in SessionRecords
    BY <2>4, <2>6, AnsweredType
  <2>8. sess' \in [Sessions -> SessionRecords]
    BY <2>1, <2>5, <2>7 DEF TypeOK
  <2>9. QED
    BY <1>6, <2>8 DEF RecoverFinish, TypeOK, Return, Goto, ThreadRecords
<1>7. QED
  BY <1>1, <1>2, <1>3, <1>4, <1>5, <1>6 DEF Recover, CallRecover

LEMMA ResolveType ==
  ASSUME TypeOK, NEW w \in Threads, Resolve(w) \/ \E t \in Txs : CallResolve(w, t)
  PROVE  TypeOK'
<1>1. ASSUME NEW t \in Txs, ResolveExhausted(w, t) PROVE TypeOK'
  <2>1. cur[t] \in Sessions
    BY <1>1, BoundsAssumption DEF ResolveExhausted, TypeOK, Sessions
  <2>2. [sess[cur[t]] EXCEPT !.sm = "ABSTAIN"] \in SessionRecords
    BY <2>1, FieldTypes DEF TypeOK, LifecycleStates
  <2>3. sess' \in [Sessions -> SessionRecords]
    BY <1>1, <2>1, <2>2 DEF ResolveExhausted, TypeOK
  <2>4. QED
    BY <1>1, <2>3 DEF ResolveExhausted, TypeOK
<1>2. ASSUME NEW t \in Txs, ResolveBegin(w, t) PROVE TypeOK'
  <2> DEFINE s == cur[t]
             a == [sess[s] EXCEPT !.sm = "RESOLVING"]
             b == [a EXCEPT !.satt = @ + 1]
  <2>1. s \in Sessions
    BY <1>2, BoundsAssumption DEF ResolveBegin, TypeOK, Sessions
  <2>2. sess[s] \in SessionRecords
    BY <2>1 DEF TypeOK
  <2>3. a \in SessionRecords
    BY <2>2, FieldTypes DEF LifecycleStates
  <2>4. b \in SessionRecords
    <3>1. a.satt + 1 \in Nat
      BY <2>3 DEF SessionRecords
    <3> HIDE DEF a
    <3>2. QED
      BY <2>3, <3>1, FieldTypes
  <2>5. sess' = [sess EXCEPT ![s] = b]
    BY <1>2 DEF ResolveBegin
  <2>6. sess' \in [Sessions -> SessionRecords]
    <3> HIDE DEF b
    <3>1. QED
      BY <2>1, <2>4, <2>5 DEF TypeOK
  <2>7. /\ sess[s].bundle \in Bundles /\ sess[s].events \in SUBSET EventRecords
        /\ sess[s].repeated \in BOOLEAN
    BY <2>2 DEF SessionRecords
  <2>8. Diagnosis(t, s) \in {"abstain", "conflict", "fetch", "hold"}
    BY DEF Diagnosis
  <2>9. th' \in [Threads -> ThreadRecords] /\ obsAtt' \in [Txs -> Nat]
    BY <1>2, <2>1, <2>7, <2>8 DEF ResolveBegin, TypeOK, Goto, ThreadRecords
  <2>10. QED
    BY <1>2, <2>6, <2>9 DEF ResolveBegin, TypeOK
<1>3. CASE ResolveFinish(w)
  <2> DEFINE s == th[w].s
  <2>1. PICK o \in Observations(w) :
          sess' = [sess EXCEPT ![s] =
                     Answered([sess[s] EXCEPT !.bundle = o.bundle,
                                              !.events = sess[s].events \cup o.events,
                                              !.calls = {}], o.verdict)]
    BY <1>3 DEF ResolveFinish
  <2> DEFINE a == [sess[s] EXCEPT !.bundle = o.bundle]
             b == [a EXCEPT !.events = sess[s].events \cup o.events]
             c == [b EXCEPT !.calls = {}]
  <2>2. s \in Sessions
    BY <1>3, ThreadAt DEF ResolveFinish
  <2>3. /\ o.verdict \in VerdictRecords /\ o.bundle \in Bundles
        /\ o.events \subseteq EventRecords
    BY <1>3, ObservationTypes DEF ResolveFinish
  <2>4. a \in SessionRecords
    BY <2>2, <2>3, FieldTypes DEF TypeOK
  <2>5. b \in SessionRecords
    <3>1. sess[s].events \cup o.events \in SUBSET EventRecords
      BY <2>2, <2>3 DEF TypeOK, SessionRecords
    <3> HIDE DEF a
    <3>2. QED
      BY <2>4, <3>1, FieldTypes
  <2>6. c \in SessionRecords
    <3> HIDE DEF b
    <3>1. QED
      BY <2>5, FieldTypes
  <2>7. sess' = [sess EXCEPT ![s] = Answered(c, o.verdict)]
    BY <2>1
  <2> HIDE DEF c
  <2>8. sess' \in [Sessions -> SessionRecords]
    BY <2>2, <2>3, <2>6, <2>7, AnsweredType DEF TypeOK
  <2>9. QED
    BY <1>3, <2>8 DEF ResolveFinish, TypeOK, Return, Goto, ThreadRecords
<1>4. CASE ResolveRaise(w)
  BY <1>4 DEF ResolveRaise, TypeOK, Return, Goto, ThreadRecords
<1>5. QED
  BY <1>1, <1>2, <1>3, <1>4 DEF Resolve, CallResolve

LEMMA EnvironmentType ==
  ASSUME TypeOK, Environment
  PROVE  TypeOK'
<1>1. ASSUME NEW p \in Payments, Pay(p) PROVE TypeOK'
  <2>1. PICK s \in Sessions, c \in Charges :
          gw' = [gw EXCEPT ![p] = [order |-> s, amount |-> c.amount,
                                   captured |-> c.captured, items |-> c.items,
                                   late |-> expired]]
    BY <1>1 DEF Pay
  <2>2. /\ c.amount \in Nat /\ c.captured \in BOOLEAN
        /\ c.items \in EvidenceKinds \cup {"unstated"}
    BY ChargesAssumption DEF EvidenceKinds
  <2>3. s \in 0 .. MaxSessions
    BY BoundsAssumption DEF Sessions
  <2>4. gw' \in [Payments -> PaymentRecords]
    BY <2>1, <2>2, <2>3 DEF TypeOK, PaymentRecords
  <2>5. QED
    BY <1>1, <2>4 DEF Pay, TypeOK
<1>2. CASE Expire
  BY <1>2 DEF Expire, TypeOK
<1>3. ASSUME NEW t \in Txs, Kill(t) \/ Resume(t) PROVE TypeOK'
  BY <1>3 DEF Kill, Resume, TypeOK, SafetyStates
<1>4. QED
  BY <1>1, <1>2, <1>3 DEF Environment

LEMMA InitType == Init => TypeOK
<1> SUFFICES ASSUME Init PROVE TypeOK
  OBVIOUS
<1>1. NoSession \in SessionRecords
  BY DEF NoSession, NoEvidence, SessionRecords, Bundles
<1>2. 0 \in 0 .. MaxSessions
  BY BoundsAssumption
<1>3. NoPayment \in PaymentRecords
  BY <1>2 DEF NoPayment, PaymentRecords
<1>4. QED
  BY <1>1, <1>2, <1>3 DEF Init, TypeOK, SafetyStates, ThreadRecords

\* Whatever the calls and however they interleave, the dictionaries of the
\* services and the locals of the calls in progress keep their types.
THEOREM TypeCorrect == Spec => []TypeOK
<1>1. TypeOK /\ [Next]_vars => TypeOK'
  <2> SUFFICES ASSUME TypeOK, [Next]_vars PROVE TypeOK'
    OBVIOUS
  <2>1. ASSUME NEW w \in Threads, Continue(w) PROVE TypeOK'
    <3>1. CASE Create(w)
      <4>1. th[w].tx \in Txs
        BY <3>1, ThreadAt DEF Create, CreateOrder, CreateFail
      <4>2. QED
        BY <3>1, <4>1, CreateType
    <3>2. QED
      BY <2>1, <3>1, CompleteType, RecoverType, ResolveType DEF Continue
  <2>2. ASSUME NEW w \in Threads, NEW t \in Txs, Call(w, t) PROVE TypeOK'
    BY <2>2, CreateType, CompleteType, RecoverType, ResolveType DEF Call
  <2>3. CASE UNCHANGED vars
    BY <2>3 DEF vars, TypeOK
  <2>4. QED
    BY <2>1, <2>2, <2>3, EnvironmentType DEF Next
<1>2. QED
  BY <1>1, InitType, PTL DEF Spec

-----------------------------------------------------------------------------
(***************************************************************************)
(* The recovery budget.  A call begins while two attempts of its session's *)
(* budget are left, and holds its place among the recoveries under way     *)
(* until the session counts it, whatever the executor's dictionaries have  *)
(* lost in between.                                                        *)
(***************************************************************************)

UnderWay(s) == {w \in Threads : Executing(w) /\ th[w].s = s}

LEMMA UnderWayFinite ==
  ASSUME NEW s \in Sessions
  PROVE  /\ IsFiniteSet(UnderWay(s)) /\ Cardinality(UnderWay(s)) \in Nat
         /\ Cardinality(UnderWay(s)) <= Cardinality(Threads)
         /\ Cardinality(Threads) \in Nat
<1>1. UnderWay(s) \subseteq Threads
  BY DEF UnderWay
<1>2. QED
  BY <1>1, ThreadsAssumption, FS_Subset, FS_CardinalityType

\* Of a session that gains no recovery nothing is to be shown.
LEMMA BoundKept ==
  ASSUME TypeOK, TypeOK', ExecutionsBounded, NEW s \in Sessions,
         sess'[s].ratt <= sess[s].ratt, UnderWay(s)' \subseteq UnderWay(s)
  PROVE  LET recoveries == sess'[s].ratt + Cardinality(UnderWay(s)')
         IN  recoveries > 0 => recoveries <= MaxRecovery + Cardinality(Threads) - 2
<1>1. Cardinality(UnderWay(s)') <= Cardinality(UnderWay(s)) /\ IsFiniteSet(UnderWay(s)')
  BY UnderWayFinite, FS_Subset
<1>2. Cardinality(UnderWay(s)') \in Nat
  BY <1>1, FS_CardinalityType
<1>3. sess[s].ratt \in Nat /\ sess'[s].ratt \in Nat
  BY DEF TypeOK, SessionRecords
<1>4. LET recoveries == sess[s].ratt + Cardinality(UnderWay(s))
      IN  recoveries > 0 => recoveries <= MaxRecovery + Cardinality(Threads) - 2
  BY DEF ExecutionsBounded, UnderWay
<1>5. QED
  BY <1>1, <1>2, <1>3, <1>4, UnderWayFinite, BoundsAssumption

\* What a step keeps that brings no session closer to its budget.
Steady ==
  \A s \in Sessions : sess'[s].ratt <= sess[s].ratt /\ UnderWay(s)' \subseteq UnderWay(s)

LEMMA AnsweredRatt ==
  ASSUME NEW x \in SessionRecords, NEW verdict
  PROVE  Answered(x, verdict).ratt = x.ratt
BY DEF Answered, SessionRecords

\* A thread that is not in the executor after its step, or was there already
\* for the same session, is under way nowhere anew.
LEMMA UnderWayKept ==
  ASSUME TypeOK, NEW w \in Threads, NEW local, th' = [th EXCEPT ![w] = local],
         \/ local.pc \notin {"execute", "budget", "count", "record", "executed"}
         \/ Executing(w) /\ local.s = th[w].s
  PROVE  \A s \in Sessions : UnderWay(s)' \subseteq UnderWay(s)
BY DEF UnderWay, Executing, TypeOK

\* A step that changes one session and none of its counted attempts.
LEMMA RattKept ==
  ASSUME TypeOK, NEW s \in Sessions, NEW x, sess' = [sess EXCEPT ![s] = x],
         x.ratt <= sess[s].ratt
  PROVE  \A r \in Sessions : sess'[r].ratt <= sess[r].ratt
BY DEF TypeOK, SessionRecords

LEMMA UnchangedSessions ==
  ASSUME TypeOK, sess' = sess
  PROVE  \A r \in Sessions : sess'[r].ratt <= sess[r].ratt
BY DEF TypeOK, SessionRecords

LEMMA CallsSteady ==
  ASSUME TypeOK, NEW w \in Threads, NEW t \in Txs, Call(w, t), ~RecoverBegin(w, t)
  PROVE  Steady
<1>1. CASE CreateBegin(w, t)
  BY <1>1, UnderWayKept, UnchangedSessions DEF CreateBegin, Goto, Steady
<1>2. ASSUME NEW p \in Payments, CompleteBegin(w, t, p) PROVE Steady
  <2>1. cur[t] \in Sessions
    BY <1>2, BoundsAssumption DEF CompleteBegin, TypeOK, Sessions
  <2>2. [sess[cur[t]] EXCEPT !.sm = "OBSERVING"].ratt <= sess[cur[t]].ratt
    BY <2>1 DEF TypeOK, SessionRecords
  <2>3. \A s \in Sessions : UnderWay(s)' \subseteq UnderWay(s)
    BY <1>2, UnderWayKept DEF CompleteBegin, Goto
  <2>4. QED
    BY <1>2, <2>1, <2>2, <2>3, RattKept DEF CompleteBegin, Steady
<1>3. CASE RecoverAbstain(w, t)
  <2>1. cur[t] \in Sessions
    BY <1>3, BoundsAssumption DEF RecoverAbstain, TypeOK, Sessions
  <2> DEFINE a == [sess[cur[t]] EXCEPT !.sm = "ABSTAIN"]
             b == [a EXCEPT !.resp = "ABSTAIN"]
  <2>2. b.ratt <= sess[cur[t]].ratt
    BY <2>1 DEF TypeOK, SessionRecords
  <2>3. sess' = [sess EXCEPT ![cur[t]] = b]
    BY <1>3 DEF RecoverAbstain
  <2> HIDE DEF b
  <2>4. QED
    BY <1>3, <2>1, <2>2, <2>3, RattKept DEF RecoverAbstain, Steady, UnderWay, Executing
<1>4. CASE ResolveExhausted(w, t)
  <2>1. cur[t] \in Sessions
    BY <1>4, BoundsAssumption DEF ResolveExhausted, TypeOK, Sessions
  <2>2. [sess[cur[t]] EXCEPT !.sm = "ABSTAIN"].ratt <= sess[cur[t]].ratt
    BY <2>1 DEF TypeOK, SessionRecords
  <2>3. QED
    BY <1>4, <2>1, <2>2, RattKept DEF ResolveExhausted, Steady, UnderWay, Executing
<1>5. CASE ResolveBegin(w, t)
  <2>1. cur[t] \in Sessions
    BY <1>5, BoundsAssumption DEF ResolveBegin, TypeOK, Sessions
  <2> DEFINE a == [sess[cur[t]] EXCEPT !.sm = "RESOLVING"]
             b == [a EXCEPT !.satt = @ + 1]
  <2>2. b.ratt <= sess[cur[t]].ratt /\ sess' = [sess EXCEPT ![cur[t]] = b]
    BY <1>5, <2>1 DEF ResolveBegin, TypeOK, SessionRecords
  <2> HIDE DEF b
  <2>3. \A r \in Sessions : sess'[r].ratt <= sess[r].ratt
    BY <2>1, <2>2, RattKept
  <2>4. CASE obsAtt[t] < MaxResolution
    BY <1>5, <2>3, <2>4, UnderWayKept DEF ResolveBegin, Goto, Steady
  <2>5. CASE ~(obsAtt[t] < MaxResolution)
    BY <1>5, <2>3, <2>5 DEF ResolveBegin, Steady, UnderWay, Executing
  <2>6. QED
    BY <2>4, <2>5
<1>6. QED
  BY <1>1, <1>2, <1>3, <1>4, <1>5 DEF Call, CallRecover, CallResolve

LEMMA ContinueSteady ==
  ASSUME TypeOK, NEW w \in Threads, Continue(w), ~RecoverEnter(w)
  PROVE  Steady
<1>1. CASE CreateOrder(w)
  <2>1. PICK s \in Sessions : sess' = [sess EXCEPT ![s] = NewSession(th[w].tx, th[w].late)]
    BY <1>1 DEF CreateOrder
  <2>2. NewSession(th[w].tx, th[w].late).ratt <= sess[s].ratt
    BY DEF NewSession, NoSession, TypeOK, SessionRecords
  <2>3. QED
    BY <1>1, <2>1, <2>2, RattKept, UnderWayKept DEF CreateOrder, Return, Goto, Idle, Steady
<1>2. CASE CreateFail(w) \/ ResolveRaise(w)
  BY <1>2, UnderWayKept, UnchangedSessions DEF CreateFail, ResolveRaise, Return, Goto, Idle, Steady
<1>3. CASE CompleteUnresolved(w)
  <2>1. th[w].s \in Sessions
    BY <1>3, ThreadAt DEF CompleteUnresolved
  <2> DEFINE a == [sess[th[w].s] EXCEPT !.sm = "UNKNOWN"]
             b == [a EXCEPT !.status = "UNKNOWN"]
             c == [b EXCEPT !.resp = "UNKNOWN"]
  <2>2. sess' = [sess EXCEPT ![th[w].s] = c]
    BY <1>3 DEF CompleteUnresolved
  <2>3. c.ratt <= sess[th[w].s].ratt
    BY <2>1 DEF TypeOK, SessionRecords
  <2> HIDE DEF c
  <2>4. QED
    BY <1>3, <2>1, <2>2, <2>3, RattKept, UnderWayKept
       DEF CompleteUnresolved, Return, Goto, Idle, Steady
<1>4. CASE CompleteObserve(w)
  <2> DEFINE bundle == ObservedAtCompletion(th[w].pay)
             events == {OrderEvent(th[w].s), PaymentEvent("pay", th[w].pay)}
  <2>1. th[w].s \in Sessions
    BY <1>4, ThreadAt DEF CompleteObserve
  <2>2. sess' = [sess EXCEPT ![th[w].s] = [sess[th[w].s] EXCEPT !.sm = "VERIFYING",
                               !.bundle = bundle, !.events = events]]
    BY <1>4 DEF CompleteObserve
  <2>3. \A s \in Sessions : UnderWay(s)' \subseteq UnderWay(s)
    BY <1>4, UnderWayKept DEF CompleteObserve, Goto
  <2> HIDE DEF bundle, events
  <2>4. [sess[th[w].s] EXCEPT !.sm = "VERIFYING", !.bundle = bundle,
                              !.events = events].ratt <= sess[th[w].s].ratt
    BY <2>1 DEF TypeOK, SessionRecords
  <2>5. QED
    BY <2>1, <2>2, <2>3, <2>4, RattKept DEF Steady
<1>5. CASE CompleteEnforce(w)
  <2> DEFINE verdict == BoundVerdict(th[w].verdict, th[w].valid)
  <2>1. th[w].s \in Sessions /\ sess[th[w].s] \in SessionRecords
    BY <1>5, ThreadAt DEF CompleteEnforce, TypeOK
  <2>2. sess' = [sess EXCEPT ![th[w].s] = Answered(sess[th[w].s], verdict)]
    BY <1>5 DEF CompleteEnforce
  <2> HIDE DEF verdict
  <2>3. Answered(sess[th[w].s], verdict).ratt <= sess[th[w].s].ratt
    BY <2>1, AnsweredRatt DEF SessionRecords
  <2>4. QED
    BY <1>5, <2>1, <2>2, <2>3, RattKept, UnderWayKept
       DEF CompleteEnforce, Return, Goto, Idle, Steady
<1>6. CASE Execute(w)
  <2>1. PICK local \in ThreadRecords : /\ th' = [th EXCEPT ![w] = local]
                                       /\ local.s = th[w].s
    BY <1>6, ExecuteStep
  <2>2. QED
    BY <1>6, <2>1, ExecuteStep, UnderWayKept, UnchangedSessions DEF Steady
<1>7. CASE RecoverRaise(w)
  <2>1. th[w].s \in Sessions
    BY <1>7, ExecutorHolds DEF RecoverRaise, Executing, At
  <2>2. [sess[th[w].s] EXCEPT !.calls = @ \ {w}].ratt <= sess[th[w].s].ratt
    BY <2>1 DEF TypeOK, SessionRecords
  <2>3. QED
    BY <1>7, <2>1, <2>2, RattKept, UnderWayKept DEF RecoverRaise, Return, Goto, Idle, Steady
<1>8. CASE RecoverFinish(w)
  <2> DEFINE d == th[w].exec
             event == RecoveryEvent(d)
             repeated == sess[th[w].s].repeated \/ event \in sess[th[w].s].events
             events == sess[th[w].s].events \cup {event}
             verdict == Verdict(Netted(sess[th[w].s].bundle, d), events, repeated)
             bundle == Merge(sess[th[w].s].bundle, RecoveryEvidence(d))
             x == [sess[th[w].s] EXCEPT !.bundle = bundle, !.events = events,
                                        !.repeated = repeated, !.calls = {}]
  <2>1. th[w].s \in Sessions /\ d \in Executions
    BY <1>8, ThreadAt DEF RecoverFinish
  <2>2. sess' = [sess EXCEPT ![th[w].s] = Answered(x, verdict)]
    BY <1>8 DEF RecoverFinish
  <2>3. x \in SessionRecords /\ x.ratt = sess[th[w].s].ratt
    <3>1. sess[th[w].s] \in SessionRecords
      BY <2>1 DEF TypeOK
    <3>2. sess[th[w].s].bundle \in Bundles /\ RecoveryEvidence(d) \in Bundles
      BY <2>1, <3>1, RecoveryEvidenceType DEF SessionRecords
    <3>3. bundle \in Bundles /\ events \subseteq EventRecords /\ repeated \in BOOLEAN
      BY <2>1, <3>1, <3>2, BundleTypes, EventTypes DEF SessionRecords
    <3> HIDE DEF bundle, events, repeated
    <3>4. QED
      BY <3>1, <3>3 DEF SessionRecords
  <2> HIDE DEF x, verdict
  <2>4. Answered(x, verdict).ratt <= sess[th[w].s].ratt
    BY <2>1, <2>3, AnsweredRatt DEF TypeOK, SessionRecords
  <2>5. QED
    BY <1>8, <2>1, <2>2, <2>4, RattKept, UnderWayKept
       DEF RecoverFinish, Return, Goto, Idle, Steady
<1>9. CASE ResolveFinish(w)
  <2>1. PICK o \in Observations(w) :
          sess' = [sess EXCEPT ![th[w].s] =
                     Answered([sess[th[w].s] EXCEPT !.bundle = o.bundle,
                                !.events = sess[th[w].s].events \cup o.events,
                                !.calls = {}], o.verdict)]
    BY <1>9 DEF ResolveFinish
  <2> DEFINE x == [sess[th[w].s] EXCEPT !.bundle = o.bundle,
                                        !.events = sess[th[w].s].events \cup o.events,
                                        !.calls = {}]
  <2>2. th[w].s \in Sessions /\ sess[th[w].s] \in SessionRecords
    BY <1>9, ThreadAt DEF ResolveFinish, TypeOK
  <2>3. o.bundle \in Bundles /\ o.events \subseteq EventRecords
    BY <1>9, ObservationTypes DEF ResolveFinish
  <2>4. x \in SessionRecords /\ x.ratt = sess[th[w].s].ratt
    BY <2>2, <2>3 DEF SessionRecords
  <2>5. sess' = [sess EXCEPT ![th[w].s] = Answered(x, o.verdict)]
    BY <2>1
  <2> HIDE DEF x
  <2>6. Answered(x, o.verdict).ratt <= sess[th[w].s].ratt
    BY <2>2, <2>4, AnsweredRatt DEF SessionRecords
  <2>7. QED
    BY <1>9, <2>2, <2>5, <2>6, RattKept, UnderWayKept
       DEF ResolveFinish, Return, Goto, Idle, Steady
<1>10. QED
  BY <1>1, <1>2, <1>3, <1>4, <1>5, <1>6, <1>7, <1>8, <1>9
     DEF Continue, Create, Complete, Recover, Resolve

\* The call that begins is one more under way: at most all threads are.
LEMMA BeginBounded ==
  ASSUME TypeOK, TypeOK', ExecutionsBounded, NEW w \in Threads, NEW t \in Txs,
         RecoverBegin(w, t)
  PROVE  ExecutionsBounded'
<1>1. cur[t] \in Sessions
  BY BoundsAssumption DEF RecoverBegin, TypeOK, Sessions
<1>2. PICK s \in Sessions : s = cur[t]
  BY <1>1
<1>3. sess[s] \in SessionRecords /\ sess[s].ratt \in Nat /\ sess[s].ratt + 1 < MaxRecovery
  BY <1>2 DEF RecoverBegin, Recoverable, TypeOK, SessionRecords
<1>4. \A r \in Sessions : sess'[r].ratt = sess[r].ratt
  <2> DEFINE a == [sess[s] EXCEPT !.sm = Engaged(@)]
             b == [a EXCEPT !.calls = @ \cup {w}]
  <2>1. sess' = [sess EXCEPT ![s] = b]
    BY <1>2 DEF RecoverBegin
  <2>2. b.ratt = sess[s].ratt
    BY <1>3 DEF SessionRecords
  <2> HIDE DEF b
  <2>3. QED
    BY <2>1, <2>2 DEF TypeOK
<1>5. PICK req : th' = [th EXCEPT ![w] = [pc |-> "execute", tx |-> t, s |-> s, req |-> req]]
  BY <1>2 DEF RecoverBegin, Goto
<1>6. ASSUME NEW r \in Sessions, r # s
      PROVE  UnderWay(r)' \subseteq UnderWay(r)
  BY <1>5, <1>6 DEF UnderWay, Executing, TypeOK
<1>7. ASSUME NEW r \in Sessions
      PROVE  LET recoveries == sess'[r].ratt + Cardinality(UnderWay(r)')
             IN  recoveries > 0 => recoveries <= MaxRecovery + Cardinality(Threads) - 2
  <2>1. CASE r = s
    <3>1. UnderWay(r)' \subseteq Threads
      BY DEF UnderWay
    <3>2. Cardinality(UnderWay(r)') <= Cardinality(Threads)
          /\ Cardinality(UnderWay(r)') \in Nat /\ Cardinality(Threads) \in Nat
      BY <3>1, ThreadsAssumption, FS_Subset, FS_CardinalityType
    <3>3. sess'[r].ratt \in Nat /\ sess'[r].ratt + 1 < MaxRecovery
      BY <1>3, <1>4, <2>1
    <3>4. QED
      BY <3>2, <3>3, BoundsAssumption
  <2>2. CASE r # s
    <3>1. sess'[r].ratt <= sess[r].ratt
      BY <1>4 DEF TypeOK, SessionRecords
    <3>2. QED
      BY <1>6, <2>2, <3>1, BoundKept
  <2>3. QED
    BY <2>1, <2>2
<1>8. QED
  BY <1>7 DEF ExecutionsBounded, UnderWay

\* The session counts a call that is under way no more.
LEMMA EnterBounded ==
  ASSUME TypeOK, TypeOK', ExecutionsBounded, NEW w \in Threads, RecoverEnter(w)
  PROVE  ExecutionsBounded'
<1>1. PICK s \in Sessions : s = th[w].s
  BY EnterStep
<1>2. Executing(w) /\ sess[s].ratt \in Nat
  BY EnterStep DEF TypeOK, SessionRecords
<1>3. /\ sess'[s].ratt = sess[s].ratt + 1
      /\ \A r \in Sessions : r # s => sess'[r].ratt = sess[r].ratt
  BY <1>1, EnterStep, EnteredSession DEF TypeOK
<1>4. th'[w].pc \in {"idle", "revalidate"} /\ \A v \in Threads : v # w => th'[v] = th[v]
  BY EnterStep DEF Idle, TypeOK
<1>5. UnderWay(s)' = UnderWay(s) \ {w} /\ w \in UnderWay(s)
  BY <1>1, <1>2, <1>4 DEF UnderWay, Executing
<1>6. \A r \in Sessions : UnderWay(r)' \subseteq UnderWay(r)
  BY <1>4 DEF UnderWay, Executing
<1>7. ASSUME NEW r \in Sessions
      PROVE  LET recoveries == sess'[r].ratt + Cardinality(UnderWay(r)')
             IN  recoveries > 0 => recoveries <= MaxRecovery + Cardinality(Threads) - 2
  <2>1. CASE r = s
    <3>1. Cardinality(UnderWay(s)') = Cardinality(UnderWay(s)) - 1
      BY <1>5, UnderWayFinite, FS_RemoveElement
    <3>2. LET recoveries == sess[s].ratt + Cardinality(UnderWay(s))
          IN  recoveries > 0 => recoveries <= MaxRecovery + Cardinality(Threads) - 2
      BY DEF ExecutionsBounded, UnderWay
    <3>3. sess'[s].ratt + Cardinality(UnderWay(s)') = sess[s].ratt + Cardinality(UnderWay(s))
      BY <1>2, <1>3, <3>1, UnderWayFinite
    <3>4. QED
      BY <2>1, <3>2, <3>3
  <2>2. CASE r # s
    <3>1. sess'[r].ratt <= sess[r].ratt
      BY <1>3, <2>2 DEF TypeOK, SessionRecords
    <3>2. QED
      BY <1>6, <3>1, BoundKept
  <2>3. QED
    BY <2>1, <2>2
<1>8. QED
  BY <1>7 DEF ExecutionsBounded, UnderWay

(***************************************************************************)
(* The recoveries a session has counted and those under way for it stay    *)
(* within MAX_RECOVERY_ATTEMPTS and the number of threads, however the     *)
(* executor's reads and writes interleave, whatever keys the calls bring   *)
(* and however often the intent is created anew.                           *)
(***************************************************************************)
THEOREM ExecutionsWithinBudget == Spec => []ExecutionsBounded
<1>1. Init => ExecutionsBounded
  <2> SUFFICES ASSUME Init, NEW s \in Sessions
               PROVE  LET recoveries == sess[s].ratt + Cardinality(UnderWay(s))
                      IN  recoveries > 0 =>
                            recoveries <= MaxRecovery + Cardinality(Threads) - 2
    BY DEF ExecutionsBounded, UnderWay
  <2>1. sess[s].ratt = 0 /\ UnderWay(s) = {}
    BY DEF Init, NoSession, UnderWay, Executing, Idle
  <2>2. QED
    BY <2>1, FS_EmptySet
<1>2. TypeOK /\ TypeOK' /\ ExecutionsBounded /\ [Next]_vars => ExecutionsBounded'
  <2> SUFFICES ASSUME TypeOK, TypeOK', ExecutionsBounded, [Next]_vars
               PROVE  ExecutionsBounded'
    OBVIOUS
  <2>1. ASSUME Steady PROVE ExecutionsBounded'
    <3>1. \A s \in Sessions :
            LET recoveries == sess'[s].ratt + Cardinality(UnderWay(s)')
            IN  recoveries > 0 => recoveries <= MaxRecovery + Cardinality(Threads) - 2
      BY <2>1, BoundKept DEF Steady
    <3>2. QED
      BY <3>1 DEF ExecutionsBounded, UnderWay
  <2>2. ASSUME NEW w \in Threads, Continue(w) PROVE ExecutionsBounded'
    BY <2>1, <2>2, ContinueSteady, EnterBounded
  <2>3. ASSUME NEW w \in Threads, NEW t \in Txs, Call(w, t) PROVE ExecutionsBounded'
    BY <2>1, <2>3, CallsSteady, BeginBounded
  <2>4. CASE Environment \/ UNCHANGED vars
    <3>1. UNCHANGED <<sess, th>>
      BY <2>4 DEF Environment, Pay, Expire, Kill, Resume, vars
    <3>2. Steady
      BY <3>1, UnchangedSessions DEF Steady, UnderWay, Executing
    <3>3. QED
      BY <2>1, <3>2
  <2>5. QED
    BY <2>2, <2>3, <2>4 DEF Next
<1>3. QED
  BY <1>1, <1>2, TypeCorrect, PTL DEF Spec

-----------------------------------------------------------------------------
(***************************************************************************)
(* The payment binding.  A thread in a completion holds a session of its   *)
(* transaction; one that found the binding valid holds a payment whose     *)
(* order is that session's, and neither the order of a payment nor the     *)
(* owner of a session ever changes.                                        *)
(***************************************************************************)

Completing(w) == At(w, "observe") \/ At(w, "enforce")

Owned ==
  /\ \A t \in Txs : cur[t] # 0 => Used(cur[t]) /\ sess[cur[t]].owner = t
  /\ \A p \in Payments : Paid(p) => Used(gw[p].order)
  /\ \A w \in Threads : Completing(w) =>
       Used(th[w].s) /\ sess[th[w].s].owner = th[w].tx
  /\ \A w \in Threads : At(w, "enforce") /\ th[w].valid =>
       Paid(th[w].pay) /\ gw[th[w].pay].order = th[w].s
  /\ ConsumedByOwner

\* A session in use stays in use, of the same owner.
SessionsKept ==
  \A s \in Sessions : Used(s) => Used(s)' /\ sess'[s].owner = sess[s].owner

\* No thread enters or moves on within a completion.
NoneCompleting ==
  \A w \in Threads : th'[w] = th[w] \/ th'[w].pc \notin {"observe", "enforce"}

LEMMA SessionOfPayment ==
  ASSUME TypeOK, NEW p \in Payments, Paid(p)
  PROVE  gw[p].order \in Sessions
BY BoundsAssumption DEF TypeOK, PaymentRecords, Paid, Sessions

LEMMA CurrentSession ==
  ASSUME TypeOK, NEW t \in Txs, cur[t] # 0
  PROVE  cur[t] \in Sessions
BY BoundsAssumption DEF TypeOK, Sessions

\* Writing one session, in use before and after, and of the same owner.
LEMMA OneSessionKept ==
  ASSUME TypeOK, NEW s \in Sessions, NEW x, sess' = [sess EXCEPT ![s] = x],
         x.owner = sess[s].owner, x.sm # "ABSENT" \/ x.sm = sess[s].sm
  PROVE  SessionsKept
BY DEF SessionsKept, Used, TypeOK

LEMMA AnsweredKept ==
  ASSUME NEW x \in SessionRecords, NEW verdict \in VerdictRecords
  PROVE  Answered(x, verdict).owner = x.owner /\ Answered(x, verdict).sm # "ABSENT"
BY DEF Answered, SessionRecords, VerdictRecords, Verdicts

\* What a step does to the binding, when it keeps the sessions and the gateway:
\* threads hold what they should, and every consumption is the owner's.
LEMMA OwnedStep ==
  ASSUME TypeOK, Owned, SessionsKept, UNCHANGED <<cur, gw>>,
         \A w \in Threads : Completing(w)' =>
           Used(th[w].s)' /\ sess'[th'[w].s].owner = th'[w].tx,
         \A w \in Threads : At(w, "enforce")' /\ th'[w].valid =>
           Paid(th'[w].pay) /\ gw[th'[w].pay].order = th'[w].s,
         \A p \in Payments : payTx'[p] # NoTx =>
           Paid(p) /\ sess[gw[p].order].owner = payTx'[p]
  PROVE  Owned'
<1>1. \A t \in Txs : cur'[t] # 0 => Used(cur[t])' /\ sess'[cur'[t]].owner = t
  BY CurrentSession DEF Owned, SessionsKept, Used
<1>2. \A p \in Payments : Paid(p) =>
        Used(gw[p].order)' /\ sess'[gw[p].order].owner = sess[gw[p].order].owner
  BY SessionOfPayment DEF Owned, SessionsKept, Used
<1>3. \A p \in Payments : Paid(p)' => Used(gw[p].order)'
  BY <1>2 DEF Paid
<1>4. ConsumedByOwner'
  BY <1>2 DEF ConsumedByOwner, Paid
<1>5. QED
  BY <1>1, <1>3, <1>4 DEF Owned, Paid

\* A thread that stays where it is goes on to hold its session.
LEMMA StillHolds ==
  ASSUME TypeOK, Owned, SessionsKept, NEW w \in Threads, th'[w] = th[w], Completing(w)'
  PROVE  /\ Used(th[w].s)' /\ sess'[th'[w].s].owner = th'[w].tx
         /\ At(w, "enforce")' /\ th'[w].valid =>
              Paid(th'[w].pay) /\ gw[th'[w].pay].order = th'[w].s
<1>1. Completing(w) /\ th[w].s \in Sessions
  BY ThreadAt DEF Completing, At
<1>2. QED
  BY <1>1 DEF Owned, SessionsKept, Used, At

\* A completion ends, with or without a consumption.
LEMMA OwnedConsumed ==
  ASSUME TypeOK, Owned, SessionsKept, NoneCompleting, UNCHANGED <<cur, gw>>,
         \A p \in Payments : payTx'[p] # NoTx =>
           Paid(p) /\ sess[gw[p].order].owner = payTx'[p]
  PROVE  Owned'
<1>1. \A w \in Threads : Completing(w)' => th'[w] = th[w]
  BY DEF NoneCompleting, Completing, At
<1>2. \A w \in Threads : Completing(w)' =>
        Used(th[w].s)' /\ sess'[th'[w].s].owner = th'[w].tx
  BY <1>1, StillHolds
<1>3. \A w \in Threads : At(w, "enforce")' /\ th'[w].valid =>
        Paid(th'[w].pay) /\ gw[th'[w].pay].order = th'[w].s
  BY <1>1, StillHolds DEF Completing
<1>4. QED
  BY <1>2, <1>3, OwnedStep

\* What keeps the sessions and leaves the rest alone keeps the binding.
LEMMA OwnedKept ==
  ASSUME TypeOK, Owned, SessionsKept, NoneCompleting, UNCHANGED <<cur, gw, payTx>>
  PROVE  Owned'
BY OwnedConsumed DEF Owned, ConsumedByOwner

\* A completion begins or moves on.
LEMMA OwnedMoved ==
  ASSUME TypeOK, Owned, SessionsKept, UNCHANGED <<cur, gw, payTx>>, NEW w \in Threads,
         th'[w].s \in Sessions, Used(th'[w].s), sess[th'[w].s].owner = th'[w].tx,
         th'[w].pc = "enforce" /\ th'[w].valid =>
           Paid(th'[w].pay) /\ gw[th'[w].pay].order = th'[w].s,
         \A v \in Threads : v # w => th'[v] = th[v]
  PROVE  Owned'
<1>1. Used(th[w].s)' /\ sess'[th'[w].s].owner = th'[w].tx
  BY DEF SessionsKept, Used
<1>2. \A v \in Threads : Completing(v)' =>
        Used(th[v].s)' /\ sess'[th'[v].s].owner = th'[v].tx
  BY <1>1, StillHolds
<1>3. \A v \in Threads : At(v, "enforce")' /\ th'[v].valid =>
        Paid(th'[v].pay) /\ gw[th'[v].pay].order = th'[v].s
  BY StillHolds DEF Completing, At
<1>4. QED
  BY <1>2, <1>3, OwnedStep DEF Owned, ConsumedByOwner

LEMMA RecoverOwned ==
  ASSUME TypeOK, Owned, NEW w \in Threads, Recover(w) \/ \E t \in Txs : CallRecover(w, t)
  PROVE  SessionsKept /\ Owned'
<1>1. UNCHANGED <<cur, gw, payTx>> /\ NoneCompleting
  <2>1. Execute(w) => NoneCompleting
    BY ExecuteStep DEF NoneCompleting, TypeOK
  <2>2. RecoverEnter(w) => NoneCompleting
    BY EnterStep DEF Idle, NoneCompleting, TypeOK
  <2>3. RecoverRaise(w) \/ RecoverFinish(w) => NoneCompleting
    BY DEF RecoverRaise, RecoverFinish, Return, Goto, Idle, NoneCompleting, TypeOK
  <2>4. \A t \in Txs : CallRecover(w, t) => NoneCompleting
    BY DEF CallRecover, RecoverBegin, RecoverAbstain, Goto, NoneCompleting, TypeOK
  <2>5. Execute(w) \/ RecoverEnter(w) => UNCHANGED <<cur, gw, payTx>>
    BY ExecuteStep, EnterStep
  <2>6. QED
    BY <2>1, <2>2, <2>3, <2>4, <2>5 DEF Recover, CallRecover, RecoverRaise, RecoverFinish,
       RecoverBegin, RecoverAbstain
<1>2. SessionsKept
  <2>1. CASE Execute(w)
    BY <2>1, ExecuteStep DEF SessionsKept, Used
  <2>2. CASE RecoverEnter(w)
    BY <2>2, EnterStep, EnteredSession DEF SessionsKept, Used, TypeOK
  <2>3. CASE RecoverRaise(w)
    <3>1. th[w].s \in Sessions
      BY <2>3, ExecutorHolds DEF RecoverRaise, Executing, At
    <3>2. sess[th[w].s] \in SessionRecords
      BY <3>1 DEF TypeOK
    <3>3. \A r \in Sessions : /\ sess'[r].owner = sess[r].owner
                              /\ sess'[r].sm = sess[r].sm
      BY <2>3, <3>1, <3>2 DEF RecoverRaise, TypeOK, SessionRecords
    <3>4. QED
      BY <3>3 DEF SessionsKept, Used
  <2>4. CASE RecoverFinish(w)
    <3>1. th[w].s \in Sessions
      BY <2>4, ThreadAt DEF RecoverFinish
    <3> DEFINE s == th[w].s
               event == RecoveryEvent(th[w].exec)
               repeated == sess[s].repeated \/ event \in sess[s].events
               events == sess[s].events \cup {event}
               bundle == Merge(sess[s].bundle, RecoveryEvidence(th[w].exec))
               verdict == Verdict(Netted(sess[s].bundle, th[w].exec), events, repeated)
               x == [sess[s] EXCEPT !.bundle = bundle, !.events = events,
                                    !.repeated = repeated, !.calls = {}]
    <3>2. sess' = [sess EXCEPT ![s] = Answered(x, verdict)]
      BY <2>4 DEF RecoverFinish
    <3>3. verdict \in VerdictRecords
      BY VerdictType
    <3> HIDE DEF event, repeated, events, bundle, verdict
    <3>4. Answered(x, verdict).owner = sess[s].owner
          /\ Answered(x, verdict).sm # "ABSENT"
      BY <3>1, <3>3
         DEF Answered, TypeOK, SessionRecords, VerdictRecords, Verdicts
    <3> HIDE DEF x
    <3>5. QED
      BY <3>1, <3>2, <3>4, OneSessionKept
  <2>5. ASSUME NEW t \in Txs, RecoverBegin(w, t) \/ RecoverAbstain(w, t)
        PROVE  SessionsKept
    <3>1. cur[t] \in Sessions
      BY <2>5, CurrentSession DEF RecoverBegin, RecoverAbstain
    <3>2. sess[cur[t]] \in SessionRecords
      BY <3>1 DEF TypeOK
    <3>3. Engaged(sess[cur[t]].sm) # "ABSENT" \/ Engaged(sess[cur[t]].sm) = sess[cur[t]].sm
      BY DEF Engaged
    <3>4. \A r \in Sessions :
            /\ sess'[r].owner = sess[r].owner
            /\ sess'[r].sm \in {sess[r].sm, "ABSTAIN", Engaged(sess[r].sm)}
      BY <2>5, <3>1, <3>2 DEF RecoverBegin, RecoverAbstain, TypeOK, SessionRecords
    <3>5. QED
      BY <3>4 DEF SessionsKept, Used, Engaged
  <2>6. QED
    BY <2>1, <2>2, <2>3, <2>4, <2>5 DEF Recover, CallRecover
<1>3. QED
  BY <1>1, <1>2, OwnedKept

LEMMA ResolveOwned ==
  ASSUME TypeOK, Owned, NEW w \in Threads, Resolve(w) \/ \E t \in Txs : CallResolve(w, t)
  PROVE  SessionsKept /\ Owned'
<1>1. UNCHANGED <<cur, gw, payTx>> /\ NoneCompleting
  <2>1. ResolveFinish(w) \/ ResolveRaise(w) => NoneCompleting
    <3>1. Return(w) => NoneCompleting
      BY DEF Return, Goto, Idle, NoneCompleting, TypeOK
    <3>2. QED
      BY <3>1 DEF ResolveFinish, ResolveRaise
  <2>2. \A t \in Txs : ResolveBegin(w, t) => NoneCompleting
    BY DEF ResolveBegin, Goto, NoneCompleting, TypeOK
  <2>3. \A t \in Txs : ResolveExhausted(w, t) => NoneCompleting
    BY DEF ResolveExhausted, NoneCompleting
  <2>4. QED
    BY <2>1, <2>2, <2>3 DEF Resolve, CallResolve, ResolveFinish, ResolveRaise,
       ResolveBegin, ResolveExhausted
<1>2. SessionsKept
  <2>1. CASE ResolveFinish(w)
    <3>1. th[w].s \in Sessions
      BY <2>1, ThreadAt DEF ResolveFinish
    <3>2. PICK o \in Observations(w) :
            sess' = [sess EXCEPT ![th[w].s] =
                       Answered([sess[th[w].s] EXCEPT
                                   !.bundle = o.bundle,
                                   !.events = sess[th[w].s].events \cup o.events,
                                   !.calls = {}], o.verdict)]
      BY <2>1 DEF ResolveFinish
    <3> DEFINE x == [sess[th[w].s] EXCEPT !.bundle = o.bundle,
                                          !.events = sess[th[w].s].events \cup o.events,
                                          !.calls = {}]
    <3>3. o.verdict \in VerdictRecords
      BY <2>1, ObservationTypes DEF ResolveFinish
    <3>4. Answered(x, o.verdict).owner = sess[th[w].s].owner
          /\ Answered(x, o.verdict).sm # "ABSENT"
      BY <3>1, <3>3 DEF Answered, TypeOK, SessionRecords, VerdictRecords, Verdicts
    <3>5. QED
      BY <3>1, <3>2, <3>4, OneSessionKept
  <2>2. CASE ResolveRaise(w)
    BY <2>2 DEF ResolveRaise, SessionsKept, Used
  <2>3. ASSUME NEW t \in Txs, ResolveBegin(w, t) \/ ResolveExhausted(w, t)
        PROVE  SessionsKept
    <3>1. cur[t] \in Sessions
      BY <2>3, CurrentSession DEF ResolveBegin, ResolveExhausted
    <3>2. sess[cur[t]] \in SessionRecords
      BY <3>1 DEF TypeOK
    <3>3. \A r \in Sessions : /\ sess'[r].owner = sess[r].owner
                              /\ sess'[r].sm \in {sess[r].sm, "ABSTAIN", "RESOLVING"}
      BY <2>3, <3>1, <3>2 DEF ResolveBegin, ResolveExhausted, TypeOK, SessionRecords
    <3>4. QED
      BY <3>3 DEF SessionsKept, Used
  <2>4. QED
    BY <2>1, <2>2, <2>3 DEF Resolve, CallResolve
<1>3. QED
  BY <1>1, <1>2, OwnedKept

LEMMA CreateOwned ==
  ASSUME TypeOK, Owned, NEW w \in Threads, NEW t \in Txs, CreateBegin(w, t) \/ Create(w)
  PROVE  SessionsKept /\ Owned'
<1>1. CASE CreateBegin(w, t) \/ CreateFail(w)
  <2>1. NoneCompleting
    BY <1>1 DEF CreateBegin, CreateFail, Return, Goto, Idle, NoneCompleting, TypeOK
  <2>2. SessionsKept /\ UNCHANGED <<cur, gw, payTx>>
    BY <1>1 DEF CreateBegin, CreateFail, SessionsKept, Used
  <2>3. QED
    BY <2>1, <2>2, OwnedKept
<1>2. CASE CreateOrder(w)
  <2>1. PICK s \in Sessions :
          /\ ~Used(s)
          /\ sess' = [sess EXCEPT ![s] = NewSession(th[w].tx, th[w].late)]
          /\ cur' = [cur EXCEPT ![th[w].tx] = s]
    BY <1>2 DEF CreateOrder, IsNext
  <2>2. UNCHANGED <<gw, payTx>> /\ NoneCompleting
    BY <1>2 DEF CreateOrder, Return, Goto, Idle, NoneCompleting, TypeOK
  <2>3. \A r \in Sessions : Used(r) => sess'[r] = sess[r] /\ Used(r)'
    BY <2>1 DEF Used, TypeOK
  <2>4. sess'[s].owner = th[w].tx /\ Used(s)'
    BY <2>1 DEF NewSession, NoSession, Used, TypeOK
  <2>5. \A u \in Txs : cur'[u] # 0 => Used(cur[u])' /\ sess'[cur[u]'].owner = u
    <3> SUFFICES ASSUME NEW u \in Txs, cur'[u] # 0
                 PROVE  Used(cur[u])' /\ sess'[cur[u]'].owner = u
      OBVIOUS
    <3>1. CASE u = th[w].tx
      BY <2>1, <2>4, <3>1 DEF TypeOK
    <3>2. CASE u # th[w].tx
      <4>1. cur'[u] = cur[u]
        BY <2>1, <3>2 DEF TypeOK
      <4>2. cur[u] \in Sessions /\ Used(cur[u]) /\ sess[cur[u]].owner = u
        BY <4>1, CurrentSession DEF Owned
      <4>3. QED
        BY <2>3, <4>1, <4>2 DEF Used
    <3>3. QED
      BY <3>1, <3>2
  <2>6. \A p \in Payments : Paid(p) =>
          Used(gw[p].order)' /\ sess'[gw[p].order] = sess[gw[p].order]
    BY <2>2, <2>3, SessionOfPayment DEF Owned, Used
  <2>7. ASSUME NEW v \in Threads, Completing(v)'
        PROVE  /\ th'[v] = th[v] /\ Completing(v) /\ th[v].s \in Sessions
               /\ Used(th[v].s) /\ sess[th[v].s].owner = th[v].tx
    BY <2>2, <2>7, ThreadAt DEF Completing, At, NoneCompleting, Owned
  <2>8. \A v \in Threads : Completing(v)' =>
          Used(th[v].s)' /\ sess'[th'[v].s].owner = th'[v].tx
    BY <2>3, <2>7 DEF Used
  <2>9. \A v \in Threads : At(v, "enforce")' /\ th'[v].valid =>
          Paid(th[v].pay)' /\ gw'[th'[v].pay].order = th'[v].s
    BY <2>2, <2>7 DEF Owned, Paid, At, Completing
  <2>10. ConsumedByOwner' /\ \A p \in Payments : Paid(p)' => Used(gw[p].order)'
    BY <2>2, <2>6 DEF Owned, ConsumedByOwner, Paid
  <2>11. SessionsKept
    BY <2>3 DEF SessionsKept
  <2>12. QED
    BY <2>5, <2>8, <2>9, <2>10, <2>11 DEF Owned
<1>3. QED
  BY <1>1, <1>2 DEF Create

LEMMA CompleteOwned ==
  ASSUME TypeOK, Owned, NEW w \in Threads,
         Complete(w) \/ \E t \in Txs, p \in Payments : CompleteBegin(w, t, p)
  PROVE  SessionsKept /\ Owned'
<1>1. ASSUME NEW t \in Txs, NEW p \in Payments, CompleteBegin(w, t, p)
      PROVE  SessionsKept /\ Owned'
  <2>1. /\ cur[t] \in Sessions /\ Used(cur[t]) /\ sess[cur[t]].owner = t
    BY <1>1, CurrentSession DEF CompleteBegin, Owned
  <2>2. \A r \in Sessions : /\ sess'[r].owner = sess[r].owner
                            /\ sess'[r].sm \in {sess[r].sm, "OBSERVING"}
    BY <1>1, <2>1 DEF CompleteBegin, TypeOK, SessionRecords
  <2>3. SessionsKept
    BY <2>2 DEF SessionsKept, Used
  <2>4. UNCHANGED <<cur, gw, payTx>>
    BY <1>1 DEF CompleteBegin
  <2>5. th'[w].s = cur[t] /\ th'[w].tx = t /\ th'[w].pc = "observe"
    BY <1>1 DEF CompleteBegin, Goto, TypeOK
  <2>6. \A v \in Threads : v # w => th'[v] = th[v]
    BY <1>1 DEF CompleteBegin, Goto, TypeOK
  <2>7. /\ th'[w].s \in Sessions /\ Used(th'[w].s)
        /\ sess[th'[w].s].owner = th'[w].tx
    BY <2>1, <2>5
  <2>8. th'[w].pc = "enforce" /\ th'[w].valid =>
          Paid(th'[w].pay) /\ gw[th'[w].pay].order = th'[w].s
    BY <2>5
  <2>9. QED
    BY <2>3, <2>4, <2>6, <2>7, <2>8, OwnedMoved
<1>2. CASE CompleteUnresolved(w)
  <2>1. th[w].s \in Sessions
    BY <1>2, ThreadAt DEF CompleteUnresolved
  <2>2. \A r \in Sessions : /\ sess'[r].owner = sess[r].owner
                            /\ sess'[r].sm \in {sess[r].sm, "UNKNOWN"}
    BY <1>2, <2>1 DEF CompleteUnresolved, TypeOK, SessionRecords
  <2>3. SessionsKept
    BY <2>2 DEF SessionsKept, Used
  <2>4. NoneCompleting /\ UNCHANGED <<cur, gw, payTx>>
    BY <1>2 DEF CompleteUnresolved, Return, Goto, Idle, NoneCompleting, TypeOK
  <2>5. QED
    BY <2>3, <2>4, OwnedKept
<1>3. CASE CompleteObserve(w)
  <2>1. /\ th[w].s \in Sessions /\ Used(th[w].s)
        /\ sess[th[w].s].owner = th[w].tx
    BY <1>3, ThreadAt DEF CompleteObserve, Owned, Completing
  <2>2. \A r \in Sessions : /\ sess'[r].owner = sess[r].owner
                            /\ sess'[r].sm \in {sess[r].sm, "VERIFYING"}
    BY <1>3, <2>1 DEF CompleteObserve, TypeOK, SessionRecords
  <2>3. SessionsKept
    BY <2>2 DEF SessionsKept, Used
  <2>4. UNCHANGED <<cur, gw, payTx>>
    BY <1>3 DEF CompleteObserve
  <2>5. /\ th'[w].s = th[w].s /\ th'[w].tx = th[w].tx /\ th'[w].pc = "enforce"
        /\ th'[w].pay = th[w].pay
        /\ th'[w].valid = BindingValid(th[w].tx, th[w].s, th[w].pay)
    BY <1>3 DEF CompleteObserve, Goto, TypeOK
  <2>6. Paid(th[w].pay)
    BY <1>3 DEF CompleteObserve
  <2>7. th'[w].valid => gw[th[w].pay].order = th[w].s
    BY <2>5 DEF BindingValid
  <2>8. \A v \in Threads : v # w => th'[v] = th[v]
    BY <1>3 DEF CompleteObserve, Goto, TypeOK
  <2>9. /\ th'[w].s \in Sessions /\ Used(th'[w].s)
        /\ sess[th'[w].s].owner = th'[w].tx
    BY <2>1, <2>5
  <2>10. th'[w].pc = "enforce" /\ th'[w].valid =>
           Paid(th'[w].pay) /\ gw[th'[w].pay].order = th'[w].s
    BY <2>5, <2>6, <2>7
  <2>11. QED
    BY <2>3, <2>4, <2>8, <2>9, <2>10, OwnedMoved
<1>4. CASE CompleteEnforce(w)
  <2> DEFINE s == th[w].s
             p == th[w].pay
             verdict == BoundVerdict(th[w].verdict, th[w].valid)
  <2>1. /\ s \in Sessions /\ p \in Payments /\ th[w].tx \in Txs
        /\ th[w].verdict \in VerdictRecords
    BY <1>4, ThreadAt DEF CompleteEnforce
  <2>2. verdict \in VerdictRecords
    BY <2>1 DEF BoundVerdict, VerdictRecords, Verdicts, Violations
  <2> HIDE DEF verdict
  <2>3. sess' = [sess EXCEPT ![s] = Answered(sess[s], verdict)]
    BY <1>4 DEF CompleteEnforce, verdict
  <2>4. SessionsKept
    BY <2>1, <2>2, <2>3, AnsweredKept, OneSessionKept DEF TypeOK
  <2>5. NoneCompleting /\ UNCHANGED <<cur, gw>>
    BY <1>4 DEF CompleteEnforce, Return, Goto, Idle, NoneCompleting, TypeOK
  <2>6. \A q \in Payments : payTx'[q] = payTx[q]
          \/ (q = p /\ th[w].valid /\ payTx'[q] = th[w].tx)
    <3> DEFINE consumes == th[w].valid /\ gw[p].captured
    <3>1. payTx' = [payTx EXCEPT ![p] = IF consumes THEN th[w].tx ELSE payTx[p]]
      BY <1>4 DEF CompleteEnforce
    <3>2. CASE consumes
      <4>1. th[w].valid
        BY <3>2
      <4> HIDE DEF consumes
      <4>2. \A q \in Payments :
              payTx'[q] = payTx[q] \/ (q = p /\ payTx'[q] = th[w].tx)
        BY <2>1, <3>1, <3>2 DEF TypeOK
      <4>3. QED
        BY <4>1, <4>2, Zenon
    <3>3. CASE ~consumes
      <4> HIDE DEF consumes
      <4>1. QED
        BY <2>1, <3>1, <3>3 DEF TypeOK
    <3>4. QED
      BY <3>2, <3>3
  <2>7. th[w].valid => Paid(p) /\ gw[p].order = s /\ sess[s].owner = th[w].tx
    BY <1>4 DEF CompleteEnforce, Owned, Completing
  <2>8. \A q \in Payments : payTx'[q] # NoTx =>
          Paid(q) /\ sess[gw[q].order].owner = payTx'[q]
    BY <2>6, <2>7 DEF Owned, ConsumedByOwner
  <2>9. QED
    BY <2>4, <2>5, <2>8, OwnedConsumed
<1>5. QED
  BY <1>1, <1>2, <1>3, <1>4 DEF Complete

LEMMA PayOwned ==
  ASSUME TypeOK, Owned, NEW p \in Payments, Pay(p)
  PROVE  SessionsKept /\ Owned'
<1>1. PICK s \in Sessions, c \in Charges :
        /\ Used(s)
        /\ gw' = [gw EXCEPT ![p] = [order |-> s, amount |-> c.amount,
                                    captured |-> c.captured, items |-> c.items,
                                    late |-> expired]]
  BY DEF Pay
<1>2. ~Paid(p) /\ UNCHANGED <<cur, sess, payTx, th>>
  BY DEF Pay
<1>3. \A q \in Payments : Paid(q) => gw'[q] = gw[q] /\ Paid(q)'
  BY <1>1, <1>2 DEF TypeOK, Paid
<1>4. \A q \in Payments : Paid(q)' => Used(gw[q].order)'
  <2> SUFFICES ASSUME NEW q \in Payments, Paid(q)' PROVE Used(gw[q].order)'
    OBVIOUS
  <2>1. CASE q = p
    BY <1>1, <1>2, <2>1 DEF TypeOK, Used
  <2>2. CASE q # p
    BY <1>1, <1>2, <2>2 DEF TypeOK, Used, Paid, Owned
  <2>3. QED
    BY <2>1, <2>2
<1>5. ConsumedByOwner'
  BY <1>2, <1>3 DEF Owned, ConsumedByOwner
<1>6. \A w \in Threads : At(w, "enforce") => th[w].pay \in Payments
  BY ThreadAt
<1>7. \A w \in Threads : At(w, "enforce")' /\ th'[w].valid =>
        Paid(th[w].pay)' /\ gw'[th'[w].pay].order = th'[w].s
  BY <1>2, <1>3, <1>6 DEF Owned, At
<1>8. SessionsKept
  BY <1>2 DEF SessionsKept, Used
<1>9. QED
  BY <1>2, <1>4, <1>5, <1>7, <1>8 DEF Owned, Used, Completing, At

LEMMA OwnedStays == TypeOK /\ Owned /\ [Next]_vars => SessionsKept /\ Owned'
<1> SUFFICES ASSUME TypeOK, Owned, [Next]_vars PROVE SessionsKept /\ Owned'
  OBVIOUS
<1>1. ASSUME NEW w \in Threads, Continue(w) PROVE SessionsKept /\ Owned'
  <2>1. CASE Create(w)
    <3>1. th[w].tx \in Txs
      BY <2>1, ThreadAt DEF Create, CreateOrder, CreateFail
    <3>2. QED
      BY <2>1, <3>1, CreateOwned
  <2>2. QED
    BY <1>1, <2>1, CompleteOwned, RecoverOwned, ResolveOwned DEF Continue
<1>2. ASSUME NEW w \in Threads, NEW t \in Txs, Call(w, t) PROVE SessionsKept /\ Owned'
  BY <1>2, CreateOwned, CompleteOwned, RecoverOwned, ResolveOwned DEF Call
<1>3. ASSUME UNCHANGED <<cur, sess, gw, payTx, th>> PROVE SessionsKept /\ Owned'
  BY <1>3, OwnedKept DEF SessionsKept, NoneCompleting, Used
<1>4. CASE Environment
  <2>1. ASSUME NEW p \in Payments, Pay(p) PROVE SessionsKept /\ Owned'
    BY <2>1, PayOwned
  <2>2. QED
    BY <1>3, <1>4, <2>1 DEF Environment, Expire, Kill, Resume
<1>5. CASE UNCHANGED vars
  BY <1>3, <1>5 DEF vars
<1>6. QED
  BY <1>1, <1>2, <1>4, <1>5 DEF Next

LEMMA OwnedInvariant == TypeOK /\ Owned /\ [Next]_vars => Owned'
BY OwnedStays

LEMMA OwnedInitially == Init => Owned
BY DEF Init, Owned, Paid, NoPayment, Completing, At, Idle, ConsumedByOwner

(***************************************************************************)
(* A payment is consumed only for the transaction whose order the gateway  *)
(* charged, and that stays so: no interleaving of completions, creations   *)
(* and payments of any number of transactions, whose callers may name any  *)
(* payment, gives one transaction another one's payment.                   *)
(***************************************************************************)
THEOREM PaymentsAreOwned == Spec => []ConsumedByOwner
<1>1. Owned => ConsumedByOwner
  BY DEF Owned
<1>2. QED
  BY <1>1, OwnedInitially, OwnedInvariant, TypeCorrect, PTL DEF Spec

(***************************************************************************)
(* The window between the verification of a binding and its consumption is *)
(* harmless: what was verified cannot have been consumed for another       *)
(* transaction meanwhile, so consume_attempt does not raise and leave a    *)
(* transaction in VERIFYING.                                               *)
(***************************************************************************)
THEOREM ConsumptionNeverRaises == Spec => []ConsumeNeverRaises
<1>1. TypeOK /\ Owned => ConsumeNeverRaises
  <2> SUFFICES ASSUME TypeOK, Owned, NEW w \in Threads, At(w, "enforce"), th[w].valid
               PROVE  payTx[th[w].pay] \in {NoTx, th[w].tx}
    BY DEF ConsumeNeverRaises
  <2>1. th[w].pay \in Payments
    BY ThreadAt
  <2>2. gw[th[w].pay].order = th[w].s /\ sess[th[w].s].owner = th[w].tx
    BY DEF Owned, Completing
  <2>3. QED
    BY <2>1, <2>2 DEF Owned, ConsumedByOwner
<1>2. QED
  BY <1>1, OwnedInitially, OwnedInvariant, TypeCorrect, PTL DEF Spec

-----------------------------------------------------------------------------
(***************************************************************************)
(* What each step does to a session.                                       *)
(***************************************************************************)

\* Only session s is written, and only thread w moves.
Writes(w, s) ==
  /\ s \in Sessions
  /\ \A r \in Sessions : r # s => sess'[r] = sess[r]
  /\ \A v \in Threads : v # w => th'[v] = th[v]

EvidenceKept(s) ==
  /\ sess'[s].bundle = sess[s].bundle
  /\ sess'[s].events = sess[s].events
  /\ sess'[s].repeated = sess[s].repeated

VerdictKept(s) ==
  /\ sess'[s].status = sess[s].status
  /\ sess'[s].viol = sess[s].viol

\* The fields of an answered session.
LEMMA AnsweredFields ==
  ASSUME NEW x \in SessionRecords, NEW verdict
  PROVE  LET y == Answered(x, verdict)
         IN  /\ y.sm = verdict.status /\ y.status = verdict.status
             /\ y.viol = verdict.viol /\ y.resp = verdict.status
             /\ y.bundle = x.bundle /\ y.events = x.events
             /\ y.repeated = x.repeated
BY DEF Answered, SessionRecords

LEMMA CreateOrderEffect ==
  ASSUME TypeOK, NEW w \in Threads, CreateOrder(w)
  PROVE  \E s \in Sessions :
           /\ Writes(w, s) /\ sess[s].sm = "ABSENT" /\ sess'[s].sm = "EXECUTING"
           /\ sess'[s].bundle = NoEvidence /\ sess'[s].repeated = FALSE
           /\ sess'[s].status = "NONE" /\ th'[w] = Idle
<1>1. PICK s \in Sessions :
        ~Used(s) /\ sess' = [sess EXCEPT ![s] = NewSession(th[w].tx, th[w].late)]
  BY DEF CreateOrder, IsNext
<1>2. sess'[s] = NewSession(th[w].tx, th[w].late) /\ sess[s].sm = "ABSENT"
  BY <1>1 DEF TypeOK, Used
<1>3. Writes(w, s) /\ th'[w] = Idle
  BY <1>1 DEF CreateOrder, Writes, Return, Goto, TypeOK
<1>4. /\ sess'[s].sm = "EXECUTING" /\ sess'[s].bundle = NoEvidence
      /\ sess'[s].repeated = FALSE /\ sess'[s].status = "NONE"
  BY <1>2 DEF NewSession, NoSession
<1>5. QED
  BY <1>2, <1>3, <1>4

LEMMA CompleteBeginEffect ==
  ASSUME TypeOK, NEW w \in Threads, NEW t \in Txs, NEW p \in Payments,
         CompleteBegin(w, t, p)
  PROVE  LET s == cur[t]
         IN  /\ Writes(w, s) /\ EvidenceKept(s) /\ VerdictKept(s)
             /\ sess[s].sm = "EXECUTING" /\ sess'[s].sm = "OBSERVING"
             /\ th'[w].pc = "observe" /\ th'[w].s = s
<1>1. cur[t] \in Sessions
  BY CurrentSession DEF CompleteBegin
<1>2. sess'[cur[t]] = [sess[cur[t]] EXCEPT !.sm = "OBSERVING"]
  BY <1>1 DEF CompleteBegin, TypeOK
<1>3. sess[cur[t]] \in SessionRecords
  BY <1>1 DEF TypeOK
<1>4. sess[cur[t]].sm = "EXECUTING"
  BY DEF CompleteBegin, Move, CanTransition, PermittedTransitions, LifecycleStates, Verdicts
<1>5. /\ EvidenceKept(cur[t]) /\ VerdictKept(cur[t]) /\ sess'[cur[t]].sm = "OBSERVING"
  BY <1>2, <1>3 DEF EvidenceKept, VerdictKept, SessionRecords
<1>6. /\ Writes(w, cur[t]) /\ th'[w].pc = "observe" /\ th'[w].s = cur[t]
  BY <1>1 DEF CompleteBegin, Writes, Goto, TypeOK
<1>7. QED
  BY <1>4, <1>5, <1>6

LEMMA CompleteUnresolvedEffect ==
  ASSUME TypeOK, NEW w \in Threads, CompleteUnresolved(w)
  PROVE  LET s == th[w].s
         IN  /\ Writes(w, s) /\ EvidenceKept(s) /\ At(w, "observe")
             /\ sess'[s].sm = "UNKNOWN" /\ sess'[s].status = "UNKNOWN"
             /\ th'[w] = Idle
<1>1. th[w].s \in Sessions
  BY ThreadAt DEF CompleteUnresolved
<1>2. sess[th[w].s] \in SessionRecords
  BY <1>1 DEF TypeOK
<1>3. sess'[th[w].s] = [sess[th[w].s] EXCEPT !.sm = "UNKNOWN", !.status = "UNKNOWN",
                                             !.resp = "UNKNOWN"]
  BY <1>1 DEF CompleteUnresolved, TypeOK
<1>4. EvidenceKept(th[w].s) /\ sess'[th[w].s].sm = "UNKNOWN"
      /\ sess'[th[w].s].status = "UNKNOWN"
  BY <1>2, <1>3 DEF EvidenceKept, SessionRecords
<1>5. Writes(w, th[w].s) /\ th'[w] = Idle /\ At(w, "observe")
  BY <1>1 DEF CompleteUnresolved, Writes, Return, Goto, TypeOK
<1>6. QED
  BY <1>4, <1>5

LEMMA CompleteObserveEffect ==
  ASSUME TypeOK, NEW w \in Threads, CompleteObserve(w)
  PROVE  LET s == th[w].s
         IN  /\ Writes(w, s) /\ At(w, "observe") /\ sess'[s].sm = "VERIFYING"
             /\ sess'[s].bundle = ObservedAtCompletion(th[w].pay)
             /\ sess'[s].repeated = sess[s].repeated /\ VerdictKept(s)
             /\ th'[w].pc = "enforce" /\ th'[w].s = s
             /\ th'[w].verdict = Verdict(sess'[s].bundle, sess'[s].events, FALSE)
<1> DEFINE s == th[w].s
           bundle == ObservedAtCompletion(th[w].pay)
           events == {OrderEvent(s), PaymentEvent("pay", th[w].pay)}
<1>1. s \in Sessions
  BY ThreadAt DEF CompleteObserve
<1>2. sess[s] \in SessionRecords
  BY <1>1 DEF TypeOK
<1> HIDE DEF bundle, events
<1>3. sess'[s] = [sess[s] EXCEPT !.sm = "VERIFYING", !.bundle = bundle, !.events = events]
  BY <1>1 DEF CompleteObserve, TypeOK, bundle, events
<1>4. /\ sess'[s].sm = "VERIFYING" /\ sess'[s].bundle = bundle /\ VerdictKept(s)
      /\ sess'[s].events = events /\ sess'[s].repeated = sess[s].repeated
  BY <1>2, <1>3 DEF SessionRecords, VerdictKept
<1>5. /\ th'[w].pc = "enforce" /\ th'[w].s = s
      /\ th'[w].verdict = Verdict(bundle, events, FALSE)
  BY DEF CompleteObserve, Goto, TypeOK, bundle, events
<1>6. Writes(w, s) /\ At(w, "observe")
  BY <1>1 DEF CompleteObserve, Writes, Goto, TypeOK
<1>7. QED
  BY <1>4, <1>5, <1>6 DEF bundle

LEMMA CompleteEnforceEffect ==
  ASSUME TypeOK, NEW w \in Threads, CompleteEnforce(w)
  PROVE  LET s == th[w].s
             verdict == BoundVerdict(th[w].verdict, th[w].valid)
         IN  /\ Writes(w, s) /\ EvidenceKept(s) /\ At(w, "enforce")
             /\ sess'[s].sm = verdict.status /\ sess'[s].status = verdict.status
             /\ sess'[s].viol = verdict.viol /\ verdict.status \in Verdicts
             /\ th'[w] = Idle
<1> DEFINE s == th[w].s
           verdict == BoundVerdict(th[w].verdict, th[w].valid)
<1>1. s \in Sessions /\ th[w].verdict \in VerdictRecords
  BY ThreadAt DEF CompleteEnforce
<1>2. sess[s] \in SessionRecords
  BY <1>1 DEF TypeOK
<1>3. verdict.status \in Verdicts
  BY <1>1 DEF BoundVerdict, VerdictRecords, Verdicts
<1> HIDE DEF verdict
<1>4. sess'[s] = Answered(sess[s], verdict)
  BY <1>1 DEF CompleteEnforce, TypeOK, verdict
<1>5. EvidenceKept(s) /\ sess'[s].sm = verdict.status
      /\ sess'[s].status = verdict.status /\ sess'[s].viol = verdict.viol
  BY <1>2, <1>4, AnsweredFields DEF EvidenceKept
<1>6. Writes(w, s) /\ At(w, "enforce") /\ th'[w] = Idle
  BY <1>1 DEF CompleteEnforce, Writes, Return, Goto, TypeOK
<1>7. QED
  BY <1>3, <1>5, <1>6 DEF verdict

LEMMA RecoverBeginEffect ==
  ASSUME TypeOK, NEW w \in Threads, NEW t \in Txs, RecoverBegin(w, t)
  PROVE  LET s == cur[t]
         IN  /\ Writes(w, s) /\ EvidenceKept(s) /\ VerdictKept(s)
             /\ sess[s].sm \in RecoveryStates /\ Recoverable(s)
             /\ sess'[s].sm = Engaged(sess[s].sm)
             /\ th'[w].pc = "execute"
<1>1. cur[t] \in Sessions
  BY CurrentSession DEF RecoverBegin
<1>2. sess[cur[t]] \in SessionRecords
  BY <1>1 DEF TypeOK
<1>3. sess'[cur[t]] = [sess[cur[t]] EXCEPT !.sm = Engaged(@), !.calls = @ \cup {w}]
  BY <1>1 DEF RecoverBegin, TypeOK
<1>4. EvidenceKept(cur[t]) /\ VerdictKept(cur[t])
      /\ sess'[cur[t]].sm = Engaged(sess[cur[t]].sm)
  BY <1>2, <1>3 DEF EvidenceKept, VerdictKept, SessionRecords
<1>5. Writes(w, cur[t]) /\ th'[w].pc = "execute"
  BY <1>1 DEF RecoverBegin, Writes, Goto, TypeOK
<1>6. QED
  BY <1>4, <1>5 DEF RecoverBegin

LEMMA AbstainEffect ==
  ASSUME TypeOK, NEW w \in Threads, NEW t \in Txs,
         RecoverAbstain(w, t) \/ ResolveExhausted(w, t)
  PROVE  LET s == cur[t]
         IN  /\ Writes(w, s) /\ EvidenceKept(s) /\ VerdictKept(s)
             /\ sess[s].sm \in RecoveryStates /\ sess'[s].sm = "ABSTAIN"
             /\ th' = th
<1>1. cur[t] \in Sessions /\ sess[cur[t]].sm \in RecoveryStates
  BY CurrentSession DEF RecoverAbstain, ResolveExhausted, RecoveryStates, ResolutionStates
<1>2. sess[cur[t]] \in SessionRecords
  BY <1>1 DEF TypeOK
<1>3. \/ sess'[cur[t]] = [sess[cur[t]] EXCEPT !.sm = "ABSTAIN", !.resp = "ABSTAIN"]
      \/ sess'[cur[t]] = [sess[cur[t]] EXCEPT !.sm = "ABSTAIN"]
  BY <1>1 DEF RecoverAbstain, ResolveExhausted, TypeOK
<1>4. EvidenceKept(cur[t]) /\ VerdictKept(cur[t]) /\ sess'[cur[t]].sm = "ABSTAIN"
  BY <1>2, <1>3 DEF EvidenceKept, VerdictKept, SessionRecords
<1>5. Writes(w, cur[t]) /\ th' = th
  BY <1>1 DEF RecoverAbstain, ResolveExhausted, Writes, TypeOK
<1>6. QED
  BY <1>1, <1>4, <1>5

\* Within the executor, when it raises, and when the call goes on after it.
LEMMA ExecutedEffect ==
  ASSUME TypeOK, NEW w \in Threads, Execute(w) \/ RecoverRaise(w) \/ RecoverEnter(w)
  PROVE  LET s == th[w].s
         IN  /\ Writes(w, s) /\ EvidenceKept(s) /\ VerdictKept(s) /\ Executing(w)
             /\ sess'[s].resp = sess[s].resp
             /\ \/ /\ sess'[s].sm = sess[s].sm
                   /\ th'[w].pc \in {"idle", "budget", "count", "record", "executed"}
                \/ /\ Move(s, "REVALIDATING") /\ sess'[s].sm = "REVALIDATING"
                   /\ th'[w].pc = "revalidate" /\ th'[w].s = s
<1> DEFINE s == th[w].s
<1>1. Executing(w) /\ s \in Sessions
  <2>1. RecoverRaise(w) => Executing(w)
    BY DEF RecoverRaise, Executing, At
  <2>2. QED
    BY <2>1, ExecuteStep, EnterStep, ExecutorHolds
<1>2. sess[s] \in SessionRecords
  BY <1>1 DEF TypeOK
<1>3. CASE Execute(w)
  <2>1. /\ sess' = sess /\ \A v \in Threads : v # w => th'[v] = th[v]
        /\ th'[w].pc \in {"budget", "count", "record", "executed"}
    BY <1>3, ExecuteStep DEF TypeOK
  <2>2. QED
    BY <1>1, <2>1 DEF Writes, EvidenceKept, VerdictKept
<1>4. CASE RecoverEnter(w)
  <2>1. CASE /\ sess' = [sess EXCEPT ![s] = Counted(w)]
             /\ th' = [th EXCEPT ![w] = Idle]
    BY <1>1, <2>1, EnteredSession DEF Writes, EvidenceKept, VerdictKept, Idle, TypeOK
  <2>2. CASE /\ Move(s, "REVALIDATING")
             /\ sess' = [sess EXCEPT ![s] = Entered(w)]
             /\ th' = [th EXCEPT ![w] = [pc |-> "revalidate", tx |-> th[w].tx,
                                         s |-> th[w].s, exec |-> th[w].exec]]
    BY <1>1, <2>2, EnteredSession DEF Writes, EvidenceKept, VerdictKept, TypeOK
  <2>3. QED
    BY <1>4, <2>1, <2>2, EnterStep
<1>5. CASE RecoverRaise(w)
  <2>1. sess'[s] = [sess[s] EXCEPT !.calls = @ \ {w}]
    BY <1>1, <1>5 DEF RecoverRaise, TypeOK
  <2>2. EvidenceKept(s) /\ VerdictKept(s) /\ sess'[s].resp = sess[s].resp
        /\ sess'[s].sm = sess[s].sm
    BY <1>2, <2>1 DEF EvidenceKept, VerdictKept, SessionRecords
  <2>3. Writes(w, s) /\ th'[w] = Idle
    BY <1>1, <1>5 DEF RecoverRaise, Writes, Return, Goto, TypeOK
  <2>4. QED
    BY <1>1, <2>2, <2>3 DEF Idle
<1>6. QED
  BY <1>3, <1>4, <1>5

LEMMA RecoverFinishEffect ==
  ASSUME TypeOK, NEW w \in Threads, RecoverFinish(w)
  PROVE  LET s == th[w].s
             d == th[w].exec
             verdict == Verdict(Netted(sess[s].bundle, d), sess'[s].events,
                                sess'[s].repeated)
         IN  /\ Writes(w, s) /\ At(w, "revalidate")
             /\ sess'[s].bundle = Merge(sess[s].bundle, RecoveryEvidence(d))
             /\ sess'[s].sm = verdict.status /\ sess'[s].status = verdict.status
             /\ sess'[s].viol = verdict.viol /\ verdict.status \in Verdicts
             /\ th'[w] = Idle
<1> DEFINE s == th[w].s
           d == th[w].exec
           event == RecoveryEvent(d)
           repeated == sess[s].repeated \/ event \in sess[s].events
           events == sess[s].events \cup {event}
           verdict == Verdict(Netted(sess[s].bundle, d), events, repeated)
           bundle == Merge(sess[s].bundle, RecoveryEvidence(d))
           x == [sess[s] EXCEPT !.bundle = bundle, !.events = events,
                                !.repeated = repeated, !.calls = {}]
<1>1. s \in Sessions /\ d \in Executions
  BY ThreadAt DEF RecoverFinish
<1>2. sess[s] \in SessionRecords
  BY <1>1 DEF TypeOK
<1>3. bundle \in Bundles /\ events \in SUBSET EventRecords /\ repeated \in BOOLEAN
  <2>1. sess[s].bundle \in Bundles /\ sess[s].events \in SUBSET EventRecords
        /\ sess[s].repeated \in BOOLEAN
    BY <1>2 DEF SessionRecords
  <2>2. QED
    BY <1>1, <2>1, EventTypes, RecoveryEvidenceType, BundleTypes
<1>4. sess'[s] = Answered(x, verdict)
  BY <1>1 DEF RecoverFinish, TypeOK
<1>5. verdict.status \in Verdicts
  BY VerdictType DEF VerdictRecords
<1> HIDE DEF bundle, events, repeated, verdict
<1>6. /\ x \in SessionRecords /\ x.bundle = bundle /\ x.events = events
      /\ x.repeated = repeated
  BY <1>2, <1>3 DEF SessionRecords
<1> HIDE DEF x
<1>7. /\ sess'[s].bundle = bundle /\ sess'[s].events = events
      /\ sess'[s].repeated = repeated /\ sess'[s].sm = verdict.status
      /\ sess'[s].status = verdict.status /\ sess'[s].viol = verdict.viol
  BY <1>4, <1>6, AnsweredFields
<1>8. verdict = Verdict(Netted(sess[s].bundle, d), sess'[s].events, sess'[s].repeated)
  BY <1>7 DEF verdict
<1>9. Writes(w, s) /\ th'[w] = Idle /\ At(w, "revalidate")
  BY <1>1 DEF RecoverFinish, Writes, Return, Goto, TypeOK
<1>10. QED
  BY <1>5, <1>7, <1>8, <1>9 DEF bundle

LEMMA ResolveBeginEffect ==
  ASSUME TypeOK, NEW w \in Threads, NEW t \in Txs, ResolveBegin(w, t)
  PROVE  LET s == cur[t]
         IN  /\ Writes(w, s) /\ EvidenceKept(s) /\ VerdictKept(s)
             /\ sess[s].sm \in ResolutionStates /\ sess'[s].sm = "RESOLVING"
             /\ \/ th'[w] = th[w]
                \/ /\ th'[w].pc = "resolve"
                   /\ th'[w].bundle = sess[s].bundle
                   /\ th'[w].events = sess[s].events
                   /\ th'[w].repeated = sess[s].repeated
<1>1. cur[t] \in Sessions
  BY CurrentSession DEF ResolveBegin
<1>2. sess[cur[t]] \in SessionRecords
  BY <1>1 DEF TypeOK
<1>3. sess'[cur[t]] = [sess[cur[t]] EXCEPT !.sm = "RESOLVING", !.satt = @ + 1]
  BY <1>1 DEF ResolveBegin, TypeOK
<1>4. EvidenceKept(cur[t]) /\ VerdictKept(cur[t]) /\ sess'[cur[t]].sm = "RESOLVING"
  BY <1>2, <1>3 DEF EvidenceKept, VerdictKept, SessionRecords
<1>5. \/ th' = th
      \/ th' = [th EXCEPT ![w] =
                  [pc |-> "resolve", s |-> cur[t], plan |-> Diagnosis(t, cur[t]),
                   bundle |-> sess[cur[t]].bundle, events |-> sess[cur[t]].events,
                   repeated |-> sess[cur[t]].repeated]]
  BY DEF ResolveBegin, Goto
<1>6. \A v \in Threads : v # w => th'[v] = th[v]
  BY <1>5 DEF TypeOK
<1>7. \/ th'[w] = th[w]
      \/ /\ th'[w].pc = "resolve"
         /\ th'[w].bundle = sess[cur[t]].bundle
         /\ th'[w].events = sess[cur[t]].events
         /\ th'[w].repeated = sess[cur[t]].repeated
  BY <1>5 DEF TypeOK
<1>8. Writes(w, cur[t])
  BY <1>1, <1>6 DEF ResolveBegin, Writes, TypeOK
<1>9. QED
  BY <1>4, <1>7, <1>8 DEF ResolveBegin

LEMMA ResolveFinishEffect ==
  ASSUME TypeOK, NEW w \in Threads, ResolveFinish(w)
  PROVE  \E o \in Observations(w) :
           LET s == th[w].s
           IN  /\ Writes(w, s) /\ At(w, "resolve") /\ Move(s, "REVALIDATING")
               /\ sess'[s].bundle = o.bundle
               /\ sess'[s].events = sess[s].events \cup o.events
               /\ sess'[s].repeated = sess[s].repeated
               /\ sess'[s].sm = o.verdict.status /\ sess'[s].status = o.verdict.status
               /\ sess'[s].viol = o.verdict.viol /\ o.verdict.status \in Verdicts
               /\ th'[w] = Idle
<1> DEFINE s == th[w].s
<1>1. PICK o \in Observations(w) :
        sess' = [sess EXCEPT ![s] =
                   Answered([sess[s] EXCEPT !.bundle = o.bundle,
                                            !.events = sess[s].events \cup o.events,
                                            !.calls = {}], o.verdict)]
  BY DEF ResolveFinish
<1> DEFINE x == [sess[s] EXCEPT !.bundle = o.bundle,
                                !.events = sess[s].events \cup o.events,
                                !.calls = {}]
<1>2. s \in Sessions /\ At(w, "resolve") /\ Move(s, "REVALIDATING")
  BY ThreadAt DEF ResolveFinish
<1>3. sess[s] \in SessionRecords
  BY <1>2 DEF TypeOK
<1>4. /\ o.verdict \in VerdictRecords /\ o.bundle \in Bundles
      /\ o.events \subseteq EventRecords
  BY <1>2, ObservationTypes
<1>5. sess[s].events \cup o.events \in SUBSET EventRecords
  BY <1>3, <1>4 DEF SessionRecords
<1>6. /\ x \in SessionRecords /\ x.bundle = o.bundle
      /\ x.events = sess[s].events \cup o.events /\ x.repeated = sess[s].repeated
  BY <1>3, <1>4, <1>5 DEF SessionRecords
<1>7. sess'[s] = Answered(x, o.verdict)
  BY <1>1, <1>2 DEF TypeOK
<1> HIDE DEF x
<1>8. /\ sess'[s].bundle = o.bundle /\ sess'[s].events = sess[s].events \cup o.events
      /\ sess'[s].repeated = sess[s].repeated /\ sess'[s].sm = o.verdict.status
      /\ sess'[s].status = o.verdict.status /\ sess'[s].viol = o.verdict.viol
  BY <1>6, <1>7, AnsweredFields
<1>9. Writes(w, s) /\ th'[w] = Idle
  BY <1>1, <1>2 DEF ResolveFinish, Writes, Return, Goto, TypeOK
<1>10. o.verdict.status \in Verdicts
  BY <1>4 DEF VerdictRecords
<1>11. QED
  BY <1>2, <1>8, <1>9, <1>10

\* Every other step leaves the sessions alone, and the thread that moves does
\* not arrive at a place where it holds a session.
LEMMA ElsewhereEffect ==
  ASSUME TypeOK, NEW w \in Threads, NEW t,
         CreateBegin(w, t) \/ CreateFail(w) \/ ResolveRaise(w)
  PROVE  /\ sess' = sess
         /\ \A v \in Threads : th'[v] = th[v] \/ th'[v].pc \in {"order", "idle"}
BY DEF CreateBegin, CreateFail, ResolveRaise, Return, Goto, Idle, TypeOK

LEMMA EnvironmentEffect ==
  ASSUME Environment \/ UNCHANGED vars PROVE UNCHANGED <<sess, th>>
BY DEF Environment, Pay, Expire, Kill, Resume, vars

\* The steps, one by one.
LEMMA StepCases ==
  ASSUME [Next]_vars
  PROVE  \/ Environment \/ UNCHANGED vars
         \/ \E w \in Threads :
              \/ CreateOrder(w) \/ CreateFail(w) \/ ResolveRaise(w)
              \/ CompleteUnresolved(w) \/ CompleteObserve(w) \/ CompleteEnforce(w)
              \/ Execute(w) \/ RecoverRaise(w) \/ RecoverEnter(w)
              \/ RecoverFinish(w) \/ ResolveFinish(w)
         \/ \E w \in Threads, t \in Txs :
              \/ CreateBegin(w, t)
              \/ \E p \in Payments : CompleteBegin(w, t, p)
              \/ RecoverBegin(w, t) \/ RecoverAbstain(w, t)
              \/ ResolveBegin(w, t) \/ ResolveExhausted(w, t)
BY DEF Next, Continue, Create, Complete, Recover, Resolve, Call, CallRecover, CallResolve

-----------------------------------------------------------------------------
(***************************************************************************)
(* Exclusive.  The state of a session says which call holds it: OBSERVING  *)
(* and VERIFYING belong to one completion, REVALIDATING to one recovery,   *)
(* and no other call touches the session until that one answers.  So the   *)
(* transitions the handlers make without asking the state machine anew are *)
(* legal, although there is no lock.                                       *)
(***************************************************************************)

HoldPlaces == {"observe", "enforce", "revalidate"}

HeldState(place) ==
  IF place = "observe" THEN "OBSERVING"
  ELSE IF place = "enforce" THEN "VERIFYING" ELSE "REVALIDATING"

HeldStates == {"OBSERVING", "VERIFYING", "REVALIDATING"}

Holds(w) == th[w].pc \in HoldPlaces

Exclusive ==
  /\ \A w \in Threads : Holds(w) => sess[th[w].s].sm = HeldState(th[w].pc)
  /\ \A v, w \in Threads : Holds(v) /\ Holds(w) /\ th[v].s = th[w].s => v = w

\* Nobody but perhaps w holds s.
FreeFor(w, s) == sess[s].sm \notin HeldStates \/ (Holds(w) /\ th[w].s = s)

LEMMA HoldsSession ==
  ASSUME TypeOK, NEW w \in Threads, Holds(w) PROVE th[w].s \in Sessions
BY ThreadAt DEF Holds, HoldPlaces, At

\* Thread w moves session s, or leaves its state alone.
LEMMA ExclusiveMove ==
  ASSUME TypeOK, Exclusive, NEW w \in Threads, NEW s, Writes(w, s),
         FreeFor(w, s) \/ sess'[s].sm = sess[s].sm,
         th'[w].pc \in HoldPlaces =>
           th'[w].s = s /\ sess'[s].sm = HeldState(th'[w].pc) /\ FreeFor(w, s)
  PROVE  Exclusive'
<1>1. ASSUME NEW v \in Threads, v # w, Holds(v)'
      PROVE  /\ th'[v] = th[v] /\ Holds(v) /\ th[v].s \in Sessions
             /\ sess[th[v].s].sm = HeldState(th[v].pc)
             /\ sess[th[v].s].sm \in HeldStates
             /\ th[v].s = s => ~FreeFor(w, s)
  <2>1. th'[v] = th[v] /\ Holds(v)
    BY <1>1 DEF Writes, Holds
  <2>2. th[v].s \in Sessions
    BY <2>1, HoldsSession
  <2>3. sess[th[v].s].sm = HeldState(th[v].pc)
    BY <2>1 DEF Exclusive
  <2>4. HeldState(th[v].pc) \in HeldStates
    BY DEF HeldState, HeldStates
  <2>5. QED
    BY <1>1, <2>1, <2>2, <2>3, <2>4 DEF FreeFor, Exclusive
<1>2. ASSUME NEW v \in Threads, v # w, Holds(v)'
      PROVE  sess'[th'[v].s].sm = HeldState(th'[v].pc)
  BY <1>1, <1>2 DEF Writes
<1>3. ASSUME NEW v \in Threads, Holds(v)'
      PROVE  sess'[th'[v].s].sm = HeldState(th'[v].pc)
  BY <1>2, <1>3 DEF Holds
<1>4. ASSUME NEW u \in Threads, NEW v \in Threads, Holds(u)', Holds(v)',
             th'[u].s = th'[v].s
      PROVE  u = v
  <2>1. CASE u # w /\ v # w
    BY <1>1, <1>4, <2>1 DEF Exclusive
  <2>2. CASE u = w /\ v # w
    BY <1>1, <1>4, <2>2 DEF Holds
  <2>3. CASE u # w /\ v = w
    BY <1>1, <1>4, <2>3 DEF Holds
  <2>4. QED
    BY <2>1, <2>2, <2>3
<1>5. QED
  BY <1>3, <1>4 DEF Exclusive

LEMMA ExclusiveKept ==
  ASSUME Exclusive, sess' = sess,
         \A v \in Threads : th'[v] = th[v] \/ th'[v].pc \notin HoldPlaces
  PROVE  Exclusive'
BY DEF Exclusive, Holds

\* Who completes or revalidates may go on with the session.
LEMMA HolderIsFree ==
  ASSUME TypeOK, Exclusive, NEW w \in Threads,
         At(w, "observe") \/ At(w, "enforce") \/ At(w, "revalidate")
  PROVE  /\ FreeFor(w, th[w].s)
         /\ At(w, "observe") => sess[th[w].s].sm = "OBSERVING"
         /\ At(w, "enforce") => sess[th[w].s].sm = "VERIFYING"
         /\ At(w, "revalidate") => sess[th[w].s].sm = "REVALIDATING"
BY DEF FreeFor, Holds, HoldPlaces, At, Exclusive, HeldState

\* The graph, seen from a transition to REVALIDATING.
LEMMA RevalidatingFrom ==
  ASSUME NEW s, Move(s, "REVALIDATING")
  PROVE  sess[s].sm \in {"RESOLVING", "RECOVERING"}
BY DEF Move, CanTransition, PermittedTransitions, LifecycleStates, Verdicts

LEMMA ExclusiveStep == TypeOK /\ Exclusive /\ [Next]_vars => Exclusive'
<1> SUFFICES ASSUME TypeOK, Exclusive, [Next]_vars PROVE Exclusive'
  OBVIOUS
<1> USE DEF HoldPlaces, Idle
<1>1. ASSUME NEW w \in Threads, CreateOrder(w) PROVE Exclusive'
  <2>1. PICK s \in Sessions :
          Writes(w, s) /\ sess[s].sm = "ABSENT" /\ th'[w] = Idle
    BY <1>1, CreateOrderEffect
  <2>2. QED
    BY <2>1, ExclusiveMove DEF FreeFor, HeldStates
<1>2. ASSUME NEW w \in Threads, NEW t, CreateBegin(w, t) \/ CreateFail(w) \/ ResolveRaise(w)
      PROVE  Exclusive'
  <2>1. /\ sess' = sess
        /\ \A v \in Threads : th'[v] = th[v] \/ th'[v].pc \in {"order", "idle"}
    BY <1>2, ElsewhereEffect
  <2>2. QED
    BY <2>1, ExclusiveKept
<1>3. ASSUME NEW w \in Threads, NEW t \in Txs, NEW p \in Payments, CompleteBegin(w, t, p)
      PROVE  Exclusive'
  BY <1>3, CompleteBeginEffect, ExclusiveMove DEF FreeFor, HeldStates, HeldState
<1>4. ASSUME NEW w \in Threads, CompleteUnresolved(w) PROVE Exclusive'
  BY <1>4, CompleteUnresolvedEffect, HolderIsFree, ExclusiveMove
<1>5. ASSUME NEW w \in Threads, CompleteObserve(w) PROVE Exclusive'
  BY <1>5, CompleteObserveEffect, HolderIsFree, ExclusiveMove DEF HeldState
<1>6. ASSUME NEW w \in Threads, CompleteEnforce(w) PROVE Exclusive'
  BY <1>6, CompleteEnforceEffect, HolderIsFree, ExclusiveMove
<1>7. ASSUME NEW w \in Threads, NEW t \in Txs, RecoverBegin(w, t) PROVE Exclusive'
  BY <1>7, RecoverBeginEffect, ExclusiveMove DEF FreeFor, HeldStates, RecoveryStates
<1>8. ASSUME NEW w \in Threads, NEW t \in Txs, RecoverAbstain(w, t) \/ ResolveExhausted(w, t)
      PROVE  Exclusive'
  <2>1. /\ Writes(w, cur[t]) /\ sess[cur[t]].sm \in RecoveryStates /\ th' = th
    BY <1>8, AbstainEffect
  <2>2. \A v \in Threads : Holds(v) => th[v].s \in Sessions /\ th[v].s # cur[t]
    <3>1. \A v \in Threads : Holds(v) => sess[th[v].s].sm = HeldState(th[v].pc)
      BY DEF Exclusive
    <3>2. QED
      BY <2>1, <3>1, HoldsSession DEF RecoveryStates, HeldState
  <2>3. QED
    BY <2>1, <2>2 DEF Exclusive, Holds, Writes
<1>9. ASSUME NEW w \in Threads, Execute(w) \/ RecoverRaise(w) \/ RecoverEnter(w)
      PROVE  Exclusive'
  <2>1. /\ Writes(w, th[w].s)
        /\ \/ /\ sess'[th[w].s].sm = sess[th[w].s].sm
              /\ th'[w].pc \in {"idle", "budget", "count", "record", "executed"}
           \/ /\ Move(th[w].s, "REVALIDATING") /\ sess'[th[w].s].sm = "REVALIDATING"
              /\ th'[w].pc = "revalidate" /\ th'[w].s = th[w].s
    BY <1>9, ExecutedEffect
  <2>2. Move(th[w].s, "REVALIDATING") => FreeFor(w, th[w].s)
    BY RevalidatingFrom DEF FreeFor, HeldStates
  <2>3. QED
    BY <2>1, <2>2, ExclusiveMove DEF HeldState
<1>10. ASSUME NEW w \in Threads, RecoverFinish(w) PROVE Exclusive'
  BY <1>10, RecoverFinishEffect, HolderIsFree, ExclusiveMove
<1>11. ASSUME NEW w \in Threads, NEW t \in Txs, ResolveBegin(w, t) PROVE Exclusive'
  <2>1. /\ Writes(w, cur[t]) /\ sess[cur[t]].sm \in ResolutionStates
        /\ th'[w] = th[w] \/ th'[w].pc = "resolve"
    BY <1>11, ResolveBeginEffect
  <2>2. ~Holds(w)
    BY <1>11 DEF ResolveBegin, IsIdle, Holds
  <2>3. QED
    BY <2>1, <2>2, ExclusiveMove DEF FreeFor, HeldStates, ResolutionStates, Holds
<1>12. ASSUME NEW w \in Threads, ResolveFinish(w) PROVE Exclusive'
  <2>1. /\ Writes(w, th[w].s) /\ Move(th[w].s, "REVALIDATING") /\ th'[w] = Idle
    BY <1>12, ResolveFinishEffect
  <2>2. FreeFor(w, th[w].s)
    BY <2>1, RevalidatingFrom DEF FreeFor, HeldStates
  <2>3. QED
    BY <2>1, <2>2, ExclusiveMove
<1>13. CASE Environment \/ UNCHANGED vars
  BY <1>13, EnvironmentEffect, ExclusiveKept
<1>14. QED
  BY <1>1, <1>2, <1>3, <1>4, <1>5, <1>6, <1>7, <1>8, <1>9, <1>10, <1>11, <1>12, <1>13,
     StepCases

LEMMA ExclusiveInitially == Init => Exclusive
BY DEF Init, Exclusive, Holds, HoldPlaces, Idle

-----------------------------------------------------------------------------
(***************************************************************************)
(* The refinement.  Every step leaves the states of the sessions alone or  *)
(* moves one session along the graph, by one transition or by two.         *)
(***************************************************************************)

Legal(from, to) ==
  \/ from = to
  \/ from = "ABSENT" /\ to = "EXECUTING"
  \/ CanTransition(from, to)
  \/ \E via \in LifecycleStates : CanTransition(from, via) /\ CanTransition(via, to)

\* One step of one session; a closed one keeps its record.
SessionMoves(w, s) ==
  /\ Writes(w, s)
  /\ Legal(sess[s].sm, sess'[s].sm)
  /\ sess[s].sm \in {"PASS", "ABSTAIN"} =>
       /\ sess'[s].bundle = sess[s].bundle
       /\ sess'[s].status = sess[s].status
       /\ sess'[s].resp = sess[s].resp

LEMMA Graph ==
  /\ \A from, to : CanTransition(from, to) =>
       from \in LifecycleStates /\ to \in LifecycleStates
  /\ \A to \in Verdicts : /\ CanTransition("VERIFYING", to)
                          /\ CanTransition("REVALIDATING", to)
  /\ CanTransition("OBSERVING", "VERIFYING") /\ CanTransition("EXECUTING", "OBSERVING")
  /\ \A from \in RecoveryStates : CanTransition(from, "ABSTAIN")
  /\ CanTransition("DRIFT", "RECOVERING") /\ CanTransition("UNKNOWN", "RESOLVING")
  /\ Terminal = {"PASS", "ABSTAIN"}
  /\ "VERIFYING" \in LifecycleStates /\ "REVALIDATING" \in LifecycleStates
  /\ "UNKNOWN" \in Verdicts
<1> USE DEF CanTransition, PermittedTransitions, LifecycleStates, Verdicts
<1>1. Terminal = {"PASS", "ABSTAIN"}
  BY DEF Terminal
<1>2. \A from, to : CanTransition(from, to) =>
        from \in LifecycleStates /\ to \in LifecycleStates
  OBVIOUS
<1>3. /\ \A to \in Verdicts : /\ CanTransition("VERIFYING", to)
                             /\ CanTransition("REVALIDATING", to)
      /\ CanTransition("OBSERVING", "VERIFYING")
      /\ CanTransition("EXECUTING", "OBSERVING")
      /\ CanTransition("DRIFT", "RECOVERING") /\ CanTransition("UNKNOWN", "RESOLVING")
  OBVIOUS
<1>4. \A from \in RecoveryStates : CanTransition(from, "ABSTAIN")
  BY DEF RecoveryStates
<1>5. QED
  BY <1>1, <1>2, <1>3, <1>4

LEMMA SessionStep ==
  ASSUME TypeOK, Exclusive, [Next]_vars
  PROVE  sess' = sess \/ \E w \in Threads, s \in Sessions : SessionMoves(w, s)
<1>1. ASSUME NEW w \in Threads, CreateOrder(w)
      PROVE  \E s \in Sessions : SessionMoves(w, s)
  BY <1>1, CreateOrderEffect DEF SessionMoves, Legal
<1>2. ASSUME NEW w \in Threads, NEW t \in Txs, NEW p \in Payments, CompleteBegin(w, t, p)
      PROVE  SessionMoves(w, cur[t])
  BY <1>2, CompleteBeginEffect, Graph DEF SessionMoves, Legal
<1>3. ASSUME NEW w \in Threads, CompleteUnresolved(w) PROVE SessionMoves(w, th[w].s)
  BY <1>3, CompleteUnresolvedEffect, HolderIsFree, Graph DEF SessionMoves, Legal
<1>4. ASSUME NEW w \in Threads, CompleteObserve(w) PROVE SessionMoves(w, th[w].s)
  BY <1>4, CompleteObserveEffect, HolderIsFree, Graph DEF SessionMoves, Legal
<1>5. ASSUME NEW w \in Threads, CompleteEnforce(w) PROVE SessionMoves(w, th[w].s)
  BY <1>5, CompleteEnforceEffect, HolderIsFree, Graph DEF SessionMoves, Legal
<1>6. ASSUME NEW w \in Threads, NEW t \in Txs, RecoverBegin(w, t)
      PROVE  SessionMoves(w, cur[t])
  <2>1. /\ Writes(w, cur[t]) /\ sess[cur[t]].sm \in RecoveryStates
        /\ sess'[cur[t]].sm = Engaged(sess[cur[t]].sm)
    BY <1>6, RecoverBeginEffect
  <2>2. Legal(sess[cur[t]].sm, sess'[cur[t]].sm)
    BY <2>1, Graph DEF Legal, Engaged
  <2>3. QED
    BY <2>1, <2>2 DEF SessionMoves, RecoveryStates
<1>7. ASSUME NEW w \in Threads, NEW t \in Txs, RecoverAbstain(w, t) \/ ResolveExhausted(w, t)
      PROVE  SessionMoves(w, cur[t])
  BY <1>7, AbstainEffect, Graph DEF SessionMoves, Legal, RecoveryStates
<1>8. ASSUME NEW w \in Threads, Execute(w) \/ RecoverRaise(w) \/ RecoverEnter(w)
      PROVE  SessionMoves(w, th[w].s)
  BY <1>8, ExecutedEffect DEF SessionMoves, Legal, EvidenceKept, VerdictKept, Move
<1>9. ASSUME NEW w \in Threads, RecoverFinish(w) PROVE SessionMoves(w, th[w].s)
  BY <1>9, RecoverFinishEffect, HolderIsFree, Graph DEF SessionMoves, Legal
<1>10. ASSUME NEW w \in Threads, NEW t \in Txs, ResolveBegin(w, t)
       PROVE  SessionMoves(w, cur[t])
  BY <1>10, ResolveBeginEffect, Graph DEF SessionMoves, Legal, ResolutionStates
<1>11. ASSUME NEW w \in Threads, ResolveFinish(w) PROVE SessionMoves(w, th[w].s)
  <2>1. /\ Writes(w, th[w].s) /\ Move(th[w].s, "REVALIDATING")
        /\ sess'[th[w].s].sm \in Verdicts
    BY <1>11, ResolveFinishEffect
  <2>2. Legal(sess[th[w].s].sm, sess'[th[w].s].sm)
    BY <2>1, Graph DEF Legal, Move
  <2>3. QED
    BY <2>1, <2>2, RevalidatingFrom DEF SessionMoves
<1>12. \A w, s : SessionMoves(w, s) => s \in Sessions
  BY DEF SessionMoves, Writes
<1>13. ASSUME NEW w \in Threads, NEW t, CreateBegin(w, t) \/ CreateFail(w) \/ ResolveRaise(w)
       PROVE  sess' = sess
  BY <1>13, ElsewhereEffect
<1>14. QED
  BY <1>1, <1>2, <1>3, <1>4, <1>5, <1>6, <1>7, <1>8, <1>9, <1>10, <1>11, <1>12, <1>13,
     EnvironmentEffect, StepCases

LEMMA MovesRefine ==
  ASSUME TypeOK, TypeOK', NEW w \in Threads, NEW s \in Sessions, SessionMoves(w, s)
  PROVE  L!Next \/ UNCHANGED [r \in Sessions |-> sess[r].sm]
<1> DEFINE state == [r \in Sessions |-> sess[r].sm]
           next == [r \in Sessions |-> sess'[r].sm]
           to == sess'[s].sm
<1>1. next = [state EXCEPT ![s] = to]
  BY DEF SessionMoves, Writes
<1>2. CASE sess[s].sm = to
  <2>1. next = state
    BY <1>1, <1>2
  <2>2. QED
    BY <2>1
<1>3. CASE sess[s].sm = "ABSENT" /\ to = "EXECUTING"
  <2>1. L!CanTransition("CREATED", "EXECUTING")
    BY DEF L!CanTransition, L!PermittedTransitions, L!LifecycleStates
  <2>2. L!Create(s)
    BY <1>1, <1>3, <2>1 DEF L!Create
  <2>3. QED
    BY <2>2 DEF L!Next
<1>4. CASE CanTransition(sess[s].sm, to)
            \/ \E via \in LifecycleStates : /\ CanTransition(sess[s].sm, via)
                                            /\ CanTransition(via, to)
  <2>1. \A a, b : L!CanTransition(a, b) <=> CanTransition(a, b)
    BY DEF L!CanTransition, CanTransition, L!PermittedTransitions, PermittedTransitions,
           L!LifecycleStates, LifecycleStates, L!Verdicts, Verdicts
  <2>2. L!LifecycleStates = LifecycleStates /\ to \in LifecycleStates
    BY <1>4, Graph DEF L!LifecycleStates, LifecycleStates
  <2>3. L!Move(s)
    BY <1>1, <1>4, <2>1, <2>2 DEF L!Move
  <2>4. QED
    BY <2>3 DEF L!Next
<1>5. QED
  BY <1>2, <1>3, <1>4 DEF SessionMoves, Legal

(***************************************************************************)
(* The payment slice implements the state machine of domain/states: no     *)
(* session ever makes a transition its graph does not have, although only  *)
(* some handlers validate the transition they make and none takes a lock.  *)
(***************************************************************************)
THEOREM SliceImplementsLifecycle == Spec => ImplementsLifecycle
<1>1. Init => L!Init
  BY DEF Init, L!Init, NoSession
<1>2. TypeOK /\ TypeOK' /\ Exclusive /\ [Next]_vars
        => [L!Next]_[s \in Sessions |-> sess[s].sm]
  <2> SUFFICES ASSUME TypeOK, TypeOK', Exclusive, [Next]_vars
               PROVE  [L!Next]_[s \in Sessions |-> sess[s].sm]
    OBVIOUS
  <2>1. CASE sess' = sess
    BY <2>1
  <2>2. QED
    BY <2>1, SessionStep, MovesRefine
<1>3. Spec => [](TypeOK /\ Exclusive)
  BY TypeCorrect, ExclusiveInitially, ExclusiveStep, PTL DEF Spec
<1>4. Spec => L!Init
  BY <1>1, PTL DEF Spec
<1>5. Spec => [][L!Next]_[s \in Sessions |-> sess[s].sm]
  BY <1>2, <1>3, PTL DEF Spec
<1>6. Spec => L!Spec
  BY <1>4, <1>5, PTL DEF L!Spec
<1>7. QED
  BY <1>6, PTL DEF ImplementsLifecycle

(***************************************************************************)
(* PASS and ABSTAIN close a session: a recovery, resolution or completion  *)
(* still in progress changes neither its evidence nor its answer.          *)
(***************************************************************************)
THEOREM ClosedStaysClosed == Spec => ClosedRecord
<1>1. TypeOK /\ Exclusive /\ [Next]_vars =>
        [\A s \in Sessions : sess[s].sm \in Terminal =>
           /\ sess'[s].bundle = sess[s].bundle
           /\ sess'[s].status = sess[s].status
           /\ sess'[s].resp = sess[s].resp]_vars
  BY SessionStep, Graph DEF SessionMoves, Writes
<1>2. QED
  BY <1>1, TypeCorrect, ExclusiveInitially, ExclusiveStep, PTL DEF Spec, ClosedRecord

-----------------------------------------------------------------------------
(***************************************************************************)
(* What a verdict says of the evidence.                                    *)
(***************************************************************************)

Passes(bundle, events, repeated) == Verdict(bundle, events, repeated).status = "PASS"

\* The condition PassWithinBudget asks of the evidence on record.
Covered(bundle) ==
  /\ \E a \in bundle.amounts, r \in bundle.refunds \cup {0} : a - r <= MaxTotal
  /\ bundle.items = {"authorized"}

\* Everything on record has the same rank, so all of it is looked at.
LEMMA AuthoritativeValues ==
  ASSUME NEW values
  PROVE  /\ Top(Authoritative(values)) = Authoritative(values)
         /\ Values(Authoritative(values)) = values
         /\ {e \in Top(Authoritative(values)) :
               \A f \in Top(Authoritative(values)) : f.at <= e.at} = Authoritative(values)
<1>1. \A e \in Authoritative(values) : e.rank = 5 /\ e.at = 0
  BY DEF Authoritative
<1>2. Top(Authoritative(values)) = Authoritative(values)
  BY <1>1 DEF Top
<1>3. Values(Authoritative(values)) = values
  <2>1. ASSUME NEW v \in values PROVE v \in Values(Authoritative(values))
    <3> DEFINE e == [rank |-> 5, at |-> 0, value |-> v]
    <3>1. e \in Authoritative(values) /\ e.value = v
      BY DEF Authoritative
    <3> HIDE DEF e
    <3>2. QED
      BY <3>1 DEF Values
  <2>2. \A e \in Authoritative(values) : e.value \in values
    BY DEF Authoritative
  <2>3. QED
    BY <2>1, <2>2 DEF Values
<1>4. QED
  BY <1>1, <1>2, <1>3

LEMMA EconomicMeans ==
  ASSUME NEW amounts \in SUBSET Nat
  PROVE  Economic(Authoritative(amounts), MaxTotal) =
           IF Cardinality(amounts) # 1 THEN "UNKNOWN"
           ELSE IF \A a \in amounts : a > MaxTotal THEN "DRIFT" ELSE "PASS"
<1>1. NoAmount \notin amounts
  BY DEF NoAmount
<1>2. QED
  BY <1>1, AuthoritativeValues DEF Economic

LEMMA SemanticMeans ==
  ASSUME NEW items \in SUBSET EvidenceKinds
  PROVE  Semantic(Authoritative(items)) =
           IF items = {} THEN "UNKNOWN"
           ELSE IF "diverging" \in items THEN "DRIFT" ELSE "PASS"
<1>1. Authoritative(items) = {} <=> items = {}
  BY DEF Authoritative
<1>2. QED
  BY <1>1, AuthoritativeValues DEF Semantic

\* A verdict is PASS when one amount is on record, within the ceiling, nothing
\* but the authorized item, and the events are in order.
LEMMA PassMeans ==
  ASSUME NEW bundle \in Bundles, NEW events, NEW repeated
  PROVE  Passes(bundle, events, repeated) <=>
           /\ Cardinality(bundle.amounts) = 1
           /\ \E a \in bundle.amounts : a <= MaxTotal
           /\ bundle.items = {"authorized"}
           /\ Temporal(events, repeated, 1) = "PASS"
<1> DEFINE econ == Economic(Authoritative(bundle.amounts), MaxTotal)
           sem == Semantic(Authoritative(bundle.items))
           temp == Temporal(events, repeated, 1)
<1>1. bundle.amounts \in SUBSET Nat /\ bundle.items \in SUBSET EvidenceKinds
  BY DEF Bundles
<1>2. econ = "PASS" <=> /\ Cardinality(bundle.amounts) = 1
                        /\ \E a \in bundle.amounts : a <= MaxTotal
  BY <1>1, EconomicMeans, BoundsAssumption
<1>3. sem = "PASS" <=> bundle.items = {"authorized"}
  BY <1>1, SemanticMeans DEF EvidenceKinds
<1>4. Verdict(bundle, events, repeated).status = Overall({econ, sem, temp})
  BY DEF Verdict, Evaluate
<1>5. econ \in Verdicts /\ sem \in Verdicts /\ temp \in Verdicts
  BY DEF Economic, Semantic, Temporal, Verdicts
<1> HIDE DEF econ, sem, temp
<1>6. Overall({econ, sem, temp}) = "PASS" <=> econ = "PASS" /\ sem = "PASS" /\ temp = "PASS"
  BY <1>5 DEF Overall, Verdicts
<1>7. QED
  BY <1>2, <1>3, <1>4, <1>6 DEF Passes, temp

\* With amount and item in order only the events can stand against PASS.
LEMMA NotUnknown ==
  ASSUME NEW bundle \in Bundles, NEW events, NEW repeated, events # {},
         Cardinality(bundle.amounts) = 1,
         \E a \in bundle.amounts : a <= MaxTotal,
         bundle.items = {"authorized"}
  PROVE  Verdict(bundle, events, repeated).status # "UNKNOWN"
<1>1. bundle.amounts \in SUBSET Nat /\ bundle.items \in SUBSET EvidenceKinds
  BY DEF Bundles
<1>2. Economic(Authoritative(bundle.amounts), MaxTotal) = "PASS"
  BY <1>1, EconomicMeans, BoundsAssumption
<1>3. Semantic(Authoritative(bundle.items)) = "PASS"
  BY <1>1, SemanticMeans DEF EvidenceKinds
<1>4. Temporal(events, repeated, 1) # "UNKNOWN"
  BY DEF Temporal
<1>5. QED
  BY <1>2, <1>3, <1>4 DEF Verdict, Evaluate, Overall

LEMMA OverchargeMeans ==
  ASSUME NEW bundle \in Bundles, NEW events, NEW repeated,
         "OVERCHARGE" \in Verdict(bundle, events, repeated).viol
  PROVE  \A a \in bundle.amounts : a > MaxTotal
<1>1. bundle.amounts \in SUBSET Nat
  BY DEF Bundles
<1>2. Economic(Authoritative(bundle.amounts), MaxTotal) = "DRIFT"
  BY DEF Verdict, Evaluate
<1>3. QED
  BY <1>1, <1>2, EconomicMeans

\* So an overcharge on record rules PASS out, whatever the events.
LEMMA OverchargeFails ==
  ASSUME NEW bundle \in Bundles, \A a \in bundle.amounts : a > MaxTotal
  PROVE  \A events, repeated : ~Passes(bundle, events, repeated)
BY PassMeans, BoundsAssumption DEF Bundles

LEMMA PassIsCovered ==
  ASSUME NEW bundle \in Bundles, NEW events, NEW repeated, Passes(bundle, events, repeated)
  PROVE  Covered(bundle)
<1>1. PICK a \in bundle.amounts : a <= MaxTotal
  BY PassMeans
<1>2. a - 0 <= MaxTotal
  BY <1>1 DEF Bundles
<1>3. QED
  BY <1>2, PassMeans DEF Covered

(***************************************************************************)
(* What revalidate_recovery concludes from the amount less the refund.     *)
(***************************************************************************)

LEMMA NettedType ==
  ASSUME NEW bundle \in Bundles, NEW d \in Executions
  PROVE  /\ Netted(bundle, d) \in Bundles
         /\ Netted(bundle, d).items = bundle.items
<1>1. d.amt \in Nat
  BY DEF Executions
<1>2. {IF a > d.amt THEN a - d.amt ELSE 0 : a \in bundle.amounts} \subseteq Nat
  BY <1>1 DEF Bundles
<1>3. QED
  BY <1>2 DEF Netted, Bundles

\* A PASS on the net amount: an amount less this refund is within the ceiling.
LEMMA NettedPass ==
  ASSUME NEW bundle \in Bundles, NEW d \in Executions, NEW events, NEW repeated,
         Passes(Netted(bundle, d), events, repeated)
  PROVE  Covered(Merge(bundle, RecoveryEvidence(d)))
<1> DEFINE merged == Merge(bundle, RecoveryEvidence(d))
<1>1. /\ \E n \in Netted(bundle, d).amounts : n <= MaxTotal
      /\ bundle.items = {"authorized"}
  BY NettedType, PassMeans
<1>2. merged.items = bundle.items /\ merged.amounts = bundle.amounts
  BY DEF Merge, RecoveryEvidence
<1>3. d.amt \in Nat /\ bundle.amounts \subseteq Nat
  BY DEF Executions, Bundles
<1>4. CASE d.type # "REFUND"
  <2>1. PICK a \in bundle.amounts : a <= MaxTotal
    BY <1>1, <1>4 DEF Netted
  <2>2. a - 0 <= MaxTotal
    BY <1>3, <2>1
  <2> HIDE DEF merged
  <2>3. QED
    BY <1>1, <1>2, <2>2 DEF Covered, merged
<1>5. CASE d.type = "REFUND"
  <2>1. Netted(bundle, d).amounts = {IF a > d.amt THEN a - d.amt ELSE 0 : a \in bundle.amounts}
    BY <1>5 DEF Netted, Bundles
  <2>2. PICK a \in bundle.amounts : (IF a > d.amt THEN a - d.amt ELSE 0) <= MaxTotal
    BY <1>1, <2>1
  <2>3. a - d.amt <= MaxTotal
    BY <1>3, <2>2, BoundsAssumption
  <2>4. d.amt \in merged.refunds
    BY <1>5 DEF Merge, RecoveryEvidence
  <2> HIDE DEF merged
  <2>5. QED
    BY <1>1, <1>2, <2>3, <2>4 DEF Covered, merged
<1>6. QED
  BY <1>4, <1>5

\* An overcharge of the net amount is one of the amount on record.
LEMMA NettedOvercharge ==
  ASSUME NEW bundle \in Bundles, NEW d \in Executions,
         \A n \in Netted(bundle, d).amounts : n > MaxTotal
  PROVE  \A a \in Merge(bundle, RecoveryEvidence(d)).amounts : a > MaxTotal
<1>1. d.amt \in Nat /\ bundle.amounts \subseteq Nat
  BY DEF Executions, Bundles
<1>2. Merge(bundle, RecoveryEvidence(d)).amounts = bundle.amounts
  BY DEF Merge, RecoveryEvidence
<1>3. CASE d.type # "REFUND"
  BY <1>2, <1>3 DEF Netted
<1>4. CASE d.type = "REFUND"
  <2>1. Netted(bundle, d).amounts = {IF a > d.amt THEN a - d.amt ELSE 0 : a \in bundle.amounts}
    BY <1>4 DEF Netted, Bundles
  <2>2. \A a \in bundle.amounts : (IF a > d.amt THEN a - d.amt ELSE 0) > MaxTotal
    BY <2>1
  <2>3. QED
    BY <1>1, <1>2, <2>2, BoundsAssumption
<1>5. QED
  BY <1>3, <1>4

\* What passes gross passes net.
LEMMA NettedStillPasses ==
  ASSUME NEW bundle \in Bundles, IsFiniteSet(bundle.amounts), NEW d \in Executions,
         NEW events, NEW repeated,
         Passes(Merge(bundle, RecoveryEvidence(d)), events, repeated)
  PROVE  Passes(Netted(bundle, d), events, repeated)
<1> DEFINE merged == Merge(bundle, RecoveryEvidence(d))
<1>1. merged.items = bundle.items /\ merged.amounts = bundle.amounts
  BY DEF Merge, RecoveryEvidence
<1>2. merged \in Bundles
  BY RecoveryEvidenceType DEF Merge, Bundles, EvidenceKinds
<1> HIDE DEF merged
<1>3. /\ Cardinality(bundle.amounts) = 1
      /\ \E a \in bundle.amounts : a <= MaxTotal
      /\ bundle.items = {"authorized"}
      /\ Temporal(events, repeated, 1) = "PASS"
  BY <1>1, <1>2, PassMeans DEF merged
<1>4. CASE d.type # "REFUND"
  <2>1. Netted(bundle, d) = bundle
    BY <1>4 DEF Netted
  <2>2. QED
    BY <1>3, <2>1, PassMeans
<1>5. CASE d.type = "REFUND"
  <2>1. PICK a : bundle.amounts = {a}
    BY <1>3, FS_Singleton
  <2>2. a \in Nat /\ a <= MaxTotal /\ d.amt \in Nat
    BY <1>3, <2>1 DEF Bundles, Executions
  <2> DEFINE n == IF a > d.amt THEN a - d.amt ELSE 0
  <2>3. Netted(bundle, d).amounts = {n}
    BY <1>5, <2>1 DEF Netted, Bundles
  <2>4. n <= MaxTotal
    BY <2>2, BoundsAssumption
  <2> HIDE DEF n
  <2>5. Cardinality({n}) = 1
    BY FS_Singleton
  <2>6. QED
    BY <1>3, <2>3, <2>4, <2>5, NettedType, PassMeans
<1>6. QED
  BY <1>4, <1>5

-----------------------------------------------------------------------------
(***************************************************************************)
(* The evidence a session holds never adds up to PASS while its verdict is *)
(* open, nor after an overcharge was found: an answer of PASS is therefore *)
(* always drawn from the evidence it is stored with.  A resolution keeps   *)
(* the evidence it began with, which did not add up to PASS then, whatever *)
(* the session has been given since.                                       *)
(***************************************************************************)

Early == {"ABSENT", "EXECUTING", "OBSERVING"}
Undecided == {"UNKNOWN", "RESOLVING", "RECOVERING", "REVALIDATING"}

PassesNow(s) == Passes(sess[s].bundle, sess[s].events, sess[s].repeated)

SessionSound(s) ==
  /\ IsFiniteSet(sess[s].bundle.amounts)
  /\ sess[s].sm \in Early => sess[s].bundle = NoEvidence /\ sess[s].repeated = FALSE
  /\ sess[s].sm \in Undecided => ~PassesNow(s)
  /\ sess[s].sm = "DRIFT" =>
       sess[s].status = "DRIFT" /\ ("OVERCHARGE" \in sess[s].viol => ~PassesNow(s))
  /\ sess[s].sm = "PASS" => Covered(sess[s].bundle)

CallSound(w) ==
  /\ At(w, "enforce") =>
       /\ sess[th[w].s].repeated = FALSE
       /\ th[w].verdict = Verdict(sess[th[w].s].bundle, sess[th[w].s].events, FALSE)
  /\ At(w, "resolve") =>
       /\ IsFiniteSet(th[w].bundle.amounts)
       /\ ~Passes(th[w].bundle, th[w].events, th[w].repeated)

VerdictsSound ==
  /\ \A s \in Sessions : SessionSound(s)
  /\ \A w \in Threads : CallSound(w)

\* Writing a session leaves the other calls sound: none of them verifies it.
LEMMA SoundWrite ==
  ASSUME TypeOK, Exclusive, VerdictsSound, NEW w \in Threads, NEW s, Writes(w, s),
         FreeFor(w, s) \/ EvidenceKept(s), SessionSound(s)', CallSound(w)'
  PROVE  VerdictsSound'
<1>1. ASSUME NEW r \in Sessions PROVE SessionSound(r)'
  <2>1. CASE r = s
    BY <2>1
  <2>2. CASE r # s
    <3>1. SessionSound(r) /\ sess'[r] = sess[r]
      BY <2>2 DEF VerdictsSound, Writes
    <3>2. QED
      BY <3>1 DEF SessionSound, PassesNow
  <2>3. QED
    BY <2>1, <2>2
<1>2. ASSUME NEW v \in Threads, v # w PROVE CallSound(v)'
  <2>1. th'[v] = th[v] /\ CallSound(v)
    BY <1>2 DEF Writes, VerdictsSound
  <2>2. CASE At(v, "enforce")
    <3>1. Holds(v) /\ th[v].s \in Sessions /\ sess[th[v].s].sm = "VERIFYING"
      BY <2>2, ThreadAt, HolderIsFree DEF Holds, HoldPlaces, At
    <3>2. th[v].s = s => ~FreeFor(w, s)
      BY <1>2, <3>1 DEF FreeFor, HeldStates, Exclusive
    <3>3. /\ sess'[th[v].s].bundle = sess[th[v].s].bundle
          /\ sess'[th[v].s].events = sess[th[v].s].events
          /\ sess'[th[v].s].repeated = sess[th[v].s].repeated
      BY <3>1, <3>2 DEF Writes, EvidenceKept
    <3>4. QED
      BY <2>1, <2>2, <3>3 DEF CallSound, At
  <2>3. CASE ~At(v, "enforce")
    BY <2>1, <2>3 DEF CallSound, At
  <2>4. QED
    BY <2>2, <2>3
<1>3. QED
  BY <1>1, <1>2 DEF VerdictsSound

\* Nothing is written, and no call arrives where it holds evidence.
LEMMA SoundKept ==
  ASSUME VerdictsSound, sess' = sess,
         \A v \in Threads : th'[v] = th[v] \/ th'[v].pc \in {"order", "idle"}
  PROVE  VerdictsSound'
<1>1. ASSUME NEW v \in Threads PROVE CallSound(v)'
  <2>1. CallSound(v) /\ (th'[v] = th[v] \/ th'[v].pc \in {"order", "idle"})
    BY DEF VerdictsSound
  <2>2. QED
    BY <2>1 DEF CallSound, At
<1>2. QED
  BY <1>1 DEF VerdictsSound, SessionSound, PassesNow

LEMMA EvidenceKeptPasses ==
  ASSUME NEW s, EvidenceKept(s)
  PROVE  /\ PassesNow(s)' <=> PassesNow(s)
         /\ IsFiniteSet(sess[s].bundle.amounts)' <=> IsFiniteSet(sess[s].bundle.amounts)
BY DEF EvidenceKept, PassesNow

\* A session whose verdict stays open, or is given up, with its evidence.
LEMMA OpenSound ==
  ASSUME NEW s, SessionSound(s), EvidenceKept(s), ~PassesNow(s),
         sess'[s].sm \in Undecided \cup {"ABSTAIN"}
  PROVE  SessionSound(s)'
BY EvidenceKeptPasses DEF SessionSound, Undecided, Early

LEMMA CompleteSound ==
  ASSUME TypeOK, TypeOK', Exclusive, VerdictsSound, NEW w \in Threads,
         \/ CompleteUnresolved(w) \/ CompleteObserve(w) \/ CompleteEnforce(w)
         \/ \E t \in Txs, p \in Payments : CompleteBegin(w, t, p)
  PROVE  VerdictsSound'
<1>1. ASSUME NEW t \in Txs, NEW p \in Payments, CompleteBegin(w, t, p) PROVE VerdictsSound'
  <2>0. PICK s : s = cur[t]
    OBVIOUS
  <2>1. /\ s = cur[t] /\ Writes(w, s) /\ EvidenceKept(s)
        /\ sess[s].sm = "EXECUTING" /\ sess'[s].sm = "OBSERVING" /\ th'[w].pc = "observe"
    BY <2>0, <1>1, CompleteBeginEffect
  <2>2. SessionSound(s)
    BY <2>1 DEF Writes, VerdictsSound
  <2>3. SessionSound(s)'
    BY <2>1, <2>2 DEF SessionSound, EvidenceKept, Early, Undecided
  <2>4. CallSound(w)'
    BY <2>1 DEF CallSound, At
  <2>5. QED
    BY <2>1, <2>3, <2>4, SoundWrite
<1>2. CASE CompleteUnresolved(w)
  <2>0. PICK s : s = th[w].s
    OBVIOUS
  <2>1. /\ s = th[w].s /\ Writes(w, s) /\ EvidenceKept(s) /\ sess[s].sm = "OBSERVING"
        /\ sess'[s].sm = "UNKNOWN" /\ th'[w] = Idle
    BY <2>0, <1>2, CompleteUnresolvedEffect, HolderIsFree
  <2>2. SessionSound(s)
    BY <2>1 DEF Writes, VerdictsSound
  <2>3. ~PassesNow(s)
    <3>1. sess[s].bundle = NoEvidence
      BY <2>1, <2>2 DEF SessionSound, Early
    <3>2. Cardinality(NoEvidence.amounts) = 0
      BY FS_EmptySet DEF NoEvidence
    <3>3. \A events, repeated : ~Passes(NoEvidence, events, repeated)
      BY <3>2, BundleTypes, PassMeans
    <3>4. QED
      BY <3>1, <3>3 DEF PassesNow
  <2>4. SessionSound(s)'
    BY <2>1, <2>2, <2>3, OpenSound DEF Undecided
  <2>5. CallSound(w)'
    BY <2>1 DEF CallSound, At, Idle
  <2>6. QED
    BY <2>1, <2>4, <2>5, SoundWrite
<1>3. CASE CompleteObserve(w)
  <2>0. PICK s : s = th[w].s
    OBVIOUS
  <2>1. /\ s = th[w].s /\ Writes(w, s) /\ FreeFor(w, s) /\ sess[s].sm = "OBSERVING"
        /\ sess'[s].sm = "VERIFYING"
        /\ sess'[s].bundle = ObservedAtCompletion(th[w].pay)
        /\ sess'[s].repeated = sess[s].repeated
        /\ th'[w].pc = "enforce" /\ th'[w].s = s
        /\ th'[w].verdict = Verdict(sess'[s].bundle, sess'[s].events, FALSE)
    BY <2>0, <1>3, CompleteObserveEffect, HolderIsFree
  <2>2. SessionSound(s)
    BY <2>1 DEF Writes, VerdictsSound
  <2>3. sess'[s].repeated = FALSE
    BY <2>1, <2>2 DEF SessionSound, Early
  <2>4. IsFiniteSet(sess'[s].bundle.amounts)
    <3>1. sess'[s].bundle.amounts = {gw[th[w].pay].amount}
      BY <2>1 DEF ObservedAtCompletion
    <3>2. IsFiniteSet({gw[th[w].pay].amount})
      BY FS_Singleton
    <3>3. QED
      BY <3>1, <3>2
  <2>5. SessionSound(s)'
    <3>1. sess'[s].sm = "VERIFYING" /\ IsFiniteSet(sess'[s].bundle.amounts)
      BY <2>1, <2>4
    <3>2. QED
      BY <3>1 DEF SessionSound, Early, Undecided
  <2>6. CallSound(w)'
    BY <2>1, <2>3 DEF CallSound, At
  <2>7. QED
    BY <2>1, <2>5, <2>6, SoundWrite
<1>4. CASE CompleteEnforce(w)
  <2>0. PICK s : s = th[w].s
    OBVIOUS
  <2> DEFINE verdict == BoundVerdict(th[w].verdict, th[w].valid)
  <2>1. /\ s = th[w].s /\ Writes(w, s) /\ EvidenceKept(s) /\ At(w, "enforce")
        /\ sess'[s].sm = verdict.status /\ sess'[s].status = verdict.status
        /\ sess'[s].viol = verdict.viol /\ verdict.status \in Verdicts
        /\ th'[w] = Idle
    BY <2>0, <1>4, CompleteEnforceEffect
  <2>2. SessionSound(s) /\ CallSound(w) /\ sess[s].bundle \in Bundles
    BY <2>1 DEF Writes, VerdictsSound, TypeOK, SessionRecords
  <2>3. /\ th[w].verdict = Verdict(sess[s].bundle, sess[s].events, FALSE)
        /\ sess[s].repeated = FALSE
    BY <2>1, <2>2 DEF CallSound
  <2>4. PassesNow(s) <=> th[w].verdict.status = "PASS"
    BY <2>3 DEF PassesNow, Passes
  <2>5. \/ verdict = th[w].verdict
        \/ /\ verdict.status = "DRIFT" /\ verdict.viol = th[w].verdict.viol \cup {"BINDING"}
    BY DEF BoundVerdict
  <2> HIDE DEF verdict
  <2>6. "OVERCHARGE" \in verdict.viol => ~PassesNow(s)
    <3>1. "OVERCHARGE" \in verdict.viol => "OVERCHARGE" \in th[w].verdict.viol
      BY <2>5
    <3>2. QED
      BY <2>2, <2>3, <3>1, OverchargeMeans, OverchargeFails DEF PassesNow
  <2>7. verdict.status = "UNKNOWN" => ~PassesNow(s)
    BY <2>4, <2>5
  <2>8. verdict.status = "PASS" => Covered(sess[s].bundle)
    BY <2>2, <2>4, <2>5, PassIsCovered DEF PassesNow
  <2>9. SessionSound(s)'
    <3>1. IsFiniteSet(sess[s].bundle.amounts)'
      BY <2>1, <2>2, EvidenceKeptPasses DEF SessionSound
    <3>2. PassesNow(s)' <=> PassesNow(s)
      BY <2>1, EvidenceKeptPasses
    <3>3. verdict.status = "PASS" => Covered(sess[s].bundle)'
      BY <2>1, <2>8 DEF EvidenceKept
    <3>4. QED
      BY <2>1, <2>6, <2>7, <3>1, <3>2, <3>3 DEF SessionSound, Early, Undecided, Verdicts
  <2>10. CallSound(w)'
    BY <2>1 DEF CallSound, At, Idle
  <2>11. QED
    BY <2>1, <2>9, <2>10, SoundWrite
<1>5. QED
  BY <1>1, <1>2, <1>3, <1>4

LEMMA RecoverSound ==
  ASSUME TypeOK, TypeOK', Exclusive, VerdictsSound, NEW w \in Threads,
         \/ Execute(w) \/ RecoverRaise(w) \/ RecoverEnter(w) \/ RecoverFinish(w)
         \/ \E t \in Txs : RecoverBegin(w, t)
  PROVE  VerdictsSound'
<1>1. ASSUME NEW t \in Txs, RecoverBegin(w, t) PROVE VerdictsSound'
  <2>0. PICK s : s = cur[t]
    OBVIOUS
  <2>1. /\ s = cur[t] /\ Writes(w, s) /\ EvidenceKept(s) /\ sess[s].sm \in RecoveryStates
        /\ Recoverable(s) /\ sess'[s].sm = Engaged(sess[s].sm) /\ th'[w].pc = "execute"
    BY <2>0, <1>1, RecoverBeginEffect
  <2>2. SessionSound(s)
    BY <2>1 DEF Writes, VerdictsSound
  <2>3. ~PassesNow(s)
    BY <2>1, <2>2 DEF SessionSound, RecoveryStates, Undecided, Recoverable
  <2>4. SessionSound(s)'
    BY <2>1, <2>2, <2>3, OpenSound DEF RecoveryStates, Engaged, Undecided
  <2>5. CallSound(w)'
    BY <2>1 DEF CallSound, At
  <2>6. QED
    BY <2>1, <2>4, <2>5, SoundWrite
<1>2. CASE Execute(w) \/ RecoverRaise(w) \/ RecoverEnter(w)
  <2>0. PICK s : s = th[w].s
    OBVIOUS
  <2>1. /\ s = th[w].s /\ Writes(w, s) /\ EvidenceKept(s) /\ VerdictKept(s)
        /\ th'[w].pc \in {"idle", "budget", "count", "record", "executed", "revalidate"}
        /\ \/ sess'[s].sm = sess[s].sm
           \/ Move(s, "REVALIDATING") /\ sess'[s].sm = "REVALIDATING"
    BY <2>0, <1>2, ExecutedEffect
  <2>2. SessionSound(s)
    BY <2>1 DEF Writes, VerdictsSound
  <2>3. SessionSound(s)'
    <3>1. CASE sess'[s].sm = sess[s].sm
      BY <2>1, <2>2, <3>1, EvidenceKeptPasses DEF SessionSound, EvidenceKept, VerdictKept
    <3>2. CASE Move(s, "REVALIDATING") /\ sess'[s].sm = "REVALIDATING"
      <4>1. ~PassesNow(s)
        BY <2>2, <3>2, RevalidatingFrom DEF SessionSound, Undecided
      <4>2. QED
        BY <2>1, <2>2, <3>2, <4>1, OpenSound DEF Undecided
    <3>3. QED
      BY <2>1, <3>1, <3>2
  <2>4. CallSound(w)'
    BY <2>1 DEF CallSound, At
  <2>5. QED
    BY <2>1, <2>3, <2>4, SoundWrite
<1>3. CASE RecoverFinish(w)
  <2>0. PICK s : s = th[w].s
    OBVIOUS
  <2> DEFINE d == th[w].exec
             before == sess[s].bundle
             verdict == Verdict(Netted(before, d), sess'[s].events, sess'[s].repeated)
  <2>1. /\ s = th[w].s /\ Writes(w, s) /\ FreeFor(w, s) /\ At(w, "revalidate")
        /\ sess'[s].bundle = Merge(before, RecoveryEvidence(d))
        /\ sess'[s].sm = verdict.status /\ sess'[s].status = verdict.status
        /\ sess'[s].viol = verdict.viol /\ verdict.status \in Verdicts
        /\ th'[w] = Idle
    BY <2>0, <1>3, RecoverFinishEffect, HolderIsFree
  <2>2. SessionSound(s) /\ before \in Bundles /\ d \in Executions
        /\ sess'[s].bundle \in Bundles
    BY <2>1, ThreadAt DEF Writes, VerdictsSound, TypeOK, SessionRecords
  <2>3. Netted(before, d) \in Bundles
    BY <2>2, NettedType
  <2>4. IsFiniteSet(before.amounts) /\ sess'[s].bundle.amounts = before.amounts
    <3>1. Merge(before, RecoveryEvidence(d)).amounts = before.amounts \cup {}
      BY DEF Merge, RecoveryEvidence
    <3>2. IsFiniteSet(before.amounts)
      BY <2>2 DEF SessionSound
    <3>3. QED
      BY <2>1, <3>1, <3>2
  <2>5. "OVERCHARGE" \in verdict.viol => ~PassesNow(s)'
    BY <2>1, <2>2, <2>3, OverchargeMeans, NettedOvercharge, OverchargeFails DEF PassesNow
  <2>6. verdict.status = "UNKNOWN" => ~PassesNow(s)'
    BY <2>1, <2>2, <2>4, NettedStillPasses DEF PassesNow, Passes
  <2>7. verdict.status = "PASS" => Covered(sess[s].bundle)'
    BY <2>1, <2>2, NettedPass DEF Passes
  <2> HIDE DEF verdict
  <2>8. SessionSound(s)'
    BY <2>1, <2>4, <2>5, <2>6, <2>7 DEF SessionSound, Early, Undecided, Verdicts
  <2>9. CallSound(w)'
    BY <2>1 DEF CallSound, At, Idle
  <2>10. QED
    BY <2>1, <2>8, <2>9, SoundWrite
<1>4. QED
  BY <1>1, <1>2, <1>3

\* What the observer returns, case by case.
LEMMA ObservationCases ==
  ASSUME NEW w \in Threads, NEW o \in Observations(w)
  PROVE  \/ /\ o.bundle = sess[th[w].s].bundle /\ o.events = {}
            /\ \/ o.verdict = Unresolved({}) \/ o.verdict = Unresolved({"CONFLICT"})
               \/ o.verdict = Verdict(th[w].bundle, th[w].events, th[w].repeated)
         \/ \E p \in Payments :
              /\ o.bundle = Merge(th[w].bundle, ObservedAtResolution(p))
              /\ o.events = {PaymentEvent("res", p)}
              /\ o.verdict = Verdict(o.bundle, th[w].events \cup o.events,
                               th[w].repeated \/ PaymentEvent("res", p) \in th[w].events)
<1>1. \/ \E v \in {Unresolved({}), Unresolved({"CONFLICT"}),
                   Verdict(th[w].bundle, th[w].events, th[w].repeated)} :
           o = NoObservation(w, v)
      \/ \E p \in Payments : o = Observation(w, p)
  BY DEF Observations, LatestOf
<1>2. CASE \E p \in Payments : o = Observation(w, p)
  BY <1>2 DEF Observation
<1>3. QED
  BY <1>1, <1>2 DEF NoObservation

LEMMA ResolveSound ==
  ASSUME TypeOK, TypeOK', Exclusive, VerdictsSound, NEW w \in Threads,
         ResolveFinish(w) \/ \E t \in Txs : ResolveBegin(w, t)
  PROVE  VerdictsSound'
<1>1. ASSUME NEW t \in Txs, ResolveBegin(w, t) PROVE VerdictsSound'
  <2>0. PICK s : s = cur[t]
    OBVIOUS
  <2>1. /\ s = cur[t] /\ Writes(w, s) /\ EvidenceKept(s)
        /\ sess[s].sm \in ResolutionStates /\ sess'[s].sm = "RESOLVING"
        /\ \/ th'[w] = th[w]
           \/ /\ th'[w].pc = "resolve" /\ th'[w].bundle = sess[s].bundle
              /\ th'[w].events = sess[s].events /\ th'[w].repeated = sess[s].repeated
    BY <2>0, <1>1, ResolveBeginEffect
  <2>2. SessionSound(s)
    BY <2>1 DEF Writes, VerdictsSound
  <2>3. ~PassesNow(s) /\ IsFiniteSet(sess[s].bundle.amounts)
    BY <2>1, <2>2 DEF SessionSound, ResolutionStates, Undecided
  <2>4. SessionSound(s)'
    BY <2>1, <2>2, <2>3, OpenSound DEF Undecided
  <2>5. CallSound(w)'
    <3>1. th[w].pc = "idle"
      BY <1>1 DEF ResolveBegin, IsIdle, Idle
    <3>2. QED
      BY <2>1, <2>3, <3>1 DEF CallSound, At, PassesNow
  <2>6. QED
    BY <2>1, <2>4, <2>5, SoundWrite
<1>2. CASE ResolveFinish(w)
  <2>0. PICK s : s = th[w].s
    OBVIOUS
  <2>1. PICK o \in Observations(w) :
          /\ s = th[w].s /\ Writes(w, s) /\ At(w, "resolve") /\ Move(s, "REVALIDATING")
          /\ sess'[s].bundle = o.bundle
          /\ sess'[s].events = sess[s].events \cup o.events
          /\ sess'[s].repeated = sess[s].repeated
          /\ sess'[s].sm = o.verdict.status /\ sess'[s].status = o.verdict.status
          /\ sess'[s].viol = o.verdict.viol /\ o.verdict.status \in Verdicts
          /\ th'[w] = Idle
    BY <2>0, <1>2, ResolveFinishEffect
  <2>2. SessionSound(s) /\ CallSound(w) /\ sess'[s].bundle \in Bundles
    BY <2>1 DEF Writes, VerdictsSound, TypeOK, SessionRecords
  <2>3. ~PassesNow(s) /\ FreeFor(w, s)
    BY <2>1, <2>2, RevalidatingFrom DEF SessionSound, Undecided, FreeFor, HeldStates
  <2>4. SessionSound(s)'
    <3>1. CASE /\ o.bundle = sess[s].bundle /\ o.events = {}
               /\ \/ o.verdict = Unresolved({}) \/ o.verdict = Unresolved({"CONFLICT"})
                  \/ o.verdict = Verdict(th[w].bundle, th[w].events, th[w].repeated)
      <4>1. o.verdict.status # "PASS"
        BY <2>1, <2>2, <3>1 DEF CallSound, Passes, Unresolved
      <4>2. EvidenceKept(s)
        BY <2>1, <3>1 DEF EvidenceKept
      <4>3. ~PassesNow(s)' /\ IsFiniteSet(sess[s].bundle.amounts)'
        BY <2>2, <2>3, <4>2, EvidenceKeptPasses DEF SessionSound
      <4>4. QED
        BY <2>1, <4>1, <4>3 DEF SessionSound, Early, Undecided, Verdicts
    <3>2. ASSUME NEW p \in Payments,
                 o.bundle = Merge(th[w].bundle, ObservedAtResolution(p)),
                 o.events = {PaymentEvent("res", p)},
                 o.verdict = Verdict(o.bundle, th[w].events \cup o.events,
                               th[w].repeated \/ PaymentEvent("res", p) \in th[w].events)
          PROVE  SessionSound(s)'
      <4> DEFINE events == th[w].events \cup o.events
                 repeated == th[w].repeated \/ PaymentEvent("res", p) \in th[w].events
      <4>1. events # {} /\ o.verdict = Verdict(o.bundle, events, repeated)
        BY <3>2
      <4> HIDE DEF events, repeated
      <4>2. IsFiniteSet(sess'[s].bundle.amounts)
        <5>1. o.bundle.amounts = th[w].bundle.amounts \cup {gw[p].amount}
          BY <3>2 DEF Merge, ObservedAtResolution
        <5>2. IsFiniteSet(th[w].bundle.amounts) /\ IsFiniteSet({gw[p].amount})
          BY <2>1, <2>2, FS_Singleton DEF CallSound
        <5>3. QED
          <6>1. IsFiniteSet(th[w].bundle.amounts \cup {gw[p].amount})
            BY ONLY <5>2, FS_Union
          <6>2. QED
            BY <2>1, <5>1, <6>1
      <4>3. o.bundle \in Bundles
        BY <2>1, <2>2
      <4>4. "OVERCHARGE" \in o.verdict.viol => ~PassesNow(s)'
        BY <2>1, <4>1, <4>3, OverchargeMeans, OverchargeFails DEF PassesNow
      <4>5. o.verdict.status = "UNKNOWN" => ~PassesNow(s)'
        BY <2>1, <4>1, <4>3, PassMeans, NotUnknown DEF PassesNow
      <4>6. o.verdict.status = "PASS" => Covered(sess[s].bundle)'
        BY <2>1, <4>1, <4>3, PassIsCovered DEF Passes
      <4>7. QED
        BY <2>1, <4>2, <4>4, <4>5, <4>6 DEF SessionSound, Early, Undecided, Verdicts
    <3>3. \/ /\ o.bundle = sess[s].bundle /\ o.events = {}
             /\ \/ o.verdict = Unresolved({}) \/ o.verdict = Unresolved({"CONFLICT"})
                \/ o.verdict = Verdict(th[w].bundle, th[w].events, th[w].repeated)
          \/ \E p \in Payments :
               /\ o.bundle = Merge(th[w].bundle, ObservedAtResolution(p))
               /\ o.events = {PaymentEvent("res", p)}
               /\ o.verdict = Verdict(o.bundle, th[w].events \cup o.events,
                                th[w].repeated \/ PaymentEvent("res", p) \in th[w].events)
      <4>1. s = th[w].s /\ o \in Observations(w)
        BY <2>1
      <4>2. QED
        BY <4>1, ObservationCases
    <3>4. QED
      BY <3>1, <3>2, <3>3
  <2>5. CallSound(w)'
    BY <2>1 DEF CallSound, At, Idle
  <2>6. QED
    BY <2>1, <2>3, <2>4, <2>5, SoundWrite
<1>3. QED
  BY <1>1, <1>2

LEMMA SoundStep == TypeOK /\ TypeOK' /\ Exclusive /\ VerdictsSound /\ [Next]_vars => VerdictsSound'
<1> SUFFICES ASSUME TypeOK, TypeOK', Exclusive, VerdictsSound, [Next]_vars
             PROVE  VerdictsSound'
  OBVIOUS
<1>1. ASSUME NEW w \in Threads, CreateOrder(w) PROVE VerdictsSound'
  <2>1. PICK s \in Sessions :
          /\ Writes(w, s) /\ sess[s].sm = "ABSENT" /\ sess'[s].sm = "EXECUTING"
          /\ sess'[s].bundle = NoEvidence /\ sess'[s].repeated = FALSE /\ th'[w] = Idle
    BY <1>1, CreateOrderEffect
  <2>2. SessionSound(s)'
    BY <2>1, FS_EmptySet DEF SessionSound, Early, Undecided, NoEvidence
  <2>3. CallSound(w)'
    BY <2>1 DEF CallSound, At, Idle
  <2>4. QED
    BY <2>1, <2>2, <2>3, SoundWrite DEF FreeFor, HeldStates
<1>2. ASSUME NEW w \in Threads, NEW t \in Txs, RecoverAbstain(w, t) \/ ResolveExhausted(w, t)
      PROVE  VerdictsSound'
  <2>0. PICK s : s = cur[t]
    OBVIOUS
  <2>1. /\ Writes(w, s) /\ EvidenceKept(s) /\ sess'[s].sm = "ABSTAIN"
        /\ th' = th
    BY <1>2, <2>0, AbstainEffect
  <2>2. SessionSound(s)'
    BY <2>1 DEF Writes, VerdictsSound, SessionSound, EvidenceKept, Early, Undecided
  <2>3. th[w].pc = "idle"
    BY <1>2 DEF RecoverAbstain, ResolveExhausted, IsIdle, Idle
  <2>4. CallSound(w)'
    BY <2>1, <2>3 DEF CallSound, At
  <2>5. QED
    BY <2>1, <2>2, <2>4, SoundWrite
<1>3. ASSUME NEW w \in Threads, NEW t, CreateBegin(w, t) \/ CreateFail(w) \/ ResolveRaise(w)
      PROVE  VerdictsSound'
  BY <1>3, ElsewhereEffect, SoundKept
<1>4. CASE Environment \/ UNCHANGED vars
  BY <1>4, EnvironmentEffect, SoundKept
<1>5. QED
  BY <1>1, <1>2, <1>3, <1>4, CompleteSound, RecoverSound, ResolveSound, StepCases

LEMMA SoundInitially == Init => VerdictsSound
<1> SUFFICES ASSUME Init PROVE VerdictsSound
  OBVIOUS
<1>1. ASSUME NEW s \in Sessions PROVE SessionSound(s)
  <2>1. sess[s] = NoSession
    BY DEF Init
  <2>2. /\ sess[s].sm = "ABSENT" /\ sess[s].repeated = FALSE
        /\ sess[s].bundle = NoEvidence /\ sess[s].bundle.amounts = {}
    BY <2>1 DEF NoSession, NoEvidence
  <2>3. QED
    BY <2>2, FS_EmptySet DEF SessionSound, Early, Undecided
<1>2. ASSUME NEW w \in Threads PROVE CallSound(w)
  <2>1. th[w].pc = "idle"
    BY DEF Init, Idle
  <2>2. QED
    BY <2>1 DEF CallSound, At
<1>3. QED
  BY <1>1, <1>2 DEF VerdictsSound

(***************************************************************************)
(* PASS means what it says: on the record of a session that ends in PASS   *)
(* is an amount which, less one refund made for it, is within the          *)
(* contract's ceiling, and the authorized item and no other -- whatever    *)
(* completions, recoveries and resolutions interleave, and although a      *)
(* resolution may overwrite the evidence with what it began with.          *)
(***************************************************************************)
THEOREM PassIsWithinBudget == Spec => []PassWithinBudget
<1>1. VerdictsSound => PassWithinBudget
  BY DEF VerdictsSound, SessionSound, Covered, PassWithinBudget
<1>2. QED
  BY <1>1, TypeCorrect, ExclusiveInitially, ExclusiveStep, SoundInitially, SoundStep, PTL
     DEF Spec

-----------------------------------------------------------------------------
(***************************************************************************)
(* Calls in turn.  Two creations of one transaction that run at once can   *)
(* both find it unknown (SliceDoubleCapture).  Nothing else can make a     *)
(* second payment count: what follows holds for any threads and calls as   *)
(* long as the creations of one transaction do not overlap.                *)
(***************************************************************************)

CreationsInTurn ==
  \A v, w \in Threads :
    At(v, "order") /\ At(w, "order") /\ th[v].tx = th[w].tx => v = w

(***************************************************************************)
(* CaptureInv.  A payment is accepted for a transaction by consuming its   *)
(* attempt, and only a creation makes the attempt available again; but a   *)
(* creation reaches the gateway for a transaction without a session, which *)
(* no payment can have been accepted for.                                  *)
(***************************************************************************)

CaptureCall(w) ==
  /\ At(w, "order") => cur[th[w].tx] = 0
  /\ Completing(w) => th[w].s = cur[th[w].tx]
  /\ At(w, "enforce") /\ th[w].valid => ~consumed[th[w].tx]

CaptureInv ==
  /\ \A t \in Txs, p \in Payments : payTx[p] = t => consumed[t] /\ cur[t] # 0
  /\ OneCapture
  /\ \A w \in Threads : CaptureCall(w)

\* A step that leaves the binding alone and begins no creation or completion.
LEMMA CaptureKept ==
  ASSUME CaptureInv, UNCHANGED <<cur, consumed, payTx>>,
         \A v \in Threads : th'[v] = th[v] \/ th'[v].pc \notin {"order", "observe", "enforce"}
  PROVE  CaptureInv'
<1>1. ASSUME NEW v \in Threads PROVE CaptureCall(v)'
  <2>1. CASE th'[v] = th[v]
    BY <2>1 DEF CaptureInv, CaptureCall, Completing, At
  <2>2. CASE th'[v].pc \notin {"order", "observe", "enforce"}
    BY <2>2 DEF CaptureCall, Completing, At
  <2>3. QED
    BY <2>1, <2>2
<1>2. QED
  BY <1>1 DEF CaptureInv, OneCapture

\* One thread moves, and leaves the binding alone.
LEMMA CaptureMoves ==
  ASSUME CaptureInv, UNCHANGED <<cur, consumed, payTx>>,
         NEW w \in Threads, CaptureCall(w)', \A v \in Threads : v # w => th'[v] = th[v]
  PROVE  CaptureInv'
<1>1. ASSUME NEW v \in Threads, v # w PROVE CaptureCall(v)'
  BY <1>1 DEF CaptureInv, CaptureCall, Completing, At
<1>2. QED
  BY <1>1 DEF CaptureInv, OneCapture

LEMMA CaptureStep ==
  TypeOK /\ Exclusive /\ CreationsInTurn /\ CaptureInv /\ [Next]_vars => CaptureInv'
<1> SUFFICES ASSUME TypeOK, Exclusive, CreationsInTurn, CaptureInv, [Next]_vars
             PROVE  CaptureInv'
  OBVIOUS
<1> USE DEF binding, gate, counters, env
<1>1. ASSUME NEW w \in Threads, CreateOrder(w) PROVE CaptureInv'
  <2> DEFINE t == th[w].tx
  <2>1. t \in Txs /\ cur[t] = 0
    BY <1>1, ThreadAt DEF CreateOrder, CaptureInv, CaptureCall
  <2>2. PICK s \in Sessions : cur' = [cur EXCEPT ![t] = s]
    BY <1>1 DEF CreateOrder
  <2>3. /\ consumed' = [consumed EXCEPT ![t] = FALSE] /\ payTx' = payTx
        /\ th'[w].pc = "idle" /\ \A v \in Threads : v # w => th'[v] = th[v]
    BY <1>1 DEF CreateOrder, Return, Goto, Idle, TypeOK
  <2>4. \A p \in Payments : payTx[p] # t
    BY <2>1 DEF CaptureInv
  <2>5. ASSUME NEW u \in Txs, NEW p \in Payments, payTx'[p] = u PROVE consumed'[u] /\ cur'[u] # 0
    <3>1. u # t /\ consumed[u] /\ cur[u] # 0
      BY <2>3, <2>4, <2>5 DEF CaptureInv
    <3>2. QED
      BY <2>2, <2>3, <3>1 DEF TypeOK
  <2>6. ASSUME NEW v \in Threads PROVE CaptureCall(v)'
    <3>1. CASE v = w
      BY <2>3, <3>1 DEF CaptureCall, Completing, At
    <3>2. CASE v # w
      <4>1. th'[v] = th[v] /\ CaptureCall(v)
        BY <2>3, <3>2 DEF CaptureInv
      <4>2. At(v, "order") => th[v].tx \in Txs /\ th[v].tx # t
        BY <1>1, <3>2, ThreadAt DEF CreationsInTurn, CreateOrder
      <4>3. Completing(v) => th[v].tx \in Txs /\ th[v].s \in Sessions
        BY ThreadAt DEF Completing
      <4>4. Completing(v) => th[v].tx # t
        BY <2>1, <4>1, <4>3 DEF CaptureCall, Sessions
      <4>5. \A u \in Txs \ {t} : cur'[u] = cur[u] /\ consumed'[u] = consumed[u]
        BY <2>2, <2>3 DEF TypeOK
      <4>6. QED
        BY <4>1, <4>2, <4>3, <4>4, <4>5 DEF CaptureCall, Completing, At
    <3>3. QED
      BY <3>1, <3>2
  <2>7. QED
    BY <2>3, <2>5, <2>6 DEF CaptureInv, OneCapture
<1>2. ASSUME NEW w \in Threads, NEW t \in Txs, CreateBegin(w, t) PROVE CaptureInv'
  <2>1. /\ th'[w].pc = "order" /\ th'[w].tx = t /\ cur' = cur /\ cur[t] = 0
        /\ UNCHANGED <<consumed, payTx>> /\ \A v \in Threads : v # w => th'[v] = th[v]
    BY <1>2 DEF CreateBegin, Goto, TypeOK
  <2>2. CaptureCall(w)'
    BY <2>1 DEF CaptureCall, Completing, At
  <2>3. QED
    BY <2>1, <2>2, CaptureMoves
<1>3. ASSUME NEW w \in Threads, NEW t \in Txs, NEW p \in Payments, CompleteBegin(w, t, p)
      PROVE  CaptureInv'
  <2>1. /\ th'[w].pc = "observe" /\ th'[w].tx = t /\ th'[w].s = cur[t]
        /\ UNCHANGED <<cur, consumed, payTx>> /\ \A v \in Threads : v # w => th'[v] = th[v]
    BY <1>3 DEF CompleteBegin, Goto, TypeOK
  <2>2. CaptureCall(w)'
    BY <2>1 DEF CaptureCall, Completing, At
  <2>3. QED
    BY <2>1, <2>2, CaptureMoves
<1>4. ASSUME NEW w \in Threads, CompleteObserve(w) PROVE CaptureInv'
  <2>1. /\ th'[w].pc = "enforce" /\ th'[w].tx = th[w].tx /\ th'[w].s = th[w].s
        /\ \A v \in Threads : v # w => th'[v] = th[v]
        /\ th'[w].valid = BindingValid(th[w].tx, th[w].s, th[w].pay)
        /\ UNCHANGED <<cur, consumed, payTx>> /\ At(w, "observe")
    BY <1>4 DEF CompleteObserve, Goto, TypeOK
  <2>2. th'[w].valid => ~consumed[th[w].tx]
    BY <2>1 DEF BindingValid
  <2>3. th[w].s = cur[th[w].tx]
    BY <2>1 DEF CaptureInv, CaptureCall, Completing
  <2>4. CaptureCall(w)'
    BY <2>1, <2>2, <2>3 DEF CaptureCall, Completing, At
  <2>5. QED
    BY <2>1, <2>4, CaptureMoves
<1>5. ASSUME NEW w \in Threads, CompleteEnforce(w) PROVE CaptureInv'
  <2> DEFINE t == th[w].tx
             p == th[w].pay
             consumes == th[w].valid /\ gw[p].captured
  <2>1. /\ t \in Txs /\ p \in Payments /\ th[w].s \in Sessions
        /\ th[w].s = cur[t] /\ (th[w].valid => ~consumed[t])
    BY <1>5, ThreadAt DEF CompleteEnforce, CaptureInv, CaptureCall, Completing
  <2>2. /\ payTx' = [payTx EXCEPT ![p] = IF consumes THEN t ELSE @]
        /\ consumed' = [consumed EXCEPT ![t] = @ \/ consumes]
        /\ cur' = cur /\ th'[w].pc = "idle" /\ \A v \in Threads : v # w => th'[v] = th[v]
    BY <1>5 DEF CompleteEnforce, Return, Goto, Idle, TypeOK
  <2>3. cur[t] # 0
    BY <2>1 DEF Sessions
  <2>4. ASSUME NEW v \in Threads PROVE CaptureCall(v)'
    <3>1. CASE v = w
      BY <2>2, <3>1 DEF CaptureCall, Completing, At
    <3>2. CASE v # w
      <4>1. th'[v] = th[v] /\ CaptureCall(v)
        BY <2>2, <3>2 DEF CaptureInv
      <4>2. At(v, "enforce") => th[v].tx \in Txs /\ th[v].tx # t
        <5>1. Completing(v) => th[v].s # th[w].s
          BY <1>5, <3>2 DEF Exclusive, Holds, HoldPlaces, Completing, CompleteEnforce, At
        <5>2. QED
          BY <2>1, <4>1, <5>1, ThreadAt DEF CaptureCall, Completing
      <4>3. \A u \in Txs \ {t} : consumed'[u] = consumed[u]
        BY <2>1, <2>2 DEF TypeOK
      <4>4. QED
        BY <2>2, <4>1, <4>2, <4>3 DEF CaptureCall, Completing, At
    <3>3. QED
      BY <3>1, <3>2
  <2>5. CASE ~consumes
    <3>1. payTx' = payTx /\ \A u \in Txs : consumed'[u] = consumed[u]
      BY <2>1, <2>2, <2>5 DEF TypeOK
    <3>2. QED
      BY <2>2, <2>4, <3>1 DEF CaptureInv, OneCapture
  <2>6. CASE consumes
    <3>1. \A q \in Payments : payTx[q] # t
      BY <2>1, <2>6 DEF CaptureInv
    <3>2. /\ \A q \in Payments : payTx'[q] = IF q = p THEN t ELSE payTx[q]
          /\ \A u \in Txs : consumed'[u] <=> (u = t \/ consumed[u])
      BY <2>1, <2>2, <2>6 DEF TypeOK
    <3>3. QED
      BY <2>2, <2>3, <2>4, <3>1, <3>2 DEF CaptureInv, OneCapture
  <2>7. QED
    BY <2>5, <2>6
<1>6. ASSUME NEW w \in Threads,
             \/ CreateFail(w) \/ ResolveRaise(w) \/ CompleteUnresolved(w)
             \/ Execute(w) \/ RecoverRaise(w) \/ RecoverEnter(w)
             \/ RecoverFinish(w) \/ ResolveFinish(w)
      PROVE  CaptureInv'
  <2>1. UNCHANGED <<cur, consumed, payTx>>
    <3>1. Execute(w) \/ RecoverEnter(w) => UNCHANGED <<cur, consumed, payTx>>
      BY ExecuteStep, EnterStep
    <3>2. QED
      BY <1>6, <3>1 DEF CreateFail, ResolveRaise, CompleteUnresolved, RecoverRaise,
                        RecoverFinish, ResolveFinish
  <2>2. th'[w].pc \in {"idle", "budget", "count", "record", "executed", "revalidate"}
    <3>1. CASE CreateFail(w) \/ ResolveRaise(w)
      BY <3>1 DEF CreateFail, ResolveRaise, Return, Goto, Idle, TypeOK
    <3>2. CASE Execute(w) \/ RecoverRaise(w) \/ RecoverEnter(w)
      BY <3>2, ExecutedEffect
    <3>3. CASE CompleteUnresolved(w) \/ RecoverFinish(w) \/ ResolveFinish(w)
      BY <3>3, CompleteUnresolvedEffect, RecoverFinishEffect, ResolveFinishEffect DEF Idle
    <3>4. QED
      BY <1>6, <3>1, <3>2, <3>3
  <2>3. \A v \in Threads : v # w => th'[v] = th[v]
    <3>1. Execute(w) \/ RecoverRaise(w) \/ RecoverEnter(w) =>
            \A v \in Threads : v # w => th'[v] = th[v]
      BY ExecutedEffect DEF Writes
    <3>2. QED
      BY <1>6, <3>1 DEF CreateFail, ResolveRaise, CompleteUnresolved, RecoverFinish,
                        ResolveFinish, Return, Goto, TypeOK
  <2>4. CaptureCall(w)'
    BY <2>2 DEF CaptureCall, Completing, At
  <2>5. QED
    BY <2>1, <2>3, <2>4, CaptureMoves
<1>7. ASSUME NEW w \in Threads, NEW t \in Txs,
             \/ RecoverBegin(w, t) \/ RecoverAbstain(w, t)
             \/ ResolveBegin(w, t) \/ ResolveExhausted(w, t)
      PROVE  CaptureInv'
  <2>1. UNCHANGED <<cur, consumed, payTx>> /\ th[w].pc = "idle"
    BY <1>7 DEF RecoverBegin, RecoverAbstain, ResolveBegin, ResolveExhausted, IsIdle, Idle
  <2>2. th'[w].pc \in {"idle", "execute", "resolve"}
    BY <1>7, <2>1, RecoverBeginEffect, AbstainEffect, ResolveBeginEffect
  <2>3. \A v \in Threads : v # w => th'[v] = th[v]
    BY <1>7, RecoverBeginEffect, AbstainEffect, ResolveBeginEffect DEF Writes
  <2>4. CaptureCall(w)'
    BY <2>2 DEF CaptureCall, Completing, At
  <2>5. QED
    BY <2>1, <2>3, <2>4, CaptureMoves
<1>8. CASE Environment \/ UNCHANGED vars
  <2>1. UNCHANGED <<cur, consumed, payTx, th>>
    BY <1>8 DEF Environment, Pay, Expire, Kill, Resume, vars
  <2>2. QED
    BY <2>1, CaptureKept
<1>9. QED
  BY <1>1, <1>2, <1>3, <1>4, <1>5, <1>6, <1>7, <1>8, StepCases

LEMMA CaptureInitially == Init => CaptureInv
BY NoTxAssumption DEF Init, CaptureInv, CaptureCall, OneCapture, Completing, At, Idle

(***************************************************************************)
(* As long as the creations of a transaction come one after the other, no  *)
(* retry of a creation and no race of completions gets a second payment of *)
(* it accepted (max_successful_captures of the contract).                  *)
(***************************************************************************)
THEOREM OneCaptureInTurn == Spec /\ []CreationsInTurn => []OneCapture
<1>1. CaptureInv => OneCapture
  BY DEF CaptureInv
<1>2. QED
  BY <1>1, TypeCorrect, ExclusiveInitially, ExclusiveStep, CaptureInitially, CaptureStep, PTL
     DEF Spec

-----------------------------------------------------------------------------
(***************************************************************************)
(* SerialInv.  When a call begins only while nobody is at work on its      *)
(* transaction, a refund the executor recorded is in the evidence of its   *)
(* session, or the call that recorded or replayed it is about to put it    *)
(* there.  A call between its steps then finds the session as it left it:  *)
(* a resolution writes back a copy of the evidence that is still the       *)
(* evidence, and the transition after an execution is not refused.  A call *)
(* that ends at once has to wait as well: an ABSTAIN between the executor  *)
(* and the transition would leave the refund of that execution out.        *)
(***************************************************************************)

\* The transaction a call works on.
CallsFor(w) == IF At(w, "resolve") THEN sess[th[w].s].owner ELSE th[w].tx

\* An action: the call that begins finds nobody at work on its transaction.
TurnTaken == \A w \in Threads, t \in Txs : Call(w, t) => Quiet(t)

CallsInTurn ==
  \A v, w \in Threads :
    ~IsIdle(v) /\ ~IsIdle(w) /\ CallsFor(v) = CallsFor(w) => v = w

\* Where a session is that a recovery was begun for.
Executable == {"RESOLVING", "RECOVERING"}

\* Where a call holds an execution.
Executed(w) == At(w, "executed") \/ At(w, "revalidate")

InProgress(d) ==
  \E w \in Threads : Executed(w) /\ th[w].exec = d /\ th[w].s = cur[d.tx]

OnRecord(d) ==
  /\ cur[d.tx] # 0 /\ sess[cur[d.tx]].sm \notin Early
  /\ d.type = "REFUND" =>
       d.amt \in sess[cur[d.tx]].bundle.refunds \/ InProgress(d)

CallSerial(w) ==
  /\ Executing(w) \/ At(w, "revalidate") => th[w].s = cur[th[w].tx]
  /\ Executing(w) => sess[th[w].s].sm \in Executable /\ w \in sess[th[w].s].calls
  /\ At(w, "resolve") => Used(th[w].s) /\ th[w].bundle = sess[th[w].s].bundle

SerialInv ==
  /\ \A d \in done : OnRecord(d)
  /\ \A w \in Threads : CallSerial(w)

\* No other call is between its steps on session s.
Alone(w, s) ==
  \A v \in Threads \ {w} : Executing(v) \/ At(v, "resolve") => th[v].s # s

\* A session that a call works on is its transaction's.
LEMMA ServedSession ==
  ASSUME TypeOK, Owned, SerialInv, NEW w \in Threads,
         Completing(w) \/ Executing(w) \/ At(w, "revalidate") \/ At(w, "resolve")
  PROVE  ~IsIdle(w) /\ CallsFor(w) = sess[th[w].s].owner
<1>1. ~IsIdle(w)
  BY DEF IsIdle, Idle, Completing, Executing, At
<1>2. CASE Completing(w)
  BY <1>1, <1>2 DEF Owned, CallsFor, Completing, At
<1>3. CASE Executing(w) \/ At(w, "revalidate")
  <2>1. th[w].s \in Sessions /\ th[w].tx \in Txs /\ th[w].s = cur[th[w].tx]
    BY <1>3, ThreadAt, ExecutorHolds DEF SerialInv, CallSerial
  <2>2. sess[th[w].s].owner = th[w].tx
    BY <2>1 DEF Owned, Sessions
  <2>3. QED
    BY <1>1, <1>3, <2>2 DEF CallsFor, Executing, At
<1>4. CASE At(w, "resolve")
  BY <1>1, <1>4 DEF CallsFor
<1>5. QED
  BY <1>2, <1>3, <1>4

LEMMA ServesAlone ==
  ASSUME TypeOK, Owned, CallsInTurn, SerialInv, NEW w \in Threads,
         Completing(w) \/ Executing(w) \/ At(w, "revalidate") \/ At(w, "resolve")
  PROVE  Alone(w, th[w].s)
BY ServedSession DEF Alone, CallsInTurn

\* A call that begins while nobody is at work on its transaction.
LEMMA CallsAlone ==
  ASSUME TypeOK, Owned, SerialInv, NEW w \in Threads, NEW t \in Txs, cur[t] # 0, Quiet(t)
  PROVE  Alone(w, cur[t])
<1>1. ASSUME NEW v \in Threads, Executing(v) \/ At(v, "resolve"), th[v].s = cur[t]
      PROVE  FALSE
  <2>1. ~IsIdle(v) /\ CallsFor(v) = sess[cur[t]].owner /\ sess[cur[t]].owner = t
    BY <1>1, ServedSession DEF Owned
  <2>2. QED
    BY <2>1 DEF Quiet, CallsFor
<1>2. QED
  BY <1>1 DEF Alone

\* One thread moves: it ends its call, goes on for the same transaction, or
\* begins a call for one that nobody is at work on.
LEMMA TurnKept ==
  ASSUME TypeOK, SessionsKept, SerialInv, CallsInTurn, NEW w \in Threads,
         \A v \in Threads : v # w => th'[v] = th[v],
         \/ th'[w] = th[w] \/ th'[w] = Idle
         \/ /\ ~IsIdle(w) /\ ~At(w, "resolve")
            /\ th'[w].pc # "resolve" /\ th'[w].tx = th[w].tx
         \/ \E t \in Txs : Quiet(t) /\ CallsFor(w)' = t
  PROVE  CallsInTurn'
<1>1. ASSUME NEW v \in Threads, th'[v] = th[v], ~IsIdle(v)
      PROVE  ~IsIdle(v)' /\ CallsFor(v)' = CallsFor(v)
  <2>1. At(v, "resolve") => th[v].s \in Sessions /\ Used(th[v].s)
    BY ThreadAt DEF SerialInv, CallSerial
  <2>2. QED
    BY <1>1, <2>1 DEF CallsFor, SessionsKept, IsIdle, At
<1>2. ASSUME NEW v \in Threads, th'[v] = th[v] PROVE IsIdle(v)' <=> IsIdle(v)
  BY <1>2 DEF IsIdle
<1>3. CASE th'[w] = th[w]
  BY <1>1, <1>2, <1>3 DEF CallsInTurn
<1>4. CASE th'[w] = Idle
  <2>1. IsIdle(w)'
    BY <1>4 DEF IsIdle, Idle
  <2>2. QED
    BY <1>1, <1>2, <2>1 DEF CallsInTurn
<1>5. CASE /\ ~IsIdle(w) /\ ~At(w, "resolve")
           /\ th'[w].pc # "resolve" /\ th'[w].tx = th[w].tx
  <2>1. CallsFor(w)' = CallsFor(w)
    BY <1>5 DEF CallsFor, At
  <2>2. QED
    BY <1>1, <1>2, <1>5, <2>1 DEF CallsInTurn
<1>6. ASSUME NEW t \in Txs, Quiet(t), CallsFor(w)' = t PROVE CallsInTurn'
  <2>1. \A v \in Threads : ~IsIdle(v) => CallsFor(v) # t
    BY <1>6 DEF Quiet, CallsFor
  <2>2. QED
    BY <1>1, <1>2, <1>6, <2>1 DEF CallsInTurn
<1>7. QED
  BY <1>3, <1>4, <1>5, <1>6

\* The steps leave the calls of one transaction one after the other.
LEMMA TurnsStay ==
  TypeOK /\ Owned /\ SerialInv /\ CallsInTurn /\ TurnTaken /\ [Next]_vars => CallsInTurn'
<1> SUFFICES ASSUME TypeOK, Owned, SerialInv, CallsInTurn, TurnTaken, [Next]_vars
             PROVE  CallsInTurn'
  OBVIOUS
<1>1. SessionsKept
  BY OwnedStays
<1>2. ASSUME NEW w \in Threads, Continue(w) PROVE CallsInTurn'
  <2>1. /\ \A v \in Threads : v # w => th'[v] = th[v]
        /\ \/ th'[w] = Idle
           \/ /\ ~IsIdle(w) /\ ~At(w, "resolve")
              /\ th'[w].pc # "resolve" /\ th'[w].tx = th[w].tx
    <3>1. CASE Execute(w)
      BY <3>1, ExecuteStep DEF Executing, At, IsIdle, Idle, TypeOK
    <3>2. CASE RecoverEnter(w)
      BY <3>2, EnterStep DEF At, IsIdle, Idle, TypeOK
    <3>3. CASE CompleteObserve(w)
      BY <3>3 DEF CompleteObserve, Goto, At, IsIdle, Idle, TypeOK
    <3>4. ASSUME Return(w) PROVE th'[w] = Idle /\ \A v \in Threads : v # w => th'[v] = th[v]
      BY <3>4 DEF Return, Goto, TypeOK
    <3>5. QED
      BY <1>2, <3>1, <3>2, <3>3, <3>4
         DEF Continue, Create, CreateOrder, CreateFail, Complete, CompleteUnresolved,
             CompleteEnforce, Recover, RecoverRaise, RecoverFinish, Resolve, ResolveFinish,
             ResolveRaise
  <2>2. QED
    BY <1>1, <2>1, TurnKept
<1>3. ASSUME NEW w \in Threads, NEW t \in Txs, Call(w, t) PROVE CallsInTurn'
  <2>1. Quiet(t)
    BY <1>3 DEF TurnTaken
  <2>2. CASE CallResolve(w, t)
    <3>1. ASSUME ResolveBegin(w, t), th'[w] # th[w]
          PROVE  th'[w].pc = "resolve" /\ th'[w].s = cur[t]
      BY <3>1 DEF ResolveBegin, Goto, TypeOK
    <3>2. cur[t] \in Sessions /\ Used(cur[t]) /\ sess[cur[t]].owner = t
      BY <2>2, CurrentSession DEF CallResolve, ResolveBegin, ResolveExhausted, Owned
    <3>3. th'[w] # th[w] => CallsFor(w)' = t
      <4>1. sess'[cur[t]].owner = t
        BY <1>1, <3>2 DEF SessionsKept
      <4>2. ~ResolveBegin(w, t) => th' = th
        BY <2>2 DEF CallResolve, ResolveExhausted
      <4>3. QED
        BY <3>1, <4>1, <4>2 DEF CallsFor, At
    <3>4. \A v \in Threads : v # w => th'[v] = th[v]
      BY <2>2 DEF CallResolve, ResolveBegin, ResolveExhausted, Goto, TypeOK
    <3>5. QED
      BY <1>1, <2>1, <3>3, <3>4, TurnKept
  <2>3. CASE CreateBegin(w, t) \/ CallRecover(w, t)
             \/ \E p \in Payments : CompleteBegin(w, t, p)
    <3>1. /\ \A v \in Threads : v # w => th'[v] = th[v]
          /\ th'[w] = th[w] \/ (th'[w].pc # "resolve" /\ th'[w].tx = t)
      BY <2>3 DEF CreateBegin, CallRecover, RecoverBegin, RecoverAbstain, CompleteBegin, Goto,
                  TypeOK
    <3>2. th'[w] # th[w] => CallsFor(w)' = t
      BY <3>1 DEF CallsFor, At
    <3>3. QED
      BY <1>1, <2>1, <3>1, <3>2, TurnKept
  <2>4. QED
    BY <1>3, <2>2, <2>3 DEF Call
<1>4. CASE Environment \/ UNCHANGED vars
  <2>1. UNCHANGED <<sess, th>>
    BY <1>4, EnvironmentEffect
  <2>2. QED
    BY <2>1 DEF CallsInTurn, CallsFor, IsIdle, At
<1>5. QED
  BY <1>2, <1>3, <1>4 DEF Next

LEMMA OthersKept ==
  ASSUME TypeOK, SerialInv, NEW w \in Threads, NEW s, Writes(w, s), cur' = cur, Alone(w, s),
         NEW v \in Threads, v # w
  PROVE  CallSerial(v)'
<1>1. th'[v] = th[v] /\ CallSerial(v)
  BY DEF Writes, SerialInv
<1>2. Executing(v) \/ At(v, "resolve") => th[v].s \in Sessions
  BY ThreadAt, ExecutorHolds
<1>3. Executing(v) \/ At(v, "resolve") => sess'[th[v].s] = sess[th[v].s]
  BY <1>2 DEF Alone, Writes
<1>4. QED
  BY <1>1, <1>3 DEF CallSerial, Executing, At, Used

\* What was on record stays there.
LEMMA RecordKept ==
  ASSUME TypeOK, SerialInv, NEW w \in Threads, NEW s, Writes(w, s), cur' = cur,
         sess[s].sm \notin Early =>
           /\ sess'[s].sm \notin Early
           /\ sess[s].bundle.refunds \subseteq sess'[s].bundle.refunds,
         Executed(w) =>
           \/ Executed(w)' /\ th'[w].exec = th[w].exec /\ th'[w].s = th[w].s
           \/ /\ th[w].s = s
              /\ th[w].exec.type = "REFUND" => th[w].exec.amt \in sess'[s].bundle.refunds,
         NEW d \in done
  PROVE  OnRecord(d)'
<1>1. OnRecord(d) /\ d.tx \in Txs
  BY DEF SerialInv, TypeOK, Executions
<1>2. cur[d.tx] \in Sessions
  BY <1>1, CurrentSession DEF OnRecord
<1>3. /\ sess'[cur[d.tx]].sm \notin Early
      /\ sess[cur[d.tx]].bundle.refunds \subseteq sess'[cur[d.tx]].bundle.refunds
  BY <1>1, <1>2 DEF OnRecord, Writes
<1>4. ASSUME d.type = "REFUND", InProgress(d)
      PROVE  d.amt \in sess'[cur[d.tx]].bundle.refunds \/ InProgress(d)'
  <2>1. PICK v \in Threads : Executed(v) /\ th[v].exec = d /\ th[v].s = cur[d.tx]
    BY <1>4 DEF InProgress
  <2>2. CASE v = w
    BY <1>4, <2>1, <2>2 DEF InProgress
  <2>3. CASE v # w
    BY <2>1, <2>3 DEF InProgress, Executed, Writes, At
  <2>4. QED
    BY <2>2, <2>3
<1>5. QED
  BY <1>1, <1>3, <1>4 DEF OnRecord

\* A call moves on, or begins or ends.
LEMMA SerialMoves ==
  ASSUME TypeOK, SerialInv, NEW w \in Threads, NEW s, Writes(w, s), cur' = cur, Alone(w, s),
         \A d \in done' : d \in done \/ OnRecord(d)',
         sess[s].sm \notin Early =>
           /\ sess'[s].sm \notin Early
           /\ sess[s].bundle.refunds \subseteq sess'[s].bundle.refunds,
         Executed(w) =>
           \/ Executed(w)' /\ th'[w].exec = th[w].exec /\ th'[w].s = th[w].s
           \/ /\ th[w].s = s
              /\ th[w].exec.type = "REFUND" => th[w].exec.amt \in sess'[s].bundle.refunds,
         CallSerial(w)'
  PROVE  SerialInv'
<1>1. \A v \in Threads : CallSerial(v)'
  BY OthersKept
<1>2. \A d \in done' : OnRecord(d)'
  BY RecordKept
<1>3. QED
  BY <1>1, <1>2 DEF SerialInv

\* No session is written.
LEMMA SerialKept ==
  ASSUME TypeOK, SerialInv, UNCHANGED <<cur, done, sess>>,
         \A v \in Threads : th'[v] = th[v] \/ (~Executed(v) /\ th'[v].pc \in {"order", "idle"})
  PROVE  SerialInv'
<1>1. ASSUME NEW v \in Threads PROVE CallSerial(v)'
  <2>1. CASE th'[v] = th[v]
    BY <2>1 DEF SerialInv, CallSerial, Executing, At, Used
  <2>2. CASE th'[v].pc \in {"order", "idle"}
    BY <2>2 DEF CallSerial, Executing, At
  <2>3. QED
    BY <2>1, <2>2
<1>2. ASSUME NEW d \in done PROVE OnRecord(d)'
  <2>1. InProgress(d) => InProgress(d)'
    BY DEF InProgress, Executed, At
  <2>2. QED
    BY <2>1 DEF SerialInv, OnRecord
<1>3. QED
  BY <1>1, <1>2 DEF SerialInv

LEMMA MovesToRevalidation ==
  ASSUME NEW s, sess[s].sm \in {"RESOLVING", "RECOVERING"} PROVE Move(s, "REVALIDATING")
BY DEF Move, CanTransition, PermittedTransitions, LifecycleStates, Verdicts

\* A recovery begins, or ends at once.
LEMMA CallRecoverSerial ==
  ASSUME TypeOK, Owned, SerialInv, NEW w \in Threads, NEW t \in Txs, Quiet(t),
         CallRecover(w, t)
  PROVE  SerialInv'
<1> USE DEF binding, gate, counters, env
<1>0. PICK s : s = cur[t]
  OBVIOUS
<1>1. s = cur[t] /\ Alone(w, s) /\ UNCHANGED <<cur, done>> /\ ~Executed(w)
  BY <1>0, CallsAlone
     DEF CallRecover, RecoverBegin, RecoverAbstain, IsIdle, Idle, Executed, At
<1>2. CASE RecoverBegin(w, t)
  <2>1. /\ Writes(w, s) /\ EvidenceKept(s) /\ sess[s].sm \in RecoveryStates
        /\ sess'[s].sm = Engaged(sess[s].sm)
    BY <1>1, <1>2, RecoverBeginEffect
  <2>2. s \in Sessions /\ sess[s] \in SessionRecords
    BY <2>1 DEF Writes, TypeOK
  <2>3. sess'[s].calls = sess[s].calls \cup {w}
    BY <1>1, <1>2, <2>2 DEF RecoverBegin, SessionRecords, TypeOK
  <2>4. sess'[s].sm \in {"RESOLVING", "RECOVERING"}
    BY <2>1 DEF RecoveryStates, Engaged
  <2>5. th'[w].pc = "execute" /\ th'[w].tx = t /\ th'[w].s = s
    BY <1>1, <1>2 DEF RecoverBegin, Goto, TypeOK
  <2>6. CallSerial(w)'
    BY <1>1, <2>3, <2>4, <2>5 DEF CallSerial, Executing, At, Executable
  <2>7. QED
    BY <1>1, <2>1, <2>4, <2>6, SerialMoves DEF EvidenceKept, Early
<1>3. CASE RecoverAbstain(w, t)
  <2>1. Writes(w, s) /\ EvidenceKept(s) /\ sess'[s].sm = "ABSTAIN" /\ th' = th
    BY <1>1, <1>3, AbstainEffect
  <2>2. th[w].pc = "idle"
    BY <1>3 DEF RecoverAbstain, IsIdle, Idle
  <2>3. CallSerial(w)'
    BY <2>1, <2>2 DEF CallSerial, Executing, At
  <2>4. QED
    BY <1>1, <2>1, <2>3, SerialMoves DEF EvidenceKept, Early
<1>4. QED
  BY <1>2, <1>3 DEF CallRecover

\* A recovery is in the executor.
LEMMA ExecuteSerial ==
  ASSUME TypeOK, Owned, CallsInTurn, SerialInv, NEW w \in Threads, Execute(w)
  PROVE  SerialInv'
<1>0. PICK s : s = th[w].s
  OBVIOUS
<1>1. /\ s = th[w].s /\ Executing(w) /\ ~Executed(w) /\ s \in Sessions /\ th[w].tx \in Txs
      /\ s = cur[th[w].tx] /\ sess[s].sm \in Executable /\ w \in sess[s].calls
  BY <1>0, ExecuteStep, ExecutorHolds DEF SerialInv, CallSerial, Executing, Executed, At
<1>2. /\ UNCHANGED <<cur, sess>> /\ \A v \in Threads : v # w => th'[v] = th[v]
      /\ th'[w].pc \in {"budget", "count", "record", "executed"}
      /\ th'[w].tx = th[w].tx /\ th'[w].s = s
  BY <1>1, ExecuteStep DEF TypeOK
<1>3. Writes(w, s) /\ Alone(w, s)
  BY <1>1, <1>2, ServesAlone DEF Writes
<1>4. CallSerial(w)'
  BY <1>1, <1>2 DEF CallSerial, Executing, At
<1>5. ASSUME NEW d \in done' PROVE d \in done \/ OnRecord(d)'
  <2>1. CASE RecoverRecord(w)
    <3>1. SUFFICES ASSUME d = Execution(w) PROVE OnRecord(d)'
      BY <2>1, <3>1 DEF RecoverRecord
    <3>2. d.tx = th[w].tx
      BY <3>1 DEF Execution
    <3>3. th'[w].pc = "executed" /\ th'[w].exec = d
      BY <2>1, <3>1 DEF RecoverRecord, Goto, TypeOK
    <3>4. InProgress(d)'
      BY <1>1, <1>2, <3>2, <3>3 DEF InProgress, Executed, At
    <3>5. cur'[d.tx] # 0 /\ sess'[cur'[d.tx]].sm \notin Early
      BY <1>1, <1>2, <3>2 DEF Early, Executable, Sessions
    <3>6. QED
      BY <3>4, <3>5 DEF OnRecord
  <2>2. CASE RecoverReplay(w) \/ RecoverLookup(w) \/ RecoverAttempt(w) \/ RecoverCount(w)
    BY <2>2 DEF RecoverReplay, RecoverLookup, RecoverAttempt, RecoverCount, counters
  <2>3. QED
    BY <2>1, <2>2 DEF Execute
<1>6. QED
  BY <1>1, <1>2, <1>3, <1>4, <1>5, SerialMoves

\* A recovery leaves the executor, and ends.
LEMMA RecoverSerial ==
  ASSUME TypeOK, Owned, CallsInTurn, SerialInv, NEW w \in Threads,
         RecoverRaise(w) \/ RecoverEnter(w) \/ RecoverFinish(w)
  PROVE  SerialInv'
<1> USE DEF binding, gate, counters, env
<1>0. PICK s : s = th[w].s
  OBVIOUS
<1>1. s = th[w].s /\ UNCHANGED <<cur, done>> /\ CallSerial(w)
  BY <1>0, EnterStep DEF RecoverRaise, RecoverFinish, SerialInv
<1>2. CASE RecoverRaise(w)
  <2>1. Writes(w, s) /\ EvidenceKept(s) /\ Executing(w)
    BY <1>1, <1>2, ExecutedEffect
  <2>2. sess'[s].sm = sess[s].sm /\ th'[w] = Idle /\ ~Executed(w)
    <3>1. s \in Sessions /\ sess[s] \in SessionRecords
      BY <2>1 DEF Writes, TypeOK
    <3>2. QED
      BY <1>1, <1>2, <3>1 DEF RecoverRaise, Return, Goto, Executed, At, SessionRecords, TypeOK
  <2>3. Alone(w, s)
    BY <1>1, <2>1, ServesAlone
  <2>4. CallSerial(w)'
    BY <2>2 DEF CallSerial, Executing, At, Idle
  <2>5. QED
    BY <1>1, <2>1, <2>2, <2>3, <2>4, SerialMoves DEF EvidenceKept
<1>3. CASE RecoverEnter(w)
  <2>1. /\ Writes(w, s) /\ EvidenceKept(s) /\ Executing(w)
        /\ sess'[s].sm \in {sess[s].sm, "REVALIDATING"}
    BY <1>1, <1>3, ExecutedEffect
  <2>2. Move(s, "REVALIDATING") /\ w \in sess[s].calls
    BY <1>1, <2>1, MovesToRevalidation DEF CallSerial, Executable
  <2>3. th'[w] = [pc |-> "revalidate", tx |-> th[w].tx, s |-> th[w].s, exec |-> th[w].exec]
    BY <1>1, <1>3, <2>2, EnterStep DEF TypeOK
  <2>4. Alone(w, s)
    BY <1>1, <2>1, ServesAlone
  <2>5. CallSerial(w)'
    BY <1>1, <2>1, <2>3 DEF CallSerial, Executing, At
  <2>6. Executed(w)' /\ th'[w].exec = th[w].exec /\ th'[w].s = th[w].s
    BY <2>3 DEF Executed, At
  <2>7. QED
    BY <1>1, <2>1, <2>4, <2>5, <2>6, SerialMoves DEF EvidenceKept, Early
<1>4. CASE RecoverFinish(w)
  <2>1. /\ Writes(w, s) /\ At(w, "revalidate")
        /\ sess'[s].bundle = Merge(sess[s].bundle, RecoveryEvidence(th[w].exec))
        /\ sess'[s].sm \in Verdicts /\ th'[w] = Idle
    BY <1>1, <1>4, RecoverFinishEffect
  <2>2. Alone(w, s)
    BY <1>1, <2>1, ServesAlone
  <2>3. CallSerial(w)'
    BY <2>1 DEF CallSerial, Executing, At, Idle
  <2>4. sess'[s].bundle.refunds
          = sess[s].bundle.refunds \cup RecoveryEvidence(th[w].exec).refunds
    BY <2>1 DEF Merge
  <2>5. th[w].exec.type = "REFUND" => th[w].exec.amt \in RecoveryEvidence(th[w].exec).refunds
    BY DEF RecoveryEvidence
  <2>6. QED
    BY <1>1, <2>1, <2>2, <2>3, <2>4, <2>5, SerialMoves DEF Early, Verdicts
<1>5. QED
  BY <1>2, <1>3, <1>4

\* A resolution begins, or ends at once.
LEMMA CallResolveSerial ==
  ASSUME TypeOK, Owned, SerialInv, NEW w \in Threads, NEW t \in Txs, Quiet(t),
         CallResolve(w, t)
  PROVE  SerialInv'
<1> USE DEF binding, gate, counters, env
<1>0. PICK s : s = cur[t]
  OBVIOUS
<1>1. /\ s = cur[t] /\ Alone(w, s) /\ UNCHANGED <<cur, done>> /\ ~Executed(w)
      /\ th[w].pc = "idle"
  BY <1>0, CallsAlone
     DEF CallResolve, ResolveBegin, ResolveExhausted, IsIdle, Idle, Executed, At
<1>2. CASE ResolveBegin(w, t)
  <2>1. /\ Writes(w, s) /\ EvidenceKept(s) /\ sess[s].sm \in ResolutionStates
        /\ sess'[s].sm = "RESOLVING"
        /\ \/ th'[w] = th[w]
           \/ th'[w].pc = "resolve" /\ th'[w].bundle = sess[s].bundle
    BY <1>1, <1>2, ResolveBeginEffect
  <2>2. th'[w].pc = "resolve" => th'[w].s = s
    BY <1>1, <1>2 DEF ResolveBegin, Goto, TypeOK
  <2>3. CallSerial(w)'
    BY <1>1, <2>1, <2>2 DEF CallSerial, Executing, At, Used, EvidenceKept
  <2>4. QED
    BY <1>1, <2>1, <2>3, SerialMoves DEF EvidenceKept, Early
<1>3. CASE ResolveExhausted(w, t)
  <2>1. Writes(w, s) /\ EvidenceKept(s) /\ sess'[s].sm = "ABSTAIN" /\ th' = th
    BY <1>1, <1>3, AbstainEffect
  <2>2. CallSerial(w)'
    BY <1>1, <2>1 DEF CallSerial, Executing, At
  <2>3. QED
    BY <1>1, <2>1, <2>2, SerialMoves DEF EvidenceKept, Early
<1>4. QED
  BY <1>2, <1>3 DEF CallResolve

LEMMA ResolveSerial ==
  ASSUME TypeOK, Owned, CallsInTurn, SerialInv, NEW w \in Threads, ResolveFinish(w)
  PROVE  SerialInv'
<1>1. PICK o, s :
        /\ o \in Observations(w) /\ s = th[w].s /\ Writes(w, s) /\ At(w, "resolve")
        /\ sess'[s].bundle = o.bundle /\ sess'[s].sm \in Verdicts /\ th'[w] = Idle
  BY ResolveFinishEffect
<1>2. UNCHANGED <<cur, done>>
  BY DEF ResolveFinish, counters
<1>3. Alone(w, s) /\ ~Executed(w)
  BY <1>1, ServesAlone DEF Executed, At
<1>4. CallSerial(w)'
  BY <1>1 DEF CallSerial, Executing, At, Idle
<1>5. th[w].bundle = sess[s].bundle
  BY <1>1 DEF SerialInv, CallSerial
<1>6. sess[s].bundle.refunds \subseteq sess'[s].bundle.refunds
  <2>1. \/ o.bundle = sess[th[w].s].bundle
        \/ \E p \in Payments : o.bundle = Merge(th[w].bundle, ObservedAtResolution(p))
    BY <1>1, ObservationCases
  <2>2. \A b : Merge(th[w].bundle, b).refunds = th[w].bundle.refunds \cup b.refunds
    BY DEF Merge
  <2>3. QED
    BY <1>1, <1>5, <2>1, <2>2
<1>7. QED
  BY <1>1, <1>2, <1>3, <1>4, <1>6, SerialMoves DEF Early, Verdicts

\* A completion writes its session.
LEMMA CompleteWrites ==
  ASSUME TypeOK, SerialInv, NEW w \in Threads, NEW s, Writes(w, s), Alone(w, s),
         UNCHANGED <<cur, done>>, ~Executed(w), th'[w].pc \in {"idle", "observe", "enforce"},
         sess[s].sm \in {"EXECUTING", "OBSERVING", "VERIFYING"},
         sess[s].sm = "VERIFYING" => EvidenceKept(s) /\ sess'[s].sm \in Verdicts
  PROVE  SerialInv'
<1>1. CallSerial(w)'
  BY DEF CallSerial, Executing, At
<1>2. sess[s].sm \notin Early =>
        /\ sess'[s].sm \notin Early
        /\ sess[s].bundle.refunds \subseteq sess'[s].bundle.refunds
  BY DEF Early, Verdicts, EvidenceKept
<1>3. QED
  BY <1>1, <1>2, SerialMoves

LEMMA CompleteSerial ==
  ASSUME TypeOK, Exclusive, Owned, CallsInTurn, SerialInv, NEW w \in Threads, Complete(w)
  PROVE  SerialInv'
<1>1. Completing(w)
  BY DEF Complete, CompleteUnresolved, CompleteObserve, CompleteEnforce, Completing
<1>2. Alone(w, th[w].s) /\ ~Executed(w)
  BY <1>1, ServesAlone DEF Completing, Executed, At
<1>3. UNCHANGED <<cur, done>>
  BY DEF Complete, CompleteUnresolved, CompleteObserve, CompleteEnforce, counters
<1>4. /\ At(w, "observe") => sess[th[w].s].sm = "OBSERVING"
      /\ At(w, "enforce") => sess[th[w].s].sm = "VERIFYING"
  BY HolderIsFree
<1>5. CASE CompleteUnresolved(w)
  BY <1>2, <1>3, <1>4, <1>5, CompleteUnresolvedEffect, CompleteWrites DEF Idle
<1>6. CASE CompleteObserve(w)
  BY <1>2, <1>3, <1>4, <1>6, CompleteObserveEffect, CompleteWrites
<1>7. CASE CompleteEnforce(w)
  BY <1>2, <1>3, <1>4, <1>7, CompleteEnforceEffect, CompleteWrites DEF Idle
<1>8. QED
  BY <1>5, <1>6, <1>7 DEF Complete

LEMMA CallCompleteSerial ==
  ASSUME TypeOK, Owned, SerialInv, NEW w \in Threads, NEW t \in Txs, NEW p \in Payments,
         Quiet(t), CompleteBegin(w, t, p)
  PROVE  SerialInv'
<1>0. PICK s : s = cur[t]
  OBVIOUS
<1>1. /\ Writes(w, s) /\ sess[s].sm = "EXECUTING" /\ th'[w].pc = "observe"
  BY <1>0, CompleteBeginEffect
<1>2. Alone(w, s) /\ UNCHANGED <<cur, done>> /\ ~Executed(w)
  BY <1>0, CallsAlone DEF CompleteBegin, IsIdle, Idle, Executed, At, counters
<1>3. QED
  BY <1>1, <1>2, CompleteWrites

LEMMA CreateSerial ==
  ASSUME TypeOK, CaptureInv, SerialInv, NEW w \in Threads, CreateOrder(w)
  PROVE  SerialInv'
<1> USE DEF binding, gate, counters, env
<1> DEFINE t == th[w].tx
<1>1. t \in Txs /\ cur[t] = 0 /\ At(w, "order")
  BY ThreadAt DEF CreateOrder, CaptureInv, CaptureCall
<1>2. PICK s \in Sessions :
        /\ ~Used(s) /\ cur' = [cur EXCEPT ![t] = s]
        /\ sess' = [sess EXCEPT ![s] = NewSession(t, th[w].late)]
  BY DEF CreateOrder, IsNext
<1>3. done' = done /\ th' = [th EXCEPT ![w] = Idle]
  BY DEF CreateOrder, Return, Goto
<1>4. /\ \A r \in Sessions \ {s} : sess'[r] = sess[r]
      /\ \A u \in Txs \ {t} : cur'[u] = cur[u]
      /\ \A v \in Threads \ {w} : th'[v] = th[v]
  BY <1>2, <1>3 DEF TypeOK
<1>5. ASSUME NEW v \in Threads PROVE CallSerial(v)'
  <2>1. CASE v = w
    <3>1. th'[w].pc = "idle"
      BY <1>3 DEF TypeOK, Idle
    <3>2. QED
      BY <2>1, <3>1 DEF CallSerial, Executing, At
  <2>2. CASE v # w
    <3>1. CallSerial(v) /\ th'[v] = th[v]
      BY <1>4, <2>2 DEF SerialInv
    <3>2. Executing(v) \/ At(v, "revalidate") =>
            th[v].tx \in Txs /\ th[v].s \in Sessions /\ th[v].tx # t
      BY <1>1, <3>1, ThreadAt, ExecutorHolds DEF CallSerial, Sessions
    <3>3. Executing(v) \/ At(v, "resolve") =>
            th[v].s \in Sessions /\ Used(th[v].s)
      BY <3>1, ThreadAt, ExecutorHolds DEF CallSerial, Executable, Used
    <3>4. Executing(v) \/ At(v, "resolve") => sess'[th[v].s] = sess[th[v].s]
      BY <1>2, <1>4, <3>3
    <3>5. QED
      BY <1>3, <1>4, <3>1, <3>2, <3>4 DEF CallSerial, Executing, At, Used
  <2>3. QED
    BY <2>1, <2>2
<1>6. ASSUME NEW d \in done PROVE OnRecord(d)'
  <2>1. OnRecord(d) /\ d.tx \in Txs
    BY DEF SerialInv, TypeOK, Executions
  <2>2. d.tx # t /\ cur[d.tx] \in Sessions /\ cur[d.tx] # s
    BY <1>1, <1>2, <2>1, CurrentSession DEF OnRecord, Early, Used
  <2>3. cur'[d.tx] = cur[d.tx] /\ sess'[cur[d.tx]] = sess[cur[d.tx]]
    BY <1>4, <2>1, <2>2
  <2>4. InProgress(d) => InProgress(d)'
    <3>1. ASSUME NEW v \in Threads, Executed(v) PROVE th'[v] = th[v]
      BY <1>1, <1>4, <3>1 DEF Executed, At
    <3>2. QED
      BY <2>3, <3>1 DEF InProgress, Executed, At
  <2>5. QED
    BY <2>1, <2>3, <2>4 DEF OnRecord
<1>7. QED
  BY <1>3, <1>5, <1>6 DEF SerialInv

LEMMA SerialStep ==
  /\ TypeOK /\ Exclusive /\ Owned /\ CaptureInv /\ SerialInv
  /\ CallsInTurn /\ TurnTaken /\ [Next]_vars
  => SerialInv'
<1> SUFFICES ASSUME TypeOK, Exclusive, Owned, CaptureInv, SerialInv, CallsInTurn, TurnTaken,
                    [Next]_vars
             PROVE  SerialInv'
  OBVIOUS
<1>1. ASSUME NEW w \in Threads, NEW t, CreateBegin(w, t) \/ CreateFail(w) \/ ResolveRaise(w)
      PROVE  SerialInv'
  <2>1. /\ sess' = sess
        /\ \A v \in Threads : th'[v] = th[v] \/ th'[v].pc \in {"order", "idle"}
    BY <1>1, ElsewhereEffect
  <2>2. UNCHANGED <<cur, done>> /\ ~Executed(w)
        /\ \A v \in Threads : v # w => th'[v] = th[v]
    BY <1>1 DEF CreateBegin, CreateFail, ResolveRaise, counters, IsIdle, Idle, Executed, At,
                Return, Goto, TypeOK
  <2>3. QED
    BY <2>1, <2>2, SerialKept
<1>2. CASE Environment \/ UNCHANGED vars
  <2>1. UNCHANGED <<cur, done, sess, th>>
    BY <1>2 DEF Environment, Pay, Expire, Kill, Resume, vars, counters
  <2>2. QED
    BY <2>1, SerialKept
<1>3. ASSUME NEW w \in Threads, Continue(w) PROVE SerialInv'
  BY <1>1, <1>3, CreateSerial, CompleteSerial, ExecuteSerial, RecoverSerial, ResolveSerial
     DEF Continue, Create, Recover, Resolve
<1>4. ASSUME NEW w \in Threads, NEW t \in Txs, Call(w, t) PROVE SerialInv'
  <2>1. Quiet(t)
    BY <1>4 DEF TurnTaken
  <2>2. QED
    BY <1>1, <1>4, <2>1, CallCompleteSerial, CallRecoverSerial, CallResolveSerial DEF Call
<1>5. QED
  BY <1>2, <1>3, <1>4 DEF Next

LEMMA SerialInitially == Init => SerialInv /\ CallsInTurn
BY DEF Init, SerialInv, CallSerial, Executing, At, Idle, CallsInTurn, IsIdle

LEMMA SerialMeansRecorded == TypeOK /\ Owned /\ SerialInv => RefundsOnRecord
<1> SUFFICES ASSUME TypeOK, Owned, SerialInv, NEW d \in done, d.type = "REFUND", Quiet(d.tx)
             PROVE  d.amt \in sess[cur[d.tx]].bundle.refunds
  BY DEF RefundsOnRecord
<1>1. OnRecord(d) /\ d.tx \in Txs
  BY DEF SerialInv, TypeOK, Executions
<1>2. ASSUME NEW w \in Threads, Executed(w), th[w].s = cur[d.tx] PROVE FALSE
  <2>1. th[w].tx \in Txs /\ th[w].s \in Sessions /\ cur[th[w].tx] = cur[d.tx]
    BY <1>2, ThreadAt DEF Executed, Executing, At, SerialInv, CallSerial
  <2>2. th[w].tx = d.tx
    BY <1>1, <1>2, <2>1 DEF Owned, Sessions
  <2>3. QED
    BY <1>2, <2>2 DEF Quiet, IsIdle, Idle, Executed, At
<1>3. QED
  BY <1>1, <1>2 DEF OnRecord, InProgress

(***************************************************************************)
(* If a call begins only while nobody is at work on its transaction, no    *)
(* refund the executor recorded is missing in the evidence of its session  *)
(* once the call has ended: neither a replayed key, nor a refused          *)
(* transition, nor a resolution that writes its copy back loses one.       *)
(***************************************************************************)
THEOREM RefundsStayOnRecord == Spec /\ [][TurnTaken]_vars => []RefundsOnRecord
<1> DEFINE SafeInv == TypeOK /\ Exclusive /\ Owned /\ CaptureInv /\ SerialInv /\ CallsInTurn
<1>1. CallsInTurn => CreationsInTurn
  BY DEF CallsInTurn, CreationsInTurn, CallsFor, IsIdle, Idle, At
<1>2. Init => SafeInv
  BY InitType, ExclusiveInitially, OwnedInitially, CaptureInitially, SerialInitially
<1>3. SafeInv /\ TypeOK' /\ [Next]_vars /\ [TurnTaken]_vars => SafeInv'
  <2>1. SUFFICES ASSUME SafeInv, TypeOK', [Next]_vars, TurnTaken \/ UNCHANGED vars
                 PROVE  SafeInv'
    OBVIOUS
  <2>2. CASE TurnTaken
    BY <1>1, <2>1, <2>2, ExclusiveStep, OwnedInvariant, CaptureStep, SerialStep, TurnsStay
  <2>3. CASE UNCHANGED vars
    <3>1. UNCHANGED <<cur, done, sess, th>>
      BY <2>3 DEF vars, counters
    <3>2. SerialInv'
      BY <2>1, <3>1, SerialKept
    <3>3. CallsInTurn'
      BY <2>1, <3>1 DEF CallsInTurn, CallsFor, IsIdle, At
    <3>4. QED
      BY <1>1, <2>1, <3>2, <3>3, ExclusiveStep, OwnedInvariant, CaptureStep
  <2>4. QED
    BY <2>1, <2>2, <2>3
<1>4. SafeInv => RefundsOnRecord
  BY SerialMeansRecorded
<1> HIDE DEF SafeInv
<1>5. QED
  BY <1>2, <1>3, <1>4, TypeCorrect, PTL DEF Spec
=============================================================================
