------------------------------- MODULE Replay -------------------------------
(***************************************************************************)
(* Deterministic replay (services/replay/): a transaction leaves a record  *)
(* of its transitions, facts and verdicts, the record is archived, one     *)
(* part of it may be damaged while it is kept, and the replay engine says  *)
(* whether it still tells what happened.                                   *)
(*                                                                         *)
(* The live verdict is not always that of the rules on the facts kept: a   *)
(* recovery's refund is netted out of them, a resolution judges an event   *)
(* twice that is kept once, a failed binding overrides the rules, and two  *)
(* verdicts are made by hand.                                              *)
(*                                                                         *)
(* Facts carry their ids.  A drift proof is what its digest covers: the    *)
(* status, the primary violation with what it tells, what was observed,    *)
(* where, and the ids it rests on; it is sealed while its digest fits its  *)
(* content.                                                                *)
(***************************************************************************)
EXTENDS Integers, Sequences, FiniteSets, SequencesExt, LifecycleGraph, Integrity

CONSTANTS
  AmountIds,    \* ids of amount evidence, one per payment
  EventIds,
  Amounts,      \* that may be observed
  Refunds,      \* that a recovery may execute
  MaxTotal,     \* the contract's ceiling
  MaxCaptures,  \* the contract's captures
  MaxHistory    \* bound: transitions of the transaction

ASSUME ReplayAssumption ==
  /\ Amounts \subseteq Nat /\ Refunds \subseteq Nat
  /\ {MaxTotal, MaxCaptures, MaxHistory} \subseteq Nat

VARIABLES
  state,    \* the state machine of the live transaction
  history,  \* its transitions
  facts,    \* the evidence and events kept by now
  judged,   \* the facts as the latest evaluation had them
  how,      \* how the latest verdict came about
  status,   \* the latest verdict, "NONE" before the first
  mrdp,     \* the proof of the latest verdict, sealed, or NoProof
  archive,  \* the snapshot kept: Nothing before one is taken
  honest,   \* whether the archive is as it was taken
  outcome   \* what the replay said: "NONE" before it ran

live == <<state, history, facts, judged, how, status, mrdp>>
vars == <<live, archive, honest, outcome>>

\* others: records of other fields; twice: an event is kept twice;
\* restated: a record is kept again under its id with other content.
NoFacts == [amounts |-> {}, items |-> {}, others |-> {}, events |-> {},
            twice |-> FALSE, restated |-> FALSE]

NoProof ==
  [sealed |-> FALSE, status |-> "NONE", primary |-> "NONE", told |-> {},
   observed |-> {}, source |-> {}, refs |-> {}]

-----------------------------------------------------------------------------
(* What the engine makes of facts. *)

Judgement(f) ==
  Evaluate(f.amounts, f.items, f.events, f.twice, MaxTotal, MaxCaptures)

\* The latest of the highest authority.
Leading(evidence) ==
  {e \in Top(evidence) : \A g \in Top(evidence) : g.at <= e.at}

Ids(records) == {e.id : e \in records}

\* The ids an evaluation reports: the leading amount, or all that conflict,
\* the leading items, and every event.
Referenced(f) ==
  (IF "CONFLICT" \in Judgement(f).viol THEN Ids(Top(f.amounts)) ELSE Ids(Leading(f.amounts)))
    \cup Ids(Leading(f.items)) \cup Ids(f.events)

\* The first violation, in the order of the rules, or what is unproven.
Primary(f) ==
  LET viol == Judgement(f).viol
  IN  IF "OVERCHARGE" \in viol THEN "OVERCHARGE"
      ELSE IF "ITEMS" \in viol THEN "ITEMS"
      ELSE IF "TEMPORAL" \in viol THEN "TEMPORAL"
      ELSE IF Economic(f.amounts, MaxTotal) = "UNKNOWN" THEN "NO_AMOUNT" ELSE "UNPROVEN"

\* What the text of the first violation tells.
Told(f) ==
  CASE Primary(f) = "OVERCHARGE" -> Values(Top(f.amounts))
    [] Primary(f) = "TEMPORAL"   -> {<<e.id, e.late, f.twice>> : e \in f.events}
    [] OTHER                     -> {}

\* evaluate_integrity.
Rules(f) ==
  [status |-> Judgement(f).status, primary |-> Primary(f), told |-> Told(f),
   refs |-> Referenced(f)]

\* A failed binding is a drift, or leaves open what the rules do not condemn.
Bound(f, bindingStatus) ==
  LET v == Rules(f)
  IN  IF v.status = "DRIFT" THEN [v EXCEPT !.refs = @ \cup {"binding"}]
      ELSE [status |-> bindingStatus, primary |-> "BINDING", told |-> {},
            refs |-> v.refs \cup {"binding"}]

\* The results made by hand for a payment never seen, and for a resolution
\* that gives up.
Handmade(text) == [status |-> "UNKNOWN", primary |-> text, told |-> {}, refs |-> {}]

VerdictOf(way, f) ==
  CASE way = "rules"           -> Rules(f)
    [] way = "binding_drift"   -> Bound(f, "DRIFT")
    [] way = "binding_unknown" -> Bound(f, "UNKNOWN")
    [] OTHER                   -> Handmade(way)

-----------------------------------------------------------------------------
(* The proof of a verdict. *)

\* The records of a bundle by what decides which comes first.
Origins(f) ==
  {[rank |-> e.rank, at |-> e.at, source |-> e.source] : e \in f.amounts}
    \cup {[rank |-> e.rank, at |-> e.at, source |-> e.source] : e \in f.items}
    \cup {[rank |-> e.rank, at |-> e.at, source |-> e.source] : e \in f.others}

Earliest(origins) == {e \in origins : \A g \in origins : e.at <= g.at}

\* A live bundle is in the order of insertion; a replay sorts by authority.
First(f) == Earliest(Origins(f))
FirstInOrder(f) == Earliest(Top(Origins(f)))

Agreed(amounts) == Cardinality(Values(Top(amounts))) = 1

\* A violation of the amount names the gateway, any other the first record.
DriftSource(v, f, first) ==
  IF v.primary \in {"OVERCHARGE", "NO_AMOUNT"}
    THEN IF Agreed(f.amounts) THEN {e.source : e \in Top(f.amounts)} ELSE {"PAYMENT_GATEWAY"}
    ELSE IF v.refs = {} THEN {} ELSE {e.source : e \in first}

\* Mutant: the digest covers neither what is told nor what was observed.
BuildMrdpBlind(v, f, first) ==
  [sealed |-> TRUE, status |-> v.status, primary |-> v.primary, told |-> {},
   observed |-> {}, source |-> DriftSource(v, f, first), refs |-> v.refs]

\* build_mrdp for the verdict v, with the bundle of the facts f.
BuildMrdp(v, f, first) ==
  [sealed |-> TRUE, status |-> v.status, primary |-> v.primary, told |-> v.told,
   observed |-> IF v.primary = "OVERCHARGE" /\ Agreed(f.amounts) THEN Values(Top(f.amounts)) ELSE {},
   source |-> DriftSource(v, f, first),
   refs |-> IF v.refs # {} THEN v.refs
            ELSE Ids(f.amounts) \cup Ids(f.items) \cup Ids(f.others)]

-----------------------------------------------------------------------------
(* The live transaction. *)

Init ==
  /\ state = "CREATED"
  /\ history = << >>
  /\ facts = NoFacts /\ judged = NoFacts /\ how = "rules"
  /\ status = "NONE" /\ mrdp = NoProof
  /\ archive = << >> /\ honest = TRUE /\ outcome = "NONE"

Recorded(to) ==
  /\ archive = << >>
  /\ Len(history) < MaxHistory
  /\ CanTransition(state, to)
  /\ state' = to
  /\ history' = Append(history, [from |-> state, to |-> to, trusted |-> TRUE])
  /\ UNCHANGED <<archive, honest, outcome>>

\* A transition to or from no evaluation; a drift is recovered, not resolved.
Transition ==
  /\ state # "REVALIDATING"
  /\ \E to \in {"EXECUTING", "OBSERVING", "RESOLVING", "RECOVERING", "ABSTAIN"} :
       (state = "DRIFT" => to # "RESOLVING") /\ Recorded(to)
  /\ UNCHANGED <<facts, judged, how, status, mrdp>>

Amount(id, v) ==
  [id |-> id, rank |-> 2, at |-> Len(history), value |-> v, source |-> "RAZORPAY"]
Items(v) ==
  [id |-> "items", rank |-> 2, at |-> Len(history), value |-> v, source |-> "RAZORPAY"]
Cancellation ==
  [id |-> "cancel", rank |-> 1, at |-> Len(history), source |-> "MERCHANT"]

\* complete_transaction: the payment is looked for, and its binding judged.
Observe ==
  /\ state = "OBSERVING" /\ Recorded("VERIFYING")
  /\ \/ how' = "unresolved" /\ UNCHANGED facts
     \/ /\ how' \in {"rules", "binding_drift", "binding_unknown"}
        /\ \E id \in AmountIds, v \in Amounts, e \in EventIds, late \in BOOLEAN,
              items \in {{}, {Items("authorized")}, {Items("diverging")}} :
             facts' = [NoFacts EXCEPT
                         !.amounts = {Amount(id, v)}, !.items = items,
                         !.events = {[id |-> e, kind |-> "capture", late |-> late]}]
  /\ judged' = facts'
  /\ UNCHANGED <<status, mrdp>>

\* The payments of an order tell the same items.
ItemsSeen ==
  IF facts.items # {} THEN {facts.items} ELSE {{Items("authorized")}, {Items("diverging")}}

\* The payment is seen, for the first time or again, with its capture.
WithPayment(id, v, items, restated) ==
  [facts EXCEPT
     !.amounts = IF id \in Ids(facts.amounts) THEN @ ELSE @ \cup {Amount(id, v)},
     !.restated = @ \/ (id \in Ids(facts.amounts) /\ restated),
     !.items = items]

\* An event known by its id is not kept again, but it was judged.
Reobserved(id, e) ==
  \E v \in Amounts, late \in BOOLEAN, restated \in BOOLEAN, items \in ItemsSeen :
    LET seen == WithPayment(id, v, items, restated)
    IN  IF e \in Ids(facts.events) THEN facts' = seen /\ judged' = [seen EXCEPT !.twice = TRUE]
        ELSE /\ facts' = [seen EXCEPT !.events =
                            @ \cup {[id |-> e, kind |-> "capture", late |-> late]}]
             /\ judged' = facts'

\* resolve_transaction.
Resolve ==
  /\ state = "RESOLVING" /\ Recorded("REVALIDATING")
  /\ \/ how' \in {"rules", "abstained"} /\ UNCHANGED facts /\ judged' = facts
     \/ how' = "rules" /\ \E id \in AmountIds, e \in EventIds : Reobserved(id, e)
  /\ UNCHANGED <<status, mrdp>>

\* The first amount less the refund stands for all amounts.
Netted(f, refund) ==
  {[e EXCEPT !.id = "net", !.at = Len(history),
             !.value = IF refund < @ THEN @ - refund ELSE 0] : e \in Earliest(f.amounts)}

\* recover_transaction: a refund, a cancellation, or neither, with its event;
\* a cached execution repeats an event.
Recover ==
  /\ state \in {"RECOVERING", "RESOLVING"} /\ Recorded("REVALIDATING")
  /\ how' = "rules"
  /\ \E e \in EventIds, late \in BOOLEAN, cancelled \in {{}, {Cancellation}} :
       facts' = [facts EXCEPT
                   !.others = IF @ = {} THEN cancelled ELSE @,
                   !.twice = @ \/ e \in Ids(facts.events),
                   !.events = IF e \in Ids(facts.events) THEN @
                              ELSE @ \cup {[id |-> e, kind |-> "recovery", late |-> late]}]
  /\ \/ judged' = facts'
     \/ /\ facts.amounts # {} /\ facts'.others = facts.others
        /\ \E refund \in Refunds : judged' = [facts' EXCEPT !.amounts = Netted(facts, refund)]
  /\ UNCHANGED <<status, mrdp>>

\* Mutant: a PASS has a proof too.
ApplyIntegrityResultProven ==
  LET verdict == VerdictOf(how, judged)
  IN  /\ state \in {"VERIFYING", "REVALIDATING"}
      /\ Recorded(verdict.status)
      /\ status' = verdict.status
      /\ mrdp' = BuildMrdp(verdict, facts, First(facts))
      /\ UNCHANGED <<facts, judged, how>>

\* apply_integrity_result, with the proof of a verdict that is no PASS.
ApplyIntegrityResult ==
  LET verdict == VerdictOf(how, judged)
  IN  /\ state \in {"VERIFYING", "REVALIDATING"}
      /\ Recorded(verdict.status)
      /\ status' = verdict.status
      /\ mrdp' = IF verdict.status = "PASS" THEN NoProof
                 ELSE BuildMrdp(verdict, facts, First(facts))
      /\ UNCHANGED <<facts, judged, how>>

-----------------------------------------------------------------------------
(* The archive. *)

\* A ReplaySnapshot of the transaction as it is.
Snapshot ==
  [history |-> history, facts |-> facts, status |-> status, final |-> state,
   mrdp |-> mrdp, rules |-> TRUE]

\* Taken where the transaction rests.
Archive ==
  /\ archive = << >>
  /\ state \in Verdicts \cup {"CREATED", "ABSTAIN"}
  /\ archive' = <<Snapshot>>
  /\ UNCHANGED <<live, honest, outcome>>

Without(s, i) == [j \in 1 .. Len(s) - 1 |-> IF j < i THEN s[j] ELSE s[j + 1]]

\* A transition is lost, has another target, or comes from an agent.
DamagedHistories(h) ==
  {Without(h, i) : i \in DOMAIN h}
    \cup {[h EXCEPT ![i].to = to] : i \in DOMAIN h, to \in LifecycleStates}
    \cup {[h EXCEPT ![i].trusted = FALSE] : i \in DOMAIN h}

\* A fact is lost, has another value, or is there twice with two values.
DamagedFacts(f) ==
  {[f EXCEPT !.amounts = @ \ {e}] : e \in f.amounts}
    \cup {[f EXCEPT !.amounts = (@ \ {e}) \cup {[e EXCEPT !.value = v]}] :
            e \in f.amounts, v \in Amounts}
    \cup {[f EXCEPT !.amounts = @ \cup {[e EXCEPT !.value = v]}] :
            e \in f.amounts, v \in Amounts}
    \cup {[f EXCEPT !.items = {}]}
    \cup {[f EXCEPT !.items = {[e EXCEPT !.value = v]}] :
            e \in f.items, v \in {"authorized", "diverging"}}
    \cup {[f EXCEPT !.events = @ \ {e}] : e \in f.events}
    \cup {[f EXCEPT !.events = (@ \ {e}) \cup {[e EXCEPT !.late = ~ e.late]}] : e \in f.events}
    \cup {[f EXCEPT !.twice = f.events # {} /\ ~ f.twice]}

\* A proof is altered under its digest, exchanged, or lost.
DamagedProofs(p) ==
  {NoProof} \cup
  IF p = NoProof THEN {}
  ELSE {[p EXCEPT !.sealed = FALSE], [p EXCEPT !.status = "PASS"], [p EXCEPT !.refs = {"other"}]}

Damage ==
  /\ archive # << >> /\ honest /\ outcome = "NONE"
  /\ LET s == archive[1]
     IN  \/ \E h \in DamagedHistories(s.history) \ {s.history} :
              archive' = <<[s EXCEPT !.history = h]>>
         \/ \E f \in DamagedFacts(s.facts) \ {s.facts} : archive' = <<[s EXCEPT !.facts = f]>>
         \/ s.status # "NONE" /\ \E v \in Verdicts \ {s.status} : archive' = <<[s EXCEPT !.status = v]>>
         \/ \E t \in LifecycleStates \ {s.final} : archive' = <<[s EXCEPT !.final = t]>>
         \/ \E p \in DamagedProofs(s.mrdp) \ {s.mrdp} : archive' = <<[s EXCEPT !.mrdp = p]>>
         \/ archive' = <<[s EXCEPT !.rules = FALSE]>>
  /\ honest' = FALSE
  /\ UNCHANGED <<live, outcome>>

-----------------------------------------------------------------------------
(* The replay. *)

\* Mutant: a fact that is there twice is ambiguous even when it agrees.
AmbiguousTwice(f) ==
  \/ f.twice \/ f.restated
  \/ \E e, g \in f.amounts : e.id = g.id /\ e # g

\* order_canonical_events and order_evidence_records: one id, two contents.
Ambiguous(f) ==
  \/ f.restated
  \/ \E e, g \in f.amounts : e.id = g.id /\ e # g
  \/ \E e, g \in f.events : e.id = g.id /\ e # g

\* Mutant: the recorded start of a transition is not compared.
LegalFrom(h, i) ==
  LET at == IF i = 1 THEN "CREATED" ELSE h[i - 1].to
  IN  CanTransition(at, h[i].to) /\ h[i].trusted

\* A recorded transition continues the one before, the machine permits it,
\* and no agent caused it by itself.
Legal(h, i) ==
  LET at == IF i = 1 THEN "CREATED" ELSE h[i - 1].to
  IN  at = h[i].from /\ CanTransition(at, h[i].to) /\ h[i].trusted

\* replay_state_transitions: the machine stops before the first illegal one.
IllegalHistory(h) == \E i \in DOMAIN h : ~ Legal(h, i)

ReplayedState(h) == IF h = << >> THEN "CREATED" ELSE Last(h).to

\* What of the record the replay disagrees with.
Discrepancies(s) ==
  LET replayed == Judgement(s.facts).status
      proof == BuildMrdp(Rules(s.facts), s.facts, FirstInOrder(s.facts))
  IN  {d \in {"rules", "final_state", "status", "integrity_divergence", "digest", "proof"} :
         CASE d = "rules"       -> ~ s.rules
           [] d = "final_state" -> ReplayedState(s.history) # s.final
           [] d = "status"      -> s.status # "NONE" /\ s.status # replayed
           [] d = "integrity_divergence" -> s.final = "PASS" /\ replayed # "PASS"
           [] d = "digest"      -> s.mrdp # NoProof /\ ~ (s.mrdp.sealed)
           [] d = "proof"       -> /\ s.mrdp # NoProof /\ replayed # "PASS"
                                   /\ s.mrdp # [proof EXCEPT !.sealed = s.mrdp.sealed]}

\* ReplayEngine.replay.
ReplayVerdict(s) ==
  IF Ambiguous(s.facts) \/ IllegalHistory(s.history) THEN "INVALID_REPLAY"
  ELSE IF Discrepancies(s) = {} THEN "MATCH" ELSE "MISMATCH"

\* execute_governed_replay: another policy is a mismatch, also of a history
\* that cannot be replayed at all.
GovernedVerdict(s, samePolicy) == IF samePolicy THEN ReplayVerdict(s) ELSE "MISMATCH"

ExecuteGovernedReplay ==
  /\ archive # << >> /\ outcome = "NONE"
  /\ \E samePolicy \in BOOLEAN : outcome' = GovernedVerdict(archive[1], samePolicy)
  /\ UNCHANGED <<live, archive, honest>>

Next ==
  \/ Transition
  \/ Observe
  \/ Resolve
  \/ Recover
  \/ ApplyIntegrityResult
  \/ Archive
  \/ Damage
  \/ ExecuteGovernedReplay

Spec == Init /\ [][Next]_vars

-----------------------------------------------------------------------------
TypeOK ==
  /\ state \in LifecycleStates /\ Len(history) <= MaxHistory
  /\ status \in Verdicts \cup {"NONE"}
  /\ mrdp.status \in {"NONE", "DRIFT", "UNKNOWN"}
  /\ \A e, g \in facts.amounts : e.id = g.id => e = g
  /\ outcome \in {"NONE", "MATCH", "MISMATCH", "INVALID_REPLAY"}
  /\ honest => archive \in {<< >>, <<Snapshot>>}

\* The verdict is that of the rules on the facts that are kept.
JudgedAsKept == status = "NONE" \/ (how = "rules" /\ judged = facts)

(***************************************************************************)
(* A record nobody touched replays, whatever way the transaction took, if  *)
(* its verdict is that of the rules on the facts it kept, no record was    *)
(* stated again with other content, and sorting the records leaves one of  *)
(* the same source first (ReplayEngine.replay, build_mrdp).                *)
(***************************************************************************)
HonestReplays ==
  archive # << >> /\ honest /\ JudgedAsKept /\ ~ facts.restated
      /\ {e.source : e \in First(facts)} = {e.source : e \in FirstInOrder(facts)} =>
    ReplayVerdict(archive[1]) = "MATCH"

(***************************************************************************)
(* Whatever single part of an archive was damaged: when the replay finds   *)
(* that it matches, its transitions and its final state are those of the   *)
(* transaction, and so is its verdict, if that is the verdict of the rules *)
(* on the facts kept.  A verdict made otherwise the replay cannot check.   *)
(***************************************************************************)
MatchIsTrue ==
  outcome = "MATCH" =>
    /\ archive[1].history = history
    /\ archive[1].final = state
    /\ JudgedAsKept => archive[1].status = status

(***************************************************************************)
(* The proof pins what a drift rests on: when a replay matches an archive  *)
(* with the proof of an overcharge, the amount is the one that was judged, *)
(* although any other amount above the ceiling gives the same verdict.     *)
(***************************************************************************)
ProofPinsTheAmount ==
  outcome = "MATCH" /\ status = "DRIFT" /\ judged = facts
      /\ archive[1].mrdp.primary = "OVERCHARGE" =>
    Values(Leading(archive[1].facts.amounts)) = Values(Leading(facts.amounts))
=============================================================================
