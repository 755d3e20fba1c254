----------------------------- MODULE Negotiation -----------------------------
(***************************************************************************)
(* Bounded remediation (services/negotiation/service.py): the buyer agent  *)
(* projects its intent again and again, the merchant's catalogue answers,  *)
(* the integrity engine judges the offer, and every message goes onto the  *)
(* ledger that other participants of the transaction write to as well.     *)
(*                                                                         *)
(* One call of execute_bounded_remediation is cut where it goes from one   *)
(* access to a shared object to the next.  The mode, the catalogue and the *)
(* head of the ledger are read in steps that end before a message is       *)
(* appended, and the append is a step of its own.  Between these steps     *)
(* others change the catalogue and the mode, send messages, and negotiate. *)
(***************************************************************************)
EXTENDS Integers, Sequences, FiniteSets, SequencesExt, Buyer, Catalog, Tix, Integrity

CONSTANTS
  Intents,      \* the intents a transaction may have
  Negotiated,   \* the transactions remediated; others only have a ledger
  MaxRounds,    \* policy.max_rounds
  MaxChanges,   \* bound: changes of the catalogue and of the mode
  MaxInbound    \* bound: messages of others

ASSUME NegotiationAssumption ==
  MaxRounds \in 1 .. 10 /\ {MaxChanges, MaxInbound} \subseteq Nat /\ Negotiated \subseteq Txs
ASSUME IntentAssumption ==
  \A order \in Intents :
    /\ order.max \in Nat
    /\ order.items \in Seq(ToSet(order.items)) \ {<< >>}
    /\ Head(order.items).sku \in Skus /\ Head(order.items).quantity \in Nat
    /\ TotalQuantity(order) \in Nat
ASSUME SenderAssumption ==   \* message ids tell whose they are
  {"ext", "elsewhere"} \cap Txs = {} /\ {"core", "buyer", "merchant"} \subseteq Participants

VARIABLES
  mode,     \* the operational mode
  intent,   \* the intent of each transaction
  neg,      \* the session of each transaction, also while it is under way
  changes   \* the changes so far

vars == <<tixVars, catalogVars, intent, mode, neg, changes>>

Given == {"none", "capture", "late"}
RoundStates == {"REPLAN_REQUESTED", "DRIFT_DETECTED", "COMPLETED", "ABSTAINED", "FAILED",
                "ESCALATED"}
Settled == {"COMPLETED", "ABSTAINED", "ESCALATED", "FAILED"}
Silence == [total |-> NoTotal, verdict |-> "NONE"]

Idle ==
  [at |-> "idle", state |-> "DRIFT_DETECTED", events |-> "none", rounds |-> << >>,
   original |-> "NONE", final |-> "NONE", head |-> NoHash,
   response |-> Rejection(CHOOSE s \in Skus : TRUE, 1)]

-----------------------------------------------------------------------------
\* The semantic rule on an offer of one item.
ItemsConform(order, sku, quantity) ==
  LET items == ToSet(order.items)
  IN  /\ sku \in Ordered(order) => \E i \in items : i.sku = sku /\ i.quantity = quantity
      /\ sku \notin Ordered(order) =>
           sku \in order.subs /\ \E i \in items : i.quantity = quantity
      /\ order.partial \/ \A i \in items :
           i.sku = sku \/ (sku \in order.subs /\ i.quantity = quantity)

\* to_evidence of the merchant's offer; there is no offer in a refusal.
OfferEvidence(response, value) ==
  IF response.ok THEN {[rank |-> 1, at |-> 1, value |-> value]} ELSE {}

\* The events handed in; with none, a revalidation makes up a capture.
Lifecycle(given) ==
  IF given = "none" THEN {} ELSE {[kind |-> "capture", late |-> given = "late"]}

RevalidationEvents(given) == IF given = "none" THEN Lifecycle("capture") ELSE Lifecycle(given)

Judge(order, response, events) ==
  Evaluate(OfferEvidence(response, response.total),
           OfferEvidence(response,
             IF ItemsConform(order, response.sku, response.quantity)
               THEN "authorized" ELSE "diverging"),
           events, FALSE, order.max, 1).status

\* Mutant: the authorized quantity itself is refused.
WithinIntentStrict(order, proposal) ==
  /\ proposal.max <= order.max
  /\ proposal.sku \in Ordered(order) \cup order.subs
  /\ proposal.quantity < TotalQuantity(order)

\* The quantity of one article an intent authorizes; of an article it does
\* not order, the quantity of all.
AuthorizedQuantity(order, sku) ==
  LET same == {i \in DOMAIN order.items : order.items[i].sku = sku}
  IN  QuantityAt(order, IF same = {} THEN DOMAIN order.items ELSE same)

\* validate_proposal_against_intent.
WithinIntent(order, proposal) ==
  /\ proposal.max <= order.max
  /\ proposal.sku \in Ordered(order) \cup order.subs
  /\ proposal.quantity <= AuthorizedQuantity(order, proposal.sku)

\* Mutant: the head is read once, when the call begins.
ReadHeadOnce(tx, at) == neg' = [neg EXCEPT ![tx].at = at]

\* A message is going to be built on the head of the ledger: get_chain_hash.
ReadHead(tx, at) == neg' = [neg EXCEPT ![tx].at = at, ![tx].head = ChainHash(tx)]

(***************************************************************************)
(* append_and_verify of a message of the negotiation, named by its place   *)
(* in its round (names are drawn at random in the code, and so are fresh). *)
(* It is chained to the head that was read; whether the ledger takes it is *)
(* not looked at.                                                          *)
(***************************************************************************)
Note(tx, round, place, from, type, body) ==
  AppendAndVerify([id |-> <<tx, round, place>>, tx |-> tx, from |-> from, type |-> type,
                   prev |-> neg[tx].head, flaws |-> {}, body |-> body])

\* The round under way.
Round(tx) == Len(neg[tx].rounds) + 1

Return(tx, state, final, rounds) ==
  neg' = [neg EXCEPT ![tx].at = "returned", ![tx].state = state, ![tx].final = final,
                     ![tx].rounds = rounds]

\* Mutant: one round too many.
NextRoundLate(tx, rounds) ==
  IF Len(rounds) > MaxRounds
    THEN Return(tx, "ABSTAINED", neg[tx].final, rounds)
    ELSE neg' = [neg EXCEPT ![tx].at = "replanning", ![tx].rounds = rounds]

\* The next round, or the end of the last one.
NextRound(tx, rounds) ==
  IF Len(rounds) >= MaxRounds
    THEN Return(tx, "ABSTAINED", neg[tx].final, rounds)
    ELSE neg' = [neg EXCEPT ![tx].at = "replanning", ![tx].rounds = rounds]

-----------------------------------------------------------------------------
Init ==
  /\ TixInit
  /\ CatalogInit
  /\ intent \in [Negotiated -> Intents]
  /\ mode = "GUARDED"
  /\ neg = [tx \in Negotiated |-> Idle]
  /\ changes = 0

(***************************************************************************)
(* What a caller may have got from the merchant: the answer to its request *)
(* as of now, the same out of date, or one to another transaction.         *)
(***************************************************************************)
FirstResponses(order) ==
  LET r == ProcessBuyerRequest(Head(order.items).sku, Head(order.items).quantity)
  IN  {r, [r EXCEPT !.expired = TRUE], [r EXCEPT !.bound = FALSE]}

(***************************************************************************)
(* execute_bounded_remediation up to its loop.                             *)
(***************************************************************************)
BeginShadowed(tx) ==
  /\ neg[tx].at = "idle" /\ mode = "SHADOW"
  /\ Return(tx, "ABSTAINED", "DRIFT", << >>)
  /\ UNCHANGED <<tixVars, catalogVars, intent, mode, changes>>

Begin(tx, response, events) ==
  LET verdict == Judge(intent[tx], response, Lifecycle(events))
  IN  /\ neg[tx].at = "idle" /\ mode # "SHADOW"
      /\ IF verdict = "PASS"
           THEN neg' = [neg EXCEPT ![tx] = [Idle EXCEPT
                          !.at = "returned", !.state = "COMPLETED", !.events = events,
                          !.original = "PASS", !.final = "PASS"]]
           ELSE neg' = [neg EXCEPT ![tx] = [Idle EXCEPT
                          !.at = "noticing", !.events = events, !.original = verdict,
                          !.final = verdict, !.response = response, !.head = ChainHash(tx)]]
      /\ UNCHANGED <<tixVars, catalogVars, intent, mode, changes>>

SendNotice(tx) ==
  /\ neg[tx].at = "noticing"
  /\ Note(tx, 0, 1, "core", "DRIFT_NOTICE", Silence)
  /\ neg' = [neg EXCEPT ![tx].at = "replanning"]
  /\ UNCHANGED <<catalogVars, intent, mode, changes>>

\* Mutant: in SHADOW a session under way waits for the mode to change back.
ReplanRoundShadowed(tx) ==
  /\ neg[tx].at = "replanning" /\ mode # "SHADOW"
  /\ ReadHead(tx, "requesting")
  /\ UNCHANGED <<tixVars, catalogVars, intent, mode, changes>>

(***************************************************************************)
(* One round: the buyer replans and the proposal passes the gate, ...      *)
(***************************************************************************)
ReplanRound(tx) ==
  LET rounds == neg[tx].rounds
  IN  /\ neg[tx].at = "replanning"
      /\ IF Replan(intent[tx], neg[tx].response) = "ABSTAIN"
           THEN Return(tx, "ABSTAINED", neg[tx].final, Append(rounds, "ABSTAINED"))
         ELSE IF ~ WithinIntent(intent[tx], Propose(intent[tx]))
           THEN Return(tx, "FAILED", neg[tx].final, Append(rounds, "FAILED"))
         ELSE ReadHead(tx, "requesting")
      /\ UNCHANGED <<tixVars, catalogVars, intent, mode, changes>>

SendRequest(tx) ==
  /\ neg[tx].at = "requesting"
  /\ Note(tx, Round(tx), 1, "buyer", "REMEDIATION_REQUEST", Silence)
  /\ neg' = [neg EXCEPT ![tx].at = "asking"]
  /\ UNCHANGED <<catalogVars, intent, mode, changes>>

(***************************************************************************)
(* ... the merchant answers, which ends the round if it refuses, ...       *)
(***************************************************************************)
AskMerchant(tx) ==
  LET proposal == Propose(intent[tx])
  IN  /\ neg[tx].at = "asking"
      /\ neg' = [neg EXCEPT
                   ![tx].at = "offering", ![tx].head = ChainHash(tx),
                   ![tx].response = ProcessBuyerRequest(proposal.sku, proposal.quantity)]
      /\ UNCHANGED <<tixVars, catalogVars, intent, mode, changes>>

SendOffer(tx) ==
  LET response == neg[tx].response
  IN  /\ neg[tx].at = "offering"
      /\ Note(tx, Round(tx), 2, "merchant", "OFFER",
              [total |-> response.total, verdict |-> "NONE"])
      /\ IF response.ok
           THEN neg' = [neg EXCEPT ![tx].at = "judging"]
           ELSE NextRound(tx, Append(neg[tx].rounds, "REPLAN_REQUESTED"))
      /\ UNCHANGED <<catalogVars, intent, mode, changes>>

\* Mutant: the offer is judged against what the merchant asks for it.
RevalidatedGenerously(tx) ==
  Judge([intent[tx] EXCEPT !.max = neg[tx].response.total], neg[tx].response,
        RevalidationEvents(neg[tx].events))

Revalidated(tx) ==
  Judge(intent[tx], neg[tx].response, RevalidationEvents(neg[tx].events))

(***************************************************************************)
(* ... and the offer is judged.  A drift leaves the session's final        *)
(* verdict as it was.                                                      *)
(***************************************************************************)
JudgeOffer(tx) ==
  /\ neg[tx].at = "judging"
  /\ ReadHead(tx, "concluding")
  /\ UNCHANGED <<tixVars, catalogVars, intent, mode, changes>>

SendOutcome(tx) ==
  LET verdict == Revalidated(tx)
      rounds == neg[tx].rounds
      state == IF verdict = "PASS" THEN "COMPLETED" ELSE "ESCALATED"
  IN  /\ neg[tx].at = "concluding"
      /\ IF verdict = "DRIFT"
           THEN /\ Note(tx, Round(tx), 3, "core", "DRIFT_NOTICE", Silence)
                /\ NextRound(tx, Append(rounds, "DRIFT_DETECTED"))
           ELSE /\ Note(tx, Round(tx), 3, "core", "OUTCOME",
                        [total |-> NoTotal, verdict |-> verdict])
                /\ Return(tx, state, verdict, Append(rounds, state))
      /\ UNCHANGED <<catalogVars, intent, mode, changes>>

-----------------------------------------------------------------------------
InboundIds == {<<"ext", n, 0>> : n \in 1 .. MaxInbound}

\* Every head the ledger has had.
Heads(tx) == {NoHash} \cup {Hash(ledger[tx][i]) : i \in DOMAIN ledger[tx]}

\* What a participant may send who has seen any head of the ledger, or that
\* of another one.
Sendable(tx) ==
  {[id |-> id, tx |-> tx, from |-> "merchant", type |-> type, prev |-> prev,
    flaws |-> flaws, body |-> Silence] :
     id \in InboundIds, type \in {"OFFER", "AUTHORIZATION"},
     prev \in Heads(tx) \cup {<< <<"elsewhere", 0, 0>> >>},
     flaws \in {{}, {"EXPIRED"}, {"PAYMENT_CLAIM"}}}

\* What is on record, sent once more, or into this ledger.
Repeatable(tx) ==
  UNION {{[m EXCEPT !.tx = tx] : m \in ToSet(ledger[u])} : u \in Txs}

\* append_tix_message of the protocol gateway.
Inbound(tx) ==
  /\ \E m \in Sendable(tx) \cup Repeatable(tx) : AppendAndVerify(m)
  /\ UNCHANGED <<catalogVars, intent, mode, neg, changes>>

\* evaluate_and_record_integrity: a verdict on evidence from elsewhere, on
\* a head that was read before.
EvaluateAndRecord(tx) ==
  /\ \E id \in InboundIds, prev \in Heads(tx), verdict \in {"PASS", "DRIFT", "UNKNOWN"} :
       AppendAndVerify([id |-> id, tx |-> tx, from |-> "core",
         type |-> IF verdict = "DRIFT" THEN "DRIFT_NOTICE" ELSE "OUTCOME",
         prev |-> prev, flaws |-> {},
         body |-> [total |-> NoTotal, verdict |-> verdict]])
  /\ UNCHANGED <<catalogVars, intent, mode, neg, changes>>

Merchant ==
  /\ changes < MaxChanges /\ changes' = changes + 1
  /\ \E sku \in Skus : AddItem(sku) \/ SetInventoryStatus(sku)
  /\ UNCHANGED <<tixVars, intent, mode, neg>>

SetMode ==
  /\ changes < MaxChanges /\ changes' = changes + 1
  /\ mode' \in {"GUARDED", "SHADOW"} \ {mode}
  /\ UNCHANGED <<tixVars, catalogVars, intent, neg>>

Send(tx) == SendNotice(tx) \/ SendRequest(tx) \/ SendOffer(tx) \/ SendOutcome(tx)

Remediate(tx) == ReplanRound(tx) \/ AskMerchant(tx) \/ JudgeOffer(tx) \/ Send(tx)

Start(tx) ==
  \/ BeginShadowed(tx)
  \/ \E response \in FirstResponses(intent[tx]), events \in Given :
       Begin(tx, response, events)

Next ==
  \/ \E tx \in Negotiated : Start(tx) \/ Remediate(tx)
  \/ \E tx \in Txs : Inbound(tx) \/ EvaluateAndRecord(tx)
  \/ Merchant
  \/ SetMode

(***************************************************************************)
(* A call under way runs on; nobody need start one or send a message.      *)
(***************************************************************************)
Spec == Init /\ [][Next]_vars /\ \A tx \in Negotiated : WF_vars(Remediate(tx))

-----------------------------------------------------------------------------
TypeOK ==
  /\ CatalogTypeOK
  /\ mode \in {"GUARDED", "SHADOW"}
  /\ changes \in 0 .. MaxChanges
  /\ seen = {m.id : m \in UNION {ToSet(ledger[tx]) : tx \in Txs}}
  /\ \A tx \in Negotiated :
       /\ neg[tx].at \in {"idle", "noticing", "replanning", "requesting", "asking",
                          "offering", "judging", "concluding", "returned"}
       /\ neg[tx].at = "returned" => neg[tx].state \in Settled
       /\ neg[tx].rounds \in Seq(RoundStates) /\ Len(neg[tx].rounds) <= MaxRounds

\* The messages a round in this state has sent.
MessagesOf(state) ==
  CASE state = "REPLAN_REQUESTED" -> <<"REMEDIATION_REQUEST", "OFFER">>
    [] state = "DRIFT_DETECTED"   -> <<"REMEDIATION_REQUEST", "OFFER", "DRIFT_NOTICE">>
    [] state \in {"COMPLETED", "ESCALATED"} -> <<"REMEDIATION_REQUEST", "OFFER", "OUTCOME">>
    [] state \in {"ABSTAINED", "FAILED"}    -> << >>

\* What a session sends in its i-th round; before the first, the notice.
Part(session, i) == IF i = 0 THEN <<"DRIFT_NOTICE">> ELSE MessagesOf(session.rounds[i])

\* The types a session owes the ledger, by round and place in the round.
Owed(session) ==
  LET parts == IF session.original \in {"NONE", "PASS"} THEN {} ELSE 0 .. Len(session.rounds)
  IN  [slot \in UNION {{i} \X DOMAIN Part(session, i) : i \in parts}
         |-> Part(session, slot[1])[slot[2]]]

Precedes(s, t) == s[1] < t[1] \/ (s[1] = t[1] /\ s[2] < t[2])

\* Where the messages of the negotiation of tx are on its ledger.
OwnPlaces(tx) == {k \in DOMAIN ledger[tx] : ledger[tx][k].id[1] = tx}

\* Round and place in the round of the message there.
Slot(tx, k) == <<ledger[tx][k].id[2], ledger[tx][k].id[3]>>

OnLedger(tx, slot) == \E k \in OwnPlaces(tx) : Slot(tx, k) = slot

\* A message of others stands where the message of this slot would.
Overtaken(tx, slot) ==
  \E k \in DOMAIN ledger[tx] \ OwnPlaces(tx) : \A j \in OwnPlaces(tx) :
    IF j < k THEN Precedes(Slot(tx, j), slot) ELSE Precedes(slot, Slot(tx, j))

(***************************************************************************)
(* The ledger tells the negotiation.  Every append is made on a head that  *)
(* others may have moved, and its outcome is never looked at; yet what is  *)
(* on the ledger of a returned session is what its rounds sent, in order,  *)
(* and where something is missing a message of others has taken its place. *)
(***************************************************************************)
RoundsOnLedger ==
  \A tx \in Negotiated : neg[tx].at = "returned" =>
    /\ \A k \in OwnPlaces(tx) :
         /\ Slot(tx, k) \in DOMAIN Owed(neg[tx])
         /\ ledger[tx][k].type = Owed(neg[tx])[Slot(tx, k)]
         /\ \A j \in OwnPlaces(tx) : j < k => Precedes(Slot(tx, j), Slot(tx, k))
    /\ \A slot \in DOMAIN Owed(neg[tx]) : OnLedger(tx, slot) \/ Overtaken(tx, slot)

(***************************************************************************)
(* A PASS of the negotiation is about the offer the session ends with,     *)
(* which is within the ceiling, although the price may have changed since; *)
(* and the offer the ledger has for that round is that one, unless it is   *)
(* missing because another message overtook it.                            *)
(***************************************************************************)
PassWithinCeiling ==
  \A tx \in Negotiated : \A k \in OwnPlaces(tx) : ledger[tx][k].body.verdict = "PASS" =>
    LET offer == <<Slot(tx, k)[1], 2>>
        total == neg[tx].response.total
    IN  /\ total \in 0 .. intent[tx].max
        /\ \/ \E j \in OwnPlaces(tx) :
               /\ j < k /\ Slot(tx, j) = offer
               /\ ledger[tx][j].type = "OFFER" /\ ledger[tx][j].body.total = total
           \/ ~ OnLedger(tx, offer) /\ Overtaken(tx, offer)

(***************************************************************************)
(* The gate refuses nothing the buyer agent can want, but for an intent    *)
(* for several items: its projection asks for all of them as the first.    *)
(***************************************************************************)
OnlySeveralItemsFail ==
  \A tx \in Negotiated : neg[tx].state = "FAILED" => Cardinality(Ordered(intent[tx])) > 1

(***************************************************************************)
(* Every remediation that finds a mismatch returns, however the merchant    *)
(* keeps changing its mind.                                                *)
(***************************************************************************)
NegotiationReturns ==
  \A tx \in Negotiated : neg[tx].at = "noticing" ~> neg[tx].at = "returned"
=============================================================================
