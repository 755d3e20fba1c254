--------------------------- MODULE Orchestration ---------------------------
(***************************************************************************)
(* The agentic lifecycle (services/orchestration/lifecycle.py) over the    *)
(* integration service it drives (services/integration/service.py), the    *)
(* two gates and the security guard.                                       *)
(*                                                                         *)
(* A call of orchestrate opens the context of its transaction, passes the  *)
(* gates and the guard, puts the merchant's offer and a reported payment   *)
(* on record, and lets the integrity engine judge the record.  PASS        *)
(* completes; DRIFT is answered by one revised offer, which is judged      *)
(* again; UNKNOWN by one look at the provider.  A call is cut where the    *)
(* record can change under it: th[w] says where thread w is and what its   *)
(* call holds in local variables.  A call that raises leaves what it had   *)
(* written.                                                                *)
(*                                                                         *)
(* The idempotency cache and the budgets belong to the orchestrator        *)
(* object: Shared says that one object serves all calls, as in the tests;  *)
(* the HTTP endpoint makes a new one for every call.                       *)
(*                                                                         *)
(* Calls are numbered, and a state machine has the number of the call that *)
(* bound its intent.  What the recovery executor and the observer do by    *)
(* themselves is in TransactionSlice.                                      *)
(***************************************************************************)
EXTENDS Integrity, LifecycleGraph

CONSTANTS
  Txs,            \* transactions
  Threads,        \* worker threads
  Keys,           \* idempotency keys
  NoKey,          \* no idempotency key
  Inputs,         \* the calls clients make
  Attempts,       \* attempt ids the context endpoint is given
  Charges,        \* amounts the provider can report when asked
  Price,          \* the catalog: price of each SKU
  InStock,        \* the inventory: which SKUs are available
  ExpiresAt,      \* end of the validity window of every intent
  MaxReplans,     \* LifecyclePolicy.max_replans
  MaxResolutions, \* LifecyclePolicy.max_unknown_resolutions
  Shared,         \* one orchestrator serves all calls
  MaxCalls        \* bound: calls

\* The contract orders "item" and allows "substitute" instead.
Permitted == {"item", "substitute"}
SKUs == Permitted \cup {"foreign"}

(***************************************************************************)
(* What a client sends: the ceiling `max` of the intent it presents, a     *)
(* proposal of `sku` for `ask`, an offer of `price` (0: none, the catalog  *)
(* is asked) with or without an extra item, a payment (`pay`: 0 none,      *)
(* NoAmount one that is not captured), a claim on a payment, whether to    *)
(* capture it, a recovery action, the time it gives, attempt and key.  ids *)
(* says the proposal names the context's transaction, intent and agent;    *)
(* sound that the offer passes the merchant checks that look at the offer  *)
(* alone; clean that the guard finds nothing in its free text.  Attempts   *)
(* have one digit, so that ids that end in them are ordered as they are.   *)
(***************************************************************************)
ASSUME InputsAssumption ==
  Inputs \subseteq
    [tx : Txs, max : Nat, sku : SKUs, ask : Nat, price : Nat, extra : BOOLEAN,
     pay : Nat \cup {NoAmount}, claim : {"none", "invalid", "valid"},
     execute : BOOLEAN, action : BOOLEAN, clock : Nat, attempt : 1 .. 9,
     key : Keys \cup {NoKey}, ids : BOOLEAN, sound : BOOLEAN, clean : BOOLEAN]
ASSUME CatalogAssumption ==
  /\ Price \in [SKUs -> Nat] /\ InStock \in [SKUs -> BOOLEAN]
  /\ Charges \subseteq Nat /\ Attempts \subseteq Nat \ {0}
ASSUME BudgetAssumption ==
  /\ MaxReplans \in 1 .. 10 /\ MaxResolutions \in 1 .. 5
  /\ MaxCalls \in Nat /\ ExpiresAt \in Nat /\ NoKey \notin Keys

Calls == 1 .. MaxCalls

VARIABLES
  count,       \* calls begun
  rec,         \* _records: context and bound machine
  mach,        \* the state machines made so far
  store,       \* _evidence_store and _event_store
  ledger,      \* _ledgers of the exchange service
  cache,       \* _idempotency_cache: the call whose outcome a key returns
  replans,     \* _replan_counts
  resolutions, \* _resolution_counts
  outs,        \* the outcome of each call
  th           \* threads

vars == <<count, rec, mach, store, ledger, cache, replans, resolutions, outs, th>>

-----------------------------------------------------------------------------
NoRecord == [attempt |-> 0, m |-> 0, proof |-> FALSE, paid |-> FALSE]
NoMachine == [state |-> "ABSENT", time |-> 0, limit |-> 0]
EmptyStore == [amounts |-> {}, items |-> {}, events |-> {}, repeats |-> {}]
NoOutcome == [run |-> 0, m |-> 0, key |-> NoKey, stage |-> "NONE", verdict |-> "NONE",
              state |-> "NONE", total |-> 0, goods |-> "NONE", revised |-> FALSE]
Idle == [pc |-> "idle"]

Input(w) == th[w].c
Tx(w) == th[w].c.tx
Machine(t) == mach[rec[t].m]
At(w, pc) == th[w].pc = pc

\* Where a call without a proof of its own starts.
Opened(n, c) ==
  [pc |-> "opened", n |-> n, c |-> c, first |-> "NONE", verdict |-> "NONE",
   total |-> 0, goods |-> "NONE", revised |-> FALSE]

Init ==
  /\ count = 0
  /\ rec = [t \in Txs |-> NoRecord]
  /\ mach = [m \in Calls |-> NoMachine]
  /\ store = [t \in Txs |-> EmptyStore]
  /\ ledger = [t \in Txs |-> {}]
  /\ cache = [k \in Keys |-> 0]
  /\ replans = [t \in Txs |-> 0]
  /\ resolutions = [t \in Txs |-> 0]
  /\ outs = [n \in Calls |-> NoOutcome]
  /\ th = [w \in Threads |-> Idle]

-----------------------------------------------------------------------------
(***************************************************************************)
(* The record.                                                             *)
(***************************************************************************)

MerchantRank == 4  \* MERCHANT_ATTESTED
ProviderRank == 5  \* AUTHORITATIVE

\* Evidence is ordered by the clock of its call, then by its id.
Observed(c, rank, value) ==
  [rank |-> rank, at |-> 10 * c.clock + c.attempt, value |-> value]

WithEvent(s, id, rank, kind, late) ==
  [s EXCEPT !.events = @ \cup {[id |-> id, rank |-> rank, kind |-> kind, late |-> late]},
            !.repeats = IF \E e \in s.events : e.id = id THEN @ \cup {id} ELSE @]

\* The evidence and the event of an offer; a repeated attempt repeats the
\* id of its event.
WithOffer(s, c, id, total, goods) ==
  WithEvent([s EXCEPT !.amounts = @ \cup {Observed(c, MerchantRank, total)},
                      !.items = @ \cup {Observed(c, MerchantRank, goods)}],
            id, MerchantRank, "offer", c.clock > ExpiresAt)

\* A reported payment: its amount counts only when it is captured.
WithPayment(s, c, id, amount) ==
  WithEvent([s EXCEPT !.amounts = @ \cup {Observed(c, ProviderRank, amount)}],
            id, ProviderRank,
            IF amount = NoAmount THEN "attempt" ELSE "capture", c.clock > ExpiresAt)

\* A payment found at the provider: captured, and for the ordered items.
WithFinding(s, c, amount) ==
  WithPayment([s EXCEPT !.items = @ \cup {Observed(c, ProviderRank, "authorized")}],
              c, <<"found", 0>>, amount)

\* Mutant: reported payments are superseded too.
WithoutAnyone(s) == EmptyStore

\* Mutant: repetitions are remembered for events that are gone.
WithoutMerchantEvents(s) ==
  [s EXCEPT !.amounts = {e \in @ : e.rank # MerchantRank},
            !.items = {e \in @ : e.rank # MerchantRank},
            !.events = {e \in @ : e.rank # MerchantRank}]

\* A revised offer supersedes everything the merchant had on record.
WithoutMerchant(s) ==
  LET events == {e \in s.events : e.rank # MerchantRank}
  IN  [amounts |-> {e \in s.amounts : e.rank # MerchantRank},
       items |-> {e \in s.items : e.rank # MerchantRank},
       events |-> events,
       repeats |-> s.repeats \cap {e.id : e \in events}]

\* The merchant's price: the client's offer, or the catalog's.
Offered(c) == IF c.price = 0 THEN Price[c.sku] ELSE c.price

Goods(c) ==
  IF c.sku \in Permitted /\ ~c.extra THEN "authorized" ELSE "diverging"

\* The amount a call stands for: a payment on record, else the offer.
Amount(s, offer) ==
  LET paid == {e.value : e \in {f \in s.amounts : f.rank = ProviderRank}} \ {NoAmount}
  IN  IF paid = {} THEN offer ELSE CHOOSE a \in paid : \A b \in paid : b <= a

\* evaluate_integrity on the record, against the bound intent.
Verdict(t) ==
  Evaluate(store[t].amounts, store[t].items, store[t].events,
           store[t].repeats # {}, Machine(t).limit, 1).status

\* Mutant: a machine that has answered can answer again.
CanAnswerAgain(t, clock, verdict) == rec[t].m # 0 /\ clock >= Machine(t).time

(***************************************************************************)
(* The machine follows the evaluation: a new one is first taken to         *)
(* VERIFYING.  Time never goes back, and the transition must be permitted. *)
(***************************************************************************)
CanAnswer(t, clock, verdict) ==
  /\ rec[t].m # 0
  /\ clock >= Machine(t).time
  /\ \/ Machine(t).state = "CREATED"
     \/ CanTransition(Machine(t).state, verdict)

-----------------------------------------------------------------------------
(***************************************************************************)
(* Gates, guard and exchange.                                              *)
(***************************************************************************)

\* ConsumerGate: the proposal against the bound intent.
ConsumerValid(limit, sku, ask, clock) ==
  ask > 0 /\ ask <= limit /\ sku \in Permitted /\ clock <= ExpiresAt

\* MerchantGate, but for the price, which is left to the evaluation.
MerchantValid(sku) == InStock[sku]

GatesRefuse(c, limit) ==
  \/ ~ConsumerValid(limit, c.sku, c.ask, c.clock)
  \/ ~MerchantValid(c.sku)
  \/ ~c.sound

\* The guard compares with the intent the call presents.
GuardRefuses(c) == c.ask > c.max \/ c.clock > ExpiresAt \/ ~c.clean

\* Proposal and offer are sent without the hash of the message before them,
\* so that only the first message of a transaction enters its ledger.
Exchanged(c) ==
  [ledger EXCEPT ![c.tx] =
     IF @ = {} /\ c.attempt = rec[c.tx].attempt
       THEN {<<"proposal", c.attempt>>} ELSE @]

-----------------------------------------------------------------------------
(***************************************************************************)
(* Outcomes.                                                               *)
(***************************************************************************)

\* The bound machine's state and number go into the outcome.
Outcome(w, stage, verdict, state) ==
  [run |-> th[w].n, m |-> rec[Tx(w)].m, key |-> Input(w).key, stage |-> stage,
   verdict |-> verdict, state |-> state, total |-> th[w].total,
   goods |-> th[w].goods, revised |-> th[w].revised]

Leave(w, outcome) ==
  /\ outs' = [outs EXCEPT ![th[w].n] = outcome]
  /\ th' = [th EXCEPT ![w] = Idle]

\* An outcome is remembered under the key of its call.
Remembered(w) ==
  IF Shared /\ Input(w).key # NoKey
    THEN [cache EXCEPT ![Input(w).key] = th[w].n] ELSE cache

Finish(w, stage, verdict) ==
  /\ rec[Tx(w)].m # 0
  /\ Leave(w, Outcome(w, stage, verdict, Machine(Tx(w)).state))
  /\ cache' = Remembered(w)

-----------------------------------------------------------------------------
(***************************************************************************)
(* Beginning a call.                                                       *)
(***************************************************************************)

\* Mutant: outcomes are remembered and never looked up.
CachedNever(c) == FALSE

Cached(c) == Shared /\ c.key # NoKey /\ cache[c.key] # 0

\* A key that has an outcome: nothing is executed again.
Reuse(w, c) ==
  /\ At(w, "idle") /\ count < MaxCalls
  /\ Cached(c)
  /\ count' = count + 1
  /\ outs' = [outs EXCEPT ![count + 1] = outs[cache[c.key]]]
  /\ UNCHANGED <<rec, mach, store, ledger, cache, replans, resolutions, th>>

\* create_context if the transaction has none, bind_intent if it has no
\* intent.  The intent a call presents later is not bound.
Enter(w, c) ==
  LET n == count + 1
      new == rec[c.tx].attempt = 0
      binds == rec[c.tx].m = 0
  IN  /\ At(w, "idle") /\ count < MaxCalls
      /\ count' = n
      /\ rec' = [rec EXCEPT ![c.tx] =
                   IF new THEN [NoRecord EXCEPT !.attempt = c.attempt, !.m = n]
                   ELSE IF binds THEN [@ EXCEPT !.m = n] ELSE @]
      /\ mach' = IF binds
                   THEN [mach EXCEPT ![n] = [state |-> "CREATED", time |-> c.clock,
                                             limit |-> c.max]]
                   ELSE mach
      /\ th' = [th EXCEPT ![w] = Opened(n, c)]
      /\ UNCHANGED <<store, ledger, cache, replans, resolutions, outs>>

Begin(w, c) == ~Cached(c) /\ Enter(w, c)

\* The context endpoint creates the context anew, at any time.
Create(t, attempt) ==
  /\ rec' = [rec EXCEPT ![t] = [NoRecord EXCEPT !.attempt = attempt]]
  /\ store' = [store EXCEPT ![t] = EmptyStore]
  /\ UNCHANGED <<count, mach, ledger, cache, replans, resolutions, outs, th>>

(***************************************************************************)
(* A call that names other ids than the context is refused, and the        *)
(* refusal is not remembered.                                              *)
(***************************************************************************)
Mismatch(w) ==
  /\ At(w, "opened") /\ ~Input(w).ids
  /\ Leave(w, Outcome(w, "BLOCKED", "NONE", "ABSTAIN"))
  /\ UNCHANGED <<count, rec, mach, store, ledger, cache, replans, resolutions>>

\* A call that a gate or the guard refuses.
Refuse(w) ==
  LET c == Input(w)
      gates == GatesRefuse(c, Machine(c.tx).limit)
  IN  /\ At(w, "opened") /\ rec[c.tx].m # 0 /\ c.ids
      /\ gates \/ GuardRefuses(c)
      /\ ledger' = IF gates THEN ledger ELSE Exchanged(c)
      /\ Leave(w, Outcome(w, "BLOCKED", "NONE", "ABSTAIN"))
      /\ cache' = Remembered(w)
      /\ UNCHANGED <<count, rec, mach, store, replans, resolutions>>

\* Otherwise the offer, and the payment if there is one, go on record.
Admit(w) ==
  LET c == Input(w)
      offered == WithOffer(store[c.tx], c, <<"offer", c.attempt>>, Offered(c), Goods(c))
      recorded == IF c.pay = 0 THEN offered ELSE WithPayment(offered, c, <<"pay", 0>>, c.pay)
  IN  /\ At(w, "opened") /\ rec[c.tx].m # 0 /\ c.ids
      /\ ~GatesRefuse(c, Machine(c.tx).limit) /\ ~GuardRefuses(c)
      /\ ledger' = Exchanged(c)
      /\ store' = [store EXCEPT ![c.tx] = recorded]
      /\ th' = [th EXCEPT ![w].pc = "admitted", ![w].goods = Goods(c),
                          ![w].total = Amount(recorded, Offered(c))]
      /\ UNCHANGED <<count, rec, mach, cache, replans, resolutions, outs>>

(***************************************************************************)
(* IntegrationService.evaluate: after the offer is on record, after a      *)
(* revised offer, and after a resolution.                                  *)
(***************************************************************************)
ToJudge == {"admitted", "revised", "resolved"}

Judge(w) ==
  LET t == Tx(w)
      verdict == Verdict(t)
  IN  /\ th[w].pc \in ToJudge
      /\ CanAnswer(t, Input(w).clock, verdict)
      /\ mach' = [mach EXCEPT ![rec[t].m] =
                    [@ EXCEPT !.state = verdict, !.time = Input(w).clock]]
      /\ rec' = [rec EXCEPT ![t].proof = (verdict = "DRIFT")]
      /\ th' = [th EXCEPT ![w].verdict = verdict,
                          ![w].first = IF At(w, "admitted") THEN verdict ELSE @,
                          ![w].pc = IF At(w, "admitted") THEN "judged" ELSE "rejudged"]
      /\ UNCHANGED <<count, store, ledger, cache, replans, resolutions, outs>>

-----------------------------------------------------------------------------
(***************************************************************************)
(* Answering the verdict.                                                  *)
(***************************************************************************)

Judged(w, verdict) == At(w, "judged") /\ th[w].verdict = verdict

\* A fresh orchestrator has spent nothing.
Spent(used, t) == IF Shared THEN used[t] ELSE 0
Spend(used, t) == IF Shared THEN [used EXCEPT ![t] = @ + 1] ELSE used

MayReplan(w) == Judged(w, "DRIFT") /\ Spent(replans, Tx(w)) < MaxReplans
MayResolve(w) == Judged(w, "UNKNOWN") /\ Spent(resolutions, Tx(w)) < MaxResolutions

\* PASS on the first evaluation: the claim on a payment, if any, is bound.
Claims(w) == Judged(w, "PASS") /\ Input(w).claim # "none"

BoundPayment(w) ==
  IF Claims(w) THEN [rec EXCEPT ![Tx(w)].paid = TRUE] ELSE rec

\* No payment provider has the capture_payment operation that a valid claim
\* then calls: such a call raises.
Captures(w) == Claims(w) /\ Input(w).claim = "valid" /\ Input(w).execute

Complete(w) ==
  /\ th[w].pc \in {"judged", "rejudged"} /\ th[w].verdict = "PASS"
  /\ ~Captures(w)
  /\ rec' = BoundPayment(w)
  /\ Finish(w, "COMPLETED", "PASS")
  /\ UNCHANGED <<count, mach, store, ledger, replans, resolutions>>

(***************************************************************************)
(* A drifting machine cannot be moved at a time before its last move.      *)
(***************************************************************************)
MovesBack(w) ==
  /\ Machine(Tx(w)).state = "DRIFT"
  /\ Input(w).clock < Machine(Tx(w)).time

Moved(w, to) ==
  IF Machine(Tx(w)).state = "DRIFT"
    THEN [mach EXCEPT ![rec[Tx(w)].m] =
            [@ EXCEPT !.state = to, !.time = Input(w).clock]]
    ELSE mach

(***************************************************************************)
(* DRIFT within the budget: the ordered item at the catalog's price, or at *)
(* the ceiling if that is less, supersedes the merchant's evidence.  Both  *)
(* gates are asked about it, and nothing depends on their answer; the      *)
(* message to the exchange never fits its ledger.                          *)
(***************************************************************************)
Revised(c) == IF Price["item"] > c.max THEN c.max ELSE Price["item"]

Replan(w) ==
  LET c == Input(w)
      round == Spent(replans, c.tx) + 1
  IN  /\ MayReplan(w)
      /\ rec[c.tx].m # 0 /\ ~MovesBack(w)
      /\ replans' = Spend(replans, c.tx)
      /\ mach' = Moved(w, "REVALIDATING")
      /\ store' = [store EXCEPT ![c.tx] =
                     WithOffer(WithoutMerchant(@), c, <<"revised", 10 * c.attempt + round>>,
                               Revised(c), "authorized")]
      /\ th' = [th EXCEPT
           ![w].pc = "revised", ![w].revised = TRUE,
           ![w].total = Amount(store[c.tx], Revised(c)), ![w].goods = "authorized"]
      /\ UNCHANGED <<count, rec, ledger, cache, resolutions, outs>>

(***************************************************************************)
(* UNKNOWN within the budget: what the observer finds at the provider, a   *)
(* captured payment or nothing, goes on record.                            *)
(***************************************************************************)
Resolve(w) ==
  LET c == Input(w)
  IN  /\ MayResolve(w)
      /\ rec[c.tx].m # 0
      /\ resolutions' = Spend(resolutions, c.tx)
      /\ \E found \in Charges \cup {0} :
           store' = IF found = 0 THEN store
                    ELSE [store EXCEPT ![c.tx] = WithFinding(@, c, found)]
      /\ th' = [th EXCEPT ![w].pc = "resolved"]
      /\ UNCHANGED <<count, rec, mach, ledger, cache, replans, outs>>

\* Nothing is left to try.  An evaluation that raises after a resolution is
\* caught.
Exhausted(w) ==
  \/ Judged(w, "DRIFT") /\ ~MayReplan(w)
  \/ Judged(w, "UNKNOWN") /\ ~MayResolve(w)
  \/ At(w, "rejudged") /\ th[w].verdict # "PASS"
  \/ At(w, "resolved") /\ ~CanAnswer(Tx(w), Input(w).clock, Verdict(Tx(w)))

Recovers(w) == Exhausted(w) /\ th[w].first = "DRIFT" /\ Input(w).action

\* Mutant: the proof of an earlier evaluation will do.
ProvenOnce(w) == TRUE

\* The recovery executor needs the proof of drift of the last evaluation.
Proven(w) == rec[Tx(w)].proof

Recover(w) ==
  /\ Recovers(w) /\ Proven(w)
  /\ rec[Tx(w)].m # 0 /\ ~MovesBack(w)
  /\ mach' = Moved(w, "RECOVERING")
  /\ Leave(w, Outcome(w, "RECOVERING", "DRIFT", mach'[rec[Tx(w)].m].state))
  /\ cache' = Remembered(w)
  /\ UNCHANGED <<count, rec, store, ledger, replans, resolutions>>

Abstain(w) ==
  /\ Exhausted(w) /\ ~Recovers(w)
  /\ Finish(w, "ABSTAINED", th[w].first)
  /\ UNCHANGED <<count, rec, mach, store, ledger, replans, resolutions>>

(***************************************************************************)
(* A call that raises has no outcome to remember.  It raises when another  *)
(* client has created the context anew, when the machine does not follow   *)
(* the evaluation, and in the cases above.  The executor may refuse any    *)
(* recovery.                                                               *)
(***************************************************************************)
Raises(w) ==
  LET c == Input(w)
      unbound == rec[c.tx].m = 0
  IN  \/ At(w, "opened") /\ c.ids /\ unbound
      \/ th[w].pc \in {"judged", "rejudged", "resolved"} /\ unbound
      \/ th[w].pc \in {"admitted", "revised"} /\ ~CanAnswer(c.tx, c.clock, Verdict(c.tx))
      \/ Captures(w)
      \/ MayReplan(w) /\ ~unbound /\ MovesBack(w)
      \/ Recovers(w)

Raise(w) ==
  /\ ~At(w, "idle")
  /\ Raises(w)
  /\ rec' = BoundPayment(w)
  /\ replans' = IF MayReplan(w) THEN Spend(replans, Tx(w)) ELSE replans
  /\ resolutions' = IF MayResolve(w) THEN Spend(resolutions, Tx(w)) ELSE resolutions
  /\ Leave(w, Outcome(w, "RAISED", "NONE", "NONE"))
  /\ UNCHANGED <<count, mach, store, ledger, cache>>

Next ==
  \/ \E t \in Txs, a \in Attempts : Create(t, a)
  \/ \E w \in Threads :
       \/ \E c \in Inputs : Reuse(w, c) \/ Begin(w, c)
       \/ Mismatch(w) \/ Refuse(w) \/ Admit(w) \/ Judge(w)
       \/ Complete(w) \/ Replan(w) \/ Resolve(w)
       \/ Recover(w) \/ Abstain(w) \/ Raise(w)

Spec == Init /\ [][Next]_vars

-----------------------------------------------------------------------------
(***************************************************************************)
(* Properties.                                                             *)
(***************************************************************************)

Stages == {"NONE", "BLOCKED", "COMPLETED", "RECOVERING", "ABSTAINED", "RAISED"}

\* The shape of the state, and which call owns what: a machine is made by a
\* call that began, and a call under way has no outcome.
TypeOK ==
  /\ count \in 0 .. MaxCalls
  /\ \A t \in Txs :
       /\ rec[t].m \in 0 .. count
       /\ rec[t].m # 0 => Machine(t).state \in LifecycleStates
       /\ store[t].repeats \subseteq {e.id : e \in store[t].events}
       /\ replans[t] \in 0 .. MaxReplans /\ resolutions[t] \in 0 .. MaxResolutions
  /\ \A n \in Calls : outs[n].stage \in Stages /\ (n > count => outs[n] = NoOutcome)
  /\ \A k \in Keys : cache[k] # 0 => outs[cache[k]].key = k
  /\ \A w \in Threads : ~At(w, "idle") => th[w].n <= count /\ outs[th[w].n] = NoOutcome

Completed(n) == outs[n].stage = "COMPLETED"

(***************************************************************************)
(* A completed call stands for goods the bound intent orders, at no more   *)
(* than its ceiling: whatever ceiling the call itself presented, and       *)
(* whether the price was offered, revised or already paid.                 *)
(***************************************************************************)
CompletedWithinIntent ==
  \A n \in Calls : Completed(n) =>
    /\ outs[n].total <= mach[outs[n].m].limit
    /\ outs[n].goods = "authorized"

\* One binding of an intent completes at most one call, and only with a
\* machine in PASS: later calls get no second completion out of it.
CompletedOnce ==
  \A n \in Calls : Completed(n) =>
    /\ outs[n].state = "PASS"
    /\ \A o \in Calls : Completed(o) /\ outs[o].m = outs[n].m => outs[o].run = outs[n].run

\* A recovery is executed only on a machine that the last evaluation left
\* in DRIFT, never on one that is UNKNOWN or has passed.
RecoveryNeedsDrift ==
  \A n \in Calls : outs[n].stage = "RECOVERING" => outs[n].state = "RECOVERING"

(***************************************************************************)
(* A second call with the key of a call that completed, or that executed a *)
(* recovery, returns that call's outcome and executes nothing.             *)
(***************************************************************************)
IdempotentReplay ==
  \A n, o \in Calls :
    /\ n < o /\ outs[n].key = outs[o].key /\ outs[n].key # NoKey
    /\ outs[n].stage \in {"COMPLETED", "RECOVERING"}
    => outs[o] = outs[n]
=============================================================================
