# A TLA+ development of TarkaRaksha

TarkaRaksha is a control plane for payments that agents make: it holds an
*intent contract* (ceiling, items, validity window), lets a payment gateway
take the money, decides from the gateway's evidence whether the transaction
has integrity (`PASS`, `DRIFT`, `UNKNOWN`), and recovers or resolves what has
not. Around this slice stand a negotiation between buyer and merchant agents, a
ledger of their messages, operational modes with human review, and views that
explain, time and replay what happened. This directory models the parts that
keep state, interact, or compute what others trust, checks them with TLC and
proves the most important results with TLAPS. Paths below are relative to
`src/backend/app/`.

    tlc -workers 2 -config SlicePair.cfg MCTransactionSlice
    tlapm TransactionSliceProofs.tla   # some seven minutes from nothing

## 1. Inventory

All state is in process memory, in dictionaries of service objects that
`main.py` creates once. The endpoints of the slice are plain (not `async`)
functions, which the HTTP server runs on a pool of threads; no service takes a
lock. So every hazard of shared state is real here, and none of persistence:
nothing survives a restart.

| component | state | operations | must hold |
|---|---|---|---|
| kill switch (`services/kill_switch`, `domain/kill_switch`) | safety state, registered context, count of unresolved evaluations, audit history, per transaction | register, kill, pause, unpause, initiate_revalidation, revalidate, evaluate_and_enforce; assert_can_execute is the gate | a killed transaction runs only after a revalidation; the tolerance cannot be got round; the history is a chain |
| lifecycle (`domain/states`) | current state and history of each state machine | transition_to, apply_integrity_result | only edges of the graph; `PASS` and `ABSTAIN` are final |
| transaction service (`services/transaction_service.py`) | sessions by transaction, transaction by intent | create, complete, recover, resolve | one capture per intent; verdicts rest on evidence; every transaction ends |
| integrity evaluation (`services/evaluation.py`, `domain/rules`, `domain/evidence`) | none | evaluate_integrity | no `PASS` without evidence of every kind, no `PASS` over the ceiling |
| discrepancy proofs (`services/mrdp.py`) | none | build_mrdp | the discrepancy is what may be refunded |
| binding (`services/binding`, `domain/binding`) | bound contexts, consumed attempts, payment to transaction | register_binding, verify_transaction_binding, consume_attempt | a payment serves one transaction, the one whose order was charged |
| recovery (`services/recovery`) | idempotency records, attempts per intent | classify, validate, execute, revalidate | bounded, idempotent, refunds no more than the overcharge |
| resolution (`services/resolution`) | idempotency records, attempts per intent | diagnose_unknown, resolve | bounded; moves no money; does not guess |
| payment gateway (`services/payment`) | orders and payments, external | create_order, fetch_payment, fetch_order_payments, signatures | none: may fail, time out, capture late |
| operational modes (`services/operational_mode`, `domain/operational_mode`) | policy, history of modes, reviews, evaluations | set_mode, update_policy, evaluate, create and submit reviews, assert_can_execute_payment | an approval is never a substitute for `PASS`; large payments are approved by a human; the record of modes is a chain |
| orchestration (`services/orchestration`) | outcomes by idempotency key, replans and resolutions spent per transaction | orchestrate, replay_lifecycle | completes only what the bound intent orders, once; recoveries answer a drift |
| integration (`services/integration`) | record, state machine, evidence and events per transaction | create_context, bind_intent, gates, add_evidence, evaluate, bind_payment, recover | verdicts rest on the evidence of the call they answer |
| gates (`services/gates`), security guard (`domain/security_guard`) | none | validate, evaluate | refuse what the intent does not allow |
| negotiation (`services/negotiation`) | a session of rounds per transaction | execute_bounded_remediation | ends; a `PASS` speaks of an offer within the ceiling; what the ledger lacks of its rounds was overtaken |
| trust information exchange, TIX (`services/tix`, `domain/tix`) | a ledger of messages per transaction, known ids | append_and_verify, verify_chain_integrity | a ledger is a chain; a message is recorded once |
| merchant catalogue (`services/merchant`) | prices, stock | offer, counter-offer, rejection, changes of prices and stock | offers what it has at its price |
| buyer agent (`services/buyer`) | none | projection of an intent, reply to a refusal | asks for no more than the intent |
| merchant capabilities (`domain/capability`, `services/capability`) | graphs and snapshots by merchant | build, snapshot, evaluate_operation | answers what declaration and policy mean |
| traces (`services/trace`, `domain/trace`) | none | build_trace | a drift is located; nothing is confirmed that is not a `PASS` |
| checkpoints (`services/checkpoint`, `domain/checkpoint`) | none | generate_timeline | everything up to the last valid checkpoint is valid |
| SLA metrics (`services/sla`, `domain/sla`) | none | compute_report | stamps in the order of the handlers never look like a clock anomaly |
| replay (`services/replay`) | none | replay, execute_governed_replay, verify_reproducibility | an honest archive of a verdict of the rules on the facts kept matches; a match tells the truth about the transitions, the final state and such a verdict |
| passport, certification, scenarios, control room, hero demos, governance records, AI services, explanations, canonicalisation, frontend, scripts | views, harnesses, text | | not modelled: see section 6 |

How they interact. `create_transaction` registers the transaction with the
kill switch, passes its gate, asks the gateway for an order and registers the
binding. `complete_transaction` passes the gate, polls the gateway, evaluates
the evidence, verifies and consumes the binding, applies the verdict to the
state machine, reports to the kill switch, and has the operational mode
evaluated. `recover_transaction` classifies the drift, validates a request (the
client's, or one it makes up), executes it once per key, nets a refund against
the amount and evaluates again. `resolve_transaction` diagnoses an `UNKNOWN`,
asks the gateway and evaluates again. Neither of the last two passes the gate or
reports to the kill switch. Trace, checkpoints and SLA report are computed on
request from the session, the kill switch and the clock.

`orchestrate` is a second way through the system, with a record, state machine
and kill switch of its own: it opens a context, passes both gates and the
guard, puts offer and payment on record, has the record evaluated, and answers
a `DRIFT` by one revised offer or a recovery and an `UNKNOWN` by one resolution.
The endpoint makes an orchestrator per call; the integration service below it
is shared. A remediation is a third: it judges an offer, asks the merchant for
another, judges that, and notes every step on the ledger of the transaction,
onto which the integration service appends messages of others.

What is hard: interleavings of these calls at the gateway calls and between
check and use (duplicate intents, bindings, kill-switch states, the copied
evidence of a resolution); retries with and without idempotency keys; the
gateway failing at any call; expiry while a call is in progress; budgets with
off-by-one boundaries; a recovery executed and its transition then refused; the
evidence of one call judged, or replaced, by another; prices, stock and policies
that change between a decision and its use; messages delivered twice, late or to
the wrong ledger; stamps that handlers make up; archives damaged while they are
kept. The `hazards` of `PROJECT.json` list them at their lines.

## 2. Modules

| module | models |
|---|---|
| `KillSwitchPolicy` | the pure policy: safety transitions, findings, acceptance of a revalidation |
| `KillSwitch` | the service with all its operations; each is a step that reads and decides, and steps (`Commit`) that write |
| `LifecycleGraph`, `Lifecycle` | the transition graph, and the abstract promise of the state machine: start in `EXECUTING`, move along edges |
| `Integrity` | the three rules and the precedence of verdicts, as operators |
| `TransactionSlice` | create, complete, recover, resolve with binding, executor, observer and the gate; extends the three above |
| `Trace`, `Checkpoints`, `Sla` | the pure engines: eight stages and their decision, the chained timeline, the metrics, as operators on a record of what they read |
| `SessionViews` | the slice with the stamps its handlers make, and the three engines evaluated in every state of it |
| `OperationalMode` | modes, policies and reviews with the two places that use them; extends `KillSwitchPolicy` |
| `Tix`, `Catalog`, `Buyer` | ledgers and their verifier; the merchant's answers; the buyer's projections |
| `Negotiation` | one remediation per transaction, composed with the three above and `Integrity` |
| `Orchestration` | orchestrate with all its exits, over the integration service, the gates and the guard; extends `Integrity` and `LifecycleGraph` |
| `Replay` | a transaction that is archived, damaged and replayed; extends `Integrity` and `LifecycleGraph` |
| `Capability` | the capability graph of a merchant: its construction, snapshot and evaluation, and a reference without a graph |
| `MC...` | values of the constants for TLC; `MCNegotiation` also evaluates `Capability` on a small merchant |
| `KillSwitchProofs`, `TransactionSliceProofs`, `SessionViewsProofs`, `OperationalModeProofs`, `NegotiationProofs` (with `Tix`), `OrchestrationProofs`, `ReplayProofs` | theorems about the module of that name; those about `Capability` are in that module |

Correspondence of `TransactionSlice` with the code:

* `sess[s]` is the `TransactionSession` object of creation number `s`: `sm` its
  state machine, `bundle` and `events` its evidence, `status`/`viol` its
  integrity result, `resp`/`disc` what later calls read of its
  `completed_response` (verdict and discrepancy), `ratt`/`satt` its attempts.
  `cur[t]` is the session the dictionaries lead to. A second creation of `t`
  replaces `cur[t]`; threads that hold the old object go on with it. The gateway
  gives every creation a fresh order, so an order is identified with its session.
* `th[w]` is thread `w`: where it stands in a handler and its local variables.
  The handlers are cut at calls that leave the process (the gateway), between
  verification and consumption of a binding, and at the reads and writes of the
  recovery executor: it looks the key up (`RecoverLookup`, `executor.py:79`), reads
  the count of the intent and validates (`RecoverAttempt`, `:97`), writes back one
  more than it read (`RecoverCount`, `:107`), and records the execution over an
  earlier one of its key (`RecoverRecord`, `:216`); `RecoverEnter` is the handler
  going on. Within these cuts a handler is one step. Finer interleavings of reads
  and writes, which the interpreter could also produce, are considered in
  `KillSwitch`.
* `calls` of a session are the recoveries begun since its last verdict. The
  state machine refuses a transition stamped earlier than its last one
  (`machine.py:78`), and a recovery carries the stamp of its beginning: when
  another call has applied a verdict in between, the transition is refused after
  the action was executed. Equal stamps are possible, which is why `RecoverEnter`
  lets a call of an older stamp be refused and never requires a later one to be.
* `late` of a thread is whether the contract had expired when its call began:
  the code takes the time once per call.
* The contract is one: ceiling `MaxTotal`, one item, one capture. An amount is
  a number, an item is `authorized`, `diverging`, or `unstated` in the notes.
  `NOTIFY` stands for `HOLD`, `CANCEL` for `VOID`, and `CAPTURE` for any action
  the validator refuses.
* Kill, pause and revalidation are one step each here (`Kill`, `Resume`):
  `KillSwitch` has them in detail.
* `resolve_transaction` with an idempotency key always raises (`:1256` calls a
  method the observer does not have), so it is not a step. A completion in the
  `HUMAN_REVIEW` mode raises at `:858`; the slice is modelled in the default
  mode, and `OperationalMode` has the others.

Correspondence of `SessionViews`: every action is the slice's action of the same
name with the stamps its handler writes. Handlers stamp from the moment they
began, ten milliseconds (`Pause`) a step, so stamps run ahead of the clock; time
passes between calls (`Tick`), not during them. One caller, so that no stamp is
refused. `View(t)` is the record that `build_trace_from_session` and
`get_sla_report_for_session` read off the session; `GetTrace`, `GetCheckpoints`
and `GetReport` are the answers. Signatures and fingerprints are free of
collisions: a checkpoint's fingerprint is the sequence of contents it covers.

Correspondence of `OperationalMode`: `CompleteBegin` and `CompleteEnforce` are
the two ends of a completion, `Reverdict` a later recovery or resolution,
`MoveSafety` an operation of the kill switch; the rest are the operations of the
service. A completion evaluates the mode with the state that was enforced, or
with `RUNNING` when nothing was (`transaction_service.py:847`). The service keeps
no evaluation: `evals[t]` are the ones made so far, each in somebody's hands, and
`Pay` is shown any of them, as `assert_can_execute_payment` reads nothing else. A
review may be opened at any time (`create_review_requirement` has no condition
but that there is none yet). `reviewed` of an evaluation says that it names a
review.

Correspondence of `Negotiation`: `neg[tx]` is the call and its session, and
`neg[tx].head` what the last `get_chain_hash` returned. The code reads the head of
the ledger when it builds a message and appends it in a later call
(`negotiation/service.py:205` and `:208`, `:317`/`:320`, `:360`/`:363`, `:438`/`:441`,
`:491`/`:494`, `:531`/`:534`), and so does the model: `Begin`, `ReplanRound`,
`AskMerchant` and `JudgeOffer` end with the read, `SendNotice`, `SendRequest`,
`SendOffer` and `SendOutcome` append what was built on it, and do not look at what
becomes of it, as the code does not. The mode, the catalogue and the head that one
of the former steps reads are read one after the other in the code; a change
between two such reads is one before or after both, since neither depends on the
other. `append_and_verify` itself is one step. The code draws message ids with
`uuid4`, so they are fresh: a message of the negotiation is named by its round and
its place in it, which no other message is. `Merchant` changes prices and stock;
`Inbound` appends messages of others through the integration service, with ids of
their own, on any head the ledger has had or one of another ledger, and delivers
once more, into any ledger, what is on record. The id of a message of the
negotiation that was refused is known to nobody else, so nobody sends it again.

Correspondence of `Replay`: the transaction moves along the lifecycle graph, and
facts come in with the transition that the code makes after it looked for them:
`Observe` (`complete_transaction`), `Resolve` and `Recover`. `facts` is what the
session keeps and `judged` what the evaluation was given, which differ: a refund
is netted out of the amount judged and not out of the record
(`revalidator.py:50-84`), and a resolution judges a known event twice and keeps it
once (`transaction_service.py:1338`). `how` says whether the verdict is that of the
rules, one overridden by a failed binding (`:791-816`), or one made by hand for a
payment never seen (`:647-672`) or a resolution that gives up
(`observer.py:141-161`). A record may be stated again under its id with other
content (`restated`), as the status of a payment fetched twice. A proof is what its
digest covers, the source among it: that of the first record, in the order of
insertion while the transaction lives and sorted by authority in a replay, so that
a cancellation kept before any payment comes first in the one and not in the
other. It is archived where it rests: in a verdict, in `CREATED` or in `ABSTAIN`.

Correspondence of `Orchestration`:

* `rec[t]` is the execution record: the attempt of its context, the machine its
  intent is bound to (0: no intent), whether the last evaluation left a proof of
  drift, and whether a payment was bound. A machine carries the number of the
  call that made it; it is never reused, so that a context created anew
  (`Create`, the context endpoint) and the old machine can be told apart.
* `store[t]` is evidence and events. Their ids repeat when an attempt id does,
  which is what `repeats` remembers for the temporal rule. A payment that is not
  captured is on record without an amount (`NoAmount`), which the economic rule
  answers with `UNKNOWN`.
* `th[w]` is a call of `orchestrate`: its input, and the local variables read
  after the record can have changed. A call is cut before it puts its offer on
  record, before every evaluation, and before it answers a verdict.
* `total` of an outcome is the captured payment on record, or else the offer,
  that the call stands for.
* `Shared` says whether one orchestrator serves all calls. With `Shared = FALSE`,
  as the endpoint does it (`service.py:618`), no key is ever found and every call
  has fresh budgets: the idempotency key of the HTTP interface has no effect.
  A repeated call raises, because the machine has already answered
  (`test_41_duplicate_lifecycle_observation_does_not_double_charge` uses one
  orchestrator for both calls).
* After a resolution the evaluation is refused, since the machine is in `UNKNOWN`
  and the orchestrator does not take it to `RESOLVING`; the exception is caught and
  the call abstains. So no call completes by a resolution, except one whose
  machine another call has moved.
* Quantities are one, the agent and the merchant are fixed (`ids` covers a
  mismatch), and expiry is the only bound of the validity window. The observer and
  the recovery executor are reduced to what they leave on record, since
  `TransactionSlice` has them in detail; the registry of payment claims is
  reduced to whether a claim is valid.

`KillSwitch`: `pend[c]` holds the records caller `c` has decided and not yet
written. Of the reason of a kill only this is kept: whether it is that of the last
record, which is when a repeated kill returns early. `Commit` writes one record with
its state, as the code does (`_states[...] = ...` followed by
`_histories[...].append`). With one caller this is the sequential service.

## 3. Runs

| run | instance | shows |
|---|---|---|
| `KillSwitchSequential` | 1 caller, 1 transaction, 2 contexts, 5 records | all operations in all orders: `AuditChain`, `ResumeIsRevalidated`, `UnknownTolerance`, `KilledNeverRuns` |
| `KillSwitchRace` | 2 callers, 3 records | **refutes** `KilledNeverRuns` |
| `SliceSequential` | 1 transaction, 1 thread, 2 creations, 2 payments of 4 kinds, budgets 3, expiry, operator | `PassWithinBudget`, `RefundsOnRecord`, `OneCapture`; under fairness `VerdictReached` |
| `SlicePair` | 2 transactions, 2 threads, 2 creations, 1 payment that any caller may name, 1 recovery and 1 resolution counted | `ConsumedByOwner`, `ConsumeNeverRaises`, `ExecutionsBounded`, `ClosedRecord`, and `ImplementsLifecycle` (refinement of `Lifecycle`) |
| `SliceOverRefund` | 1 thread, 2 keys | **refutes** `RefundsWithinOvercharge` |
| `SliceDoubleCapture` | 2 threads, 2 creations | **refutes** `OneCapture` |
| `OrchestrationSequential` | 1 transaction, 1 orchestrator, 1 thread, 3 calls, context created anew at any time | `CompletedWithinIntent`, `CompletedOnce`, `RecoveryNeedsDrift`, `IdempotentReplay` |
| `SessionViews` | 2 transactions, 1 thread, 2 creations, 1 payment, budgets 2, expiry, operator, clock; the first order is worked on | `DriftIsLocated`, `CompletionMeansPass`, `LastValidTrusted`, `NoClockAnomaly` |
| `OperationalMode` | 1 transaction, 3 policies, one with a threshold below its amount, 1 agent and 1 operator, 3 changes, 2 evaluations | `ModeAudit`, `PermitIsEarned`, `LargePaymentsApproved`, `DecisionsHold` |
| `HumanReview` | the same | **refutes** `HeldHasReview` |
| `Negotiation` | 1 remediation of 2 rounds, 2 ledgers, 2 intents, 2 prices, 2 changes, 1 foreign message id | `AuditFailsAtTheStart`, `RecordedOnce`, `RoundsOnLedger`, `PassWithinCeiling`, `OnlySeveralItemsFail`; under fairness `NegotiationReturns` |
| `Replay` | 10 transitions, 2 payments of 3 amounts, 1 refund, 2 events, 1 damage | `HonestReplays`, `MatchIsTrue`, `ProofPinsTheAmount` |

Every module's type invariant is checked in the first run of it.

Bounds. `MaxHistory = 5` of the kill switch lets a kill, a hold, a return and
two more moves happen, which is the length of every way round the fence that a
wrong graph would open. `MaxSessions = 2` and two payments give a retried
creation and a second capture; budgets of 3 are the code's. In `SlicePair` the
budget of recoveries is 2, of which one is usable: two threads begin one each while
none is counted, and any further one would exceed the bound of `ExecutionsBounded`.
The ceiling is 2 and an overcharge is 4, so that a refund can be
partial (1), exact (2), or repeated.

One run has a state constraint, `MCOneWorked`: in `SessionViews` the second order
stays in its first states (it can be created, paid, and its payment named by a
completion of the first, but its transaction is not killed), since a view reads
one session. None of its properties is a liveness property. Symmetry is over
threads and transactions, in `SlicePair` alone, which asks for no liveness.
Transactions share nothing but payments, which only a completion consumes, and the
idempotency keys of the executor: keys are in `SliceSequential` for one thread, and
in the proofs for any number.

Deadlock is not checked where the system really may stop: with the creations and
payments spent and every session final (`SlicePair`, `SessionViews`), with the
remediation returned (`Negotiation`) and the replay done (`Replay`).
`SliceSequential`, `KillSwitchSequential`, `OrchestrationSequential` and
`OperationalMode` do check it.

In `OrchestrationSequential` three calls are what the longest story takes: a
refused call binds an intent, a call with an older time raises and leaves its
evidence behind, and a third is judged on it. The inputs differ from an acceptable
one in one respect each: price, goods, ceiling, payment, claim, time, key, ids.
The ordered item costs 3, above the ceiling of 2, so that a revised offer is cut
to the ceiling. Replans and resolutions are limited to one (the policy's defaults
are three), which gives both the attempt and the refusal; a machine that has
answered `DRIFT` twice is not judged again, so larger budgets are only spent over
contexts created anew.

In `Negotiation` two rounds give a round that goes on and a last one; a price of
20 with shipping of 1 is within the smaller ceiling of 30 and one of 40 is not,
so that an offer can pass when it is made and fail when it is judged. `Replay`
has ten transitions: a first verdict takes four and every recovery or resolution
three, and two of these are what it takes for a record of low authority to come
before the payment; three amounts are one within the ceiling and two above it,
which the same verdict follows from, and the refund brings one of these down to
the ceiling and the other not.

Fairness. `FairSpec` of the slice assumes that a call in progress goes on (the
server runs what it accepted, the gateway answers or times out), and that the
client of a transaction in `DRIFT` or `UNKNOWN` goes on asking for a recovery or a
resolution. Without the second the code does nothing: there is no background
job. `VerdictReached` is checked for one thread, where a call is never starved.
`Spec` of `Negotiation` has weak fairness of `Remediate`: a remediation under way
is one call of a function, and it goes on, reading and appending, whatever others
do. Nothing is assumed
of the merchant, the mode or the senders of messages.

Findings. The refutations are disagreements between the code and its own words,
each quoted in `PROJECT.json`:

1. A kill can be lost under an operation that read the state before it.
2. Refunds are netted one at a time, so a partial and then a full refund
   together exceed the overcharge.
3. Two concurrent creations of one intent lead to two captures.
4. A completion that human review holds raises before its review exists.

Behaviours of the code met while modelling, which the models have and no
property forbids:

* The recovery executor enforces "idempotency, and bounded attempts"
  (`executor.py:71`) for one call at a time. Calls at once read one count and write
  back one more (`:97`, `:107`), so more recoveries are executed for an intent than
  its budget, and two with one key that is looked up (`:79`) before either is
  recorded (`:216`) are both executed. What remains is the count of the session:
  `ExecutionsBounded`.
* `assert_can_execute_payment` lets a payment through on any evaluation it is
  handed, one older than the review included, while that review is pending or after
  it was rejected (`operational_mode/service.py:282`; its docstring at `:280` says it
  raises then). What remains is said of evaluations that name a review:
  `DecisionsHold`.
* A message of the negotiation that another one overtakes between the read of the
  head and the append is refused and missing from the ledger, where
  `negotiation/service.py:7` says that all are recorded. What remains is that its
  place is taken by the message that overtook it: `RoundsOnLedger`.

* The slice executes a refund that a client asks for in `UNKNOWN`
  (`transaction_service.py:1059`; `states/invariants.py:4` speaks of verified
  drift only), and the observer fills in an item the gateway does not name from
  the contract, so that `UNKNOWN` becomes `PASS` (`observer.py:212`; "UNKNOWN is
  never guessed away", `transaction_service.py:1241`). A session can rest in
  `UNKNOWN` after its last resolution, and an uncaptured payment can `PASS`
  without its binding consumed (`transaction_service.py:817`).
* The orchestrator asks the gates about a revised offer and does not look at
  their answers (`lifecycle.py:770`); a replan drops the merchant evidence of a
  concurrent call (`:785`), which then completes above its ceiling.
* A revalidation of the negotiation without events makes up a captured payment
  (`negotiation/service.py:401`); the catalogue speaks of reserved stock
  (`catalog_service.py:6`) and an offer reserves none; an intent of several items
  is always refused, since its projection asks for all quantities of one item;
  `SHADOW` is looked at once, when the remediation begins (`:132`); a `DRIFT` ends
  with the verdict of the original offer; the policy's limit on replans and its
  timeout are not used.
* The time to a final decision is measured to `updated_at`, which is the time of
  creation unless the session was resolved; so the time to prove a `DRIFT` is
  reported as a clock anomaly, and the time to detect as zero. A trace of a session
  without a verdict says `PASS` (`domain/trace/engine.py:251`) where its
  checkpoints say `UNKNOWN`; a refund leaves the faults of the payment in the trace.
* Reviews have no say once the mode is `GUARDED` again, and the slice never calls
  `assert_can_execute_payment`.
* The replay judges the facts kept by the rules, and the live verdict is not always
  that: an archive nobody touched is a `MISMATCH` after a refund, a failed binding, a
  verdict made by hand, an event judged twice, or when a record of another source
  sorts first, and an `INVALID_REPLAY` when a payment was fetched again with another
  status. With a drift that a failed binding forced, a recorded status altered to
  `PASS` agrees with the replay, and a replayed `PASS` leaves the proof unlooked at
  (`replay/engine.py:225`): that damage goes unseen. `HonestReplays` and the part of
  `MatchIsTrue` about the verdict are therefore about verdicts of the rules on the
  facts kept (`JudgedAsKept`); the transitions and the final state are vouched for
  always. `verify_reproducibility` of `UNKNOWN` is true of an ambiguous history, and an
  archive that cannot be replayed is a `MISMATCH` when its policy differs.
* A constraint replaced in a live capability graph is not the one in its
  snapshot (`graph.py:108`): a replay answers by the old one.

## 4. Proofs

Each theorem is of the form `Spec => []Inv` for every value of the constants,
by an inductive invariant that a lemma per handler keeps. What an invariant adds
to the property it is for:

Kill switch (`KillSwitchProofs`). `TypeCorrect` needs nothing. The rest is under
`OneCaller`, since the second caller is what the race run refutes them with.

* `HistoryIsChain`, `KilledIsFenced`: the decided records of the caller are a
  chain that starts in the state in force, and each obeys the safety transitions.
* `KillIsLiftedByRevalidation`: of a kill and a later resumption in the history,
  decided records included, a successful revalidation lies between. A record that
  leaves `KILLED` goes to `REVALIDATING` or `KILLED` only, and one that leaves
  `REVALIDATING` for `RUNNING` is a revalidation.
* `ToleranceHolds`: the count that has reached the tolerance holds the state, or
  a decided record that will, away from `RUNNING`.

The payment slice (`TransactionSliceProofs`), for any transactions, threads,
keys, payments, charges and budgets. Nothing is assumed about interleaving but in
the last two.

* `TypeCorrect`, one lemma per handler.
* `ExecutionsWithinBudget`: a recovery begins while the session has counted fewer
  than its budget less one, every call under way will count one more, and a thread
  has one call; so the recoveries counted and under way exceed the budget by no
  more than the calls that run at once (`MaxRecovery + Cardinality(Threads) - 2`,
  which is one fewer than the budget for one thread). Nothing better holds: the
  counter of the executor is a lost update (`executor.py:97`, `:107`).
* `PaymentsAreOwned`, `ConsumptionNeverRaises` by `Owned`: current sessions belong
  to their transactions, a payment's order exists, a thread in a completion holds
  a session of its transaction, and one whose binding was valid holds a payment
  for that session's order. Sessions in use keep their owner (`SessionsKept`) and
  a payment its order.
* `SliceImplementsLifecycle`, the refinement: `Exclusive` says that `OBSERVING`,
  `VERIFYING` and `REVALIDATING` each belong to the one call that brought the
  session there. So the transitions a handler makes without looking again are
  along edges, although there is no lock. `MovesRefine` maps a step of a handler
  to one move of the abstract machine or to a stutter.
* `ClosedStaysClosed` from `Exclusive` and the effects of the handlers: who could
  write a session in `PASS` or `ABSTAIN` finds it closed.
* `PassIsWithinBudget` by `VerdictsSound`: what is undecided would not pass with
  the evidence on record, nor with the copy a resolution holds, so a `PASS` comes
  from a verdict on evidence and not from a copy that was overtaken; and the
  lemmas about `Integrity` (`PassMeans`, `NettedPass`) say what such a verdict
  means, a refund netted or not.
* `OneCaptureInTurn`: `Spec /\ []CreationsInTurn => []OneCapture`. Two creations of
  one intent that overlap lead to two captures (`SliceDoubleCapture`), so the
  hypothesis is needed; it says nothing of completions, recoveries and
  resolutions, which may race. The invariant (`CaptureInv`): a payment is accepted
  only for a transaction whose attempt is consumed and that has a session, and a
  creation that is under way belongs to one that has none.
* `RefundsStayOnRecord`: `Spec /\ [][TurnTaken]_vars => []RefundsOnRecord`, where
  `TurnTaken` says that a call about a transaction begins only while nobody works on
  it. A resolution puts the evidence it copied over the evidence a concurrent
  recovery has left, so calls of one transaction have to follow one another. The
  invariant (`SerialInv`): a recorded refund is in the evidence, or the call that
  recorded it is about to put it there, and a call between its halves finds the
  session as it left it.

Single-threaded runs meet both hypotheses at every step.

The views (`SessionViewsProofs`), under the assumptions of `SessionViews` (one
caller at a time). `ViewsKeepTheSlice` says that the slice with stamps and clock
is a behaviour of the slice, which brings in all of the above.

* `DriftIsAlwaysLocated`, `OnlyPassIsConfirmed`, `LastValidIsTrusted`: lemmas about
  the engines for *every* view (`DriftDiverges`, `Located`, `NotConfirmed`,
  `ReachedInOrder`, `TrustedPrefix`), and `Told`, what sessions say of
  themselves: there is a verdict exactly in the states that have one, and a
  `DRIFT` comes with what drifted. `Told` itself holds under any concurrency.
* `NoClockGoesBack`: `NoClockAnomaly` for a tolerance of at least 2, the default of
  `KillSwitchService` (with 1 it is false: TLC finds a negative time to
  intervene after a resolution). The invariant (`Stamped`): the stamps of a session
  are in the order creation, payment, verification, record and last transition
  (`InOrder`); a record comes from an expiry, a violation of the binding, an
  overcharge or a drift no recovery undoes (`Explained`), so the trace still shows
  after recoveries and resolutions why there was one; and an `UNKNOWN` is
  counted once for a creation (`CountedOnce`), so it makes no record alone. One
  lemma for each call keeps it; `ViewsInOrder` reads it off a view, and
  `DetectInTime`, `InterveneInTime` and `OthersInTime` hold of every such view.

The operational modes (`OperationalModeProofs`), for any transactions, actors,
policies, amounts and changes.

* `TypeCorrect`, `ModesAreAudited` and `PermitsAreEarned`.
* `LargePaymentsNeedApproval`: an evaluation answers by the review in force
  (`EvaluationStep`, `ReviewLemma`), and a decided review has a human reviewer.
* `PaymentsRestOnDecisions`: what a review permitted keeps the approval of a human,
  since a review is decided only while it is open (`Reviewed`). It says nothing of
  an evaluation that is older than the review: that one lets the payment through
  whatever becomes of the review (section 3).

Ledgers and negotiation (`NegotiationProofs`). For `TixSpec`, in which any message
may be delivered at any time and any number of times: `TixTyped`, `LedgersAudit`
(every later message names the hash of the one before it, so an audit can fail
only at the first) and `MessagesRecordedOnce` (`SeenAll`: no message on any
ledger is missing among the known ids). For `Negotiation`, any intents,
prices, rounds, and merchants and senders that interfere at any step:

* `SharedLedgersAudit`, `SharedLedgersRecordOnce`: every step on a ledger is an
  append of `Tix`.
* `NegotiationTyped`, and the invariants that follow. Ids of the negotiation on
  record are those of messages it has sent (`IdsSent`), so its next one is fresh. The
  head it holds is the head still, or the last message of the ledger is one of
  others (`HeadsSound`): either its next message is taken, or it is refused and a
  message of others stands at the end, after all it sent before.
* `LedgerTellsTheRounds`: `RoundsOnLedger` speaks of sessions that have returned. Its
  invariant (`RecordSound`) speaks of every session: of what it has sent so far, the
  rounds that ended and the messages of the one under way (`Sent`), every message is
  on the ledger, in order, or a message of others stands between its neighbours
  (`Recounts`, `MissedIn`). A message that is taken extends the record at its end
  (`OwnRecounted`), one that is refused is missed there (`RefusedRecounted`), and one
  of others changes nothing that is told (`OthersRecounted`). What a session has
  sent when it returns is what its rounds owe (`SentIsOwed`).
* `PassSpeaksOfTheOffer`: while an offer waits for its verdict, the ledger has it as
  it is judged or lacks it (`OfferRests`), and a `PASS` is the last message of a
  session that keeps the offer it was about (`PassesRest`). That a missing offer was
  overtaken is `RecordSound`.
* `GateRefusesSeveralOnly`: the projection of the buyer agent asks for the total of
  all items as the first article. With one article that is what the intent
  authorizes, so only several can be refused (`RefusedOrdersSeveral`).

They assume `Expressible`: the constants `Ids` and `Bodies` contain every id and
body the actions make up, as they do in the run (a model in which a message had no
name would refuse it).

Orchestration (`OrchestrationProofs`), for any threads, transactions, inputs and
budgets, with contexts created anew at any time.

* `TypeCorrect`, under any concurrency.
* `CompletesOnceInTurn`, `RecoversOnlyDrift`, `CompletesWithinIntent`, under
  `[]CallsInTurn`: calls about one transaction follow one another; calls about
  others, and the context endpoint, may come at any time. `orchestrate` reads the
  machine, puts evidence on record, judges it and answers in separate steps
  without a lock, and nothing else keeps two calls about one transaction apart.
  The invariant (`TurnInv`) says that the machine and its proof are as the call
  under way left them, that a call's own items are the latest on record when they
  are judged (what earlier calls left is older than the machine), and that a
  machine whose call has completed stays in `PASS`.
* `OneWorkerIsEnough`: with a single thread the hypothesis is a consequence of the
  specification.
* `KeysReplay`, for a shared orchestrator (`Shared`) and under `[]KeysInTurn`, as
  the cache is looked up when a call begins and filled when it ends. `KeyInv`: what
  was executed under a key is remembered, and nothing is under way with it.

Replay (`ReplayProofs`), for histories of any length, any amounts and any single
damage.

* `TypeCorrect`, `HonestMatches`, `MatchTellsTheTruth`, `AmountIsPinned` from one
  invariant (`Sound`): a verdict and a proof are those of the facts that were
  judged and of the way they were judged, the history is legal and leads to the
  state, and the archive is the transaction at rest with at most one part damaged.
  `AsKept` is the case the replay can check, a verdict of the rules on the facts
  kept. `DamageShows`: a legal history that lost
  a transition, or has another one, is not legal any more or leads elsewhere.

Capabilities (in `Capability`), for any merchant, declaration, policy and context.

* `SupportedMeansWithinPolicy`: the evaluation that walks the graph says
  `SUPPORTED` exactly when an available capability is declared for the operation
  and the policy allows what the context states. An operation has one owner
  (`OneOwner`), so the graph leads to it alone (`GraphCapabilities`) and finds
  exactly the constraints bound to it (`GraphConstraints`), which is what the
  policy asks (`ConstraintsMeanPolicy`).
* `SnapshotAnswersAlike`: a graph restored from a snapshot answers as the graph
  that was built; `MCSnapshotFallsBehind` shows that it does not after
  `add_constraint`.

The other assumptions are those on the constants: bounds and amounts are natural
numbers, threads are finitely many, an intent lists at least one item, `NoTx` is not a transaction, the
core is among the participants, budgets are in the ranges the code's models
admit. An attempt of `Orchestration` is one digit: of two facts of one time the
evaluation takes the one whose id sorts last, ids end in the number of the
attempt, and strings sort as numbers only while they have one digit.

Only model-checked are `VerdictReached` and `NegotiationReturns`: liveness is out of
the prover's reach.

`OneCapture` and `RefundsOnRecord` have no theorem without their hypotheses, and
`KilledNeverRuns` none with two callers: runs show that they would be false, or,
for `RefundsOnRecord`, the code shows it (`transaction_service.py:1309` copies the
evidence before the gateway is asked and `:1341` stores the copy after).

## 5. Plan

Done: the core, its surroundings, and proofs of every safety property the passing
runs check. Next, in this order:

1. The hazards of `PROJECT.json` that no property covers yet.
2. Refutations of what the documents say where section 3 lists a disagreement that
   no run shows: the budget and the keys of the executor under two threads, the
   payment gate under a pending review, a ledger without a message of its
   negotiation, a replay that calls a refunded transaction tampered with.
3. Counterfactual replay, and the passport as a view like those of `SessionViews`.

## 6. Not modelled

Passport, control room and governance records compose and hash what other
services keep. Certification, the scenario laboratory and the hero demos are
scripts over the slice that compare with expected answers. AI services and
explanations generate text that no decision reads. Canonicalisation and the
document models are hashing, formatting and field checks; the frontend and the
scripts keep nothing. Of the modelled components: the registry of capability
graphs is a dictionary that nothing in the program asks outside the demonstration;
counterfactual replay replays a changed copy and keeps nothing; checks of the
gates and the guard that look at one document alone are one Boolean of the input;
signatures and hashes are free of collisions.
