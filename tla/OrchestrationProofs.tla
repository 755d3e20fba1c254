------------------------- MODULE OrchestrationProofs -------------------------
(***************************************************************************)
(* Proofs about Orchestration, for any transactions, threads, calls,       *)
(* catalogue, provider answers and budgets, with one orchestrator for all  *)
(* calls or one for each.                                                  *)
(***************************************************************************)
EXTENDS Orchestration, TLAPS, FiniteSetTheorems

-----------------------------------------------------------------------------
(***************************************************************************)
(* The types.                                                              *)
(***************************************************************************)

Records == [attempt : Nat, m : 0 .. MaxCalls, proof : BOOLEAN, paid : BOOLEAN]
Machines == [state : LifecycleStates \cup {"ABSENT"}, time : Nat, limit : Nat]

Ranks == {MerchantRank, ProviderRank}
GoodsKinds == {"authorized", "diverging"}
AmountRecords == [rank : Ranks, at : Nat, value : Nat \cup {NoAmount}]
ItemRecords == [rank : Ranks, at : Nat, value : GoodsKinds]
EventIds == {"offer", "pay", "found", "revised"} \X Nat
EventRecords ==
  [id : EventIds, rank : Ranks, kind : {"offer", "attempt", "capture"}, late : BOOLEAN]
Stores ==
  [amounts : SUBSET AmountRecords, items : SUBSET ItemRecords,
   events : SUBSET EventRecords, repeats : SUBSET EventIds]

\* What a call can stand for: an amount of some record.
Totals == {0} \cup {Amount(s, offer) : s \in Stores, offer \in Nat}
Answers == Verdicts \cup {"NONE"}
Places == {"opened", "admitted", "judged", "revised", "resolved", "rejudged"}
Frames ==
  [pc : Places, n : Calls, c : Inputs, first : Answers, verdict : Answers,
   total : Totals, goods : GoodsKinds \cup {"NONE"}, revised : BOOLEAN]
Outcomes ==
  [run : 0 .. MaxCalls, m : 0 .. MaxCalls, key : Keys \cup {NoKey}, stage : Stages,
   verdict : Answers, state : LifecycleStates \cup {"NONE", "ABSENT"},
   total : Totals, goods : GoodsKinds \cup {"NONE"}, revised : BOOLEAN]

Typed ==
  /\ count \in 0 .. MaxCalls
  /\ rec \in [Txs -> Records]
  /\ mach \in [Calls -> Machines]
  /\ store \in [Txs -> Stores]
  /\ cache \in [Keys -> 0 .. MaxCalls]
  /\ replans \in [Txs -> 0 .. MaxReplans]
  /\ resolutions \in [Txs -> 0 .. MaxResolutions]
  /\ outs \in [Calls -> Outcomes]
  /\ th \in [Threads -> {Idle} \cup Frames]

(***************************************************************************)
(* A bound record has a context, and its machine was made by a call that   *)
(* began; only an event that is on record is repeated.                     *)
(***************************************************************************)
RecordsSound ==
  \A t \in Txs :
    /\ rec[t].m # 0 =>
         rec[t].attempt # 0 /\ rec[t].m \in 1 .. count /\ Machine(t).state \in LifecycleStates
    /\ store[t].repeats \subseteq {e.id : e \in store[t].events}

(***************************************************************************)
(* A remembered outcome is there; no two threads work on one call, and a   *)
(* call under way has no outcome.                                          *)
(***************************************************************************)
CallsSound ==
  /\ \A n \in Calls : n > count => outs[n] = NoOutcome
  /\ \A k \in Keys : cache[k] # 0 => outs[cache[k]].key = k
  /\ \A w \in Threads : th[w] # Idle => th[w].n <= count /\ outs[th[w].n] = NoOutcome
  /\ \A v, w \in Threads : th[v] # Idle /\ th[w] # Idle /\ v # w => th[v].n # th[w].n

Sound == Typed /\ RecordsSound /\ CallsSound

(***************************************************************************)
(* A thread is idle by its place.                                          *)
(***************************************************************************)
LEMMA InCall ==
  ASSUME Typed, NEW w \in Threads
  PROVE  /\ At(w, "idle") <=> th[w] = Idle
         /\ ~At(w, "idle") <=> th[w] \in Frames
         /\ \A f \in Frames : f # Idle
  BY DEF Typed, At, Idle, Frames, Places

LEMMA InputFields ==
  ASSUME NEW c \in Inputs
  PROVE  /\ c.tx \in Txs /\ c.max \in Nat /\ c.sku \in SKUs /\ c.ask \in Nat
         /\ c.price \in Nat /\ c.pay \in Nat \cup {NoAmount} /\ c.clock \in Nat
         /\ c.attempt \in 1 .. 9 /\ c.key \in Keys \cup {NoKey}
  BY InputsAssumption

(***************************************************************************)
(* The verdict of the engine is one of three.                              *)
(***************************************************************************)
LEMMA VerdictKinds == \A t : Verdict(t) \in Verdicts
  BY DEF Verdict, Evaluate, Overall, Verdicts

LEMMA SoundInit == Init => Sound
  <1> SUFFICES ASSUME Init PROVE Sound
    OBVIOUS
  <1> USE BudgetAssumption
  <1>1. EmptyStore \in Stores
    BY DEF EmptyStore, Stores
  <1>2. NoOutcome \in Outcomes
    BY DEF NoOutcome, Outcomes, Stages, Answers, Totals
  <1>3. NoRecord \in Records /\ NoMachine \in Machines
    BY DEF NoRecord, Records, NoMachine, Machines
  <1>4. Typed
    BY <1>1, <1>2, <1>3 DEF Init, Typed
  <1>5. RecordsSound /\ CallsSound
    BY DEF Init, RecordsSound, CallsSound, NoRecord, EmptyStore
  <1> QED
    BY <1>4, <1>5 DEF Sound

-----------------------------------------------------------------------------
(***************************************************************************)
(* The record under an offer, a payment and a revision.                    *)
(***************************************************************************)

Ids(events) == {e.id : e \in events}

LEMMA EventStore ==
  ASSUME NEW s \in Stores, s.repeats \subseteq Ids(s.events), NEW id \in EventIds,
         NEW rank \in Ranks, NEW kind \in {"offer", "attempt", "capture"}, NEW late \in BOOLEAN
  PROVE  /\ WithEvent(s, id, rank, kind, late) \in Stores
         /\ WithEvent(s, id, rank, kind, late).amounts = s.amounts
         /\ WithEvent(s, id, rank, kind, late).items = s.items
         /\ WithEvent(s, id, rank, kind, late).repeats
              \subseteq Ids(WithEvent(s, id, rank, kind, late).events)
  <1> DEFINE new == [id |-> id, rank |-> rank, kind |-> kind, late |-> late]
             r == IF \E e \in s.events : e.id = id THEN s.repeats \cup {id} ELSE s.repeats
  <1>1. new \in EventRecords /\ new.id = id
    BY DEF EventRecords
  <1> HIDE DEF new
  <1>2. r \in SUBSET EventIds /\ r \subseteq s.repeats \cup {id}
    BY DEF Stores
  <1>3. WithEvent(s, id, rank, kind, late) =
          [s EXCEPT !.events = @ \cup {new}, !.repeats = r]
    BY DEF WithEvent, new
  <1> HIDE DEF r
  <1>4. WithEvent(s, id, rank, kind, late) =
          [amounts |-> s.amounts, items |-> s.items, events |-> s.events \cup {new}, repeats |-> r]
    BY <1>3 DEF Stores
  <1>5. r \subseteq Ids(s.events \cup {new})
    BY <1>1, <1>2 DEF Ids
  <1> QED
    BY <1>1, <1>2, <1>4, <1>5 DEF Stores

LEMMA Observations ==
  ASSUME NEW c \in Inputs, NEW rank \in Ranks
  PROVE  /\ \A a \in Nat \cup {NoAmount} : Observed(c, rank, a) \in AmountRecords
         /\ \A g \in GoodsKinds : Observed(c, rank, g) \in ItemRecords
  BY InputFields DEF Observed, AmountRecords, ItemRecords

LEMMA OfferStore ==
  ASSUME NEW s \in Stores, s.repeats \subseteq Ids(s.events), NEW c \in Inputs,
         NEW id \in EventIds, NEW total \in Nat, NEW goods \in GoodsKinds
  PROVE  /\ WithOffer(s, c, id, total, goods) \in Stores
         /\ WithOffer(s, c, id, total, goods).amounts =
              s.amounts \cup {Observed(c, MerchantRank, total)}
         /\ WithOffer(s, c, id, total, goods).items =
              s.items \cup {Observed(c, MerchantRank, goods)}
         /\ WithOffer(s, c, id, total, goods).repeats
              \subseteq Ids(WithOffer(s, c, id, total, goods).events)
  <1> DEFINE a == Observed(c, MerchantRank, total)
             g == Observed(c, MerchantRank, goods)
             r == [s EXCEPT !.amounts = @ \cup {a}, !.items = @ \cup {g}]
             late == c.clock > ExpiresAt
  <1>1. a \in AmountRecords /\ g \in ItemRecords /\ MerchantRank \in Ranks
    BY Observations DEF Ranks
  <1>2. late \in BOOLEAN
    OBVIOUS
  <1>3. WithOffer(s, c, id, total, goods) = WithEvent(r, id, MerchantRank, "offer", late)
    BY DEF WithOffer
  <1> HIDE DEF a, g, late
  <1>4. /\ r \in Stores /\ r.amounts = s.amounts \cup {a} /\ r.items = s.items \cup {g}
        /\ r.events = s.events /\ r.repeats = s.repeats
    BY <1>1 DEF Stores
  <1> HIDE DEF r
  <1> QED
    BY <1>1, <1>2, <1>3, <1>4, EventStore DEF a, g

LEMMA PaymentStore ==
  ASSUME NEW s \in Stores, s.repeats \subseteq Ids(s.events), NEW c \in Inputs,
         NEW id \in EventIds, NEW amount \in Nat \cup {NoAmount}
  PROVE  /\ WithPayment(s, c, id, amount) \in Stores
         /\ WithPayment(s, c, id, amount).amounts =
              s.amounts \cup {Observed(c, ProviderRank, amount)}
         /\ WithPayment(s, c, id, amount).items = s.items
         /\ WithPayment(s, c, id, amount).repeats
              \subseteq Ids(WithPayment(s, c, id, amount).events)
  <1> DEFINE a == Observed(c, ProviderRank, amount)
             r == [s EXCEPT !.amounts = @ \cup {a}]
             late == c.clock > ExpiresAt
             kind == IF amount = NoAmount THEN "attempt" ELSE "capture"
  <1>1. a \in AmountRecords /\ ProviderRank \in Ranks
    BY Observations DEF Ranks
  <1>2. late \in BOOLEAN /\ kind \in {"offer", "attempt", "capture"}
    OBVIOUS
  <1>3. WithPayment(s, c, id, amount) = WithEvent(r, id, ProviderRank, kind, late)
    BY DEF WithPayment
  <1> HIDE DEF a, late, kind
  <1>4. /\ r \in Stores /\ r.amounts = s.amounts \cup {a} /\ r.items = s.items
        /\ r.events = s.events /\ r.repeats = s.repeats
    BY <1>1 DEF Stores
  <1> HIDE DEF r
  <1> QED
    BY <1>1, <1>2, <1>3, <1>4, EventStore DEF a

LEMMA RevisedStore ==
  ASSUME NEW s \in Stores, s.repeats \subseteq Ids(s.events)
  PROVE  /\ WithoutMerchant(s) \in Stores
         /\ WithoutMerchant(s).amounts = {e \in s.amounts : e.rank # MerchantRank}
         /\ WithoutMerchant(s).items = {e \in s.items : e.rank # MerchantRank}
         /\ WithoutMerchant(s).repeats \subseteq Ids(WithoutMerchant(s).events)
  BY DEF WithoutMerchant, Stores, Ids

LEMMA Offers ==
  ASSUME NEW c \in Inputs
  PROVE  /\ Offered(c) \in Nat /\ Goods(c) \in GoodsKinds /\ Revised(c) \in Nat
         /\ \A n \in Nat : <<"offer", n>> \in EventIds /\ <<"revised", n>> \in EventIds
         /\ <<"pay", 0>> \in EventIds /\ <<"found", 0>> \in EventIds
  BY InputFields, CatalogAssumption
     DEF Offered, Goods, GoodsKinds, Revised, EventIds, SKUs, Permitted

-----------------------------------------------------------------------------
(***************************************************************************)
(* The calls: one that leaves with an outcome, and one that goes on.       *)
(***************************************************************************)

LEMMA OutcomeTyped ==
  ASSUME Sound, NEW w \in Threads, th[w] \in Frames, NEW stage \in Stages,
         NEW verdict \in Answers, NEW state \in LifecycleStates \cup {"NONE", "ABSENT"}
  PROVE  /\ Outcome(w, stage, verdict, state) \in Outcomes
         /\ Outcome(w, stage, verdict, state).key = Input(w).key
  <1>1. Input(w) \in Inputs /\ Tx(w) \in Txs /\ Input(w).key \in Keys \cup {NoKey}
    BY InputFields DEF Input, Tx, Frames
  <1>2. rec[Tx(w)].m \in 0 .. MaxCalls /\ th[w].n \in 0 .. MaxCalls
    BY <1>1, BudgetAssumption DEF Sound, Typed, Records, Frames, Calls
  <1> QED
    BY <1>1, <1>2 DEF Outcome, Outcomes, Frames

LEMMA Leaving ==
  ASSUME Sound, NEW w \in Threads, th[w] \in Frames, NEW o \in Outcomes,
         o.key = Input(w).key, Leave(w, o), cache' = cache \/ cache' = Remembered(w),
         count' = count
  PROVE  /\ outs' \in [Calls -> Outcomes] /\ th' \in [Threads -> {Idle} \cup Frames]
         /\ cache' \in [Keys -> 0 .. MaxCalls]
         /\ outs'[th[w].n] = o /\ th'[w] = Idle
         /\ \A n \in Calls : n # th[w].n => outs'[n] = outs[n]
         /\ \A v \in Threads : v # w => th'[v] = th[v]
         /\ CallsSound'
  <1> USE BudgetAssumption
  <1> DEFINE n == th[w].n
             k == Input(w).key
  <1>1. n \in Calls /\ n \in 1 .. count /\ n \in 0 .. MaxCalls /\ outs[n] = NoOutcome
    BY InCall DEF Sound, CallsSound, Frames, Calls, Typed
  <1>2. Input(w) \in Inputs /\ k \in Keys \cup {NoKey}
    BY InputFields DEF Input, Frames
  <1>3. /\ outs' \in [Calls -> Outcomes] /\ outs'[n] = o
        /\ \A i \in Calls : i # n => outs'[i] = outs[i]
    BY <1>1 DEF Leave, Sound, Typed
  <1>4. /\ th' \in [Threads -> {Idle} \cup Frames] /\ th'[w] = Idle
        /\ \A v \in Threads : v # w => th'[v] = th[v]
    BY DEF Leave, Sound, Typed
  <1>5. /\ cache' \in [Keys -> 0 .. MaxCalls]
        /\ \A i \in Keys : cache'[i] = cache[i] \/ (i = k /\ cache'[i] = n)
    <2>1. CASE cache' = cache
      BY <2>1 DEF Sound, Typed
    <2>2. CASE cache' = Remembered(w)
      BY <2>2, <1>1, <1>2 DEF Remembered, Sound, Typed
    <2> QED
      BY <2>1, <2>2
  <1> HIDE DEF n, k
  <1>6. \A i \in Calls : i > count => outs'[i] = NoOutcome
    BY <1>1, <1>3 DEF Sound, CallsSound, Typed, Calls
  <1>7. ASSUME NEW i \in Keys, cache'[i] # 0
        PROVE  outs'[cache'[i]].key = i
    <2>1. CASE i = k /\ cache'[i] = n
      BY <2>1, <1>3 DEF k
    <2>2. CASE cache'[i] = cache[i]
      <3>1. cache[i] \in Calls /\ outs[cache[i]].key = i
        BY <1>7, <2>2 DEF Sound, CallsSound, Typed, Calls
      <3>2. cache[i] # n
        BY <3>1, <1>1 DEF NoOutcome
      <3> QED
        BY <3>1, <3>2, <2>2, <1>3
    <2> QED
      BY <2>1, <2>2, <1>5
  <1>8. \A v \in Threads : th'[v] # Idle => th'[v].n <= count /\ outs'[th'[v].n] = NoOutcome
    <2> SUFFICES ASSUME NEW v \in Threads, th'[v] # Idle
                 PROVE  th'[v].n <= count /\ outs'[th'[v].n] = NoOutcome
      OBVIOUS
    <2>1. v # w /\ th'[v] = th[v] /\ th[v] # Idle
      BY <1>4
    <2>2. th[w] # Idle
      BY InCall DEF Sound
    <2>3. th[v].n # n /\ th[v].n <= count /\ outs[th[v].n] = NoOutcome
      BY <2>1, <2>2 DEF Sound, CallsSound, n
    <2>4. th[v].n \in Calls
      BY <2>1 DEF Sound, Typed, Frames
    <2> QED
      BY <2>1, <2>3, <2>4, <1>3
  <1>9. \A u, v \in Threads : th'[u] # Idle /\ th'[v] # Idle /\ u # v => th'[u].n # th'[v].n
    BY <1>4 DEF Sound, CallsSound
  <1> QED
    BY <1>3, <1>4, <1>5, <1>6, <1>7, <1>8, <1>9 DEF CallsSound, n

LEMMA Stepping ==
  ASSUME Sound, NEW w \in Threads, th[w] \in Frames, NEW f \in Frames, f.n = th[w].n,
         th' = [th EXCEPT ![w] = f], UNCHANGED <<count, outs, cache>>
  PROVE  /\ th' \in [Threads -> {Idle} \cup Frames] /\ CallsSound' /\ th'[w] = f
         /\ \A v \in Threads : v # w => th'[v] = th[v]
  <1>1. /\ th' \in [Threads -> {Idle} \cup Frames] /\ th'[w] = f
        /\ \A v \in Threads : v # w => th'[v] = th[v]
    BY DEF Sound, Typed
  <1>2. th[w] # Idle /\ f # Idle
    BY InCall DEF Sound
  <1>3. \A v \in Threads : th'[v] # Idle => th[v] # Idle /\ th'[v].n = th[v].n
    BY <1>1, <1>2
  <1>4. \A v \in Threads : th'[v] # Idle => th'[v].n <= count /\ outs[th'[v].n] = NoOutcome
    BY <1>3 DEF Sound, CallsSound
  <1>5. \A u, v \in Threads : th'[u] # Idle /\ th'[v] # Idle /\ u # v => th'[u].n # th'[v].n
    BY <1>3 DEF Sound, CallsSound
  <1> QED
    BY <1>1, <1>4, <1>5 DEF Sound, CallsSound

(***************************************************************************)
(* A call that takes its turn works on a transaction of its own.           *)
(***************************************************************************)
LEMMA FrameFields ==
  ASSUME Sound, NEW w \in Threads, th[w] \in Frames
  PROVE  /\ Input(w) \in Inputs /\ Tx(w) \in Txs /\ Input(w).tx = Tx(w)
         /\ store[Tx(w)] \in Stores /\ store[Tx(w)].repeats \subseteq Ids(store[Tx(w)].events)
         /\ rec[Tx(w)] \in Records
         /\ rec[Tx(w)].m # 0 => /\ rec[Tx(w)].m \in Calls /\ Machine(Tx(w)) \in Machines
                                /\ Machine(Tx(w)).state \in LifecycleStates
  <1>1. Input(w) \in Inputs /\ Tx(w) \in Txs /\ Input(w).tx = Tx(w)
    BY InputFields DEF Input, Tx, Frames
  <1>2. rec[Tx(w)].m # 0 => rec[Tx(w)].m \in Calls
    BY <1>1 DEF Sound, Typed, Records, Calls
  <1> QED
    BY <1>1, <1>2 DEF Sound, Typed, RecordsSound, Machine, Ids

-----------------------------------------------------------------------------
(***************************************************************************)
(* The machines and the records under one change.                          *)
(***************************************************************************)

LEMMA RecordOpened ==
  ASSUME NEW x \in Records, NEW a \in Nat
  PROVE  /\ [x EXCEPT !.attempt = a] \in Records
         /\ [x EXCEPT !.attempt = a].m = x.m /\ [x EXCEPT !.attempt = a].attempt = a
  BY DEF Records

LEMMA RecordBound ==
  ASSUME NEW x \in Records, NEW n \in 0 .. MaxCalls
  PROVE  /\ [x EXCEPT !.m = n] \in Records
         /\ [x EXCEPT !.m = n].m = n /\ [x EXCEPT !.m = n].attempt = x.attempt
  BY DEF Records

LEMMA Unbound == NoRecord \in Records /\ NoRecord.m = 0
  BY BudgetAssumption DEF NoRecord, Records

\* The machine of t in state s at time clock.
MachineAt(t, s, clock) ==
  [mach EXCEPT ![rec[t].m] = [@ EXCEPT !.state = s, !.time = clock]]

LEMMA MachineMoved ==
  ASSUME Sound, NEW t \in Txs, rec[t].m # 0, NEW s \in LifecycleStates, NEW clock \in Nat,
         mach' = MachineAt(t, s, clock)
  PROVE  /\ mach' \in [Calls -> Machines]
         /\ mach'[rec[t].m].state = s /\ mach'[rec[t].m].time = clock
         /\ mach'[rec[t].m].limit = mach[rec[t].m].limit
         /\ \A m \in Calls : m # rec[t].m => mach'[m] = mach[m]
         /\ \A m \in Calls : mach[m].state \in LifecycleStates => mach'[m].state \in LifecycleStates
  <1> DEFINE n == rec[t].m
             old == mach[n]
             new == [old EXCEPT !.state = s, !.time = clock]
  <1>1. n \in Calls
    BY DEF Sound, Typed, Records, Calls
  <1>2. mach' = [mach EXCEPT ![n] = new]
    BY DEF MachineAt
  <1>3. old \in Machines
    BY <1>1 DEF Sound, Typed
  <1> HIDE DEF n, old
  <1>4. new \in Machines /\ new.state = s /\ new.time = clock /\ new.limit = old.limit
    BY <1>3 DEF Machines
  <1> HIDE DEF new
  <1>5. mach' \in [Calls -> Machines] /\ mach'[n] = new /\ \A m \in Calls : m # n => mach'[m] = mach[m]
    BY <1>1, <1>2, <1>4 DEF Sound, Typed
  <1> QED
    BY <1>4, <1>5 DEF n, old

\* Mostly the numbers stay, and a machine that has a state keeps one.
LEMMA RecordsKept ==
  ASSUME Sound, count' = count, store' = store, mach' \in [Calls -> Machines],
         \A t \in Txs : rec'[t].attempt = rec[t].attempt /\ rec'[t].m = rec[t].m,
         \A m \in Calls : mach[m].state \in LifecycleStates => mach'[m].state \in LifecycleStates
  PROVE  RecordsSound'
  <1>1. \A t \in Txs : rec[t].m # 0 => rec[t].m \in Calls
    BY DEF Sound, Typed, Records, Calls
  <1> QED
    BY <1>1 DEF Sound, RecordsSound, Machine

LEMMA StoreChanged ==
  ASSUME Sound, NEW t \in Txs, NEW s \in Stores, s.repeats \subseteq Ids(s.events),
         store' = [store EXCEPT ![t] = s]
  PROVE  /\ store' \in [Txs -> Stores] /\ store'[t] = s
         /\ \A u \in Txs : u # t => store'[u] = store[u]
         /\ \A u \in Txs : store'[u].repeats \subseteq {e.id : e \in store'[u].events}
  BY DEF Sound, Typed, RecordsSound, Ids

LEMMA RecordChanged ==
  ASSUME Sound, NEW t \in Txs, NEW r \in Records, rec' = [rec EXCEPT ![t] = r]
  PROVE  /\ rec' \in [Txs -> Records] /\ rec'[t] = r
         /\ \A u \in Txs : u # t => rec'[u] = rec[u]
  BY DEF Sound, Typed

LEMMA Spending ==
  ASSUME NEW max \in Nat, NEW used \in [Txs -> 0 .. max], NEW t \in Txs,
         Spent(used, t) < max
  PROVE  Spend(used, t) \in [Txs -> 0 .. max]
  BY DEF Spent, Spend

-----------------------------------------------------------------------------
(***************************************************************************)
(* The actions.                                                            *)
(***************************************************************************)

LEMMA SoundCreate ==
  ASSUME Sound, NEW t \in Txs, NEW a \in Attempts, Create(t, a)
  PROVE  Sound'
  <1> DEFINE r == [NoRecord EXCEPT !.attempt = a]
  <1>1. r \in Records /\ r.m = 0
    BY CatalogAssumption, Unbound, RecordOpened
  <1>2. EmptyStore \in Stores /\ EmptyStore.repeats \subseteq Ids(EmptyStore.events)
    BY DEF EmptyStore, Stores
  <1>3. rec' \in [Txs -> Records] /\ rec'[t] = r /\ \A u \in Txs : u # t => rec'[u] = rec[u]
    BY <1>1, RecordChanged DEF Create
  <1>4. /\ store' \in [Txs -> Stores]
        /\ \A u \in Txs : store'[u].repeats \subseteq {e.id : e \in store'[u].events}
    BY <1>2, StoreChanged DEF Create
  <1> HIDE DEF r
  <1>5. Typed' /\ CallsSound'
    BY <1>3, <1>4 DEF Create, Sound, Typed, CallsSound
  <1>6. RecordsSound'
    BY <1>1, <1>3, <1>4 DEF Create, Sound, RecordsSound, Machine
  <1> QED
    BY <1>5, <1>6 DEF Sound

LEMMA SoundReuse ==
  ASSUME Sound, NEW w \in Threads, NEW c \in Inputs, Reuse(w, c)
  PROVE  Sound'
  <1> DEFINE n == count + 1
             o == outs[cache[c.key]]
  <1>1. /\ n \in Calls /\ n \in 0 .. MaxCalls /\ c.key \in Keys /\ cache[c.key] \in Calls
        /\ n > count
    BY InputFields, BudgetAssumption DEF Reuse, Cached, Sound, Typed, Calls
  <1>2. o \in Outcomes /\ o.key = c.key
    BY <1>1 DEF Sound, Typed, CallsSound, Calls
  <1>3. /\ outs' \in [Calls -> Outcomes] /\ outs'[n] = o /\ count' = n
        /\ \A i \in Calls : i # n => outs'[i] = outs[i]
    BY <1>1, <1>2 DEF Reuse, Sound, Typed
  <1> HIDE DEF o
  <1>4. Typed'
    BY <1>1, <1>3 DEF Reuse, Sound, Typed
  <1>5. RecordsSound'
    BY <1>1, <1>3 DEF Reuse, Sound, Typed, RecordsSound, Machine
  <1>6. \A i \in Calls : i > n => outs'[i] = NoOutcome
    BY <1>3, BudgetAssumption DEF Sound, Typed, CallsSound, Calls
  <1>7. ASSUME NEW k \in Keys, cache[k] # 0
        PROVE  outs'[cache[k]].key = k
    <2>1. cache[k] \in Calls /\ outs[cache[k]].key = k
      BY <1>7, BudgetAssumption DEF Sound, Typed, CallsSound, Calls
    <2>2. cache[k] # n
      BY <2>1, <1>1, BudgetAssumption DEF Sound, CallsSound, NoOutcome
    <2> QED
      BY <2>1, <2>2, <1>3
  <1>8. ASSUME NEW v \in Threads, th[v] # Idle
        PROVE  th[v].n <= n /\ outs'[th[v].n] = NoOutcome
    <2>1. th[v].n \in Calls /\ th[v].n <= count /\ outs[th[v].n] = NoOutcome
      BY <1>8 DEF Sound, Typed, CallsSound, Frames
    <2> QED
      BY <2>1, <1>1, <1>3 DEF Calls, Sound, Typed
  <1>9. CallsSound'
    BY <1>3, <1>6, <1>7, <1>8 DEF Reuse, Sound, CallsSound
  <1> QED
    BY <1>4, <1>5, <1>9 DEF Sound

LEMMA SoundEnter ==
  ASSUME Sound, NEW w \in Threads, NEW c \in Inputs, Enter(w, c)
  PROVE  Sound'
  <1> USE BudgetAssumption
  <1> DEFINE n == count + 1
             f == Opened(n, c)
             new == [state |-> "CREATED", time |-> c.clock, limit |-> c.max]
             r == IF rec[c.tx].attempt = 0
                    THEN [NoRecord EXCEPT !.attempt = c.attempt, !.m = n]
                  ELSE IF rec[c.tx].m = 0 THEN [rec[c.tx] EXCEPT !.m = n] ELSE rec[c.tx]
  <1>1. /\ n \in Calls /\ n \in 1 .. MaxCalls /\ c.tx \in Txs /\ c.attempt \in 1 .. 9
        /\ count \in Nat /\ n > count /\ n # 0 /\ count' = n /\ n \in Nat
    BY InputFields DEF Enter, Sound, Typed, Calls
  <1>2. rec[c.tx] \in Records /\ (rec[c.tx].m # 0 => rec[c.tx].attempt # 0)
    BY <1>1 DEF Sound, Typed, RecordsSound
  <1>3. r \in Records /\ r.attempt # 0 /\ r.m = IF rec[c.tx].m = 0 THEN n ELSE rec[c.tx].m
    <2>1. c.attempt \in Nat /\ n \in 0 .. MaxCalls
      BY <1>1
    <2>2. CASE rec[c.tx].attempt = 0
      <3>1. r = [NoRecord EXCEPT !.attempt = c.attempt, !.m = n]
        BY <2>2
      <3>2. rec[c.tx].m = 0
        BY <1>2, <2>2
      <3> HIDE DEF n, r
      <3>3. NoRecord \in Records
        BY Unbound
      <3>4. r.m = n /\ r.attempt = c.attempt
        BY <3>1, <3>3 DEF Records
      <3>5. r \in Records
        BY <2>1, <3>1, <3>3 DEF Records
      <3> QED
        BY <1>1, <3>2, <3>4, <3>5
    <2>3. CASE rec[c.tx].attempt # 0 /\ rec[c.tx].m = 0
      <3>1. r = [rec[c.tx] EXCEPT !.m = n]
        BY <2>3
      <3> HIDE DEF n, r
      <3> QED
        BY <1>2, <2>1, <2>3, <3>1, RecordBound
    <2>4. CASE rec[c.tx].attempt # 0 /\ rec[c.tx].m # 0
      <3>1. r = rec[c.tx]
        BY <2>4
      <3> HIDE DEF r
      <3> QED
        BY <1>2, <2>4, <3>1
    <2> QED
      BY <2>2, <2>3, <2>4
  <1>4. new \in Machines /\ new.state \in LifecycleStates
    BY InputFields DEF Machines, LifecycleStates
  <1>5. f \in Frames /\ f.n = n /\ f # Idle
    <2>1. f \in Frames /\ f.n = n
      BY <1>1 DEF Opened, Frames, Places, Answers, Totals
    <2> QED
      BY <2>1, InCall DEF Sound
  <1>6. rec' = [rec EXCEPT ![c.tx] = r] /\ th' = [th EXCEPT ![w] = f]
    BY <1>1, <1>2 DEF Enter
  <1>7. mach' = IF rec[c.tx].m = 0 THEN [mach EXCEPT ![n] = new] ELSE mach
    BY DEF Enter
  <1> HIDE DEF f, new, r
  <1>8. rec' \in [Txs -> Records] /\ rec'[c.tx] = r /\ \A u \in Txs : u # c.tx => rec'[u] = rec[u]
    BY <1>1, <1>3, <1>6, RecordChanged
  <1>9. /\ mach' \in [Calls -> Machines] /\ \A m \in Calls : m # n => mach'[m] = mach[m]
        /\ rec[c.tx].m = 0 => mach'[n] = new
    BY <1>1, <1>4, <1>7 DEF Sound, Typed
  <1>10. /\ th' \in [Threads -> {Idle} \cup Frames] /\ th'[w] = f
         /\ \A v \in Threads : v # w => th'[v] = th[v]
    BY <1>5, <1>6 DEF Sound, Typed
  <1>11. Typed'
    BY <1>1, <1>8, <1>9, <1>10 DEF Enter, Sound, Typed
  <1>12. ASSUME NEW t \in Txs, rec'[t].m # 0
         PROVE  rec'[t].attempt # 0 /\ rec'[t].m \in 1 .. n /\ Machine(t)'.state \in LifecycleStates
    <2>1. CASE t = c.tx /\ rec[t].m = 0
      BY <2>1, <1>1, <1>3, <1>4, <1>8, <1>9 DEF Machine
    <2>2. CASE ~(t = c.tx /\ rec[t].m = 0)
      <3>1. rec'[t].m = rec[t].m /\ rec'[t].attempt # 0
        BY <2>2, <1>3, <1>8, <1>12 DEF Sound, RecordsSound
      <3>2. rec[t].m \in 1 .. count /\ rec[t].m \in Calls /\ mach[rec[t].m].state \in LifecycleStates
        BY <3>1, <1>12 DEF Sound, Typed, RecordsSound, Machine, Calls
      <3>3. rec[t].m # n
        BY <3>2, <1>1
      <3> QED
        BY <3>1, <3>2, <3>3, <1>1, <1>9 DEF Machine
    <2> QED
      BY <2>1, <2>2
  <1>13. RecordsSound'
    BY <1>1, <1>12 DEF Enter, Sound, RecordsSound
  <1>14. \A i \in Calls : i > n => outs[i] = NoOutcome
    BY <1>1 DEF Sound, CallsSound, Calls
  <1>15. ASSUME NEW v \in Threads, th'[v] # Idle
         PROVE  th'[v].n <= n /\ outs[th'[v].n] = NoOutcome
    <2>1. CASE v = w
      BY <2>1, <1>1, <1>5, <1>10 DEF Sound, CallsSound
    <2>2. CASE v # w
      BY <2>2, <1>1, <1>10, <1>15 DEF Sound, CallsSound, Typed, Frames, Calls
    <2> QED
      BY <2>1, <2>2
  <1>16. \A v \in Threads : v # w /\ th'[v] # Idle => th'[v].n # n
    BY <1>1, <1>10 DEF Sound, CallsSound
  <1>17. \A u, v \in Threads : th'[u] # Idle /\ th'[v] # Idle /\ u # v => th'[u].n # th'[v].n
    BY <1>5, <1>10, <1>16 DEF Sound, CallsSound
  <1>18. CallsSound'
    BY <1>1, <1>14, <1>15, <1>17 DEF Enter, Sound, CallsSound
  <1> QED
    BY <1>11, <1>13, <1>18 DEF Sound

\* Leaving changes no record: what is left to show is the machines.
LEMMA SoundLeaving ==
  ASSUME Sound, NEW w \in Threads, th[w] \in Frames, NEW o \in Outcomes,
         o.key = Input(w).key, Leave(w, o), cache' = cache \/ cache' = Remembered(w),
         count' = count, store' = store,
         rec' \in [Txs -> Records],
         \A t \in Txs : rec'[t].attempt = rec[t].attempt /\ rec'[t].m = rec[t].m,
         mach' \in [Calls -> Machines],
         \A m \in Calls : mach[m].state \in LifecycleStates => mach'[m].state \in LifecycleStates,
         replans' \in [Txs -> 0 .. MaxReplans], resolutions' \in [Txs -> 0 .. MaxResolutions]
  PROVE  Sound'
  <1>1. /\ outs' \in [Calls -> Outcomes] /\ th' \in [Threads -> {Idle} \cup Frames]
        /\ cache' \in [Keys -> 0 .. MaxCalls] /\ CallsSound'
    BY Leaving
  <1>2. RecordsSound'
    BY RecordsKept
  <1>3. Typed'
    BY <1>1 DEF Sound, Typed
  <1> QED
    BY <1>1, <1>2, <1>3 DEF Sound

LEMMA PaymentBound ==
  ASSUME Sound, NEW w \in Threads, th[w] \in Frames, rec' = BoundPayment(w)
  PROVE  /\ rec' \in [Txs -> Records]
         /\ \A t \in Txs : /\ rec'[t].attempt = rec[t].attempt /\ rec'[t].m = rec[t].m
                           /\ rec'[t].proof = rec[t].proof
  <1>1. rec \in [Txs -> Records] /\ Tx(w) \in Txs
    BY FrameFields DEF Sound, Typed
  <1>2. CASE ~Claims(w)
    BY <1>1, <1>2 DEF BoundPayment
  <1>3. CASE Claims(w)
    <2> DEFINE t == Tx(w)
               old == rec[t]
               new == [old EXCEPT !.paid = TRUE]
    <2>1. rec' = [rec EXCEPT ![t] = new]
      BY <1>3 DEF BoundPayment
    <2>2. old \in Records
      BY <1>1
    <2> HIDE DEF old
    <2>3. new \in Records /\ new.attempt = old.attempt /\ new.m = old.m /\ new.proof = old.proof
      BY <2>2 DEF Records
    <2> HIDE DEF new
    <2>4. rec' \in [Txs -> Records] /\ rec'[t] = new /\ \A u \in Txs : u # t => rec'[u] = rec[u]
      BY <1>1, <2>1, <2>3
    <2> QED
      BY <2>3, <2>4 DEF old
  <1> QED
    BY <1>2, <1>3

LEMMA SoundRefusal ==
  ASSUME Sound, NEW w \in Threads, Mismatch(w) \/ Refuse(w)
  PROVE  Sound'
  <1> DEFINE o == Outcome(w, "BLOCKED", "NONE", "ABSTAIN")
  <1>1. th[w] \in Frames
    BY InCall DEF Mismatch, Refuse, Sound, At
  <1>2. o \in Outcomes /\ o.key = Input(w).key
    BY <1>1, OutcomeTyped DEF Stages, Answers, LifecycleStates
  <1>3. /\ Leave(w, o) /\ (cache' = cache \/ cache' = Remembered(w))
        /\ UNCHANGED <<count, rec, mach, store, replans, resolutions>>
    BY DEF Mismatch, Refuse
  <1> HIDE DEF o
  <1> QED
    BY <1>1, <1>2, <1>3, SoundLeaving DEF Sound, Typed

LEMMA SoundComplete ==
  ASSUME Sound, NEW w \in Threads, Complete(w)
  PROVE  Sound'
  <1> DEFINE o == Outcome(w, "COMPLETED", "PASS", Machine(Tx(w)).state)
  <1>1. th[w] \in Frames
    BY InCall DEF Complete, Sound, At
  <1>2. rec[Tx(w)].m # 0 /\ Leave(w, o) /\ cache' = Remembered(w)
    BY DEF Complete, Finish
  <1>3. o \in Outcomes /\ o.key = Input(w).key
    BY <1>1, <1>2, OutcomeTyped, FrameFields DEF Stages, Answers, Verdicts
  <1>4. UNCHANGED <<count, mach, store, replans, resolutions>> /\ rec' = BoundPayment(w)
    BY DEF Complete, Finish
  <1> HIDE DEF o
  <1> QED
    BY <1>1, <1>2, <1>3, <1>4, PaymentBound, SoundLeaving DEF Sound, Typed

LEMMA SoundAbstain ==
  ASSUME Sound, NEW w \in Threads, Abstain(w)
  PROVE  Sound'
  <1> DEFINE o == Outcome(w, "ABSTAINED", th[w].first, Machine(Tx(w)).state)
  <1>1. th[w] \in Frames
    BY InCall DEF Abstain, Exhausted, Judged, Sound, At
  <1>2. rec[Tx(w)].m # 0 /\ Leave(w, o) /\ cache' = Remembered(w)
    BY DEF Abstain, Finish
  <1>3. th[w].first \in Answers
    BY <1>1 DEF Frames
  <1>4. o \in Outcomes /\ o.key = Input(w).key
    BY <1>1, <1>2, <1>3, OutcomeTyped, FrameFields DEF Stages
  <1>5. UNCHANGED <<count, rec, mach, store, replans, resolutions>>
    BY DEF Abstain, Finish
  <1> HIDE DEF o
  <1> QED
    BY <1>1, <1>2, <1>4, <1>5, SoundLeaving DEF Sound, Typed

LEMMA SoundRaise ==
  ASSUME Sound, NEW w \in Threads, Raise(w)
  PROVE  Sound'
  <1> DEFINE o == Outcome(w, "RAISED", "NONE", "NONE")
  <1>1. th[w] \in Frames
    BY InCall DEF Raise, Sound
  <1>2. o \in Outcomes /\ o.key = Input(w).key
    BY <1>1, OutcomeTyped DEF Stages, Answers
  <1>3. Leave(w, o) /\ UNCHANGED <<count, mach, store, cache>> /\ rec' = BoundPayment(w)
    BY DEF Raise
  <1>4. Tx(w) \in Txs /\ MaxReplans \in Nat /\ MaxResolutions \in Nat
    BY <1>1, FrameFields, BudgetAssumption
  <1>5. replans' \in [Txs -> 0 .. MaxReplans] /\ resolutions' \in [Txs -> 0 .. MaxResolutions]
    BY <1>4, Spending DEF Raise, MayReplan, MayResolve, Sound, Typed
  <1> HIDE DEF o
  <1> QED
    BY <1>1, <1>2, <1>3, <1>5, PaymentBound, SoundLeaving DEF Sound, Typed

\* The machine of a drifting call moves where it is sent.
LEMMA MovedMachine ==
  ASSUME Sound, NEW w \in Threads, th[w] \in Frames, rec[Tx(w)].m # 0,
         NEW to \in LifecycleStates, mach' = Moved(w, to)
  PROVE  /\ mach' \in [Calls -> Machines]
         /\ \A m \in Calls : mach[m].state \in LifecycleStates => mach'[m].state \in LifecycleStates
         /\ \A m \in Calls : m # rec[Tx(w)].m => mach'[m] = mach[m]
         /\ Machine(Tx(w)).state = "DRIFT" =>
              /\ mach'[rec[Tx(w)].m].state = to
              /\ mach'[rec[Tx(w)].m].time = Input(w).clock
              /\ mach'[rec[Tx(w)].m].limit = Machine(Tx(w)).limit
         /\ Machine(Tx(w)).state # "DRIFT" => mach' = mach
  <1>1. Tx(w) \in Txs /\ Input(w).clock \in Nat
    BY FrameFields, InputFields
  <1>2. CASE Machine(Tx(w)).state # "DRIFT"
    BY <1>2 DEF Moved, Sound, Typed
  <1>3. CASE Machine(Tx(w)).state = "DRIFT"
    <2>1. mach' = MachineAt(Tx(w), to, Input(w).clock)
      BY <1>3 DEF Moved, MachineAt
    <2> QED
      BY <1>1, <1>3, <2>1, MachineMoved DEF Machine
  <1> QED
    BY <1>2, <1>3

LEMMA SoundRecover ==
  ASSUME Sound, NEW w \in Threads, Recover(w)
  PROVE  Sound'
  <1> DEFINE o == Outcome(w, "RECOVERING", "DRIFT", mach'[rec[Tx(w)].m].state)
  <1>1. th[w] \in Frames
    BY InCall DEF Recover, Recovers, Exhausted, Judged, Sound, At
  <1>2. /\ rec[Tx(w)].m # 0 /\ mach' = Moved(w, "RECOVERING") /\ Leave(w, o)
        /\ cache' = Remembered(w) /\ UNCHANGED <<count, rec, store, replans, resolutions>>
    BY DEF Recover
  <1>3. /\ mach' \in [Calls -> Machines]
        /\ \A m \in Calls : mach[m].state \in LifecycleStates => mach'[m].state \in LifecycleStates
    BY <1>1, <1>2, MovedMachine DEF LifecycleStates
  <1>4. mach'[rec[Tx(w)].m].state \in LifecycleStates
    BY <1>1, <1>2, <1>3, FrameFields DEF Machine
  <1>5. o \in Outcomes /\ o.key = Input(w).key
    BY <1>1, <1>4, OutcomeTyped DEF Stages, Answers, Verdicts
  <1> HIDE DEF o
  <1> QED
    BY <1>1, <1>2, <1>3, <1>5, SoundLeaving DEF Sound, Typed

(***************************************************************************)
(* A call that goes on: what it does to its own frame and record, and that *)
(* the types and numbers stay right.                                       *)
(***************************************************************************)

SameOtherwise(w) ==
  /\ \A v \in Threads : v # w => th'[v] = th[v]
  /\ \A t \in Txs : t # Tx(w) => store'[t] = store[t]

SameCall(w) == th'[w] \in Frames /\ th'[w].n = th[w].n /\ th'[w].c = th[w].c

LEMMA AdmitEffect ==
  ASSUME Sound, NEW w \in Threads, Admit(w)
  PROVE  /\ Sound' /\ SameOtherwise(w) /\ SameCall(w) /\ th[w] \in Frames
         /\ UNCHANGED <<rec, mach>> /\ rec[Tx(w)].m # 0
         /\ th'[w].pc = "admitted" /\ th'[w].goods = Goods(Input(w))
         /\ th'[w].total = Amount(store'[Tx(w)], Offered(Input(w)))
         /\ store'[Tx(w)].items =
              store[Tx(w)].items \cup {Observed(Input(w), MerchantRank, Goods(Input(w)))}
         /\ Observed(Input(w), MerchantRank, Offered(Input(w))) \in store'[Tx(w)].amounts
         /\ IsFiniteSet(store[Tx(w)].amounts) => IsFiniteSet(store'[Tx(w)].amounts)
  <1> DEFINE c == Input(w)
             t == Tx(w)
             offerId == <<"offer", c.attempt>>
             payId == <<"pay", 0>>
             offered == WithOffer(store[t], c, offerId, Offered(c), Goods(c))
             recorded == IF c.pay = 0 THEN offered ELSE WithPayment(offered, c, payId, c.pay)
             f == [th[w] EXCEPT !.pc = "admitted", !.goods = Goods(c),
                                !.total = Amount(recorded, Offered(c))]
             a == Observed(c, MerchantRank, Offered(c))
             p == Observed(c, ProviderRank, c.pay)
  <1>1. th[w] \in Frames
    BY InCall DEF Admit, Sound, At
  <1>2. /\ c \in Inputs /\ t \in Txs /\ c.tx = t /\ store[t] \in Stores
        /\ store[t].repeats \subseteq Ids(store[t].events)
    BY <1>1, FrameFields
  <1>3. /\ Offered(c) \in Nat /\ Goods(c) \in GoodsKinds /\ c.pay \in Nat \cup {NoAmount}
        /\ c.attempt \in Nat
    BY <1>2, Offers, InputFields
  <1>4. store' = [store EXCEPT ![t] = recorded] /\ th' = [th EXCEPT ![w] = f]
    BY <1>2 DEF Admit, Input, Tx
  <1>5. UNCHANGED <<count, rec, mach, cache, replans, resolutions, outs>> /\ rec[t].m # 0
    BY <1>2 DEF Admit
  <1> HIDE DEF c, t
  <1>0. offerId \in EventIds /\ payId \in EventIds
    BY <1>3 DEF EventIds
  <1> HIDE DEF offerId, payId
  <1>6. /\ offered \in Stores /\ offered.repeats \subseteq Ids(offered.events)
        /\ offered.amounts = store[t].amounts \cup {a}
        /\ offered.items = store[t].items \cup {Observed(c, MerchantRank, Goods(c))}
    BY <1>0, <1>2, <1>3, OfferStore
  <1> HIDE DEF offered, a
  <1>7. /\ recorded \in Stores /\ recorded.repeats \subseteq Ids(recorded.events)
        /\ recorded.amounts = offered.amounts \/ recorded.amounts = offered.amounts \cup {p}
        /\ recorded.items = offered.items
    <2>1. CASE c.pay = 0
      BY <2>1, <1>6
    <2>2. CASE c.pay # 0
      <3> DEFINE pay == c.pay
      <3>1. recorded = WithPayment(offered, c, payId, pay) /\ p = Observed(c, ProviderRank, pay)
        BY <2>2
      <3>2. pay \in Nat \cup {NoAmount}
        BY <1>3
      <3> HIDE DEF recorded, pay, p
      <3>3. /\ WithPayment(offered, c, payId, pay) \in Stores
            /\ WithPayment(offered, c, payId, pay).amounts = offered.amounts \cup {p}
            /\ WithPayment(offered, c, payId, pay).items = offered.items
            /\ WithPayment(offered, c, payId, pay).repeats
                 \subseteq Ids(WithPayment(offered, c, payId, pay).events)
        BY <1>0, <1>2, <1>6, <3>1, <3>2, PaymentStore
      <3> QED
        BY <3>1, <3>3
    <2> QED
      BY <2>1, <2>2
  <1> HIDE DEF recorded, p
  <1>8. Amount(recorded, Offered(c)) \in Totals
    BY <1>3, <1>7 DEF Totals
  <1>9. /\ f \in Frames /\ f.n = th[w].n /\ f.c = th[w].c /\ f.pc = "admitted"
        /\ f.goods = Goods(c) /\ f.total = Amount(recorded, Offered(c))
    BY <1>1, <1>3, <1>8 DEF Frames, Places
  <1> HIDE DEF f
  <1>10. /\ th' \in [Threads -> {Idle} \cup Frames] /\ CallsSound' /\ th'[w] = f
         /\ \A v \in Threads : v # w => th'[v] = th[v]
    BY <1>1, <1>4, <1>5, <1>9, Stepping
  <1>11. /\ store' \in [Txs -> Stores] /\ store'[t] = recorded
         /\ \A u \in Txs : u # t => store'[u] = store[u]
         /\ \A u \in Txs : store'[u].repeats \subseteq {e.id : e \in store'[u].events}
    BY <1>2, <1>4, <1>7, StoreChanged
  <1>12. Sound'
    BY <1>5, <1>10, <1>11 DEF Sound, Typed, RecordsSound, Machine
  <1>13. IsFiniteSet(store[t].amounts) => IsFiniteSet(recorded.amounts)
    BY <1>6, <1>7, FS_AddElement
  <1>14. a \in recorded.amounts
    BY <1>6, <1>7
  <1> QED
    BY <1>1, <1>5, <1>6, <1>7, <1>9, <1>10, <1>11, <1>12, <1>13, <1>14
       DEF SameOtherwise, SameCall, c, t, a

LEMMA ReplanEffect ==
  ASSUME Sound, NEW w \in Threads, Replan(w)
  PROVE  /\ Sound' /\ SameOtherwise(w) /\ SameCall(w) /\ th[w] \in Frames
         /\ rec' = rec /\ rec[Tx(w)].m # 0 /\ mach' = Moved(w, "REVALIDATING")
         /\ Judged(w, "DRIFT") /\ th'[w].pc = "revised" /\ th'[w].goods = "authorized"
         /\ th'[w].first = th[w].first
         /\ th'[w].total = Amount(store[Tx(w)], Revised(Input(w)))
         /\ store'[Tx(w)].amounts =
              {e \in store[Tx(w)].amounts : e.rank # MerchantRank}
                \cup {Observed(Input(w), MerchantRank, Revised(Input(w)))}
         /\ IsFiniteSet(store[Tx(w)].amounts) => IsFiniteSet(store'[Tx(w)].amounts)
  <1> DEFINE c == Input(w)
             t == Tx(w)
             id == <<"revised", 10 * c.attempt + (Spent(replans, t) + 1)>>
             kept == WithoutMerchant(store[t])
             revised == WithOffer(kept, c, id, Revised(c), "authorized")
             f == [th[w] EXCEPT !.pc = "revised", !.revised = TRUE,
                                !.total = Amount(store[t], Revised(c)), !.goods = "authorized"]
  <1>1. th[w] \in Frames
    BY InCall DEF Replan, MayReplan, Judged, Sound, At
  <1>2. /\ c \in Inputs /\ t \in Txs /\ c.tx = t /\ store[t] \in Stores /\ c.attempt \in 1 .. 9
        /\ store[t].repeats \subseteq Ids(store[t].events)
    BY <1>1, FrameFields, InputFields
  <1>3. id \in EventIds
    BY <1>2 DEF Spent, Sound, Typed, EventIds
  <1>4. Revised(c) \in Nat /\ "authorized" \in GoodsKinds
    BY <1>2, Offers DEF GoodsKinds
  <1>5. store' = [store EXCEPT ![t] = revised] /\ th' = [th EXCEPT ![w] = f]
    BY <1>2 DEF Replan, Input, Tx
  <1>6. /\ UNCHANGED <<count, rec, cache, resolutions, outs>> /\ rec[t].m # 0
        /\ replans' = Spend(replans, t) /\ mach' = Moved(w, "REVALIDATING")
        /\ MayReplan(w)
    BY <1>2 DEF Replan
  <1> HIDE DEF c, t, id
  <1>7. /\ kept \in Stores /\ kept.repeats \subseteq Ids(kept.events)
        /\ kept.amounts = {e \in store[t].amounts : e.rank # MerchantRank}
    BY <1>2, RevisedStore
  <1> HIDE DEF kept
  <1>8. /\ revised \in Stores /\ revised.repeats \subseteq Ids(revised.events)
        /\ revised.amounts = kept.amounts \cup {Observed(c, MerchantRank, Revised(c))}
    BY <1>2, <1>3, <1>4, <1>7, OfferStore
  <1> HIDE DEF revised
  <1>9. Amount(store[t], Revised(c)) \in Totals
    BY <1>2, <1>4 DEF Totals
  <1>10. /\ f \in Frames /\ f.n = th[w].n /\ f.c = th[w].c /\ f.pc = "revised"
         /\ f.goods = "authorized" /\ f.total = Amount(store[t], Revised(c))
         /\ f.first = th[w].first
    BY <1>1, <1>4, <1>9 DEF Frames, Places
  <1> HIDE DEF f
  <1>11. /\ th' \in [Threads -> {Idle} \cup Frames] /\ CallsSound' /\ th'[w] = f
         /\ \A v \in Threads : v # w => th'[v] = th[v]
    BY <1>1, <1>5, <1>6, <1>10, Stepping
  <1>12. /\ store' \in [Txs -> Stores] /\ store'[t] = revised
         /\ \A u \in Txs : u # t => store'[u] = store[u]
         /\ \A u \in Txs : store'[u].repeats \subseteq {e.id : e \in store'[u].events}
    BY <1>2, <1>5, <1>8, StoreChanged
  <1>13. /\ mach' \in [Calls -> Machines]
         /\ \A m \in Calls : mach[m].state \in LifecycleStates => mach'[m].state \in LifecycleStates
    BY <1>1, <1>6, MovedMachine DEF LifecycleStates, t
  <1>14. replans' \in [Txs -> 0 .. MaxReplans]
    BY <1>2, <1>6, Spending, BudgetAssumption DEF MayReplan, Sound, Typed, t
  <1>15. \A u \in Txs : rec[u].m # 0 => rec[u].m \in Calls
    BY DEF Sound, Typed, Records, Calls
  <1>16. Sound'
    BY <1>6, <1>11, <1>12, <1>13, <1>14, <1>15 DEF Sound, Typed, RecordsSound, Machine
  <1>17. IsFiniteSet(store[t].amounts) => IsFiniteSet(revised.amounts)
    BY <1>7, <1>8, FS_Subset, FS_AddElement
  <1> QED
    BY <1>1, <1>6, <1>7, <1>8, <1>10, <1>11, <1>12, <1>16, <1>17
       DEF SameOtherwise, SameCall, MayReplan, c, t

LEMMA ResolveEffect ==
  ASSUME Sound, NEW w \in Threads, Resolve(w)
  PROVE  /\ Sound' /\ SameOtherwise(w) /\ SameCall(w) /\ th[w] \in Frames
         /\ UNCHANGED <<rec, mach>> /\ rec[Tx(w)].m # 0
         /\ Judged(w, "UNKNOWN") /\ th'[w].pc = "resolved" /\ th'[w].first = th[w].first
         /\ IsFiniteSet(store[Tx(w)].amounts) => IsFiniteSet(store'[Tx(w)].amounts)
  <1> DEFINE c == Input(w)
             t == c.tx
             f == [th[w] EXCEPT !.pc = "resolved"]
  <1>1. th[w] \in Frames
    BY InCall DEF Resolve, MayResolve, Judged, Sound, At
  <1>2. /\ c \in Inputs /\ t \in Txs /\ Tx(w) = t /\ store[t] \in Stores
        /\ store[t].repeats \subseteq Ids(store[t].events) /\ <<"found", 0>> \in EventIds
        /\ ProviderRank \in Ranks /\ "authorized" \in GoodsKinds
    BY <1>1, FrameFields, Offers DEF Ranks, GoodsKinds
  <1>3. PICK found \in Charges \cup {0} :
           store' = IF found = 0 THEN store
                    ELSE [store EXCEPT ![t] = WithFinding(store[t], c, found)]
    BY DEF Resolve
  <1>4. /\ UNCHANGED <<count, rec, mach, cache, replans, outs>> /\ rec[t].m # 0
        /\ resolutions' = Spend(resolutions, t) /\ th' = [th EXCEPT ![w] = f] /\ MayResolve(w)
    BY <1>2 DEF Resolve
  <1>5. found \in Nat \cup {NoAmount}
    BY CatalogAssumption
  <1> HIDE DEF c, t
  <1>6. /\ f \in Frames /\ f.n = th[w].n /\ f.c = th[w].c /\ f.pc = "resolved"
        /\ f.first = th[w].first
    BY <1>1 DEF Frames, Places
  <1> HIDE DEF f
  <1>7. /\ th' \in [Threads -> {Idle} \cup Frames] /\ CallsSound' /\ th'[w] = f
        /\ \A v \in Threads : v # w => th'[v] = th[v]
    BY <1>1, <1>4, <1>6, Stepping
  <1>8. /\ store' \in [Txs -> Stores] /\ \A u \in Txs : u # t => store'[u] = store[u]
        /\ \A u \in Txs : store'[u].repeats \subseteq {e.id : e \in store'[u].events}
        /\ IsFiniteSet(store[t].amounts) => IsFiniteSet(store'[t].amounts)
    <2>1. CASE found = 0
      BY <2>1, <1>3 DEF Sound, Typed, RecordsSound
    <2>2. CASE found # 0
      <3> DEFINE found0 == <<"found", 0>>
                 g == Observed(c, ProviderRank, "authorized")
                 s == [store[t] EXCEPT !.items = @ \cup {g}]
                 so == WithPayment(s, c, found0, found)
      <3>1. g \in ItemRecords /\ found0 \in EventIds
        BY <1>2, Observations
      <3>2. store' = [store EXCEPT ![t] = so]
        BY <2>2, <1>3 DEF WithFinding
      <3> HIDE DEF g, found0
      <3>3. /\ s \in Stores /\ s.repeats = store[t].repeats /\ s.events = store[t].events
            /\ s.amounts = store[t].amounts
        BY <1>2, <3>1 DEF Stores
      <3> HIDE DEF s
      <3>4. /\ so \in Stores /\ so.repeats \subseteq Ids(so.events)
            /\ so.amounts = store[t].amounts \cup {Observed(c, ProviderRank, found)}
        BY <1>2, <1>5, <3>1, <3>3, PaymentStore
      <3> HIDE DEF so
      <3>5. /\ store' \in [Txs -> Stores] /\ store'[t] = so
            /\ \A u \in Txs : u # t => store'[u] = store[u]
            /\ \A u \in Txs : store'[u].repeats \subseteq {e.id : e \in store'[u].events}
        BY <1>2, <3>2, <3>4, StoreChanged
      <3> QED
        BY <3>4, <3>5, FS_AddElement
    <2> QED
      BY <2>1, <2>2
  <1>9. resolutions' \in [Txs -> 0 .. MaxResolutions]
    <2>1. /\ MaxResolutions \in Nat /\ resolutions \in [Txs -> 0 .. MaxResolutions]
          /\ Spent(resolutions, t) < MaxResolutions
      BY <1>2, <1>4, BudgetAssumption DEF MayResolve, Sound, Typed
    <2> QED
      BY <2>1, <1>2, <1>4, Spending
  <1>10. Sound'
    BY <1>4, <1>7, <1>8, <1>9 DEF Sound, Typed, RecordsSound, Machine
  <1> QED
    BY <1>1, <1>2, <1>4, <1>6, <1>7, <1>8, <1>10
       DEF SameOtherwise, SameCall, MayResolve

\* A proof of drift is there, or is not, by the last evaluation.
ProofSet(t, b) == [rec EXCEPT ![t].proof = b]

LEMMA ProofChanged ==
  ASSUME Sound, NEW t \in Txs, NEW b \in BOOLEAN, rec' = ProofSet(t, b)
  PROVE  /\ rec' \in [Txs -> Records] /\ rec'[t].proof = b
         /\ \A u \in Txs : u # t => rec'[u] = rec[u]
         /\ \A u \in Txs : rec'[u].attempt = rec[u].attempt /\ rec'[u].m = rec[u].m
  <1> DEFINE old == rec[t]
             new == [old EXCEPT !.proof = b]
  <1>1. rec' = [rec EXCEPT ![t] = new]
    BY DEF ProofSet
  <1>2. old \in Records
    BY DEF Sound, Typed
  <1> HIDE DEF old
  <1>3. new \in Records /\ new.attempt = old.attempt /\ new.m = old.m /\ new.proof = b
    BY <1>2 DEF Records
  <1> HIDE DEF new
  <1>4. rec' \in [Txs -> Records] /\ rec'[t] = new /\ \A u \in Txs : u # t => rec'[u] = rec[u]
    BY <1>1, <1>3 DEF Sound, Typed
  <1> QED
    BY <1>3, <1>4 DEF old

LEMMA JudgeEffect ==
  ASSUME Sound, NEW w \in Threads, Judge(w)
  PROVE  /\ Sound' /\ SameOtherwise(w) /\ SameCall(w) /\ th[w] \in Frames
         /\ UNCHANGED <<store, outs, cache, count>> /\ rec[Tx(w)].m # 0 /\ th[w].pc \in ToJudge
         /\ CanAnswer(Tx(w), Input(w).clock, Verdict(Tx(w)))
         /\ Verdict(Tx(w)) \in Verdicts
         /\ th'[w].verdict = Verdict(Tx(w)) /\ th'[w].total = th[w].total
         /\ th'[w].goods = th[w].goods
         /\ th[w].pc = "admitted" => th'[w].pc = "judged" /\ th'[w].first = Verdict(Tx(w))
         /\ th[w].pc # "admitted" => th'[w].pc = "rejudged" /\ th'[w].first = th[w].first
         /\ rec'[Tx(w)].proof <=> Verdict(Tx(w)) = "DRIFT"
         /\ \A u \in Txs : rec'[u].attempt = rec[u].attempt /\ rec'[u].m = rec[u].m
         /\ \A u \in Txs : u # Tx(w) => rec'[u] = rec[u]
         /\ mach'[rec[Tx(w)].m].state = Verdict(Tx(w))
         /\ mach'[rec[Tx(w)].m].limit = Machine(Tx(w)).limit
         /\ \A m \in Calls : m # rec[Tx(w)].m => mach'[m] = mach[m]
  <1> DEFINE t == Tx(w)
             v == Verdict(t)
             b == v = "DRIFT"
             first == IF At(w, "admitted") THEN v ELSE th[w].first
             pc == IF At(w, "admitted") THEN "judged" ELSE "rejudged"
             f == [th[w] EXCEPT !.verdict = v, !.first = first, !.pc = pc]
  <1>1. th[w] \in Frames
    BY InCall DEF Judge, Sound, At, ToJudge
  <1>2. t \in Txs /\ v \in Verdicts /\ v \in LifecycleStates /\ Input(w).clock \in Nat
    BY <1>1, FrameFields, InputFields, VerdictKinds DEF Verdicts, LifecycleStates
  <1>3. /\ rec' = ProofSet(t, b) /\ mach' = MachineAt(t, v, Input(w).clock)
        /\ th' = [th EXCEPT ![w] = f] /\ th[w].pc \in ToJudge
        /\ CanAnswer(t, Input(w).clock, v) /\ rec[t].m # 0
        /\ UNCHANGED <<count, store, ledger, cache, replans, resolutions, outs>>
    BY DEF Judge, ProofSet, MachineAt, CanAnswer
  <1>4. b \in BOOLEAN /\ (b <=> v = "DRIFT")
    OBVIOUS
  <1>5. first \in Answers /\ pc \in Places
    BY <1>1, <1>2 DEF Frames, Answers, Places
  <1>6. /\ th[w].pc = "admitted" => pc = "judged" /\ first = v
        /\ th[w].pc # "admitted" => pc = "rejudged" /\ first = th[w].first
    BY DEF At
  <1> HIDE DEF t, v, b, first, pc
  <1>7. /\ f \in Frames /\ f.n = th[w].n /\ f.c = th[w].c /\ f.verdict = v
        /\ f.first = first /\ f.pc = pc /\ f.total = th[w].total /\ f.goods = th[w].goods
    BY <1>1, <1>2, <1>5 DEF Frames, Answers
  <1> HIDE DEF f
  <1>8. /\ th' \in [Threads -> {Idle} \cup Frames] /\ CallsSound' /\ th'[w] = f
        /\ \A u \in Threads : u # w => th'[u] = th[u]
    BY <1>1, <1>3, <1>7, Stepping
  <1>9. /\ rec' \in [Txs -> Records] /\ rec'[t].proof = b
        /\ \A u \in Txs : u # t => rec'[u] = rec[u]
        /\ \A u \in Txs : rec'[u].attempt = rec[u].attempt /\ rec'[u].m = rec[u].m
    BY <1>2, <1>3, <1>4, ProofChanged
  <1>10. /\ mach' \in [Calls -> Machines]
         /\ mach'[rec[t].m].state = v /\ mach'[rec[t].m].limit = mach[rec[t].m].limit
         /\ \A m \in Calls : m # rec[t].m => mach'[m] = mach[m]
         /\ \A m \in Calls : mach[m].state \in LifecycleStates => mach'[m].state \in LifecycleStates
    BY <1>2, <1>3, MachineMoved
  <1>11. RecordsSound'
    BY <1>3, <1>9, <1>10, RecordsKept
  <1>12. Sound'
    BY <1>3, <1>8, <1>9, <1>10, <1>11 DEF Sound, Typed
  <1>13. SameOtherwise(w) /\ SameCall(w)
    BY <1>3, <1>7, <1>8 DEF SameOtherwise, SameCall
  <1>14. rec'[t].proof <=> v = "DRIFT"
    BY <1>4, <1>9
  <1> QED
    BY <1>1, <1>2, <1>3, <1>6, <1>7, <1>8, <1>9, <1>10, <1>12, <1>13, <1>14 DEF t, v, Machine

LEMMA SoundNext == Sound /\ [Next]_vars => Sound'
  <1> SUFFICES ASSUME Sound, [Next]_vars PROVE Sound'
    OBVIOUS
  <1>1. CASE UNCHANGED vars
    BY <1>1 DEF Sound, Typed, RecordsSound, CallsSound, Machine, vars
  <1>2. ASSUME NEW t \in Txs, NEW a \in Attempts, Create(t, a) PROVE Sound'
    BY <1>2, SoundCreate
  <1>3. ASSUME NEW w \in Threads, NEW c \in Inputs, Reuse(w, c) \/ Begin(w, c) PROVE Sound'
    BY <1>3, SoundReuse, SoundEnter DEF Begin
  <1>4. ASSUME NEW w \in Threads,
               \/ Mismatch(w) \/ Refuse(w) \/ Admit(w) \/ Judge(w)
               \/ Complete(w) \/ Replan(w) \/ Resolve(w)
               \/ Recover(w) \/ Abstain(w) \/ Raise(w)
        PROVE  Sound'
    BY <1>4, SoundRefusal, AdmitEffect, JudgeEffect, SoundComplete, ReplanEffect, ResolveEffect,
       SoundRecover, SoundAbstain, SoundRaise
  <1> QED
    BY <1>1, <1>2, <1>3, <1>4 DEF Next

(***************************************************************************)
(* TypeOK, for any threads: orchestrate keeps its dictionaries typed, the  *)
(* budgets are kept, a key is remembered for a call that had it, and a     *)
(* machine belongs to a call that began.                                   *)
(***************************************************************************)
THEOREM TypeCorrect == Spec => []TypeOK
  <1>1. Sound => TypeOK
    <2> SUFFICES ASSUME Sound PROVE TypeOK
      OBVIOUS
    <2>1. \A t \in Txs :
            /\ rec[t].m \in 0 .. count
            /\ rec[t].m # 0 => Machine(t).state \in LifecycleStates
            /\ store[t].repeats \subseteq {e.id : e \in store[t].events}
            /\ replans[t] \in 0 .. MaxReplans /\ resolutions[t] \in 0 .. MaxResolutions
      BY BudgetAssumption DEF Sound, Typed, RecordsSound
    <2>2. \A n \in Calls : outs[n].stage \in Stages /\ (n > count => outs[n] = NoOutcome)
      BY DEF Sound, Typed, CallsSound, Outcomes
    <2>3. \A w \in Threads : ~At(w, "idle") => th[w].n <= count /\ outs[th[w].n] = NoOutcome
      BY InCall DEF Sound, CallsSound
    <2> QED
      BY <2>1, <2>2, <2>3 DEF TypeOK, Sound, Typed, CallsSound
  <1> QED
    BY <1>1, SoundInit, SoundNext, PTL DEF Spec

-----------------------------------------------------------------------------
(***************************************************************************)
(* Calls about one transaction in turn: one that begins finds no other     *)
(* under way.  Calls about other transactions, and the creation of         *)
(* contexts, may come at any time.                                         *)
(***************************************************************************)
CallsInTurn ==
  \A v, w \in Threads : th[v] # Idle /\ th[w] # Idle /\ Tx(v) = Tx(w) => v = w

Busy(w, places) == th[w] # Idle /\ th[w].pc \in places /\ rec[Tx(w)].m # 0

\* What orchestrate leaves a machine in.
MachinesReached ==
  \A m \in Calls :
    mach[m].state \in Verdicts \cup {"ABSENT", "CREATED", "RECOVERING", "REVALIDATING"}

\* Every transaction has a machine of its own.
OwnMachine ==
  \A t, u \in Txs : t # u /\ rec[t].m # 0 => rec[t].m # rec[u].m

(***************************************************************************)
(* The machine and the proof of drift are as the call under way left them. *)
(***************************************************************************)
MachineFollows(w) ==
  /\ Busy(w, {"judged", "rejudged"}) =>
       /\ Machine(Tx(w)).state = th[w].verdict
       /\ rec[Tx(w)].proof <=> th[w].verdict = "DRIFT"
  /\ Busy(w, {"judged"}) => th[w].first = th[w].verdict
  /\ Busy(w, {"revised", "rejudged"}) => th[w].first = "DRIFT"
  /\ Busy(w, {"revised"}) => /\ th[w].goods = "authorized"
                             /\ Machine(Tx(w)).state = "REVALIDATING"
                             /\ Machine(Tx(w)).time = Input(w).clock
  /\ Busy(w, {"resolved"}) => th[w].first = "UNKNOWN" /\ Machine(Tx(w)).state = "UNKNOWN"

\* A machine is revalidating only while a revised offer waits for its verdict.
Revalidates(t) ==
  rec[t].m # 0 /\ Machine(t).state = "REVALIDATING" =>
    \E w \in Threads : th[w] # Idle /\ th[w].pc = "revised" /\ Tx(w) = t

(***************************************************************************)
(* What is on record.  Before the first verdict there is nothing from the  *)
(* provider about the items, and what earlier calls left about them is     *)
(* older than the machine: calls that were later would have been judged.   *)
(***************************************************************************)
ItemsOnRecord(t) ==
  /\ IsFiniteSet(store[t].amounts)
  /\ rec[t].m = 0 => store[t].items = {}
  /\ rec[t].m # 0 /\ Machine(t).state = "CREATED" =>
       \A e \in store[t].items :
         /\ e.rank = MerchantRank
         /\ \/ e.at < 10 * Machine(t).time
            \/ \E w \in Threads :
                 /\ th[w] # Idle /\ th[w].pc = "admitted" /\ Tx(w) = t
                 /\ e = Observed(Input(w), MerchantRank, th[w].goods)

\* What a call stands for before it is judged.
StandsForOffer(w) ==
  /\ Busy(w, {"admitted", "revised"}) =>
       \E e \in store[Tx(w)].amounts :
         e.rank = MerchantRank /\ th[w].total = Amount(store[Tx(w)], e.value)
  /\ Busy(w, {"admitted"}) =>
       Observed(Input(w), MerchantRank, th[w].goods) \in store[Tx(w)].items

\* A call that has passed stands for what the intent allows, and no call
\* has completed with its machine.
PassFits(w) ==
  Busy(w, {"judged", "rejudged"}) /\ th[w].verdict = "PASS" =>
    /\ th[w].total <= Machine(Tx(w)).limit /\ th[w].goods = "authorized"
    /\ \A n \in Calls : Completed(n) => outs[n].m # rec[Tx(w)].m

CallFits(w) == MachineFollows(w) /\ StandsForOffer(w) /\ PassFits(w)
RecordFits(t) == Revalidates(t) /\ ItemsOnRecord(t)

\* The calls that have completed, each with a machine that stays in PASS.
CompletionsFit ==
  \A n \in Calls : Completed(n) =>
    /\ outs[n].m \in 1 .. count /\ mach[outs[n].m].state = "PASS"
    /\ outs[n].total <= mach[outs[n].m].limit /\ outs[n].goods = "authorized"

TurnInv ==
  /\ MachinesReached /\ OwnMachine
  /\ \A w \in Threads : CallFits(w)
  /\ \A t \in Txs : RecordFits(t)
  /\ CompletionsFit /\ CompletedOnce /\ RecoveryNeedsDrift

LEMMA TurnInit == Init => TurnInv
  <1> SUFFICES ASSUME Init PROVE TurnInv
    OBVIOUS
  <1>1. \A n \in Calls : outs[n].stage = "NONE"
    BY DEF Init, NoOutcome
  <1>2. CompletionsFit /\ CompletedOnce /\ RecoveryNeedsDrift
    BY <1>1 DEF CompletionsFit, CompletedOnce, RecoveryNeedsDrift, Completed
  <1>3. \A w \in Threads : CallFits(w)
    BY DEF Init, CallFits, MachineFollows, StandsForOffer, PassFits, Busy
  <1>4. \A t \in Txs : RecordFits(t)
    <2>1. IsFiniteSet({})
      BY FS_EmptySet
    <2> QED
      BY <2>1 DEF Init, RecordFits, Revalidates, ItemsOnRecord, NoRecord, EmptyStore
  <1>5. MachinesReached /\ OwnMachine
    BY DEF Init, MachinesReached, OwnMachine, NoRecord, NoMachine
  <1> QED
    BY <1>2, <1>3, <1>4, <1>5 DEF TurnInv

(***************************************************************************)
(* A step of the call of w leaves the other transactions, and the calls    *)
(* about them, alone.                                                      *)
(***************************************************************************)
Aside(w) ==
  /\ \A v \in Threads : v # w => th'[v] = th[v]
  /\ \A t \in Txs : t # Tx(w) =>
       store'[t] = store[t] /\ rec'[t].m = rec[t].m /\ rec'[t].proof = rec[t].proof
  /\ rec'[Tx(w)].m = rec[Tx(w)].m
  /\ \A m \in Calls : m # rec[Tx(w)].m => mach'[m] = mach[m]
  /\ \A n \in Calls : Completed(n)' =>
       \/ Completed(n) /\ outs'[n].m = outs[n].m
       \/ rec[Tx(w)].m # 0 /\ outs'[n].m = rec[Tx(w)].m

LEMMA AsideMachine ==
  ASSUME Sound, OwnMachine, NEW w \in Threads, th[w] \in Frames, Aside(w),
         NEW t \in Txs, t # Tx(w)
  PROVE  /\ rec'[t].m = rec[t].m /\ rec'[t].proof = rec[t].proof /\ store'[t] = store[t]
         /\ rec[t].m # 0 => /\ Machine(t)' = Machine(t)
                            /\ rec[t].m \in Calls /\ rec[t].m # rec[Tx(w)].m
  <1>1. Tx(w) \in Txs
    BY FrameFields
  <1>2. rec'[t].m = rec[t].m /\ rec'[t].proof = rec[t].proof /\ store'[t] = store[t]
    BY DEF Aside
  <1>3. rec[t].m # 0 => rec[t].m \in Calls /\ rec[t].m # rec[Tx(w)].m
    BY <1>1 DEF OwnMachine, Sound, Typed, Records, Calls
  <1>4. rec[t].m # 0 => mach'[rec[t].m] = mach[rec[t].m]
    BY <1>3 DEF Aside
  <1> QED
    BY <1>2, <1>3, <1>4 DEF Machine

LEMMA AsideCalls ==
  ASSUME Sound, TurnInv, CallsInTurn, NEW w \in Threads, th[w] \in Frames, Aside(w),
         NEW v \in Threads, v # w
  PROVE  CallFits(v)'
  <1>1. th'[v] = th[v] /\ CallFits(v) /\ OwnMachine
    BY DEF Aside, TurnInv
  <1>2. CASE th[v] = Idle
    BY <1>1, <1>2 DEF CallFits, MachineFollows, StandsForOffer, PassFits, Busy
  <1>3. CASE th[v] # Idle
    <2>1. th[v] \in Frames /\ th[w] # Idle
      BY <1>3, InCall DEF Sound, Typed
    <2>2. PICK t \in Txs : t = Tx(v) /\ t # Tx(w)
      BY <1>3, <2>1, FrameFields DEF CallsInTurn
    <2>3. /\ rec'[t].m = rec[t].m /\ rec'[t].proof = rec[t].proof /\ store'[t] = store[t]
          /\ rec[t].m # 0 => /\ Machine(t)' = Machine(t)
                             /\ rec[t].m \in Calls /\ rec[t].m # rec[Tx(w)].m
      BY <1>1, <2>2, AsideMachine
    <2>4. Tx(v)' = t /\ Input(v)' = Input(v)
      BY <1>1, <2>2 DEF Tx, Input
    <2>5. Machine(Tx(v))' = mach'[rec'[t].m] /\ mach'[rec'[t].m] = mach'[rec[t].m]
      BY <2>3, <2>4 DEF Machine
    <2>6. \A places : Busy(v, places)' <=> Busy(v, places)
      BY <1>1, <2>2, <2>3, <2>4 DEF Busy
    <2>7. MachineFollows(v)'
      <3>1. \A places : Busy(v, places) => rec[t].m # 0
        BY <2>2 DEF Busy
      <3> QED
        BY <1>1, <2>2, <2>3, <2>4, <2>5, <2>6, <3>1 DEF CallFits, MachineFollows
    <2>8. StandsForOffer(v)'
      BY <1>1, <2>2, <2>3, <2>4, <2>6 DEF CallFits, StandsForOffer
    <2>9. PassFits(v)'
      <3> SUFFICES ASSUME Busy(v, {"judged", "rejudged"}), th[v].verdict = "PASS"
                   PROVE  /\ th[v].total <= Machine(t)'.limit /\ th[v].goods = "authorized"
                          /\ \A n \in Calls : Completed(n)' => outs'[n].m # rec[t].m
        BY <1>1, <2>3, <2>4, <2>5, <2>6 DEF PassFits
      <3>1. /\ th[v].total <= Machine(t).limit /\ th[v].goods = "authorized"
            /\ \A n \in Calls : Completed(n) => outs[n].m # rec[t].m
            /\ rec[t].m # 0
        BY <1>1, <2>2 DEF CallFits, PassFits, Busy
      <3>2. \A n \in Calls : Completed(n)' => outs'[n].m # rec[t].m
        BY <2>3, <3>1 DEF Aside
      <3> QED
        BY <2>3, <3>1, <3>2
    <2> QED
      BY <2>7, <2>8, <2>9 DEF CallFits
  <1> QED
    BY <1>2, <1>3

LEMMA AsideRecords ==
  ASSUME Sound, TurnInv, NEW w \in Threads, th[w] \in Frames, Aside(w),
         NEW t \in Txs, t # Tx(w)
  PROVE  RecordFits(t)'
  <1>1. RecordFits(t) /\ OwnMachine
    BY DEF TurnInv
  <1>2. /\ rec'[t].m = rec[t].m /\ rec'[t].proof = rec[t].proof /\ store'[t] = store[t]
        /\ rec[t].m # 0 => Machine(t)' = Machine(t)
    BY <1>1, AsideMachine
  <1>3. \A v \in Threads : th[v] # Idle /\ Tx(v) = t =>
          th'[v] = th[v] /\ Tx(v)' = t /\ Input(v)' = Input(v)
    BY DEF Aside, Tx, Input
  <1>4. Revalidates(t)'
    <2> SUFFICES ASSUME rec[t].m # 0, Machine(t).state = "REVALIDATING"
                 PROVE  \E v \in Threads : th'[v] # Idle /\ th'[v].pc = "revised" /\ Tx(v)' = t
      BY <1>2 DEF Revalidates
    <2>1. PICK v \in Threads : th[v] # Idle /\ th[v].pc = "revised" /\ Tx(v) = t
      BY <1>1 DEF RecordFits, Revalidates
    <2> QED
      BY <1>3, <2>1
  <1>5. ItemsOnRecord(t)'
    <2>1. IsFiniteSet(store'[t].amounts) /\ (rec'[t].m = 0 => store'[t].items = {})
      BY <1>1, <1>2 DEF RecordFits, ItemsOnRecord
    <2>2. ASSUME rec'[t].m # 0, Machine(t)'.state = "CREATED", NEW e \in store'[t].items
          PROVE  /\ e.rank = MerchantRank
                 /\ \/ e.at < 10 * Machine(t)'.time
                    \/ \E v \in Threads :
                         /\ th'[v] # Idle /\ th'[v].pc = "admitted" /\ Tx(v)' = t
                         /\ e = Observed(Input(v)', MerchantRank, th'[v].goods)
      <3>1. /\ e.rank = MerchantRank
            /\ \/ e.at < 10 * Machine(t).time
               \/ \E v \in Threads :
                    /\ th[v] # Idle /\ th[v].pc = "admitted" /\ Tx(v) = t
                    /\ e = Observed(Input(v), MerchantRank, th[v].goods)
        BY <1>1, <1>2, <2>2 DEF RecordFits, ItemsOnRecord
      <3>2. CASE e.at < 10 * Machine(t).time
        BY <1>2, <2>2, <3>1, <3>2
      <3>3. CASE \E v \in Threads :
                   /\ th[v] # Idle /\ th[v].pc = "admitted" /\ Tx(v) = t
                   /\ e = Observed(Input(v), MerchantRank, th[v].goods)
        BY <1>3, <3>1, <3>3
      <3> QED
        BY <3>1, <3>2, <3>3
    <2> QED
      BY <2>1, <2>2 DEF ItemsOnRecord, Observed
  <1> QED
    BY <1>4, <1>5 DEF RecordFits

LEMMA AsideOwn ==
  ASSUME Sound, OwnMachine, NEW w \in Threads, th[w] \in Frames, Aside(w)
  PROVE  OwnMachine'
  <1>1. \A t \in Txs : rec'[t].m = rec[t].m
    BY DEF Aside
  <1> QED
    BY <1>1 DEF OwnMachine

LEMMA TurnStep ==
  ASSUME Sound, TurnInv, CallsInTurn, NEW w \in Threads, th[w] \in Frames, Aside(w),
         NEW t \in Txs, t = Tx(w), CallFits(w)', RecordFits(t)',
         MachinesReached', CompletionsFit', CompletedOnce', RecoveryNeedsDrift'
  PROVE  TurnInv'
  <1>1. \A v \in Threads : CallFits(v)'
    BY AsideCalls
  <1>2. \A u \in Txs : RecordFits(u)'
    BY AsideRecords
  <1>3. OwnMachine'
    BY AsideOwn DEF TurnInv
  <1> QED
    BY <1>1, <1>2, <1>3 DEF TurnInv

(***************************************************************************)
(* A call leaves with the outcome o.  The machine stays, unless a recovery *)
(* begins; an offer that no one judged is older than the machine.          *)
(***************************************************************************)
Departs(w, t, o) ==
  /\ Leave(w, o) /\ UNCHANGED <<count, store>>
  /\ \A u \in Txs : rec'[u].m = rec[u].m /\ rec'[u].proof = rec[u].proof
  /\ \/ mach' = mach
     \/ /\ rec[t].m # 0 /\ Machine(t).state = "DRIFT"
        /\ mach'[rec[t].m].state = "RECOVERING"
        /\ \A m \in Calls : m # rec[t].m => mach'[m] = mach[m]
  /\ th[w].pc = "admitted" =>
       rec[t].m = 0 \/ Machine(t).state # "CREATED" \/ Input(w).clock < Machine(t).time
  /\ th[w].pc = "revised" => rec[t].m = 0
  /\ o.stage = "COMPLETED" =>
       /\ Busy(w, {"judged", "rejudged"}) /\ th[w].verdict = "PASS" /\ mach' = mach
       /\ o.m = rec[t].m /\ o.state = "PASS" /\ o.total = th[w].total /\ o.goods = th[w].goods
  /\ o.stage = "RECOVERING" => o.state = "RECOVERING"

LEMMA Departing ==
  ASSUME Sound, TurnInv, CallsInTurn, NEW w \in Threads, th[w] \in Frames,
         NEW t \in Txs, t = Tx(w), NEW o \in Outcomes, Departs(w, t, o)
  PROVE  TurnInv'
  <1>1. PICK n \in Calls : n = th[w].n
    BY DEF Frames
  <1>2. /\ outs'[n] = o /\ \A i \in Calls : i # n => outs'[i] = outs[i]
        /\ th'[w] = Idle /\ \A v \in Threads : v # w => th'[v] = th[v]
    BY <1>1 DEF Departs, Leave, Sound, Typed
  <1>3. /\ store' = store /\ count' = count
        /\ \A u \in Txs : rec'[u].m = rec[u].m /\ rec'[u].proof = rec[u].proof
    BY DEF Departs
  <1>4. \A m \in Calls : m # rec[t].m => mach'[m] = mach[m]
    BY DEF Departs
  <1>5. rec[t].m # 0 => rec[t].m \in 1 .. count /\ rec[t].m \in Calls
    BY DEF Sound, RecordsSound, Typed, Records, Calls
  <1>6. \A i \in Calls : Completed(i)' =>
           \/ i # n /\ Completed(i) /\ outs'[i] = outs[i]
           \/ i = n /\ rec[t].m # 0 /\ outs'[i] = o /\ o.stage = "COMPLETED" /\ o.m = rec[t].m
    BY <1>2 DEF Completed, Departs, Busy
  <1>7. Aside(w)
    BY <1>2, <1>3, <1>4, <1>6 DEF Aside
  <1>8. CallFits(w)'
    BY <1>2 DEF CallFits, MachineFollows, StandsForOffer, PassFits, Busy
  <1>9. CASE mach' = mach
    <2>1. \A u \in Txs : Machine(u)' = Machine(u)
      BY <1>3, <1>9 DEF Machine
    <2>2. Revalidates(t)'
      <3> SUFFICES ASSUME rec[t].m # 0, Machine(t).state = "REVALIDATING"
                   PROVE  \E v \in Threads : th'[v] # Idle /\ th'[v].pc = "revised" /\ Tx(v)' = t
        BY <1>3, <2>1 DEF Revalidates
      <3>1. PICK v \in Threads : th[v] # Idle /\ th[v].pc = "revised" /\ Tx(v) = t
        BY DEF TurnInv, RecordFits, Revalidates
      <3>2. v # w
        BY <3>1 DEF Departs
      <3> QED
        BY <1>2, <3>1, <3>2 DEF Tx
    <2>3. ItemsOnRecord(t)'
      <3>1. ItemsOnRecord(t)
        BY DEF TurnInv, RecordFits
      <3>2. ASSUME rec[t].m # 0, Machine(t).state = "CREATED", NEW e \in store[t].items
            PROVE  /\ e.rank = MerchantRank
                   /\ \/ e.at < 10 * Machine(t).time
                      \/ \E v \in Threads :
                           /\ th'[v] # Idle /\ th'[v].pc = "admitted" /\ Tx(v)' = t
                           /\ e = Observed(Input(v)', MerchantRank, th'[v].goods)
        <4>1. /\ e.rank = MerchantRank
              /\ \/ e.at < 10 * Machine(t).time
                 \/ \E v \in Threads :
                      /\ th[v] # Idle /\ th[v].pc = "admitted" /\ Tx(v) = t
                      /\ e = Observed(Input(v), MerchantRank, th[v].goods)
          BY <3>1, <3>2 DEF ItemsOnRecord
        <4>2. ASSUME NEW v \in Threads, th[v] # Idle, th[v].pc = "admitted", Tx(v) = t,
                     e = Observed(Input(v), MerchantRank, th[v].goods)
              PROVE  e.at < 10 * Machine(t).time
          <5>1. v = w
            BY <4>2, InCall DEF CallsInTurn, Sound
          <5>2. Input(w).clock < Machine(t).time
            BY <3>2, <4>2, <5>1 DEF Departs
          <5>3. Input(w).clock \in Nat /\ Input(w).attempt \in 1 .. 9 /\ Machine(t).time \in Nat
            BY <1>5, <3>2, FrameFields, InputFields DEF Machines
          <5>4. e.at = 10 * Input(w).clock + Input(w).attempt
            BY <4>2, <5>1 DEF Observed
          <5> QED
            BY <5>2, <5>3, <5>4
        <4> QED
          BY <4>1, <4>2
      <3> QED
        BY <1>3, <2>1, <3>1, <3>2 DEF ItemsOnRecord, Observed
    <2>4. MachinesReached'
      BY <1>9 DEF TurnInv, MachinesReached
    <2>5. CompletionsFit'
      <3> SUFFICES ASSUME NEW i \in Calls, Completed(i)'
                   PROVE  /\ outs'[i].m \in 1 .. count /\ mach[outs'[i].m].state = "PASS"
                          /\ outs'[i].total <= mach[outs'[i].m].limit
                          /\ outs'[i].goods = "authorized"
        BY <1>3, <1>9 DEF CompletionsFit
      <3>1. CASE i # n
        BY <1>6, <3>1 DEF TurnInv, CompletionsFit
      <3>2. CASE i = n
        <4>1. /\ outs'[i] = o /\ o.stage = "COMPLETED" /\ o.m = rec[t].m /\ rec[t].m # 0
          BY <1>6, <3>2
        <4>2. /\ Busy(w, {"judged", "rejudged"}) /\ th[w].verdict = "PASS"
              /\ o.total = th[w].total /\ o.goods = th[w].goods
          BY <4>1 DEF Departs
        <4>3. MachineFollows(w) /\ PassFits(w)
          BY DEF TurnInv, CallFits
        <4> QED
          BY <1>5, <4>1, <4>2, <4>3 DEF MachineFollows, PassFits, Machine
      <3> QED
        BY <3>1, <3>2
    <2>6. CompletedOnce'
      <3>1. o.stage = "COMPLETED" =>
              o.state = "PASS" /\ \A i \in Calls : Completed(i) => outs[i].m # o.m
        <4>1. PassFits(w)
          BY DEF TurnInv, CallFits
        <4> QED
          BY <4>1 DEF PassFits, Departs
      <3>2. CompletedOnce
        BY DEF TurnInv
      <3>3. \A i \in Calls : Completed(i)' =>
              \/ i # n /\ Completed(i) /\ outs'[i] = outs[i]
              \/ i = n /\ outs'[i] = o /\ o.stage = "COMPLETED"
        BY <1>6
      <3> SUFFICES ASSUME NEW i \in Calls, Completed(i)'
                   PROVE  /\ outs'[i].state = "PASS"
                          /\ \A j \in Calls : Completed(j)' /\ outs'[j].m = outs'[i].m =>
                               outs'[j].run = outs'[i].run
        BY DEF CompletedOnce
      <3> QED
        BY <3>1, <3>2, <3>3 DEF CompletedOnce
    <2>7. RecoveryNeedsDrift'
      BY <1>2 DEF RecoveryNeedsDrift, Departs, TurnInv
    <2> QED
      BY <1>7, <1>8, <2>2, <2>3, <2>4, <2>5, <2>6, <2>7, TurnStep DEF RecordFits
  <1>10. CASE mach' # mach
    <2>1. /\ rec[t].m # 0 /\ Machine(t).state = "DRIFT"
          /\ mach'[rec[t].m].state = "RECOVERING" /\ o.stage # "COMPLETED"
      BY <1>10 DEF Departs
    <2>2. Machine(t)'.state = "RECOVERING" /\ rec'[t].m # 0
      BY <1>3, <2>1 DEF Machine
    <2>3. RecordFits(t)'
      BY <1>3, <2>2 DEF RecordFits, Revalidates, ItemsOnRecord, TurnInv
    <2>4. MachinesReached'
      BY <1>4, <1>5, <2>1 DEF TurnInv, MachinesReached
    <2>5. \A i \in Calls : Completed(i)' => Completed(i) /\ outs'[i] = outs[i]
      BY <1>6, <2>1
    <2>6. CompletionsFit'
      <3> SUFFICES ASSUME NEW i \in Calls, Completed(i), outs'[i] = outs[i]
                   PROVE  /\ outs[i].m \in 1 .. count /\ mach'[outs[i].m].state = "PASS"
                          /\ outs[i].total <= mach'[outs[i].m].limit
                          /\ outs[i].goods = "authorized"
        BY <1>3, <2>5 DEF CompletionsFit
      <3>1. /\ outs[i].m \in 1 .. count /\ mach[outs[i].m].state = "PASS"
            /\ outs[i].total <= mach[outs[i].m].limit
            /\ outs[i].goods = "authorized"
        BY DEF TurnInv, CompletionsFit
      <3>2. outs[i].m \in Calls /\ outs[i].m # rec[t].m
        BY <2>1, <3>1, BudgetAssumption DEF Machine, Calls, Sound, Typed
      <3> QED
        BY <1>4, <3>1, <3>2
    <2>7. CompletedOnce'
      BY <2>5 DEF TurnInv, CompletedOnce
    <2>8. RecoveryNeedsDrift'
      BY <1>2 DEF RecoveryNeedsDrift, Departs, TurnInv
    <2> QED
      BY <1>7, <1>8, <2>3, <2>4, <2>6, <2>7, <2>8, TurnStep
  <1> QED
    BY <1>9, <1>10

-----------------------------------------------------------------------------
(***************************************************************************)
(* The actions, in turn.                                                   *)
(***************************************************************************)

LEMMA TurnRefusal ==
  ASSUME Sound, TurnInv, CallsInTurn, NEW w \in Threads, Mismatch(w) \/ Refuse(w)
  PROVE  TurnInv'
  <1> DEFINE o == Outcome(w, "BLOCKED", "NONE", "ABSTAIN")
  <1>1. th[w] \in Frames /\ th[w].pc = "opened"
    BY InCall DEF Mismatch, Refuse, Sound, At
  <1>2. PICK t \in Txs : t = Tx(w)
    BY <1>1, FrameFields
  <1>3. o \in Outcomes /\ o.stage = "BLOCKED"
    BY <1>1, OutcomeTyped DEF Stages, Answers, LifecycleStates, Outcome
  <1>4. Leave(w, o) /\ UNCHANGED <<count, store, rec, mach>>
    BY DEF Mismatch, Refuse
  <1> HIDE DEF o
  <1>5. Departs(w, t, o)
    BY <1>1, <1>3, <1>4 DEF Departs
  <1> QED
    BY <1>1, <1>2, <1>3, <1>5, Departing

LEMMA TurnComplete ==
  ASSUME Sound, TurnInv, CallsInTurn, NEW w \in Threads, Complete(w)
  PROVE  TurnInv'
  <1> DEFINE o == Outcome(w, "COMPLETED", "PASS", Machine(Tx(w)).state)
  <1>1. /\ th[w] \in Frames /\ th[w].pc \in {"judged", "rejudged"} /\ th[w].verdict = "PASS"
        /\ rec[Tx(w)].m # 0 /\ Leave(w, o) /\ UNCHANGED <<count, store, mach>>
        /\ rec' = BoundPayment(w)
    BY InCall DEF Complete, Finish, Sound, At
  <1>2. PICK t \in Txs : t = Tx(w)
    BY <1>1, FrameFields
  <1>3. Busy(w, {"judged", "rejudged"})
    BY <1>1, InCall DEF Busy, Sound
  <1>4. Machine(t).state = "PASS"
    BY <1>1, <1>2, <1>3 DEF TurnInv, CallFits, MachineFollows
  <1>5. o \in Outcomes
    BY <1>1, OutcomeTyped, FrameFields DEF Stages, Answers, Verdicts
  <1>6. /\ o.stage = "COMPLETED" /\ o.m = rec[t].m /\ o.state = "PASS"
        /\ o.total = th[w].total /\ o.goods = th[w].goods
    BY <1>2, <1>4 DEF Outcome
  <1>7. \A u \in Txs : rec'[u].m = rec[u].m /\ rec'[u].proof = rec[u].proof
    BY <1>1, PaymentBound
  <1> HIDE DEF o
  <1>8. Departs(w, t, o)
    BY <1>1, <1>3, <1>6, <1>7 DEF Departs
  <1> QED
    BY <1>1, <1>2, <1>5, <1>8, Departing

LEMMA TurnAbstain ==
  ASSUME Sound, TurnInv, CallsInTurn, NEW w \in Threads, Abstain(w)
  PROVE  TurnInv'
  <1> DEFINE o == Outcome(w, "ABSTAINED", th[w].first, Machine(Tx(w)).state)
  <1>1. /\ th[w] \in Frames /\ th[w].pc \in {"judged", "rejudged", "resolved"}
        /\ rec[Tx(w)].m # 0 /\ Leave(w, o) /\ UNCHANGED <<count, store, mach, rec>>
    BY InCall DEF Abstain, Exhausted, Judged, Finish, Sound, At
  <1>2. PICK t \in Txs : t = Tx(w)
    BY <1>1, FrameFields
  <1>3. th[w].first \in Answers
    BY <1>1 DEF Frames
  <1>4. o \in Outcomes /\ o.stage = "ABSTAINED"
    BY <1>1, <1>3, OutcomeTyped, FrameFields DEF Stages, Outcome
  <1> HIDE DEF o
  <1>5. Departs(w, t, o)
    BY <1>1, <1>4 DEF Departs
  <1> QED
    BY <1>1, <1>2, <1>4, <1>5, Departing

(***************************************************************************)
(* A revised offer is always judged: the machine has moved with the call,  *)
(* and every verdict may follow.                                           *)
(***************************************************************************)
LEMMA RevisedIsJudged ==
  ASSUME Sound, TurnInv, NEW w \in Threads, th[w] \in Frames, th[w].pc = "revised",
         rec[Tx(w)].m # 0
  PROVE  CanAnswer(Tx(w), Input(w).clock, Verdict(Tx(w)))
  <1>1. Busy(w, {"revised"})
    BY InCall DEF Busy, Sound
  <1>2. Machine(Tx(w)).state = "REVALIDATING" /\ Machine(Tx(w)).time = Input(w).clock
    BY <1>1 DEF TurnInv, CallFits, MachineFollows
  <1>3. Verdict(Tx(w)) \in PermittedTransitions["REVALIDATING"]
    BY VerdictKinds DEF PermittedTransitions, LifecycleStates
  <1>4. Input(w).clock >= Machine(Tx(w)).time
    BY <1>2, FrameFields, InputFields
  <1> QED
    BY <1>2, <1>3, <1>4, VerdictKinds DEF CanAnswer, CanTransition, LifecycleStates, Verdicts

LEMMA TurnRaise ==
  ASSUME Sound, TurnInv, CallsInTurn, NEW w \in Threads, Raise(w)
  PROVE  TurnInv'
  <1> DEFINE o == Outcome(w, "RAISED", "NONE", "NONE")
  <1>1. /\ th[w] \in Frames /\ Raises(w) /\ Leave(w, o) /\ UNCHANGED <<count, store, mach>>
        /\ rec' = BoundPayment(w)
    BY InCall DEF Raise, Sound
  <1>2. PICK t \in Txs : t = Tx(w)
    BY <1>1, FrameFields
  <1>3. o \in Outcomes /\ o.stage = "RAISED"
    BY <1>1, OutcomeTyped DEF Stages, Answers, Outcome
  <1>4. \A u \in Txs : rec'[u].m = rec[u].m /\ rec'[u].proof = rec[u].proof
    BY <1>1, PaymentBound
  <1>5. th[w].pc \in {"admitted", "revised"} => ~CanAnswer(t, Input(w).clock, Verdict(t))
    BY <1>1, <1>2, FrameFields
       DEF Raises, At, Captures, Claims, MayReplan, Judged, Recovers, Exhausted
  <1>6. th[w].pc = "revised" => rec[t].m = 0
    BY <1>1, <1>2, <1>5, RevisedIsJudged
  <1>7. th[w].pc = "admitted" =>
          rec[t].m = 0 \/ Machine(t).state # "CREATED" \/ Input(w).clock < Machine(t).time
    <2>1. rec[t].m # 0 => Input(w).clock \in Nat /\ Machine(t).time \in Nat
      BY <1>1, <1>2, FrameFields, InputFields DEF Machines
    <2> QED
      BY <1>5, <2>1 DEF CanAnswer
  <1> HIDE DEF o
  <1>8. Departs(w, t, o)
    BY <1>1, <1>3, <1>4, <1>6, <1>7 DEF Departs
  <1> QED
    BY <1>1, <1>2, <1>3, <1>8, Departing

LEMMA TurnRecover ==
  ASSUME Sound, TurnInv, CallsInTurn, NEW w \in Threads, Recover(w)
  PROVE  TurnInv'
  <1> DEFINE o == Outcome(w, "RECOVERING", "DRIFT", mach'[rec[Tx(w)].m].state)
  <1>1. /\ th[w] \in Frames /\ th[w].pc \in {"judged", "rejudged", "resolved"}
        /\ th[w].first = "DRIFT" /\ rec[Tx(w)].proof
        /\ rec[Tx(w)].m # 0 /\ Leave(w, o) /\ UNCHANGED <<count, store, rec>>
        /\ mach' = Moved(w, "RECOVERING")
    BY InCall DEF Recover, Recovers, Proven, Exhausted, Judged, Sound, At
  <1>2. PICK t \in Txs : t = Tx(w)
    BY <1>1, FrameFields
  <1>3. Machine(t).state = "DRIFT"
    <2>1. MachineFollows(w)
      BY DEF TurnInv, CallFits
    <2>2. \A places : th[w].pc \in places => Busy(w, places)
      BY <1>1, InCall DEF Busy, Sound
    <2>3. th[w].pc # "resolved"
      BY <1>1, <2>1, <2>2 DEF MachineFollows
    <2>4. Busy(w, {"judged", "rejudged"})
      BY <1>1, <2>2, <2>3
    <2> QED
      BY <1>1, <1>2, <2>1, <2>4 DEF MachineFollows
  <1>4. /\ mach' \in [Calls -> Machines] /\ mach'[rec[t].m].state = "RECOVERING"
        /\ \A m \in Calls : m # rec[t].m => mach'[m] = mach[m]
    BY <1>1, <1>2, <1>3, MovedMachine DEF LifecycleStates
  <1>5. o \in Outcomes /\ o.stage = "RECOVERING" /\ o.state = "RECOVERING"
    BY <1>1, <1>2, <1>4, OutcomeTyped DEF Stages, Answers, Verdicts, LifecycleStates, Outcome
  <1> HIDE DEF o
  <1>6. Departs(w, t, o)
    BY <1>1, <1>2, <1>3, <1>4, <1>5 DEF Departs
  <1> QED
    BY <1>1, <1>2, <1>5, <1>6, Departing

LEMMA TurnCreate ==
  ASSUME Sound, TurnInv, NEW t \in Txs, NEW a \in Attempts, Create(t, a)
  PROVE  TurnInv'
  <1>1. /\ UNCHANGED <<count, mach, outs, th>>
        /\ \A u \in Txs : u # t => rec'[u] = rec[u] /\ store'[u] = store[u]
    BY DEF Create, Sound, Typed
  <1>2. rec'[t].m = 0 /\ store'[t] = EmptyStore
    <2>1. rec' = [rec EXCEPT ![t] = [NoRecord EXCEPT !.attempt = a]] /\ a \in Nat
      BY CatalogAssumption DEF Create
    <2>2. [NoRecord EXCEPT !.attempt = a].m = 0
      BY <2>1, Unbound, RecordOpened
    <2> QED
      BY <2>1, <2>2 DEF Create, Sound, Typed
  <1>3. \A v \in Threads : th[v] # Idle => Tx(v) \in Txs
    BY FrameFields, InCall DEF Sound, Typed
  <1>4. \A v \in Threads : \A places :
          Busy(v, places)' => Busy(v, places) /\ Tx(v) \in Txs /\ Tx(v) # t
    BY <1>1, <1>2, <1>3 DEF Busy, Tx
  <1>5. ASSUME NEW v \in Threads PROVE CallFits(v)'
    <2>1. CallFits(v)
      BY DEF TurnInv
    <2>2. CASE th[v] # Idle /\ Tx(v) # t
      <3>1. /\ Tx(v)' = Tx(v) /\ Input(v)' = Input(v) /\ th'[v] = th[v]
            /\ rec'[Tx(v)] = rec[Tx(v)] /\ store'[Tx(v)] = store[Tx(v)]
        BY <1>1, <1>3, <2>2 DEF Tx, Input
      <3>2. mach'[rec'[Tx(v)'].m] = mach[rec[Tx(v)].m]
        BY <1>1, <3>1
      <3>3. Machine(Tx(v))' = Machine(Tx(v))
        BY <3>2 DEF Machine
      <3>4. \A places : Busy(v, places)' <=> Busy(v, places)
        BY <3>1 DEF Busy
      <3>5. MachineFollows(v)' /\ StandsForOffer(v)'
        BY <2>1, <3>1, <3>3, <3>4 DEF CallFits, MachineFollows, StandsForOffer
      <3>6. PassFits(v)'
        BY <1>1, <2>1, <3>1, <3>3, <3>4 DEF CallFits, PassFits, Completed
      <3> QED
        BY <3>5, <3>6 DEF CallFits
    <2>3. CASE ~(th[v] # Idle /\ Tx(v) # t)
      <3>1. \A places : ~Busy(v, places)'
        BY <1>4, <2>3 DEF Busy
      <3> QED
        BY <3>1 DEF CallFits, MachineFollows, StandsForOffer, PassFits
    <2> QED
      BY <2>2, <2>3
  <1>6. ASSUME NEW u \in Txs PROVE RecordFits(u)'
    <2>1. CASE u = t
      BY <1>2, <2>1, FS_EmptySet DEF RecordFits, Revalidates, ItemsOnRecord, EmptyStore
    <2>2. CASE u # t
      <3>1. rec'[u] = rec[u] /\ store'[u] = store[u] /\ Machine(u)' = Machine(u)
        BY <1>1, <2>2 DEF Machine
      <3> QED
        BY <1>1, <3>1 DEF TurnInv, RecordFits, Revalidates, ItemsOnRecord, Tx, Input
    <2> QED
      BY <2>1, <2>2
  <1>7. OwnMachine'
    BY <1>1, <1>2 DEF TurnInv, OwnMachine
  <1>8. MachinesReached' /\ CompletionsFit' /\ CompletedOnce' /\ RecoveryNeedsDrift'
    BY <1>1 DEF TurnInv, MachinesReached, CompletionsFit, CompletedOnce, RecoveryNeedsDrift,
       Completed
  <1> QED
    BY <1>5, <1>6, <1>7, <1>8 DEF TurnInv

LEMMA TurnReuse ==
  ASSUME Sound, TurnInv, NEW w \in Threads, NEW c \in Inputs, Reuse(w, c)
  PROVE  TurnInv'
  <1>1. PICK n \in Calls : n = count + 1
    BY BudgetAssumption DEF Reuse, Sound, Typed, Calls
  <1>2. PICK j \in Calls : j = cache[c.key]
    BY InputFields, BudgetAssumption DEF Reuse, Cached, Sound, Typed, Calls
  <1>3. /\ count' = n /\ UNCHANGED <<rec, mach, store, th>>
        /\ outs'[n] = outs[j] /\ \A i \in Calls : i # n => outs'[i] = outs[i]
    BY <1>1, <1>2 DEF Reuse, Sound, Typed
  <1>4. \A i \in Calls : Completed(i)' => \E k \in Calls : Completed(k) /\ outs'[i] = outs[k]
    BY <1>3 DEF Completed
  <1>5. ASSUME NEW v \in Threads PROVE CallFits(v)'
    <2>1. CallFits(v)
      BY DEF TurnInv
    <2>2. /\ Machine(Tx(v))' = Machine(Tx(v)) /\ Tx(v)' = Tx(v) /\ Input(v)' = Input(v)
          /\ \A places : Busy(v, places)' <=> Busy(v, places)
      BY <1>3 DEF Machine, Tx, Input, Busy
    <2>3. MachineFollows(v)' /\ StandsForOffer(v)'
      BY <1>3, <2>1, <2>2 DEF CallFits, MachineFollows, StandsForOffer
    <2>4. PassFits(v)'
      BY <1>3, <1>4, <2>1, <2>2 DEF CallFits, PassFits
    <2> QED
      BY <2>3, <2>4 DEF CallFits
  <1>6. \A u \in Txs : RecordFits(u)'
    BY <1>3 DEF TurnInv, RecordFits, Revalidates, ItemsOnRecord, Machine, Tx, Input
  <1>7. OwnMachine' /\ MachinesReached'
    BY <1>3 DEF TurnInv, OwnMachine, MachinesReached
  <1>8. CompletionsFit'
    <2> SUFFICES ASSUME NEW i \in Calls, Completed(i)'
                 PROVE  /\ outs'[i].m \in 1 .. n /\ mach[outs'[i].m].state = "PASS"
                        /\ outs'[i].total <= mach[outs'[i].m].limit
                        /\ outs'[i].goods = "authorized"
      BY <1>3 DEF CompletionsFit
    <2>1. PICK k \in Calls : Completed(k) /\ outs'[i] = outs[k]
      BY <1>4
    <2> QED
      BY <2>1, <1>1 DEF TurnInv, CompletionsFit, Sound, Typed
  <1>9. CompletedOnce'
    <2>1. CompletedOnce
      BY DEF TurnInv
    <2> QED
      BY <1>4, <2>1 DEF CompletedOnce
  <1>10. RecoveryNeedsDrift'
    BY <1>3 DEF TurnInv, RecoveryNeedsDrift
  <1> QED
    BY <1>5, <1>6, <1>7, <1>8, <1>9, <1>10 DEF TurnInv

LEMMA TurnEnter ==
  ASSUME Sound, TurnInv, CallsInTurn', NEW w \in Threads, NEW c \in Inputs, Enter(w, c)
  PROVE  TurnInv'
  <1>1. PICK t \in Txs : t = c.tx
    BY InputFields
  <1>2. PICK n \in Calls : n = count + 1 /\ n > count /\ n # 0
    BY BudgetAssumption DEF Enter, Sound, Typed, Calls
  <1>3. /\ th[w] = Idle /\ th'[w] = Opened(n, c) /\ \A v \in Threads : v # w => th'[v] = th[v]
        /\ count' = n /\ UNCHANGED <<store, outs>>
    BY <1>2, InCall DEF Enter, Sound, Typed
  <1>4. th'[w].pc = "opened" /\ th'[w] # Idle /\ Tx(w)' = t
    BY <1>1, <1>3 DEF Opened, Idle, Tx
  <1>5. /\ rec'[t].m = IF rec[t].m = 0 THEN n ELSE rec[t].m
        /\ \A u \in Txs : u # t => rec'[u] = rec[u]
    <2> DEFINE r == IF rec[t].attempt = 0
                      THEN [NoRecord EXCEPT !.attempt = c.attempt, !.m = n]
                    ELSE IF rec[t].m = 0 THEN [rec[t] EXCEPT !.m = n] ELSE rec[t]
    <2>1. rec' = [rec EXCEPT ![t] = r]
      BY <1>1, <1>2 DEF Enter
    <2>2. rec[t] \in Records /\ (rec[t].attempt = 0 => rec[t].m = 0) /\ NoRecord \in Records
      BY Unbound DEF Sound, Typed, RecordsSound
    <2>3. r.m = IF rec[t].m = 0 THEN n ELSE rec[t].m
      BY <2>2 DEF Records
    <2> HIDE DEF r
    <2> QED
      BY <2>1, <2>3 DEF Sound, Typed
  <1>6. /\ \A m \in Calls : m # n => mach'[m] = mach[m]
        /\ rec[t].m = 0 => mach'[n].state = "CREATED"
        /\ rec[t].m # 0 => mach' = mach
    BY <1>1, <1>2 DEF Enter, Sound, Typed
  <1>7. \A u \in Txs : rec[u].m # 0 => rec[u].m \in Calls /\ rec[u].m # n
    BY <1>2 DEF Sound, Typed, RecordsSound, Records, Calls
  <1>8. \A v \in Threads : v # w /\ th[v] # Idle => Tx(v)' = Tx(v) /\ Tx(v) # t /\ Tx(v) \in Txs
    <2>1. \A v \in Threads : v # w /\ th[v] # Idle => Tx(v)' = Tx(v) /\ Tx(v) \in Txs
      BY <1>3, FrameFields, InCall DEF Tx, Sound, Typed
    <2>2. \A v \in Threads : v # w /\ th[v] # Idle => th'[v] # Idle
      BY <1>3
    <2> QED
      BY <1>4, <2>1, <2>2 DEF CallsInTurn
  <1>9. \A u \in Txs : u # t /\ rec[u].m # 0 => Machine(u)' = Machine(u)
    BY <1>5, <1>6, <1>7 DEF Machine
  <1>10. ASSUME NEW v \in Threads PROVE CallFits(v)'
    <2>1. CASE v = w
      BY <1>4, <2>1 DEF CallFits, MachineFollows, StandsForOffer, PassFits, Busy
    <2>2. CASE v # w /\ th[v] = Idle
      BY <1>3, <2>2 DEF CallFits, MachineFollows, StandsForOffer, PassFits, Busy
    <2>3. CASE v # w /\ th[v] # Idle
      <3>1. PICK u \in Txs : u = Tx(v) /\ u # t
        BY <1>8, <2>3
      <3>2. /\ Tx(v)' = u /\ Input(v)' = Input(v) /\ th'[v] = th[v]
            /\ rec'[u] = rec[u] /\ store'[u] = store[u]
        BY <1>3, <1>5, <1>8, <2>3, <3>1 DEF Input
      <3>3. \A places : Busy(v, places)' <=> Busy(v, places)
        BY <3>1, <3>2 DEF Busy
      <3>4. rec[u].m # 0 => mach'[rec'[u].m] = mach[rec[u].m]
        BY <1>6, <1>7, <3>2
      <3>5. rec[u].m # 0 => Machine(Tx(v))' = Machine(Tx(v))
        BY <3>1, <3>2, <3>4 DEF Machine
      <3>6. \A places : Busy(v, places) => rec[u].m # 0
        BY <3>1 DEF Busy
      <3>7. CallFits(v)
        BY DEF TurnInv
      <3>8. MachineFollows(v)' /\ StandsForOffer(v)'
        BY <3>1, <3>2, <3>3, <3>5, <3>6, <3>7 DEF CallFits, MachineFollows, StandsForOffer
      <3>9. PassFits(v)'
        BY <1>3, <3>1, <3>2, <3>3, <3>5, <3>6, <3>7 DEF CallFits, PassFits, Completed
      <3> QED
        BY <3>8, <3>9 DEF CallFits
    <2> QED
      BY <2>1, <2>2, <2>3
  <1>11. ASSUME NEW u \in Txs PROVE RecordFits(u)'
    <2>1. \A v \in Threads : th[v] # Idle => th'[v] = th[v] /\ Tx(v)' = Tx(v) /\ Input(v)' = Input(v)
      BY <1>3, <1>8 DEF Input
    <2>2. RecordFits(u) /\ store'[u] = store[u]
      BY <1>3 DEF TurnInv
    <2>3. CASE u = t /\ rec[t].m = 0
      <3>1. rec'[u].m # 0 /\ Machine(u)'.state = "CREATED" /\ store[u].items = {}
        BY <1>2, <1>5, <1>6, <2>2, <2>3 DEF Machine, RecordFits, ItemsOnRecord
      <3> QED
        BY <2>2, <3>1 DEF RecordFits, Revalidates, ItemsOnRecord
    <2>4. CASE ~(u = t /\ rec[t].m = 0)
      <3>1. rec'[u].m = rec[u].m /\ (rec[u].m # 0 => Machine(u)' = Machine(u))
        BY <1>5, <1>6, <1>9, <2>4 DEF Machine
      <3>2. Revalidates(u)'
        BY <2>1, <2>2, <3>1 DEF RecordFits, Revalidates
      <3>3. ItemsOnRecord(u)'
        BY <2>1, <2>2, <3>1 DEF RecordFits, ItemsOnRecord, Observed
      <3> QED
        BY <3>2, <3>3 DEF RecordFits
    <2> QED
      BY <2>3, <2>4
  <1>12. OwnMachine'
    BY <1>5, <1>7 DEF TurnInv, OwnMachine
  <1>13. MachinesReached'
    BY <1>2, <1>6 DEF TurnInv, MachinesReached
  <1>14. CompletionsFit'
    <2> SUFFICES ASSUME NEW i \in Calls, Completed(i)
                 PROVE  /\ outs[i].m \in 1 .. n /\ mach'[outs[i].m].state = "PASS"
                        /\ outs[i].total <= mach'[outs[i].m].limit
                        /\ outs[i].goods = "authorized"
      BY <1>3 DEF CompletionsFit, Completed
    <2>1. /\ outs[i].m \in 1 .. count /\ mach[outs[i].m].state = "PASS"
          /\ outs[i].total <= mach[outs[i].m].limit
          /\ outs[i].goods = "authorized"
      BY DEF TurnInv, CompletionsFit
    <2>2. outs[i].m \in Calls /\ outs[i].m # n /\ outs[i].m \in 1 .. n
      BY <1>2, <2>1, BudgetAssumption DEF Calls, Sound, Typed
    <2> QED
      BY <1>6, <2>1, <2>2
  <1>15. CompletedOnce' /\ RecoveryNeedsDrift'
    BY <1>3 DEF TurnInv, CompletedOnce, RecoveryNeedsDrift, Completed
  <1> QED
    BY <1>10, <1>11, <1>12, <1>13, <1>14, <1>15 DEF TurnInv

(***************************************************************************)
(* What PASS says of the record: the top amounts agree, and agree with     *)
(* what the call stands for; and the latest items are the ordered ones.    *)
(***************************************************************************)
LEMMA SingleValue ==
  ASSUME NEW S, IsFiniteSet(S), Cardinality(S) = 1
  PROVE  \E x : S = {x}
  <1>1. PICK x : x \in S
    BY FS_EmptySet
  <1>2. IsFiniteSet(S \ {x}) /\ Cardinality(S \ {x}) = 0
    BY <1>1, FS_RemoveElement
  <1>3. S \ {x} = {}
    BY <1>2, FS_EmptySet
  <1> QED
    BY <1>1, <1>3

LEMMA FiniteValues ==
  ASSUME NEW S, IsFiniteSet(S)
  PROVE  IsFiniteSet(Values(S))
  <1> DEFINE f == [e \in S |-> e.value]
  <1>1. f \in Surjection(S, Values(S))
    BY DEF Surjection, Values
  <1> QED
    BY <1>1, FS_Surjection DEF ExistsSurjection

LEMMA AmountFits ==
  ASSUME NEW s \in Stores, IsFiniteSet(s.amounts), NEW limit \in Nat,
         Economic(s.amounts, limit) = "PASS",
         NEW e \in s.amounts, e.rank = MerchantRank
  PROVE  Amount(s, e.value) <= limit
  <1> DEFINE top == Top(s.amounts)
             values == Values(top)
             paid == {r.value : r \in {f \in s.amounts : f.rank = ProviderRank}} \ {NoAmount}
  <1>1. s.amounts \subseteq AmountRecords
    BY DEF Stores
  <1>2. IsFiniteSet(values)
    BY FS_Subset, FiniteValues DEF Top
  <1>3. Cardinality(values) = 1 /\ NoAmount \notin values /\ ~(\A v \in values : v > limit)
    BY DEF Economic
  <1>4. PICK a : values = {a}
    BY <1>2, <1>3, SingleValue
  <1>5. a # NoAmount /\ ~(a > limit)
    BY <1>3, <1>4
  <1>6. a \in Nat /\ a <= limit
    <2>1. \A r \in top : r.value \in Nat \cup {NoAmount}
      BY <1>1 DEF Top, AmountRecords
    <2>2. a \in Nat \cup {NoAmount}
      BY <1>4, <2>1 DEF Values
    <2> QED
      BY <1>5, <2>2
  <1>7. \A r \in s.amounts : r.rank = 4 \/ r.rank = 5
    BY <1>1 DEF AmountRecords, Ranks, MerchantRank, ProviderRank
  <1>8. CASE \E f \in s.amounts : f.rank = ProviderRank
    <2>1. top = {f \in s.amounts : f.rank = ProviderRank}
      BY <1>7, <1>8 DEF Top, ProviderRank
    <2>2. paid = {a}
      BY <1>4, <1>5, <2>1 DEF Values
    <2>3. Amount(s, e.value) = CHOOSE x \in paid : \A b \in paid : b <= x
      BY <2>2 DEF Amount
    <2>4. Amount(s, e.value) = CHOOSE x \in {a} : \A b \in {a} : b <= x
      BY <2>2, <2>3
    <2>5. Amount(s, e.value) = a
      BY <1>6, <2>4
    <2> QED
      BY <1>6, <2>5
  <1>9. CASE ~(\E f \in s.amounts : f.rank = ProviderRank)
    <2>1. paid = {}
      BY <1>9
    <2>2. Amount(s, e.value) = e.value
      BY <2>1 DEF Amount
    <2>3. e \in top
      BY <1>7, <1>9 DEF Top, ProviderRank, MerchantRank
    <2>4. e.value = a
      BY <1>4, <2>3 DEF Values
    <2> QED
      BY <1>6, <2>2, <2>4
  <1> QED
    BY <1>8, <1>9

LEMMA GoodsFit ==
  ASSUME NEW items \in SUBSET ItemRecords, Semantic(items) = "PASS", NEW g \in items,
         g.rank = MerchantRank,
         \A e \in items : e.rank = MerchantRank /\ (e = g \/ e.at < g.at)
  PROVE  g.value = "authorized"
  <1> DEFINE latest == {e \in Top(items) : \A f \in Top(items) : f.at <= e.at}
  <1>1. Top(items) = items
    BY DEF Top, MerchantRank
  <1>2. \A f \in items : f.at \in Nat /\ f.at <= g.at
    BY DEF ItemRecords
  <1>3. g \in latest
    BY <1>1, <1>2
  <1>4. "diverging" \notin Values(latest)
    BY <1>3 DEF Semantic
  <1>5. g.value # "diverging"
    BY <1>3, <1>4 DEF Values
  <1> QED
    BY <1>5 DEF ItemRecords, GoodsKinds

LEMMA PassOfRecord ==
  ASSUME NEW t, Verdict(t) = "PASS"
  PROVE  /\ Economic(store[t].amounts, Machine(t).limit) = "PASS"
         /\ Semantic(store[t].items) = "PASS"
  <1> DEFINE econ == Economic(store[t].amounts, Machine(t).limit)
             sem == Semantic(store[t].items)
             temp == Temporal(store[t].events, store[t].repeats # {}, 1)
  <1>1. econ \in Verdicts /\ sem \in Verdicts
    BY DEF Economic, Semantic, Verdicts
  <1>2. Verdict(t) = Overall({econ, sem, temp})
    BY DEF Verdict, Evaluate
  <1> HIDE DEF econ, sem, temp
  <1>3. econ = "PASS" /\ sem = "PASS"
    BY <1>1, <1>2 DEF Overall, Verdicts
  <1> QED
    BY <1>3 DEF econ, sem

LEMMA TurnAdmit ==
  ASSUME Sound, TurnInv, CallsInTurn, NEW w \in Threads, Admit(w)
  PROVE  TurnInv'
  <1>1. /\ SameOtherwise(w) /\ SameCall(w) /\ th[w] \in Frames
        /\ UNCHANGED <<rec, mach>> /\ rec[Tx(w)].m # 0
        /\ th'[w].pc = "admitted" /\ th'[w].goods = Goods(Input(w))
        /\ th'[w].total = Amount(store'[Tx(w)], Offered(Input(w)))
        /\ store'[Tx(w)].items =
             store[Tx(w)].items \cup {Observed(Input(w), MerchantRank, Goods(Input(w)))}
        /\ Observed(Input(w), MerchantRank, Offered(Input(w))) \in store'[Tx(w)].amounts
        /\ IsFiniteSet(store[Tx(w)].amounts) => IsFiniteSet(store'[Tx(w)].amounts)
    BY AdmitEffect
  <1>2. PICK t \in Txs, c \in Inputs : t = Tx(w) /\ c = Input(w)
    BY <1>1, FrameFields
  <1>3. UNCHANGED <<count, outs>> /\ th[w].pc = "opened"
    BY DEF Admit, At
  <1>4. Tx(w)' = t /\ Input(w)' = c /\ th[w] # Idle /\ th'[w] # Idle
    BY <1>1, <1>2, InCall DEF SameCall, Tx, Input, Sound
  <1>5. Aside(w)
    BY <1>1, <1>3 DEF Aside, SameOtherwise, Completed
  <1>6. CallFits(w)'
    <2>1. \A places : Busy(w, places)' => "admitted" \in places
      BY <1>1 DEF Busy
    <2>2. MachineFollows(w)' /\ PassFits(w)'
      BY <2>1 DEF MachineFollows, PassFits
    <2>3. StandsForOffer(w)'
      <3> DEFINE e == Observed(c, MerchantRank, Offered(c))
      <3>1. e.rank = MerchantRank /\ e.value = Offered(c)
        BY DEF Observed
      <3>2. e \in store'[t].amounts /\ th'[w].total = Amount(store'[t], e.value)
        BY <1>1, <1>2, <3>1
      <3>3. Observed(c, MerchantRank, th'[w].goods) \in store'[t].items
        BY <1>1, <1>2
      <3> QED
        BY <1>4, <3>1, <3>2, <3>3 DEF StandsForOffer, Observed, MerchantRank
    <2> QED
      BY <2>2, <2>3 DEF CallFits
  <1>7. \A v \in Threads : th[v] # Idle /\ Tx(v) = t => v = w
    BY <1>2, <1>4 DEF CallsInTurn
  <1>8. Machine(t)' = Machine(t) /\ rec'[t] = rec[t]
    BY <1>1 DEF Machine
  <1>9. Revalidates(t)'
    BY <1>1, <1>2, <1>3, <1>7, <1>8 DEF TurnInv, RecordFits, Revalidates
  <1>10. ItemsOnRecord(t)'
    <2>1. ItemsOnRecord(t)
      BY DEF TurnInv, RecordFits
    <2>2. ASSUME Machine(t).state = "CREATED", NEW e \in store'[t].items
          PROVE  /\ e.rank = MerchantRank
                 /\ \/ e.at < 10 * Machine(t).time
                    \/ \E v \in Threads :
                         /\ th'[v] # Idle /\ th'[v].pc = "admitted" /\ Tx(v)' = t
                         /\ e = Observed(Input(v)', MerchantRank, th'[v].goods)
      <3>1. CASE e \in store[t].items
        BY <1>1, <1>2, <1>3, <1>7, <2>1, <2>2, <3>1 DEF ItemsOnRecord
      <3>2. CASE e = Observed(c, MerchantRank, Goods(c))
        BY <1>1, <1>2, <1>4, <3>2 DEF Observed
      <3> QED
        BY <1>1, <1>2, <3>1, <3>2
    <2> QED
      BY <1>1, <1>2, <1>8, <2>1, <2>2 DEF ItemsOnRecord, Observed
  <1>11. MachinesReached' /\ CompletionsFit' /\ CompletedOnce' /\ RecoveryNeedsDrift'
    BY <1>1, <1>3 DEF TurnInv, MachinesReached, CompletionsFit, CompletedOnce,
       RecoveryNeedsDrift, Completed
  <1> QED
    BY <1>1, <1>2, <1>5, <1>6, <1>9, <1>10, <1>11, TurnStep DEF RecordFits

(***************************************************************************)
(* Only a new machine and a revalidating one are judged: a call cannot     *)
(* make an answered machine answer again.                                  *)
(***************************************************************************)
LEMMA JudgedFrom ==
  ASSUME Sound, TurnInv, CallsInTurn, NEW w \in Threads, th[w] \in Frames,
         th[w].pc \in ToJudge, rec[Tx(w)].m # 0,
         CanAnswer(Tx(w), Input(w).clock, Verdict(Tx(w)))
  PROVE  \/ th[w].pc = "admitted" /\ Machine(Tx(w)).state = "CREATED"
         \/ th[w].pc = "revised" /\ Machine(Tx(w)).state = "REVALIDATING"
  <1>1. PICK t \in Txs : t = Tx(w)
    BY FrameFields
  <1>2. PICK s \in LifecycleStates : s = Machine(t).state
    BY <1>1, FrameFields
  <1>3. th[w] # Idle
    BY InCall DEF Sound
  <1>4. s \in Verdicts \cup {"CREATED", "RECOVERING", "REVALIDATING"}
    <2>1. rec[t].m \in Calls
      BY <1>1, FrameFields
    <2>2. s \in Verdicts \cup {"ABSENT", "CREATED", "RECOVERING", "REVALIDATING"}
      BY <1>2, <2>1 DEF TurnInv, MachinesReached, Machine
    <2> QED
      BY <2>2 DEF LifecycleStates
  <1>5. s = "CREATED" \/ CanTransition(s, Verdict(t))
    BY <1>1, <1>2 DEF CanAnswer
  <1>6. s \in {"CREATED", "REVALIDATING"}
    <2>1. Verdict(t) \in Verdicts
      BY VerdictKinds
    <2>2. \A x \in {"PASS", "DRIFT", "UNKNOWN", "RECOVERING"} :
             \A v \in Verdicts : v \notin PermittedTransitions[x]
      BY DEF PermittedTransitions, LifecycleStates, Verdicts
    <2> QED
      BY <1>4, <1>5, <2>1, <2>2 DEF CanTransition, Verdicts
  <1>7. s = "REVALIDATING" => th[w].pc = "revised"
    BY <1>1, <1>2, <1>3 DEF TurnInv, RecordFits, Revalidates, CallsInTurn
  <1>8. th[w].pc = "revised" => s = "REVALIDATING"
    BY <1>1, <1>2, <1>3 DEF TurnInv, CallFits, MachineFollows, Busy
  <1>9. th[w].pc = "resolved" => s = "UNKNOWN"
    BY <1>1, <1>2, <1>3 DEF TurnInv, CallFits, MachineFollows, Busy
  <1> QED
    BY <1>1, <1>2, <1>6, <1>7, <1>8, <1>9 DEF ToJudge

(***************************************************************************)
(* What passes is what the intent allows: the amounts on record agree, so  *)
(* that the offer stands for them; and the items of the offer are the      *)
(* latest ones on a record that has not been judged.                       *)
(***************************************************************************)
LEMMA PassesWithin ==
  ASSUME Sound, TurnInv, CallsInTurn, NEW w \in Threads, th[w] \in Frames,
         th[w].pc \in ToJudge, rec[Tx(w)].m # 0,
         CanAnswer(Tx(w), Input(w).clock, Verdict(Tx(w))), Verdict(Tx(w)) = "PASS"
  PROVE  th[w].total <= Machine(Tx(w)).limit /\ th[w].goods = "authorized"
  <1>1. PICK t \in Txs, c \in Inputs : t = Tx(w) /\ c = Input(w)
    BY FrameFields
  <1>2. th[w] # Idle
    BY InCall DEF Sound
  <1>3. /\ Economic(store[t].amounts, Machine(t).limit) = "PASS"
        /\ Semantic(store[t].items) = "PASS"
    BY <1>1, PassOfRecord
  <1>4. \/ th[w].pc = "admitted" /\ Machine(t).state = "CREATED"
        \/ th[w].pc = "revised" /\ Machine(t).state = "REVALIDATING"
    BY <1>1, JudgedFrom
  <1>5. StandsForOffer(w) /\ MachineFollows(w) /\ ItemsOnRecord(t)
    BY DEF TurnInv, CallFits, RecordFits
  <1>6. store[t] \in Stores /\ rec[t].m \in Calls /\ Machine(t) \in Machines
    BY <1>1, FrameFields
  <1>7. Machine(t).limit \in Nat /\ Machine(t).time \in Nat
    BY <1>6 DEF Machines
  <1>8. th[w].total <= Machine(t).limit
    <2>1. Busy(w, {"admitted", "revised"})
      BY <1>2, <1>4 DEF Busy
    <2>2. PICK e \in store[t].amounts :
             e.rank = MerchantRank /\ th[w].total = Amount(store[t], e.value)
      BY <1>1, <1>5, <2>1 DEF StandsForOffer
    <2>3. IsFiniteSet(store[t].amounts)
      BY <1>5 DEF ItemsOnRecord
    <2>4. Amount(store[t], e.value) <= Machine(t).limit
      BY <1>3, <1>6, <1>7, <2>2, <2>3, AmountFits
    <2> QED
      BY <2>2, <2>4
  <1>9. CASE th[w].pc = "revised"
    BY <1>1, <1>2, <1>5, <1>8, <1>9 DEF MachineFollows, Busy
  <1>10. CASE th[w].pc = "admitted" /\ Machine(t).state = "CREATED"
    <2>1. PICK g \in store[t].items : g = Observed(c, MerchantRank, th[w].goods)
      BY <1>1, <1>2, <1>5, <1>10 DEF StandsForOffer, Busy
    <2>2. /\ g.rank = MerchantRank /\ g.value = th[w].goods
          /\ g.at = 10 * c.clock + c.attempt
      BY <2>1 DEF Observed
    <2>3. c.clock \in Nat /\ c.attempt \in 1 .. 9 /\ c.clock >= Machine(t).time
      BY <1>1, InputFields DEF CanAnswer
    <2>4. ASSUME NEW e \in store[t].items
          PROVE  e.rank = MerchantRank /\ (e = g \/ e.at < g.at)
      <3>1. e.rank = MerchantRank
        BY <1>1, <1>5, <1>10 DEF ItemsOnRecord
      <3>2. CASE e.at < 10 * Machine(t).time
        <4>1. e.at \in Nat
          BY <1>6 DEF Stores, ItemRecords
        <4> QED
          BY <1>7, <2>2, <2>3, <3>1, <3>2, <4>1
      <3>3. CASE ~(e.at < 10 * Machine(t).time)
        <4>1. PICK v \in Threads :
                 /\ th[v] # Idle /\ Tx(v) = t
                 /\ e = Observed(Input(v), MerchantRank, th[v].goods)
          BY <1>1, <1>5, <1>10, <3>3 DEF ItemsOnRecord
        <4>2. v = w
          BY <1>1, <1>2, <4>1 DEF CallsInTurn
        <4> QED
          BY <1>1, <2>1, <3>1, <4>1, <4>2
      <3> QED
        BY <3>2, <3>3
    <2>5. store[t].items \in SUBSET ItemRecords
      BY <1>6 DEF Stores
    <2>6. g.value = "authorized"
      BY <1>3, <2>2, <2>4, <2>5, GoodsFit
    <2> QED
      BY <1>1, <1>8, <2>2, <2>6
  <1> QED
    BY <1>4, <1>9, <1>10

LEMMA TurnJudge ==
  ASSUME Sound, TurnInv, CallsInTurn, NEW w \in Threads, Judge(w)
  PROVE  TurnInv'
  <1>1. /\ SameOtherwise(w) /\ SameCall(w) /\ th[w] \in Frames
        /\ UNCHANGED <<store, outs, cache, count>> /\ rec[Tx(w)].m # 0 /\ th[w].pc \in ToJudge
        /\ CanAnswer(Tx(w), Input(w).clock, Verdict(Tx(w)))
    BY JudgeEffect
  <1>2. PICK t \in Txs, m \in Calls, verdict \in Verdicts :
           t = Tx(w) /\ m = rec[t].m /\ verdict = Verdict(t)
    BY <1>1, FrameFields, VerdictKinds
  <1>3. /\ th'[w].verdict = verdict /\ th'[w].total = th[w].total /\ th'[w].goods = th[w].goods
        /\ th[w].pc = "admitted" => th'[w].pc = "judged" /\ th'[w].first = verdict
        /\ th[w].pc # "admitted" => th'[w].pc = "rejudged" /\ th'[w].first = th[w].first
        /\ rec'[t].proof <=> verdict = "DRIFT"
        /\ mach'[m].state = verdict /\ mach'[m].limit = Machine(t).limit
    BY <1>2, JudgeEffect
  <1>4. /\ \A u \in Txs : rec'[u].m = rec[u].m
        /\ \A u \in Txs : u # t => rec'[u] = rec[u]
        /\ \A i \in Calls : i # m => mach'[i] = mach[i]
    BY <1>2, JudgeEffect
  <1>5. \/ th[w].pc = "admitted" /\ Machine(t).state = "CREATED"
        \/ th[w].pc = "revised" /\ Machine(t).state = "REVALIDATING"
    BY <1>1, <1>2, JudgedFrom
  <1>6. Tx(w)' = t /\ th[w] # Idle /\ th'[w] # Idle
    BY <1>1, <1>2, InCall DEF SameCall, Tx, Sound
  <1>7. rec'[t].m = m /\ m # 0 /\ Machine(t)' = mach'[m]
    BY <1>1, <1>2, <1>4 DEF Machine
  <1>8. Aside(w)
    BY <1>1, <1>2, <1>4 DEF Aside, SameOtherwise, Completed
  <1>9. \A n \in Calls : Completed(n) => outs[n].m # m
    BY <1>2, <1>5 DEF TurnInv, CompletionsFit, Machine
  <1>10. CallFits(w)'
    <2>1. MachineFollows(w)'
      <3>1. th[w].pc = "revised" => th[w].first = "DRIFT"
        BY <1>1, <1>6 DEF TurnInv, CallFits, MachineFollows, Busy
      <3>2. th'[w].pc = "judged" => th'[w].first = verdict
        BY <1>3, <1>5
      <3>3. th'[w].pc = "rejudged" => th'[w].first = "DRIFT"
        BY <1>3, <1>5, <3>1
      <3>4. th'[w].pc \in {"judged", "rejudged"}
        BY <1>3
      <3> QED
        BY <1>3, <1>6, <1>7, <3>2, <3>3, <3>4 DEF MachineFollows, Busy
    <2>2. StandsForOffer(w)'
      BY <1>3 DEF StandsForOffer, Busy
    <2>3. PassFits(w)'
      <3>1. verdict = "PASS" => th[w].total <= Machine(t).limit /\ th[w].goods = "authorized"
        BY <1>1, <1>2, PassesWithin
      <3> QED
        BY <1>1, <1>3, <1>6, <1>7, <1>9, <3>1 DEF PassFits, Completed
    <2> QED
      BY <2>1, <2>2, <2>3 DEF CallFits
  <1>11. RecordFits(t)'
    <2>1. Machine(t)'.state \in Verdicts
      BY <1>3, <1>7
    <2>2. IsFiniteSet(store[t].amounts)
      BY DEF TurnInv, RecordFits, ItemsOnRecord
    <2> QED
      BY <1>1, <1>7, <2>1, <2>2 DEF RecordFits, Revalidates, ItemsOnRecord, Verdicts
  <1>12. MachinesReached'
    BY <1>3, <1>4 DEF TurnInv, MachinesReached
  <1>13. CompletionsFit'
    <2> SUFFICES ASSUME NEW n \in Calls, Completed(n)
                 PROVE  /\ outs[n].m \in 1 .. count /\ mach'[outs[n].m].state = "PASS"
                        /\ outs[n].total <= mach'[outs[n].m].limit
                        /\ outs[n].goods = "authorized"
      BY <1>1 DEF CompletionsFit, Completed
    <2>1. /\ outs[n].m \in 1 .. count /\ mach[outs[n].m].state = "PASS"
          /\ outs[n].total <= mach[outs[n].m].limit /\ outs[n].goods = "authorized"
      BY DEF TurnInv, CompletionsFit
    <2>2. outs[n].m \in Calls
      BY <2>1, BudgetAssumption DEF Calls, Sound, Typed
    <2> QED
      BY <1>4, <1>9, <2>1, <2>2
  <1>14. CompletedOnce' /\ RecoveryNeedsDrift'
    BY <1>1 DEF TurnInv, CompletedOnce, RecoveryNeedsDrift, Completed
  <1> QED
    BY <1>1, <1>2, <1>8, <1>10, <1>11, <1>12, <1>13, <1>14, TurnStep

\* The amount a call stands for depends on payments alone.
LEMMA AmountByPayments ==
  ASSUME NEW r, NEW s, NEW offer,
         {f \in r.amounts : f.rank = ProviderRank} = {f \in s.amounts : f.rank = ProviderRank}
  PROVE  Amount(r, offer) = Amount(s, offer)
  <1> DEFINE Paid(facts) == {e.value : e \in facts} \ {NoAmount}
             Stated(facts) ==
               IF Paid(facts) = {} THEN offer
               ELSE CHOOSE a \in Paid(facts) : \A b \in Paid(facts) : b <= a
             P == {f \in r.amounts : f.rank = ProviderRank}
             Q == {f \in s.amounts : f.rank = ProviderRank}
  <1>1. Amount(r, offer) = Stated(P) /\ Amount(s, offer) = Stated(Q) /\ P = Q
    BY Zenon DEF Amount
  <1> HIDE DEF Stated, P, Q
  <1> QED
    BY <1>1

LEMMA TurnReplan ==
  ASSUME Sound, TurnInv, CallsInTurn, NEW w \in Threads, Replan(w)
  PROVE  TurnInv'
  <1>1. /\ SameOtherwise(w) /\ SameCall(w) /\ th[w] \in Frames
        /\ rec' = rec /\ rec[Tx(w)].m # 0 /\ mach' = Moved(w, "REVALIDATING")
        /\ Judged(w, "DRIFT") /\ th'[w].pc = "revised" /\ th'[w].goods = "authorized"
        /\ th'[w].first = th[w].first
        /\ th'[w].total = Amount(store[Tx(w)], Revised(Input(w)))
        /\ store'[Tx(w)].amounts =
             {e \in store[Tx(w)].amounts : e.rank # MerchantRank}
               \cup {Observed(Input(w), MerchantRank, Revised(Input(w)))}
        /\ IsFiniteSet(store[Tx(w)].amounts) => IsFiniteSet(store'[Tx(w)].amounts)
    BY ReplanEffect
  <1>2. PICK t \in Txs, c \in Inputs, m \in Calls : t = Tx(w) /\ c = Input(w) /\ m = rec[t].m
    BY <1>1, FrameFields
  <1>3. UNCHANGED <<count, outs>>
    BY DEF Replan
  <1>4. Tx(w)' = t /\ Input(w)' = c /\ th[w] # Idle /\ th'[w] # Idle
    BY <1>1, <1>2, InCall DEF SameCall, Tx, Input, Sound
  <1>5. Machine(t).state = "DRIFT" /\ th[w].first = "DRIFT"
    BY <1>1, <1>2, <1>4 DEF TurnInv, CallFits, MachineFollows, Busy, Judged, At
  <1>6. /\ mach'[m].state = "REVALIDATING" /\ mach'[m].time = c.clock
        /\ mach'[m].limit = Machine(t).limit
        /\ \A i \in Calls : i # m => mach'[i] = mach[i]
    BY <1>1, <1>2, <1>5, MovedMachine DEF LifecycleStates
  <1>7. rec'[t].m = m /\ m # 0 /\ Machine(t)' = mach'[m]
    BY <1>1, <1>2 DEF Machine
  <1>8. Aside(w)
    BY <1>1, <1>2, <1>3, <1>6 DEF Aside, SameOtherwise, Completed
  <1>9. CallFits(w)'
    <2>1. \A places : Busy(w, places)' => "revised" \in places
      BY <1>1 DEF Busy
    <2>2. PassFits(w)'
      BY <2>1 DEF PassFits
    <2>3. MachineFollows(w)'
      BY <1>1, <1>4, <1>5, <1>6, <1>7, <2>1 DEF MachineFollows
    <2>4. StandsForOffer(w)'
      <3> DEFINE e == Observed(c, MerchantRank, Revised(c))
      <3>1. e.rank = MerchantRank /\ e.value = Revised(c) /\ e \in store'[t].amounts
        BY <1>1, <1>2 DEF Observed
      <3>2. {f \in store'[t].amounts : f.rank = ProviderRank}
              = {f \in store[t].amounts : f.rank = ProviderRank}
        BY <1>1, <1>2, <3>1 DEF MerchantRank, ProviderRank
      <3>3. Amount(store'[t], Revised(c)) = Amount(store[t], Revised(c))
        BY <3>2, AmountByPayments
      <3>4. th'[w].total = Amount(store'[t], e.value)
        BY <1>1, <1>2, <3>1, <3>3
      <3> QED
        BY <1>4, <2>1, <3>1, <3>4 DEF StandsForOffer, MerchantRank
    <2> QED
      BY <2>2, <2>3, <2>4 DEF CallFits
  <1>10. RecordFits(t)'
    <2>1. Machine(t)'.state = "REVALIDATING"
      BY <1>6, <1>7
    <2>2. IsFiniteSet(store'[t].amounts)
      BY <1>1, <1>2 DEF TurnInv, RecordFits, ItemsOnRecord
    <2>3. Revalidates(t)'
      BY <1>1, <1>4 DEF Revalidates
    <2> QED
      BY <1>7, <2>1, <2>2, <2>3 DEF RecordFits, ItemsOnRecord
  <1>11. MachinesReached'
    BY <1>6 DEF TurnInv, MachinesReached
  <1>12. CompletionsFit'
    <2> SUFFICES ASSUME NEW n \in Calls, Completed(n)
                 PROVE  /\ outs[n].m \in 1 .. count /\ mach'[outs[n].m].state = "PASS"
                        /\ outs[n].total <= mach'[outs[n].m].limit
                        /\ outs[n].goods = "authorized"
      BY <1>3 DEF CompletionsFit, Completed
    <2>1. /\ outs[n].m \in 1 .. count /\ mach[outs[n].m].state = "PASS"
          /\ outs[n].total <= mach[outs[n].m].limit /\ outs[n].goods = "authorized"
      BY DEF TurnInv, CompletionsFit
    <2>2. outs[n].m \in Calls /\ outs[n].m # m
      BY <1>2, <1>5, <2>1, BudgetAssumption DEF Machine, Calls, Sound, Typed
    <2> QED
      BY <1>6, <2>1, <2>2
  <1>13. CompletedOnce' /\ RecoveryNeedsDrift'
    BY <1>3 DEF TurnInv, CompletedOnce, RecoveryNeedsDrift, Completed
  <1> QED
    BY <1>1, <1>2, <1>8, <1>9, <1>10, <1>11, <1>12, <1>13, TurnStep

LEMMA TurnResolve ==
  ASSUME Sound, TurnInv, CallsInTurn, NEW w \in Threads, Resolve(w)
  PROVE  TurnInv'
  <1>1. /\ SameOtherwise(w) /\ SameCall(w) /\ th[w] \in Frames
        /\ UNCHANGED <<rec, mach>> /\ rec[Tx(w)].m # 0
        /\ Judged(w, "UNKNOWN") /\ th'[w].pc = "resolved" /\ th'[w].first = th[w].first
        /\ IsFiniteSet(store[Tx(w)].amounts) => IsFiniteSet(store'[Tx(w)].amounts)
    BY ResolveEffect
  <1>2. PICK t \in Txs : t = Tx(w)
    BY <1>1, FrameFields
  <1>3. UNCHANGED <<count, outs>>
    BY DEF Resolve
  <1>4. Tx(w)' = t /\ th[w] # Idle /\ th'[w] # Idle
    BY <1>1, <1>2, InCall DEF SameCall, Tx, Sound
  <1>5. Machine(t).state = "UNKNOWN" /\ th[w].first = "UNKNOWN"
    BY <1>1, <1>2, <1>4 DEF TurnInv, CallFits, MachineFollows, Busy, Judged, At
  <1>6. Machine(t)' = Machine(t) /\ rec'[t].m = rec[t].m
    BY <1>1 DEF Machine
  <1>7. Aside(w)
    BY <1>1, <1>3 DEF Aside, SameOtherwise, Completed
  <1>8. CallFits(w)'
    <2>1. \A places : Busy(w, places)' => "resolved" \in places
      BY <1>1 DEF Busy
    <2>2. StandsForOffer(w)' /\ PassFits(w)'
      BY <2>1 DEF StandsForOffer, PassFits
    <2>3. MachineFollows(w)'
      BY <1>1, <1>4, <1>5, <1>6, <2>1 DEF MachineFollows
    <2> QED
      BY <2>2, <2>3 DEF CallFits
  <1>9. RecordFits(t)'
    <2>1. IsFiniteSet(store'[t].amounts)
      BY <1>1, <1>2 DEF TurnInv, RecordFits, ItemsOnRecord
    <2> QED
      BY <1>1, <1>2, <1>5, <1>6, <2>1 DEF RecordFits, Revalidates, ItemsOnRecord
  <1>10. MachinesReached' /\ CompletionsFit' /\ CompletedOnce' /\ RecoveryNeedsDrift'
    BY <1>1, <1>3 DEF TurnInv, MachinesReached, CompletionsFit, CompletedOnce,
       RecoveryNeedsDrift, Completed
  <1> QED
    BY <1>1, <1>2, <1>7, <1>8, <1>9, <1>10, TurnStep

LEMMA TurnNext ==
  Sound /\ TurnInv /\ CallsInTurn /\ CallsInTurn' /\ [Next]_vars => TurnInv'
  <1> SUFFICES ASSUME Sound, TurnInv, CallsInTurn, CallsInTurn', [Next]_vars
               PROVE  TurnInv'
    OBVIOUS
  <1>1. CASE UNCHANGED vars
    <2>1. UNCHANGED <<count, rec, mach, store, outs, th>>
      BY <1>1 DEF vars
    <2>2. ASSUME NEW w \in Threads PROVE CallFits(w)'
      BY <2>1 DEF TurnInv, CallFits, MachineFollows, StandsForOffer, PassFits, Busy, Machine,
         Tx, Input, Completed
    <2>3. ASSUME NEW t \in Txs PROVE RecordFits(t)'
      BY <2>1 DEF TurnInv, RecordFits, Revalidates, ItemsOnRecord, Machine, Tx, Input
    <2>4. MachinesReached' /\ OwnMachine' /\ CompletionsFit' /\ CompletedOnce' /\ RecoveryNeedsDrift'
      BY <2>1 DEF TurnInv, MachinesReached, OwnMachine, CompletionsFit, CompletedOnce,
         RecoveryNeedsDrift, Completed
    <2> QED
      BY <2>2, <2>3, <2>4 DEF TurnInv
  <1>2. ASSUME NEW t \in Txs, NEW a \in Attempts, Create(t, a) PROVE TurnInv'
    BY <1>2, TurnCreate
  <1>3. ASSUME NEW w \in Threads, NEW c \in Inputs, Reuse(w, c) \/ Begin(w, c) PROVE TurnInv'
    BY <1>3, TurnReuse, TurnEnter DEF Begin
  <1>4. ASSUME NEW w \in Threads,
               \/ Mismatch(w) \/ Refuse(w) \/ Admit(w) \/ Judge(w)
               \/ Complete(w) \/ Replan(w) \/ Resolve(w)
               \/ Recover(w) \/ Abstain(w) \/ Raise(w)
        PROVE  TurnInv'
    BY <1>4, TurnRefusal, TurnAdmit, TurnJudge, TurnComplete, TurnReplan, TurnResolve,
       TurnRecover, TurnAbstain, TurnRaise
  <1> QED
    BY <1>1, <1>2, <1>3, <1>4 DEF Next

(***************************************************************************)
(* What holds at every moment of a behaviour whose calls come in turn.     *)
(***************************************************************************)
LEMMA TurnInvariant == Spec /\ []CallsInTurn => []TurnInv
  <1> QED
    BY SoundInit, SoundNext, TurnInit, TurnNext, PTL DEF Spec

(***************************************************************************)
(* One binding completes one call, with its machine in PASS, when calls    *)
(* about a transaction come in turn: orchestrate reads the machine, judges *)
(* and answers in separate steps, and nothing else keeps two calls apart.  *)
(***************************************************************************)
THEOREM CompletesOnceInTurn == Spec /\ []CallsInTurn => []CompletedOnce
  <1>1. TurnInv => CompletedOnce
    BY DEF TurnInv
  <1> QED
    BY <1>1, TurnInvariant, PTL

(***************************************************************************)
(* A recovery is executed on a machine in DRIFT, when calls come in turn:  *)
(* the proof the executor asks for is that of the evaluation the machine   *)
(* followed.                                                               *)
(***************************************************************************)
THEOREM RecoversOnlyDrift == Spec /\ []CallsInTurn => []RecoveryNeedsDrift
  <1>1. TurnInv => RecoveryNeedsDrift
    BY DEF TurnInv
  <1> QED
    BY <1>1, TurnInvariant, PTL

(***************************************************************************)
(* A completed call stands for goods the bound intent orders, within the   *)
(* ceiling that was bound, when calls come in turn: the amount it returns  *)
(* is the one that was judged, and the items of its own offer are the      *)
(* latest on record.                                                       *)
(***************************************************************************)
THEOREM CompletesWithinIntent == Spec /\ []CallsInTurn => []CompletedWithinIntent
  <1>1. TurnInv => CompletedWithinIntent
    BY DEF TurnInv, CompletionsFit, CompletedWithinIntent
  <1> QED
    BY <1>1, TurnInvariant, PTL

-----------------------------------------------------------------------------
(***************************************************************************)
(* Calls with one key in turn, with one orchestrator for all of them.      *)
(***************************************************************************)
KeysInTurn ==
  \A v, w \in Threads :
    th[v] # Idle /\ th[w] # Idle /\ Input(v).key = Input(w).key /\ Input(v).key # NoKey
    => v = w

Executed == {"COMPLETED", "RECOVERING"}

(***************************************************************************)
(* What has been executed under a key is remembered: from the remembered   *)
(* call on, no other outcome is given under the key, and none is under     *)
(* way.  Calls that come after a call under way do not have its key.       *)
(***************************************************************************)
KeyFits(k) ==
  /\ \A n \in Calls :
       outs[n].key = k /\ outs[n].stage \in Executed => cache[k] # 0 /\ cache[k] <= n
  /\ cache[k] # 0 =>
       /\ \A w \in Threads : th[w] # Idle => Input(w).key # k
       /\ \A n \in Calls : n > cache[k] /\ outs[n].key = k => outs[n] = outs[cache[k]]
  /\ \A w \in Threads, n \in Calls :
       th[w] # Idle /\ Input(w).key = k /\ n > th[w].n => outs[n].key # k

KeyInv == \A k \in Keys : KeyFits(k)

LEMMA KeyInit == Init => KeyInv
  <1> SUFFICES ASSUME Init PROVE KeyInv
    OBVIOUS
  <1>1. \A n \in Calls : outs[n].stage \notin Executed
    BY DEF Init, NoOutcome, Executed
  <1> QED
    BY <1>1 DEF Init, KeyInv, KeyFits

\* Calls that begin, leave or return a remembered outcome aside, nothing is
\* done to a key.
LEMMA KeyGoes ==
  ASSUME KeyInv, UNCHANGED <<outs, cache>>,
         \A v \in Threads : th'[v] # Idle =>
           th[v] # Idle /\ th'[v].n = th[v].n /\ Input(v)' = Input(v)
  PROVE  KeyInv'
  BY DEF KeyInv, KeyFits

LEMMA KeyLeaves ==
  ASSUME Shared, Sound, KeyInv, KeysInTurn, NEW w \in Threads, th[w] \in Frames,
         NEW o \in Outcomes, o.key = Input(w).key, Leave(w, o), count' = count,
         cache' = cache \/ cache' = Remembered(w),
         o.stage \in Executed => cache' = Remembered(w)
  PROVE  KeyInv'
  <1>1. PICK m \in Calls : m = th[w].n
    BY DEF Frames
  <1>2. /\ outs'[m] = o /\ \A n \in Calls : n # m => outs'[n] = outs[n]
        /\ th'[w] = Idle /\ \A v \in Threads : v # w => th'[v] = th[v]
    BY <1>1, Leaving
  <1>3. th[w] # Idle /\ outs[m] = NoOutcome
    BY <1>1, InCall DEF Sound, CallsSound
  <1>4. \A v \in Threads :
          th'[v] # Idle => v # w /\ th[v] # Idle /\ th'[v] = th[v] /\ Input(v)' = Input(v)
    BY <1>2 DEF Input
  <1>5. \A k \in Keys : cache'[k] = cache[k] \/ (k = o.key /\ cache'[k] = m)
    BY <1>1 DEF Remembered, Sound, Typed
  <1>6. o.stage \in Executed /\ o.key \in Keys => cache'[o.key] = m
    BY <1>1, BudgetAssumption DEF Remembered, Sound, Typed
  <1>7. ASSUME NEW k \in Keys PROVE KeyFits(k)'
    <2>1. KeyFits(k) /\ k # NoKey
      BY BudgetAssumption DEF KeyInv
    <2>2. CASE k # o.key
      <3>1. cache'[k] = cache[k] /\ \A n \in Calls : outs'[n].key = k => outs'[n] = outs[n]
        BY <1>2, <1>5, <2>2
      <3>2. cache[k] # 0 => cache[k] \in Calls /\ outs[cache[k]].key = k
        BY BudgetAssumption DEF Sound, CallsSound, Typed, Calls
      <3>3. cache[k] # 0 => outs'[cache[k]] = outs[cache[k]]
        BY <1>2, <1>3, <2>1, <3>2 DEF NoOutcome
      <3> QED
        BY <1>4, <2>1, <3>1, <3>3 DEF KeyFits
    <2>3. CASE k = o.key
      <3>1. cache[k] = 0 /\ \A n \in Calls : n > m => outs[n].key # k
        BY <1>1, <1>3, <2>1, <2>3 DEF KeyFits
      <3>2. \A v \in Threads : th'[v] # Idle => Input(v)'.key # k
        BY <1>3, <1>4, <2>1, <2>3 DEF KeysInTurn
      <3>3. \A n \in Calls : n # m => ~(outs'[n].key = k /\ outs'[n].stage \in Executed)
        BY <1>2, <2>1, <3>1 DEF KeyFits
      <3>4. cache'[k] = 0 \/ cache'[k] = m
        BY <1>5, <3>1
      <3>5. \A n \in Calls : n > m => outs'[n].key # k
        BY <1>2, <3>1 DEF Calls
      <3> QED
        BY <1>2, <1>6, <2>3, <3>2, <3>3, <3>4, <3>5 DEF KeyFits, Calls
    <2> QED
      BY <2>2, <2>3
  <1> QED
    BY <1>7 DEF KeyInv

LEMMA KeyReuse ==
  ASSUME Sound, KeyInv, NEW w \in Threads, NEW c \in Inputs, Reuse(w, c)
  PROVE  KeyInv'
  <1>1. PICK n \in Calls : n = count + 1 /\ n > count
    BY BudgetAssumption DEF Reuse, Sound, Typed, Calls
  <1>2. PICK key \in Keys, j \in Calls : key = c.key /\ j = cache[key] /\ j # 0
    BY InputFields, BudgetAssumption DEF Reuse, Cached, Sound, Typed, Calls
  <1>3. /\ UNCHANGED <<cache, th>> /\ outs'[n] = outs[j]
        /\ \A i \in Calls : i # n => outs'[i] = outs[i]
    BY <1>1, <1>2 DEF Reuse, Sound, Typed
  <1>4. outs[n] = NoOutcome /\ outs[j].key = key /\ key # NoKey
    BY <1>1, <1>2, BudgetAssumption DEF Sound, CallsSound
  <1>5. j < n
    <2>1. ~(j > count)
      BY <1>4 DEF Sound, CallsSound, NoOutcome
    <2> QED
      BY <1>1, <2>1 DEF Sound, Typed, Calls
  <1>6. ASSUME NEW k \in Keys PROVE KeyFits(k)'
    <2>1. KeyFits(k) /\ KeyFits(key) /\ k # NoKey
      BY BudgetAssumption DEF KeyInv
    <2>2. CASE k # key
      <3>1. \A i \in Calls : outs'[i].key = k => outs'[i] = outs[i]
        BY <1>3, <1>4, <2>2
      <3>2. cache[k] # 0 => cache[k] \in Calls /\ outs[cache[k]].key = k
        BY BudgetAssumption DEF Sound, CallsSound, Typed, Calls
      <3>3. cache[k] # 0 => outs'[cache[k]] = outs[cache[k]]
        BY <1>3, <1>4, <2>1, <3>2 DEF NoOutcome
      <3> QED
        BY <1>3, <2>1, <3>1, <3>3 DEF KeyFits, Input
    <2>3. CASE k = key
      <3>1. /\ cache'[k] = j /\ outs'[j] = outs[j]
            /\ \A v \in Threads : th'[v] # Idle => Input(v)'.key # k
        BY <1>2, <1>3, <1>5, <2>1, <2>3 DEF KeyFits, Input, Calls
      <3>2. ASSUME NEW i \in Calls, outs'[i].key = k
            PROVE  /\ outs'[i].stage \in Executed => j <= i
                   /\ i > j => outs'[i] = outs'[j]
        <4>1. CASE i = n
          BY <1>3, <1>5, <3>1, <4>1 DEF Calls
        <4>2. CASE i # n
          BY <1>2, <1>3, <2>1, <2>3, <3>1, <3>2, <4>2 DEF KeyFits
        <4> QED
          BY <4>1, <4>2
      <3> QED
        BY <1>2, <3>1, <3>2 DEF KeyFits
    <2> QED
      BY <2>2, <2>3
  <1> QED
    BY <1>6 DEF KeyInv

LEMMA KeyBegin ==
  ASSUME Shared, Sound, KeyInv, KeysInTurn', NEW w \in Threads, NEW c \in Inputs, Begin(w, c)
  PROVE  KeyInv'
  <1>1. PICK n \in Calls : n = count + 1
    BY BudgetAssumption DEF Begin, Enter, Sound, Typed, Calls
  <1>2. /\ th'[w] = Opened(n, c) /\ \A v \in Threads : v # w => th'[v] = th[v]
        /\ UNCHANGED <<outs, cache>> /\ th[w] = Idle
    BY <1>1, InCall DEF Begin, Enter, Sound, Typed
  <1>3. th'[w] # Idle /\ th'[w].n = n /\ Input(w)' = c
    BY <1>2 DEF Opened, Idle, Input
  <1>4. \A v \in Threads : v # w => Input(v)' = Input(v)
    BY <1>2 DEF Input
  <1>5. \A i \in Calls : i > n => outs[i] = NoOutcome
    BY <1>1 DEF Sound, Typed, CallsSound, Calls
  <1>6. c.key \in Keys => cache[c.key] = 0
    BY BudgetAssumption DEF Begin, Cached
  <1>7. ASSUME NEW k \in Keys PROVE KeyFits(k)'
    <2>1. KeyFits(k) /\ k # NoKey
      BY BudgetAssumption DEF KeyInv
    <2>2. \A n1 \in Calls :
            outs[n1].key = k /\ outs[n1].stage \in Executed => cache[k] # 0 /\ cache[k] <= n1
      BY <2>1 DEF KeyFits
    <2>3. cache[k] # 0 =>
            /\ \A v \in Threads : th'[v] # Idle => Input(v)'.key # k
            /\ \A i \in Calls : i > cache[k] /\ outs[i].key = k => outs[i] = outs[cache[k]]
      BY <1>2, <1>3, <1>4, <1>6, <2>1 DEF KeyFits
    <2>4. ASSUME NEW v \in Threads, NEW i \in Calls, th'[v] # Idle, Input(v)'.key = k,
                 i > th'[v].n
          PROVE  outs[i].key # k
      <3>1. CASE v = w
        BY <1>3, <1>5, <2>1, <2>4, <3>1 DEF NoOutcome
      <3>2. CASE v # w
        BY <1>2, <1>4, <2>1, <2>4, <3>2 DEF KeyFits
      <3> QED
        BY <3>1, <3>2
    <2> QED
      BY <1>2, <2>2, <2>3, <2>4 DEF KeyFits
  <1> QED
    BY <1>7 DEF KeyInv

LEMMA KeyNext ==
  Shared /\ Sound /\ KeyInv /\ KeysInTurn /\ KeysInTurn' /\ [Next]_vars => KeyInv'
  <1> SUFFICES ASSUME Shared, Sound, KeyInv, KeysInTurn, KeysInTurn', [Next]_vars
               PROVE  KeyInv'
    OBVIOUS
  <1>1. CASE UNCHANGED vars
    BY <1>1, KeyGoes DEF vars, Input
  <1>2. ASSUME NEW t \in Txs, NEW a \in Attempts, Create(t, a) PROVE KeyInv'
    BY <1>2, KeyGoes DEF Create, Input
  <1>3. ASSUME NEW w \in Threads, NEW c \in Inputs, Reuse(w, c) \/ Begin(w, c) PROVE KeyInv'
    BY <1>3, KeyReuse, KeyBegin
  <1>4. ASSUME NEW w \in Threads, Admit(w) \/ Judge(w) \/ Replan(w) \/ Resolve(w)
        PROVE  KeyInv'
    <2>1. SameOtherwise(w) /\ SameCall(w) /\ th[w] \in Frames
      BY <1>4, AdmitEffect, JudgeEffect, ReplanEffect, ResolveEffect
    <2>2. UNCHANGED <<outs, cache>>
      BY <1>4 DEF Admit, Judge, Replan, Resolve
    <2>3. th[w] # Idle
      BY <2>1, InCall DEF Sound
    <2> QED
      BY <2>1, <2>2, <2>3, KeyGoes DEF SameOtherwise, SameCall, Input
  <1>5. ASSUME NEW w \in Threads, Mismatch(w) \/ Refuse(w) PROVE KeyInv'
    <2> DEFINE o == Outcome(w, "BLOCKED", "NONE", "ABSTAIN")
    <2>1. th[w] \in Frames
      BY <1>5, InCall DEF Mismatch, Refuse, Sound, At
    <2>2. o \in Outcomes /\ o.key = Input(w).key /\ o.stage = "BLOCKED"
      BY <2>1, OutcomeTyped DEF Stages, Answers, LifecycleStates, Outcome
    <2>3. Leave(w, o) /\ count' = count /\ (cache' = cache \/ cache' = Remembered(w))
      BY <1>5 DEF Mismatch, Refuse
    <2> HIDE DEF o
    <2> QED
      BY <2>1, <2>2, <2>3, KeyLeaves DEF Executed
  <1>6. ASSUME NEW w \in Threads, Complete(w) PROVE KeyInv'
    <2> DEFINE o == Outcome(w, "COMPLETED", "PASS", Machine(Tx(w)).state)
    <2>1. /\ th[w] \in Frames /\ rec[Tx(w)].m # 0 /\ Leave(w, o) /\ count' = count
          /\ cache' = Remembered(w)
      BY <1>6, InCall DEF Complete, Finish, Sound, At
    <2>2. o \in Outcomes /\ o.key = Input(w).key
      BY <2>1, OutcomeTyped, FrameFields DEF Stages, Answers, Verdicts
    <2> HIDE DEF o
    <2> QED
      BY <2>1, <2>2, KeyLeaves
  <1>7. ASSUME NEW w \in Threads, Abstain(w) PROVE KeyInv'
    <2> DEFINE o == Outcome(w, "ABSTAINED", th[w].first, Machine(Tx(w)).state)
    <2>1. /\ th[w] \in Frames /\ rec[Tx(w)].m # 0 /\ Leave(w, o) /\ count' = count
          /\ cache' = Remembered(w)
      BY <1>7, InCall DEF Abstain, Exhausted, Judged, Finish, Sound, At
    <2>2. th[w].first \in Answers
      BY <2>1 DEF Frames
    <2>3. o \in Outcomes /\ o.key = Input(w).key
      BY <2>1, <2>2, OutcomeTyped, FrameFields DEF Stages
    <2> HIDE DEF o
    <2> QED
      BY <2>1, <2>3, KeyLeaves
  <1>8. ASSUME NEW w \in Threads, Recover(w) PROVE KeyInv'
    <2> DEFINE o == Outcome(w, "RECOVERING", "DRIFT", mach'[rec[Tx(w)].m].state)
    <2>1. /\ th[w] \in Frames /\ rec[Tx(w)].m # 0 /\ Leave(w, o) /\ count' = count
          /\ cache' = Remembered(w) /\ mach' = Moved(w, "RECOVERING")
      BY <1>8, InCall DEF Recover, Recovers, Exhausted, Judged, Sound, At
    <2>2. \A m \in Calls : mach[m].state \in LifecycleStates => mach'[m].state \in LifecycleStates
      BY <2>1, MovedMachine DEF LifecycleStates
    <2>3. mach'[rec[Tx(w)].m].state \in LifecycleStates
      BY <2>1, <2>2, FrameFields DEF Machine
    <2>4. o \in Outcomes /\ o.key = Input(w).key
      BY <2>1, <2>3, OutcomeTyped DEF Stages, Answers, Verdicts
    <2> HIDE DEF o
    <2> QED
      BY <2>1, <2>4, KeyLeaves
  <1>9. ASSUME NEW w \in Threads, Raise(w) PROVE KeyInv'
    <2> DEFINE o == Outcome(w, "RAISED", "NONE", "NONE")
    <2>1. th[w] \in Frames /\ Leave(w, o) /\ count' = count /\ cache' = cache
      BY <1>9, InCall DEF Raise, Sound
    <2>2. o \in Outcomes /\ o.key = Input(w).key /\ o.stage = "RAISED"
      BY <2>1, OutcomeTyped DEF Stages, Answers, Outcome
    <2> HIDE DEF o
    <2> QED
      BY <2>1, <2>2, KeyLeaves DEF Executed
  <1> QED
    BY <1>1, <1>2, <1>3, <1>4, <1>5, <1>6, <1>7, <1>8, <1>9 DEF Next

(***************************************************************************)
(* A key that has completed or recovered returns that outcome from then    *)
(* on, when one orchestrator serves all calls and calls with one key come  *)
(* in turn: the cache is looked up when a call begins and filled when it   *)
(* ends, so that two calls under way with one key both execute.            *)
(***************************************************************************)
THEOREM KeysReplay ==
  ASSUME Shared
  PROVE  Spec /\ []KeysInTurn => []IdempotentReplay
  <1>1. Sound /\ KeyInv => IdempotentReplay
    <2> SUFFICES ASSUME Sound, KeyInv, NEW n \in Calls, NEW o \in Calls, n < o,
                        outs[n].key = outs[o].key, outs[n].key # NoKey,
                        outs[n].stage \in Executed
                 PROVE  outs[o] = outs[n]
      BY DEF IdempotentReplay, Executed
    <2>1. PICK k \in Keys : k = outs[n].key
      BY DEF Sound, Typed, Outcomes
    <2>2. KeyFits(k)
      BY DEF KeyInv
    <2>3. cache[k] # 0 /\ cache[k] <= n /\ cache[k] \in Nat
      BY <2>1, <2>2, BudgetAssumption DEF KeyFits, Sound, Typed
    <2>4. outs[o] = outs[cache[k]]
      BY <2>1, <2>2, <2>3 DEF KeyFits, Calls
    <2>5. outs[n] = outs[cache[k]]
      BY <2>1, <2>2, <2>3 DEF KeyFits, Calls
    <2> QED
      BY <2>4, <2>5
  <1>2. Sound /\ KeyInv /\ KeysInTurn /\ KeysInTurn' /\ [Next]_vars => KeyInv'
    BY KeyNext
  <1> QED
    BY <1>1, <1>2, SoundInit, SoundNext, KeyInit, PTL DEF Spec

(***************************************************************************)
(* With one worker thread calls come in turn.                              *)
(***************************************************************************)
COROLLARY OneWorkerIsEnough ==
  ASSUME NEW w, Threads = {w}
  PROVE  Spec => [](CompletedOnce /\ RecoveryNeedsDrift /\ CompletedWithinIntent)
  <1>1. CallsInTurn
    BY DEF CallsInTurn
  <1>2. []CallsInTurn
    BY <1>1, PTL
  <1> QED
    BY <1>2, CompletesOnceInTurn, RecoversOnlyDrift, CompletesWithinIntent, PTL
=============================================================================
