---------------------------- MODULE ReplayProofs ----------------------------
(***************************************************************************)
(* Proofs about Replay, for any ids, amounts and bounds: an honest archive *)
(* replays, a match speaks the truth about transitions, state and verdict, *)
(* and the proof of an overcharge pins its amount.                         *)
(***************************************************************************)
EXTENDS Replay, TLAPS, FiniteSetTheorems, SequenceTheorems, FunctionTheorems

-----------------------------------------------------------------------------
(***************************************************************************)
(* The inductive invariant.  Of the live transaction: its history is legal *)
(* and leads to its state; no two facts kept share an id; a verdict and a  *)
(* proof are those of the facts judged and kept, except between an         *)
(* evaluation and its verdict.  Of the archive: it is the transaction at   *)
(* rest, with at most one part damaged, and the outcome is what was made   *)
(* of it.                                                                  *)
(***************************************************************************)

AmountRecords ==
  [id : AmountIds, rank : {2}, at : Nat, value : Amounts, source : {"RAZORPAY"}]
ItemRecords ==
  [id : {"items"}, rank : {2}, at : Nat, value : {"authorized", "diverging"}, source : {"RAZORPAY"}]
OtherRecords == [id : {"cancel"}, rank : {1}, at : Nat, source : {"MERCHANT"}]
EventRecords == [id : EventIds, kind : {"capture", "recovery"}, late : BOOLEAN]

FactRecords ==
  [amounts : SUBSET AmountRecords, items : SUBSET ItemRecords, others : SUBSET OtherRecords,
   events : SUBSET EventRecords, twice : BOOLEAN, restated : BOOLEAN]

Transitions == [from : LifecycleStates, to : LifecycleStates, trusted : BOOLEAN]

\* Of any of these records one is the latest.
HasLatest(records) ==
  \A some \in SUBSET records : some # {} => \E e \in some : \A g \in some : g.at <= e.at

\* An id stands for one of these records.
OfOneId(records) == \A e, g \in records : e.id = g.id => e = g

FactsSound ==
  /\ facts \in FactRecords
  /\ IsFiniteSet(facts.amounts) /\ HasLatest(facts.amounts)
  /\ OfOneId(facts.amounts) /\ OfOneId(facts.events)

HistorySound ==
  /\ state \in LifecycleStates
  /\ history \in Seq(Transitions) /\ Len(history) <= MaxHistory
  /\ ~ IllegalHistory(history)
  /\ ReplayedState(history) = state

Evaluating == {"VERIFYING", "REVALIDATING"}

VerdictSound ==
  /\ status \in Verdicts \cup {"NONE"} /\ how # "OVERCHARGE"
  /\ status \in {"NONE", "PASS"} => mrdp = NoProof
  /\ state \notin Evaluating =>
       /\ status # "NONE" => status = VerdictOf(how, judged).status
       /\ status \in {"DRIFT", "UNKNOWN"} =>
            mrdp = BuildMrdp(VerdictOf(how, judged), facts, First(facts))
  /\ mrdp # NoProof => mrdp.sealed
  /\ mrdp.status \in {"NONE", "DRIFT", "UNKNOWN"}
  /\ state = "PASS" => status = "PASS"

\* d is the archive s with one part damaged.
Damaged(s, d) ==
  \/ \E h \in DamagedHistories(s.history) \ {s.history} : d = [s EXCEPT !.history = h]
  \/ \E f \in DamagedFacts(s.facts) \ {s.facts} : d = [s EXCEPT !.facts = f]
  \/ s.status # "NONE" /\ \E v \in Verdicts \ {s.status} : d = [s EXCEPT !.status = v]
  \/ \E t \in LifecycleStates \ {s.final} : d = [s EXCEPT !.final = t]
  \/ \E p \in DamagedProofs(s.mrdp) \ {s.mrdp} : d = [s EXCEPT !.mrdp = p]
  \/ d = [s EXCEPT !.rules = FALSE]

ArchiveSound ==
  /\ honest \in BOOLEAN
  /\ outcome \in {"NONE", "MATCH", "MISMATCH", "INVALID_REPLAY"}
  /\ \/ archive = << >> /\ honest
     \/ honest /\ archive = <<Snapshot>>
     \/ ~ honest /\ \E d : archive = <<d>> /\ Damaged(Snapshot, d)
  /\ archive # << >> => state \notin Evaluating
  /\ outcome = "MATCH" => archive # << >> /\ ReplayVerdict(archive[1]) = "MATCH"

Sound == FactsSound /\ HistorySound /\ VerdictSound /\ ArchiveSound

-----------------------------------------------------------------------------
(* The facts. *)

LEMMA LatestOfMore ==
  ASSUME NEW records, NEW new, HasLatest(records),
         \A e \in records \cup {new} : e.at \in Nat
  PROVE  HasLatest(records \cup {new})
<1> SUFFICES ASSUME NEW some \in SUBSET (records \cup {new}), some # {}
             PROVE  \E e \in some : \A g \in some : g.at <= e.at
  BY DEF HasLatest
<1> DEFINE old == some \ {new}
<1>1. CASE old = {}
  <2>1. some = {new} /\ new.at <= new.at
    BY <1>1
  <2>2. QED
    BY <2>1
<1>2. CASE old # {}
  <2>1. PICK e \in old : \A g \in old : g.at <= e.at
    BY <1>2 DEF HasLatest
  <2>2. e \in records /\ e \in some /\ some \subseteq old \cup {new}
    BY <2>1
  <2>3. e.at \in Nat /\ new.at \in Nat
    BY <2>2
  <2> HIDE DEF old
  <2>4. CASE new \notin some \/ new.at <= e.at
    BY <2>1, <2>2, <2>4
  <2>5. CASE new \in some /\ e.at <= new.at
    <3>1. \A g \in old : g.at \in Nat
      BY DEF old
    <3>2. \A g \in some : g.at <= new.at
      BY <2>1, <2>2, <2>3, <2>5, <3>1
    <3>3. QED
      BY <2>5, <3>2
  <2>6. QED
    BY <2>3, <2>4, <2>5
<1>3. QED
  BY <1>1, <1>2

LEMMA LatestOfFewer ==
  ASSUME NEW records, NEW fewer \in SUBSET records, HasLatest(records)
  PROVE  HasLatest(fewer)
BY DEF HasLatest

\* Records stay sound when one is added under an id of its own.
LEMMA AnotherRecord ==
  ASSUME NEW records, NEW new, OfOneId(records), new.id \notin Ids(records)
  PROVE  OfOneId(records \cup {new})
<1>1. \A e \in records : e.id # new.id
  BY DEF Ids
<1>2. QED
  BY <1>1 DEF OfOneId

LEMMA AnotherAmount ==
  ASSUME NEW records, NEW new, records \subseteq AmountRecords, IsFiniteSet(records),
         HasLatest(records), new.at \in Nat
  PROVE  IsFiniteSet(records \cup {new}) /\ HasLatest(records \cup {new})
<1>1. IsFiniteSet(records \cup {new})
  BY FS_AddElement
<1>2. \A e \in records \cup {new} : e.at \in Nat
  BY DEF AmountRecords
<1>3. QED
  BY <1>1, <1>2, LatestOfMore

LEMMA NoRecords == HasLatest({}) /\ OfOneId({}) /\ IsFiniteSet({})
BY FS_EmptySet DEF HasLatest, OfOneId

LEMMA FactsStep ==
  ASSUME FactsSound, Len(history) \in Nat, Observe \/ Resolve \/ Recover
  PROVE  FactsSound'
<1> USE DEF FactsSound
<1>1. ASSUME facts' = facts PROVE FactsSound'
  BY <1>1 DEF OfOneId
<1>2. ASSUME NEW id \in AmountIds, NEW v \in Amounts, NEW e \in EventIds, NEW late \in BOOLEAN,
             NEW items \in {{}, {Items("authorized")}, {Items("diverging")}},
             facts' = [NoFacts EXCEPT
                         !.amounts = {Amount(id, v)}, !.items = items,
                         !.events = {[id |-> e, kind |-> "capture", late |-> late]}]
      PROVE  FactsSound'
  <2>1. Amount(id, v) \in AmountRecords /\ items \in SUBSET ItemRecords
    BY <1>2 DEF Amount, Items, AmountRecords, ItemRecords
  <2>2. [id |-> e, kind |-> "capture", late |-> late] \in EventRecords
    BY DEF EventRecords
  <2>3. /\ facts' \in FactRecords
        /\ facts'.amounts = {} \cup {Amount(id, v)}
        /\ \A a, b \in facts'.events : a = b
    BY <1>2, <2>1, <2>2 DEF FactRecords, NoFacts
  <2>4. IsFiniteSet(facts'.amounts) /\ HasLatest(facts'.amounts)
    <3>1. Amount(id, v).at \in Nat
      BY DEF Amount
    <3>2. QED
      BY <2>3, <3>1, AnotherAmount, NoRecords
  <2>5. OfOneId(facts'.amounts) /\ OfOneId(facts'.events)
    BY <2>3 DEF OfOneId
  <2>6. QED
    BY <2>3, <2>4, <2>5
<1>3. ASSUME NEW id \in AmountIds, NEW e \in EventIds, Reobserved(id, e) PROVE FactsSound'
  <2>1. PICK v \in Amounts, late \in BOOLEAN, restated \in BOOLEAN, items \in ItemsSeen :
          LET seen == WithPayment(id, v, items, restated)
          IN  IF e \in Ids(facts.events) THEN facts' = seen
              ELSE facts' = [seen EXCEPT !.events =
                               @ \cup {[id |-> e, kind |-> "capture", late |-> late]}]
    BY <1>3 DEF Reobserved
  <2> DEFINE event == [id |-> e, kind |-> "capture", late |-> late]
             amounts == IF id \in Ids(facts.amounts) THEN facts.amounts
                        ELSE facts.amounts \cup {Amount(id, v)}
             again == facts.restated \/ (id \in Ids(facts.amounts) /\ restated)
             seen == WithPayment(id, v, items, restated)
  <2>2. Amount(id, v) \in AmountRecords /\ items \in SUBSET ItemRecords /\ event \in EventRecords
    <3>1. Amount(id, v) \in AmountRecords
      BY DEF Amount, AmountRecords
    <3>2. items \in SUBSET ItemRecords
      BY <2>1 DEF Items, ItemRecords, FactRecords, ItemsSeen
    <3>3. QED
      BY <3>1, <3>2 DEF EventRecords
  <2>3. amounts \in SUBSET AmountRecords /\ again \in BOOLEAN
    BY <2>2 DEF FactRecords
  <2>4. seen = [facts EXCEPT !.amounts = amounts, !.restated = again, !.items = items]
    BY DEF WithPayment
  <2>5. IsFiniteSet(amounts) /\ HasLatest(amounts) /\ OfOneId(amounts)
    <3>1. CASE id \in Ids(facts.amounts)
      BY <3>1
    <3>2. CASE id \notin Ids(facts.amounts)
      <4>1. Amount(id, v).id = id /\ Amount(id, v).at \in Nat
        BY DEF Amount
      <4>2. facts.amounts \subseteq AmountRecords
        BY DEF FactRecords
      <4>3. QED
        BY <3>2, <4>1, <4>2, AnotherAmount, AnotherRecord
    <3>3. QED
      BY <3>1, <3>2
  <2> HIDE DEF amounts, again
  <2>6. seen \in FactRecords /\ seen.amounts = amounts /\ seen.events = facts.events
    BY <2>2, <2>3, <2>4 DEF FactRecords
  <2> HIDE DEF seen
  <2>7. CASE e \in Ids(facts.events)
    <3>1. facts' = seen
      BY <2>1, <2>7 DEF seen
    <3>2. QED
      BY <3>1, <2>5, <2>6
  <2>8. CASE e \notin Ids(facts.events)
    <3>1. facts' = [seen EXCEPT !.events = @ \cup {event}]
      BY <2>1, <2>8 DEF seen
    <3>2. facts' \in FactRecords /\ facts'.amounts = amounts
          /\ facts'.events = facts.events \cup {event}
      BY <2>2, <2>6, <3>1 DEF FactRecords
    <3>3. event.id = e
      OBVIOUS
    <3>4. OfOneId(facts.events \cup {event})
      BY <2>8, <3>3, AnotherRecord
    <3>5. QED
      BY <2>5, <3>2, <3>4
  <2>9. QED
    BY <2>7, <2>8
<1>4. ASSUME NEW e \in EventIds, NEW late \in BOOLEAN, NEW cancelled \in {{}, {Cancellation}},
             facts' = [facts EXCEPT
                         !.others = IF @ = {} THEN cancelled ELSE @,
                         !.twice = @ \/ e \in Ids(facts.events),
                         !.events = IF e \in Ids(facts.events) THEN @
                                    ELSE @ \cup {[id |-> e, kind |-> "recovery", late |-> late]}]
      PROVE  FactsSound'
  <2> DEFINE event == [id |-> e, kind |-> "recovery", late |-> late]
             others == IF facts.others = {} THEN cancelled ELSE facts.others
             twice == facts.twice \/ e \in Ids(facts.events)
             events == IF e \in Ids(facts.events) THEN facts.events ELSE facts.events \cup {event}
  <2>1. event \in EventRecords /\ cancelled \in SUBSET OtherRecords
    BY DEF EventRecords, Cancellation, OtherRecords
  <2>2. /\ others \in SUBSET OtherRecords /\ events \in SUBSET EventRecords
        /\ twice \in BOOLEAN
    BY <2>1 DEF FactRecords
  <2>3. facts' = [facts EXCEPT !.others = others, !.twice = twice, !.events = events]
    BY <1>4
  <2>4. OfOneId(events)
    <3>1. event.id = e
      OBVIOUS
    <3>2. QED
      BY <3>1, AnotherRecord
  <2> HIDE DEF others, twice, events
  <2>5. facts' \in FactRecords /\ facts'.amounts = facts.amounts /\ facts'.events = events
    BY <2>2, <2>3 DEF FactRecords
  <2>6. QED
    BY <2>4, <2>5
<1>5. CASE Observe
  <2>1. CASE facts' = facts
    BY <2>1, <1>1
  <2>2. CASE facts' # facts
    <3>1. PICK id \in AmountIds, v \in Amounts, e \in EventIds, late \in BOOLEAN,
               items \in {{}, {Items("authorized")}, {Items("diverging")}} :
            facts' = [NoFacts EXCEPT
                        !.amounts = {Amount(id, v)}, !.items = items,
                        !.events = {[id |-> e, kind |-> "capture", late |-> late]}]
      BY <1>5, <2>2 DEF Observe
    <3>2. QED
      BY <3>1, <1>2
  <2>3. QED
    BY <2>1, <2>2
<1>6. CASE Resolve
  BY <1>1, <1>3, <1>6 DEF Resolve
<1>7. CASE Recover
  BY <1>4, <1>7 DEF Recover
<1>8. QED
  BY <1>5, <1>6, <1>7

-----------------------------------------------------------------------------
(* The history. *)

LEMMA Recording ==
  ASSUME HistorySound, ReplayAssumption, NEW to, Recorded(to)
  PROVE  HistorySound'
<1> USE DEF HistorySound
<1> DEFINE t == [from |-> state, to |-> to, trusted |-> TRUE]
<1>1. /\ Len(history) < MaxHistory /\ CanTransition(state, to)
      /\ state' = to /\ history' = Append(history, t)
  BY DEF Recorded
<1>2. to \in LifecycleStates
  BY <1>1 DEF CanTransition, PermittedTransitions, LifecycleStates, Verdicts
<1>3. t \in Transitions /\ t.from = state /\ t.to = to /\ t.trusted
  BY <1>2 DEF Transitions
<1> HIDE DEF t
<1>4. /\ history' \in Seq(Transitions) /\ Len(history') = Len(history) + 1
      /\ Len(history) \in Nat /\ history'[Len(history')] = t
      /\ \A i \in 1 .. Len(history) : history'[i] = history[i]
  BY <1>1, <1>3
<1>5. ReplayedState(history)' = to
  BY <1>3, <1>4 DEF ReplayedState, Last
<1>6. ~ IllegalHistory(history)'
  <2> SUFFICES ASSUME NEW i \in 1 .. Len(history') PROVE Legal(history', i)
    BY <1>4 DEF IllegalHistory
  <2>1. CASE i \in 1 .. Len(history)
    <3>1. Legal(history, i)
      BY <2>1 DEF IllegalHistory
    <3>2. history'[i] = history[i] /\ (i # 1 => history'[i - 1] = history[i - 1])
      BY <1>4, <2>1
    <3>3. QED
      BY <3>1, <3>2 DEF Legal
  <2>2. CASE i = Len(history')
    <3>1. CASE i = 1
      <4>1. history = << >> /\ state = "CREATED"
        BY <1>4, <2>2, <3>1 DEF ReplayedState
      <4>2. QED
        BY <1>1, <1>3, <1>4, <2>2, <3>1, <4>1 DEF Legal
    <3>2. CASE i # 1
      <4>1. i - 1 = Len(history) /\ history # << >> /\ i - 1 \in 1 .. Len(history)
        BY <1>4, <2>2, <3>2
      <4>2. history'[i - 1].to = state
        BY <1>4, <4>1 DEF ReplayedState, Last
      <4>3. QED
        BY <1>1, <1>3, <1>4, <2>2, <3>2, <4>2 DEF Legal
    <3>3. QED
      BY <3>1, <3>2
  <2>3. QED
    BY <1>4, <2>1, <2>2
<1>7. QED
  BY <1>1, <1>2, <1>4, <1>5, <1>6 DEF ReplayAssumption

-----------------------------------------------------------------------------
(* The verdicts. *)

LEMMA JudgementStatus == ASSUME NEW f PROVE Judgement(f).status \in Verdicts
BY DEF Judgement, Evaluate, Overall, Verdicts

LEMMA VerdictStatus == ASSUME NEW way, NEW f PROVE VerdictOf(way, f).status \in Verdicts
<1>1. Judgement(f).status \in Verdicts
  BY JudgementStatus
<1>2. Rules(f).status = Judgement(f).status
  BY DEF Rules
<1>3. ASSUME NEW b \in {"DRIFT", "UNKNOWN"} PROVE Bound(f, b).status \in Verdicts
  <2>1. CASE Rules(f).status = "DRIFT"
    <3>1. Bound(f, b).status = Rules(f).status
      BY <2>1 DEF Bound, Rules
    <3>2. QED
      BY <2>1, <3>1 DEF Verdicts
  <2>2. CASE Rules(f).status # "DRIFT"
    BY <2>2, <1>3 DEF Bound, Verdicts
  <2>3. QED
    BY <2>1, <2>2
<1>4. Handmade(way).status \in Verdicts
  BY DEF Handmade, Verdicts
<1>5. QED
  BY <1>1, <1>2, <1>3, <1>4 DEF VerdictOf

LEMMA MrdpFields ==
  ASSUME NEW v, NEW f, NEW first
  PROVE  /\ BuildMrdp(v, f, first).sealed = TRUE /\ BuildMrdp(v, f, first) # NoProof
         /\ BuildMrdp(v, f, first).status = v.status
         /\ BuildMrdp(v, f, first).primary = v.primary
         /\ BuildMrdp(v, f, first).told = v.told
BY DEF BuildMrdp, NoProof

LEMMA TransitionVerdict ==
  VerdictSound /\ (Transition \/ Observe \/ Resolve \/ Recover) => VerdictSound'
<1> SUFFICES ASSUME VerdictSound, Transition \/ Observe \/ Resolve \/ Recover
             PROVE  VerdictSound'
  OBVIOUS
<1>1. state' \notin Verdicts /\ status' = status /\ mrdp' = mrdp
  BY DEF Transition, Observe, Resolve, Recover, Recorded, Verdicts
<1>2. CASE Transition
  <2>1. /\ facts' = facts /\ judged' = judged /\ how' = how
        /\ state \notin Evaluating
    BY <1>2 DEF Transition, Recorded, Evaluating, CanTransition, PermittedTransitions, Verdicts
  <2>2. QED
    BY <1>1, <2>1 DEF VerdictSound, Verdicts, First, Origins
<1>3. CASE Observe \/ Resolve \/ Recover
  <2>1. state' \in Evaluating /\ how' # "OVERCHARGE"
    BY <1>3 DEF Observe, Resolve, Recover, Recorded, Evaluating
  <2>2. QED
    BY <1>1, <2>1 DEF VerdictSound, Verdicts, Evaluating
<1>4. QED
  BY <1>2, <1>3

LEMMA ApplyVerdict == VerdictSound /\ ApplyIntegrityResult => VerdictSound'
<1> SUFFICES ASSUME VerdictSound, ApplyIntegrityResult PROVE VerdictSound'
  OBVIOUS
<1> DEFINE verdict == VerdictOf(how, judged)
           proof == BuildMrdp(verdict, facts, First(facts))
<1>1. /\ state' = verdict.status /\ status' = verdict.status
      /\ judged' = judged /\ facts' = facts /\ how' = how
      /\ mrdp' = IF verdict.status = "PASS" THEN NoProof ELSE proof
  BY DEF ApplyIntegrityResult, Recorded
<1>2. verdict.status \in Verdicts /\ proof.sealed = TRUE /\ proof.status = verdict.status
  BY VerdictStatus, MrdpFields
<1>3. verdict' = verdict /\ First(facts)' = First(facts)
  <2>1. VerdictOf(how, judged)' = VerdictOf(how, judged) /\ First(facts)' = First(facts)
    BY <1>1
  <2>2. QED
    BY <2>1
<1>4. proof' = proof
  BY <1>1, <1>3
<1> HIDE DEF verdict, proof
<1>5. mrdp' # NoProof => mrdp'.sealed
  BY <1>1, <1>2
<1>6. mrdp'.status \in {"NONE", "DRIFT", "UNKNOWN"}
  BY <1>1, <1>2 DEF NoProof, Verdicts
<1>7. /\ status' # "NONE" => status' = verdict'.status
      /\ status' \in {"DRIFT", "UNKNOWN"} => mrdp' = proof'
  BY <1>1, <1>3, <1>4
<1>8. status' \in {"NONE", "PASS"} => mrdp' = NoProof
  BY <1>1, <1>2 DEF Verdicts
<1>9. QED
  BY <1>1, <1>2, <1>5, <1>6, <1>7, <1>8 DEF VerdictSound, Verdicts, verdict, proof

-----------------------------------------------------------------------------
(* The archive. *)

LEMMA ReplayAnswers ==
  ASSUME NEW s PROVE ReplayVerdict(s) \in {"MATCH", "MISMATCH", "INVALID_REPLAY"}
BY DEF ReplayVerdict

LEMMA ArchiveStep == ArchiveSound /\ [Next]_vars => ArchiveSound'
<1> SUFFICES ASSUME ArchiveSound, [Next]_vars PROVE ArchiveSound'
  OBVIOUS
<1> USE DEF ArchiveSound
<1>1. CASE \/ Transition \/ Observe \/ Resolve \/ Recover \/ ApplyIntegrityResult
  <2>1. /\ archive = << >> /\ archive' = archive /\ honest' = honest /\ outcome' = outcome
    BY <1>1 DEF Transition, Observe, Resolve, Recover, ApplyIntegrityResult, Recorded
  <2>2. honest /\ outcome # "MATCH"
    BY <2>1
  <2>3. QED
    BY <2>1, <2>2
<1>2. CASE Archive
  <2>1. /\ archive = << >> /\ archive' = <<Snapshot>> /\ honest' = honest /\ outcome' = outcome
    BY <1>2 DEF Archive
  <2>2. honest /\ outcome # "MATCH"
    BY <2>1
  <2>3. Snapshot' = Snapshot /\ state' \notin Evaluating
    BY <1>2 DEF Archive, Snapshot, live, Evaluating, Verdicts
  <2>4. QED
    BY <2>1, <2>2, <2>3
<1>3. CASE Damage
  <2>1. /\ archive # << >> /\ honest /\ outcome = "NONE" /\ honest' = FALSE
        /\ outcome' = outcome /\ Snapshot' = Snapshot /\ state' = state
    BY <1>3 DEF Damage, Snapshot, live
  <2>2. archive = <<Snapshot>> /\ archive[1] = Snapshot
    BY <2>1
  <2>3. \E d : archive' = <<d>> /\ Damaged(Snapshot, d)
    BY <1>3, <2>2 DEF Damage, Damaged
  <2>4. \E d : archive' = <<d>> /\ Damaged(Snapshot', d)
    BY <2>1, <2>3
  <2>5. QED
    BY <2>1, <2>4
<1>4. CASE ExecuteGovernedReplay
  <2>1. PICK samePolicy \in BOOLEAN : outcome' = GovernedVerdict(archive[1], samePolicy)
    BY <1>4 DEF ExecuteGovernedReplay
  <2>2. /\ archive # << >> /\ archive' = archive /\ honest' = honest /\ Snapshot' = Snapshot
        /\ state' = state
    BY <1>4 DEF ExecuteGovernedReplay, Snapshot, live
  <2>3. /\ outcome' \in {"MATCH", "MISMATCH", "INVALID_REPLAY"}
        /\ outcome' = "MATCH" => ReplayVerdict(archive[1]) = "MATCH"
    BY <2>1, ReplayAnswers DEF GovernedVerdict
  <2>4. /\ honest' \in BOOLEAN
        /\ \/ archive' = << >> /\ honest'
           \/ honest' /\ archive' = <<Snapshot'>>
           \/ ~ honest' /\ \E d : archive' = <<d>> /\ Damaged(Snapshot', d)
        /\ archive' # << >> => state' \notin Evaluating
    BY <2>2
  <2>5. outcome' = "MATCH" => archive' # << >> /\ ReplayVerdict(archive'[1]) = "MATCH"
    BY <2>2, <2>3
  <2>6. QED
    BY <2>3, <2>4, <2>5
<1>5. CASE UNCHANGED vars
  <2>1. /\ Snapshot' = Snapshot /\ archive' = archive /\ honest' = honest /\ outcome' = outcome
        /\ state' = state
    BY <1>5 DEF vars, live, Snapshot
  <2>2. QED
    BY <2>1
<1>6. QED
  BY <1>1, <1>2, <1>3, <1>4, <1>5 DEF Next

-----------------------------------------------------------------------------
(* The invariant holds. *)

LEMMA SoundInitially == Init => Sound
<1> SUFFICES ASSUME Init PROVE Sound
  OBVIOUS
<1> USE DEF Init
<1>1. FactsSound
  <2>1. facts \in FactRecords /\ facts.amounts = {} /\ facts.events = {}
    BY DEF NoFacts, FactRecords
  <2>2. QED
    BY <2>1, NoRecords DEF FactsSound
<1>2. HistorySound
  <2>1. history = << >> /\ history \in Seq(Transitions) /\ Len(history) = 0
    OBVIOUS
  <2>2. ~ IllegalHistory(history)
    BY <2>1 DEF IllegalHistory
  <2>3. ReplayedState(history) = state /\ state \in LifecycleStates
    BY <2>1 DEF ReplayedState, LifecycleStates
  <2>4. QED
    BY <2>1, <2>2, <2>3, ReplayAssumption DEF HistorySound
<1>3. VerdictSound
  BY DEF VerdictSound, NoProof
<1>4. ArchiveSound
  BY DEF ArchiveSound
<1>5. QED
  BY <1>1, <1>2, <1>3, <1>4 DEF Sound

LEMMA SoundStep == Sound /\ [Next]_vars => Sound'
<1> SUFFICES ASSUME Sound, [Next]_vars PROVE Sound'
  OBVIOUS
<1>1. ArchiveSound'
  BY ArchiveStep DEF Sound
<1>2. FactsSound'
  <2>1. CASE Observe \/ Resolve \/ Recover
    <3>1. Len(history) \in Nat
      BY DEF Sound, HistorySound
    <3>2. QED
      BY <2>1, <3>1, FactsStep DEF Sound
  <2>2. CASE facts' = facts
    BY <2>2 DEF Sound, FactsSound, OfOneId
  <2>3. QED
    BY <2>1, <2>2 DEF Next, Transition, ApplyIntegrityResult, Archive, Damage,
       ExecuteGovernedReplay, live, vars
<1>3. HistorySound'
  <2>1. CASE \/ Transition \/ Observe \/ Resolve \/ Recover \/ ApplyIntegrityResult
    <3>1. PICK to : Recorded(to)
      BY <2>1 DEF Transition, Observe, Resolve, Recover, ApplyIntegrityResult
    <3>2. QED
      BY <3>1, Recording, ReplayAssumption DEF Sound
  <2>2. CASE history' = history /\ state' = state
    BY <2>2 DEF Sound, HistorySound
  <2>3. QED
    BY <2>1, <2>2 DEF Next, Archive, Damage, ExecuteGovernedReplay, live, vars
<1>4. VerdictSound'
  <2>1. CASE \/ Transition \/ Observe \/ Resolve \/ Recover \/ ApplyIntegrityResult
    BY <2>1, TransitionVerdict, ApplyVerdict DEF Sound
  <2>2. CASE UNCHANGED live
    <3>1. VerdictOf(how, judged)' = VerdictOf(how, judged) /\ First(facts)' = First(facts)
      BY <2>2 DEF live
    <3>2. QED
      BY <2>2, <3>1 DEF Sound, VerdictSound, live
  <2>3. QED
    BY <2>1, <2>2 DEF Next, Archive, Damage, ExecuteGovernedReplay, vars
<1>5. QED
  BY <1>1, <1>2, <1>3, <1>4 DEF Sound

LEMMA AlwaysSound == Spec => []Sound
BY SoundInitially, SoundStep, PTL DEF Spec

(***************************************************************************)
(* The record of the transaction keeps its shape: a proof is of no PASS,   *)
(* an id stands for one amount, and an archive nobody touched is the       *)
(* transaction.                                                            *)
(***************************************************************************)
THEOREM TypeCorrect == Spec => []TypeOK
<1>1. Sound => TypeOK
  BY DEF Sound, FactsSound, HistorySound, VerdictSound, ArchiveSound, TypeOK, OfOneId
<1>2. QED
  BY <1>1, AlwaysSound, PTL

-----------------------------------------------------------------------------
(* What the engine answers. *)

\* The proof a replay reconstructs.
ReplayedProof(f) == BuildMrdp(Rules(f), f, FirstInOrder(f))

LEMMA MatchMeans ==
  ASSUME NEW s
  PROVE  ReplayVerdict(s) = "MATCH" <=>
           /\ ~ Ambiguous(s.facts) /\ ~ IllegalHistory(s.history)
           /\ s.rules
           /\ ReplayedState(s.history) = s.final
           /\ s.status = "NONE" \/ s.status = Judgement(s.facts).status
           /\ s.final = "PASS" => Judgement(s.facts).status = "PASS"
           /\ s.mrdp # NoProof =>
                /\ s.mrdp.sealed
                /\ \/ Judgement(s.facts).status = "PASS"
                   \/ s.mrdp = [ReplayedProof(s.facts) EXCEPT !.sealed = s.mrdp.sealed]
<1> DEFINE replayed == Judgement(s.facts).status
           proof == [ReplayedProof(s.facts) EXCEPT !.sealed = s.mrdp.sealed]
           D == Discrepancies(s)
<1>1. /\ "rules" \in D <=> ~ s.rules
      /\ "final_state" \in D <=> ReplayedState(s.history) # s.final
      /\ "status" \in D <=> s.status # "NONE" /\ s.status # replayed
      /\ "integrity_divergence" \in D <=> s.final = "PASS" /\ replayed # "PASS"
      /\ "digest" \in D <=> s.mrdp # NoProof /\ ~ (s.mrdp.sealed)
      /\ "proof" \in D <=> s.mrdp # NoProof /\ replayed # "PASS" /\ s.mrdp # proof
      /\ D \subseteq {"rules", "final_state", "status", "integrity_divergence", "digest", "proof"}
  BY DEF Discrepancies, ReplayedProof
<1> HIDE DEF D
<1>2. ReplayVerdict(s) = "MATCH" <=>
        ~ Ambiguous(s.facts) /\ ~ IllegalHistory(s.history) /\ D = {}
  BY DEF ReplayVerdict, D
<1>3. QED
  BY <1>1, <1>2

LEMMA SnapshotFields ==
  /\ Snapshot.history = history /\ Snapshot.facts = facts /\ Snapshot.status = status
  /\ Snapshot.final = state /\ Snapshot.mrdp = mrdp /\ Snapshot.rules = TRUE
BY DEF Snapshot

\* A verdict of the rules on the facts kept.
LEMMA AsKept ==
  ASSUME VerdictSound, state \notin Evaluating, status # "NONE", how = "rules", judged = facts
  PROVE  /\ status = Judgement(facts).status
         /\ status # "PASS" => mrdp = BuildMrdp(Rules(facts), facts, First(facts))
<1>1. VerdictOf(how, judged) = Rules(facts)
  BY DEF VerdictOf
<1>2. Rules(facts).status = Judgement(facts).status
  BY DEF Rules
<1>3. QED
  BY <1>1, <1>2 DEF VerdictSound, Verdicts

(***************************************************************************)
(* HonestReplays: the engine accuses no archive that nobody touched,       *)
(* whatever way the transaction took, if the verdict is that of the rules  *)
(* on the facts kept, no record was stated again with other content, and   *)
(* sorting leaves a record of the same source first.                       *)
(***************************************************************************)
THEOREM HonestMatches == Spec => []HonestReplays
<1>1. Sound => HonestReplays
  <2> SUFFICES ASSUME Sound, archive # << >>, honest, JudgedAsKept, ~ facts.restated,
                      {e.source : e \in First(facts)} = {e.source : e \in FirstInOrder(facts)}
               PROVE  ReplayVerdict(archive[1]) = "MATCH"
    BY DEF HonestReplays
  <2> USE DEF Sound
  <2>1. archive[1] = Snapshot /\ state \notin Evaluating
    BY DEF ArchiveSound
  <2>2. ~ Ambiguous(facts) /\ ~ IllegalHistory(history) /\ ReplayedState(history) = state
    BY DEF FactsSound, HistorySound, Ambiguous, OfOneId
  <2>3. CASE status = "NONE"
    <3>1. mrdp = NoProof /\ state # "PASS"
      BY <2>3 DEF VerdictSound
    <3>2. QED
      BY <2>1, <2>2, <2>3, <3>1, SnapshotFields, MatchMeans
  <2>4. CASE status # "NONE"
    <3>1. /\ status = Judgement(facts).status
          /\ status # "PASS" => mrdp = BuildMrdp(Rules(facts), facts, First(facts))
      BY <2>1, <2>4, AsKept DEF JudgedAsKept
    <3>2. state = "PASS" => Judgement(facts).status = "PASS"
      BY <3>1 DEF VerdictSound
    <3>3. ReplayedProof(facts) = BuildMrdp(Rules(facts), facts, First(facts))
      <4>1. DriftSource(Rules(facts), facts, First(facts))
              = DriftSource(Rules(facts), facts, FirstInOrder(facts))
        BY DEF DriftSource
      <4>2. QED
        BY <4>1 DEF ReplayedProof, BuildMrdp
    <3>4. status # "PASS" => mrdp = [ReplayedProof(facts) EXCEPT !.sealed = mrdp.sealed]
      BY <3>1, <3>3 DEF BuildMrdp
    <3>5. mrdp # NoProof => mrdp.sealed
      BY DEF VerdictSound
    <3>6. \/ Judgement(facts).status = "PASS"
          \/ mrdp = [ReplayedProof(facts) EXCEPT !.sealed = mrdp.sealed]
      BY <3>1, <3>4
    <3>7. QED
      BY <2>1, <2>2, <3>1, <3>2, <3>5, <3>6, SnapshotFields, MatchMeans
  <2>5. QED
    BY <2>3, <2>4
<1>2. QED
  BY <1>1, AlwaysSound, PTL

-----------------------------------------------------------------------------
(* A damaged history is not legal, or leads elsewhere. *)

LEMMA DamageShows ==
  ASSUME HistorySound, NEW h \in DamagedHistories(history), h # history,
         ~ IllegalHistory(h), ReplayedState(h) = state
  PROVE  FALSE
<1> USE DEF HistorySound
<1>1. history \in Seq(Transitions) /\ Len(history) \in Nat
      /\ \A i \in 1 .. Len(history) :
           Legal(history, i) /\ history[i] \in Transitions
  BY DEF IllegalHistory
<1>2. \A i \in 1 .. Len(history) : history[i].from # history[i].to
  BY <1>1 DEF Legal, CanTransition
<1>3. \A i \in 1 .. Len(history) : i # 1 => history[i].from = history[i - 1].to
  BY <1>1 DEF Legal
<1>4. 1 \in DOMAIN history => history[1].from = "CREATED"
  BY <1>1 DEF Legal
<1>5. history # << >> => state = history[Len(history)].to
  BY <1>1 DEF ReplayedState, Last
<1>6. ASSUME NEW i \in 1 .. Len(history), h = Without(history, i) PROVE FALSE
  <2> DEFINE n == Len(history)
  <2>1. /\ h \in Seq(Transitions) /\ Len(h) = n - 1
        /\ \A j \in 1 .. n - 1 : h[j] = IF j < i THEN history[j] ELSE history[j + 1]
    BY <1>1, <1>6 DEF Without
  <2>2. CASE i < n
    <3>1. i \in DOMAIN h /\ h[i] = history[i + 1]
      BY <1>1, <2>1, <2>2
    <3>2. Legal(h, i)
      BY <3>1 DEF IllegalHistory
    <3>3. h[i].from = IF i = 1 THEN "CREATED" ELSE h[i - 1].to
      BY <3>2 DEF Legal
    <3>4. i # 1 => h[i - 1] = history[i - 1]
      BY <1>1, <2>1, <2>2
    <3>5. h[i].from = history[i].from
      <4>1. CASE i = 1
        BY <1>1, <1>4, <3>3, <4>1
      <4>2. CASE i # 1
        BY <1>3, <3>3, <3>4, <4>2
      <4>3. QED
        BY <4>1, <4>2
    <3>6. history[i + 1].from = history[i].to
      <4>1. i + 1 \in 1 .. n /\ i + 1 # 1 /\ (i + 1) - 1 = i
        BY <1>1, <2>2
      <4>2. QED
        BY <1>3, <4>1
    <3>7. QED
      BY <1>2, <3>1, <3>5, <3>6
  <2>3. CASE i = n
    <3>1. state = history[n].to
      BY <1>1, <1>5, <2>3
    <3>2. CASE n = 1
      <4>1. h = << >>
        BY <2>1, <3>2
      <4>2. state = "CREATED"
        BY <4>1 DEF ReplayedState
      <4>3. QED
        BY <1>1, <1>2, <1>4, <3>1, <3>2, <4>2
    <3>3. CASE n # 1
      <4>1. n - 1 \in 1 .. n - 1 /\ n - 1 < i /\ h[n - 1] = history[n - 1]
        BY <1>1, <2>1, <2>3, <3>3
      <4>2. h # << >> /\ Last(h) = h[n - 1]
        BY <2>1, <4>1 DEF Last
      <4>3. state = history[n - 1].to
        BY <4>1, <4>2 DEF ReplayedState
      <4>4. QED
        BY <1>1, <1>2, <1>3, <2>3, <3>1, <3>3, <4>3
    <3>4. QED
      BY <3>2, <3>3
  <2>4. QED
    BY <1>1, <2>2, <2>3
<1>7. ASSUME NEW i \in 1 .. Len(history), NEW to, h = [history EXCEPT ![i].to = to]
      PROVE  FALSE
  <2> DEFINE n == Len(history)
  <2>1. /\ Len(h) = n /\ DOMAIN h = 1 .. n
        /\ h[i] = [history[i] EXCEPT !.to = to]
        /\ \A j \in 1 .. n : j # i => h[j] = history[j]
    <3> DEFINE T == Transitions \cup {h[i]}
    <3> DEFINE altered == [history[i] EXCEPT !.to = to]
    <3>0. h = [history EXCEPT ![i] = altered]
      BY <1>7
    <3> HIDE DEF altered
    <3>1. /\ h = [j \in 1 .. n |-> h[j]]
          /\ h[i] = altered
          /\ \A j \in 1 .. n : j # i => h[j] = history[j]
      <4>1. history = [j \in 1 .. n |-> history[j]] /\ i \in 1 .. n
        BY <1>1
      <4> HIDE DEF n
      <4>2. h = [j \in 1 .. n |-> IF j = i THEN altered ELSE history[j]]
        BY ONLY <4>1, <3>0
      <4>3. QED
        BY ONLY <4>1, <4>2
    <3>2. \A j \in 1 .. n : h[j] \in T
      BY <1>1, <3>1
    <3> HIDE DEF T
    <3>3. h \in Seq(T)
      BY <1>1, <3>1, <3>2
    <3>4. QED
      BY <1>1, <3>1, <3>3 DEF altered
  <2>2. h[i].to = to /\ h[i].from = history[i].from /\ h[i].trusted = history[i].trusted
    BY <1>1, <2>1 DEF Transitions
  <2>3. to # history[i].to
    <3>1. SUFFICES ASSUME to = history[i].to PROVE FALSE
      OBVIOUS
    <3>2. h[i] = history[i]
      BY <1>1, <2>1, <3>1 DEF Transitions
    <3>3. h = history
      BY <1>1, <1>7, <2>1, <3>2
    <3>4. QED
      BY <3>3
  <2>4. CASE i < n
    <3>1. i + 1 \in 1 .. n /\ i + 1 # 1 /\ (i + 1) - 1 = i /\ i + 1 # i
      BY <1>1, <2>4
    <3>2. Legal(h, i + 1)
      BY <2>1, <3>1 DEF IllegalHistory
    <3>3. h[i + 1].from = h[i].to
      BY <3>1, <3>2 DEF Legal
    <3>4. history[i + 1].from = history[i].to /\ h[i + 1] = history[i + 1]
      BY <1>3, <2>1, <3>1
    <3>5. QED
      BY <2>2, <2>3, <3>3, <3>4
  <2>5. CASE i = n
    <3>1. h # << >> /\ Last(h) = h[n]
      BY <1>1, <2>1, <2>5 DEF Last
    <3>2. state = to
      BY <2>2, <2>5, <3>1 DEF ReplayedState
    <3>3. QED
      BY <1>1, <1>5, <2>3, <2>5, <3>2
  <2>6. QED
    BY <1>1, <2>4, <2>5
<1>8. ASSUME NEW i \in 1 .. Len(history), h = [history EXCEPT ![i].trusted = FALSE]
      PROVE  FALSE
  <2>1. i \in DOMAIN h /\ h[i].trusted = FALSE
    BY <1>1, <1>8 DEF Transitions
  <2>2. Legal(h, i)
    BY <2>1 DEF IllegalHistory
  <2>3. QED
    BY <2>1, <2>2 DEF Legal
<1>9. DOMAIN history = 1 .. Len(history)
  BY <1>1
<1>10. QED
  BY <1>6, <1>7, <1>8, <1>9 DEF DamagedHistories

(***************************************************************************)
(* MatchIsTrue: of the parts that can be damaged, one at a time, the       *)
(* transitions and the final state cannot be damaged behind the engine's   *)
(* back, and neither can the verdict, if it is that of the rules on the    *)
(* facts kept (ReplayEngine.replay, replay_state_transitions).             *)
(***************************************************************************)
THEOREM MatchTellsTheTruth == Spec => []MatchIsTrue
<1>1. Sound => MatchIsTrue
  <2> SUFFICES ASSUME Sound, outcome = "MATCH"
               PROVE  /\ archive[1].history = history
                      /\ archive[1].final = state
                      /\ JudgedAsKept => archive[1].status = status
    BY DEF MatchIsTrue
  <2> USE DEF Sound
  <2>1. ReplayVerdict(archive[1]) = "MATCH" /\ state \notin Evaluating
    BY DEF ArchiveSound
  <2>2. CASE archive = <<Snapshot>>
    BY <2>2, SnapshotFields
  <2>3. ASSUME NEW d, archive = <<d>>, Damaged(Snapshot, d)
        PROVE  d.history = history /\ d.final = state /\ (JudgedAsKept => d.status = status)
    <3>1. ReplayVerdict(d) = "MATCH"
      BY <2>1, <2>3
    <3>2. /\ ~ IllegalHistory(d.history) /\ ReplayedState(d.history) = d.final
          /\ d.status = "NONE" \/ d.status = Judgement(d.facts).status
      BY <3>1, MatchMeans
    <3>3. ASSUME NEW h \in DamagedHistories(history), h # history,
                 d = [Snapshot EXCEPT !.history = h]
          PROVE  FALSE
      <4>1. d.history = h /\ d.final = state
        BY <3>3 DEF Snapshot
      <4>2. QED
        BY <3>2, <3>3, <4>1, DamageShows
    <3>4. ASSUME NEW f, d = [Snapshot EXCEPT !.facts = f]
          PROVE  d.history = history /\ d.final = state /\ d.status = status
      BY <3>4 DEF Snapshot
    <3>5. ASSUME status # "NONE", NEW v \in Verdicts, v # status,
                 d = [Snapshot EXCEPT !.status = v]
          PROVE  d.history = history /\ d.final = state /\ ~ JudgedAsKept
      <4>1. d.status = v /\ d.facts = facts /\ d.history = history /\ d.final = state
        BY <3>5 DEF Snapshot
      <4>2. JudgedAsKept => status = Judgement(facts).status
        BY <2>1, <3>5, AsKept DEF JudgedAsKept
      <4>3. QED
        BY <3>2, <3>5, <4>1, <4>2 DEF Verdicts
    <3>6. ASSUME NEW t, t # state, d = [Snapshot EXCEPT !.final = t] PROVE FALSE
      <4>1. d.final = t /\ d.history = history
        BY <3>6 DEF Snapshot
      <4>2. QED
        BY <3>2, <3>6, <4>1 DEF HistorySound
    <3>7. ASSUME NEW p, d = [Snapshot EXCEPT !.mrdp = p] \/ d = [Snapshot EXCEPT !.rules = FALSE]
          PROVE  d.history = history /\ d.final = state /\ d.status = status
      BY <3>7 DEF Snapshot
    <3>8. QED
      BY <2>3, <3>3, <3>4, <3>5, <3>6, <3>7, SnapshotFields DEF Damaged
  <2>4. QED
    BY <2>2, <2>3 DEF ArchiveSound
<1>2. QED
  BY <1>1, AlwaysSound, PTL

-----------------------------------------------------------------------------
(* The proof of an overcharge. *)

\* An overcharge is stated of one value, which every leading record has.
LEMMA OneValue ==
  ASSUME NEW f, IsFiniteSet(f.amounts), HasLatest(f.amounts), Primary(f) = "OVERCHARGE"
  PROVE  \E v : /\ {e.value : e \in Top(f.amounts)} = {v}
                /\ Values(Leading(f.amounts)) = {v}
<1> DEFINE top == Top(f.amounts)
           value == [e \in top |-> e.value]
<1>1. "OVERCHARGE" \in Judgement(f).viol
  BY DEF Primary
<1>2. Economic(f.amounts, MaxTotal) = "DRIFT"
  BY <1>1 DEF Judgement, Evaluate
<1>3. Cardinality(Values(top)) = 1
  BY <1>2 DEF Economic
<1>4. top \in SUBSET f.amounts
  BY DEF Top
<1>5. IsFiniteSet(top)
  BY ONLY <1>4, IsFiniteSet(f.amounts), FS_Subset
<1> HIDE DEF top
<1>6. value \in Surjection(top, Values(top))
  BY DEF Surjection, Values
<1> HIDE DEF value
<1>7. IsFiniteSet(Values(top))
  BY ONLY <1>5, <1>6, FS_Surjection
<1>8. PICK v : Values(top) = {v}
  BY ONLY <1>3, <1>7, FS_Singleton
<1>9. top # {} /\ \A e \in top : e.value = v
  BY <1>8 DEF Values
<1>10. PICK e \in top : \A g \in top : g.at <= e.at
  BY <1>4, <1>9 DEF HasLatest
<1>11. e \in Leading(f.amounts) /\ Leading(f.amounts) \subseteq top
  BY <1>10 DEF Leading, top
<1>12. Values(Leading(f.amounts)) = {v}
  BY <1>9, <1>11 DEF Values
<1>13. {x.value : x \in top} = {v}
  BY <1>8 DEF Values
<1>14. QED
  BY <1>12, <1>13 DEF top

\* The facts of an archive remain such that one is the latest.
LEMMA DamagedKept ==
  ASSUME FactsSound, ReplayAssumption, NEW f \in DamagedFacts(facts)
  PROVE  IsFiniteSet(f.amounts) /\ HasLatest(f.amounts)
<1> USE DEF FactsSound
<1>1. ASSUME NEW kept \in SUBSET facts.amounts, NEW e \in facts.amounts, NEW v \in Amounts,
             f = [facts EXCEPT !.amounts = kept \cup {[e EXCEPT !.value = v]}]
      PROVE  IsFiniteSet(f.amounts) /\ HasLatest(f.amounts)
  <2> DEFINE new == [e EXCEPT !.value = v]
  <2>1. new.at \in Nat /\ \A g \in kept : g.at \in Nat
    BY DEF FactRecords, AmountRecords
  <2> HIDE DEF new
  <2>2. f.amounts = kept \cup {new}
    BY <1>1 DEF FactRecords, new
  <2>3. IsFiniteSet(kept) /\ HasLatest(kept)
    BY FS_Subset, LatestOfFewer
  <2>4. IsFiniteSet(kept \cup {new})
    BY <2>3, FS_AddElement
  <2>5. HasLatest(kept \cup {new})
    BY <2>1, <2>3, LatestOfMore
  <2>6. QED
    BY <2>2, <2>4, <2>5
<1>2. ASSUME NEW e, f = [facts EXCEPT !.amounts = @ \ {e}]
      PROVE  IsFiniteSet(f.amounts) /\ HasLatest(f.amounts)
  <2>1. f.amounts = facts.amounts \ {e}
    BY <1>2 DEF FactRecords
  <2>2. facts.amounts \ {e} \in SUBSET facts.amounts
    OBVIOUS
  <2>3. QED
    BY <2>1, <2>2, FS_Subset, LatestOfFewer
<1>3. CASE f.amounts = facts.amounts
  BY <1>3
<1>4. ASSUME NEW e \in facts.amounts, NEW v \in Amounts,
             \/ f = [facts EXCEPT !.amounts = (@ \ {e}) \cup {[e EXCEPT !.value = v]}]
             \/ f = [facts EXCEPT !.amounts = @ \cup {[e EXCEPT !.value = v]}]
      PROVE  IsFiniteSet(f.amounts) /\ HasLatest(f.amounts)
  BY <1>1, <1>4, facts.amounts \ {e} \in SUBSET facts.amounts
<1>5. ASSUME NEW c, \/ f = [facts EXCEPT !.items = c] \/ f = [facts EXCEPT !.events = c]
                    \/ f = [facts EXCEPT !.twice = c]
      PROVE  f.amounts = facts.amounts
  BY <1>5 DEF FactRecords
<1>6. QED
  BY <1>2, <1>3, <1>4, <1>5 DEF DamagedFacts

\* A verdict that names an overcharge has it from the rules.
LEMMA SpokenOfTheFacts ==
  ASSUME NEW way, NEW f, VerdictOf(way, f).primary = "OVERCHARGE",
         way # "OVERCHARGE"
  PROVE  Primary(f) = "OVERCHARGE" /\ VerdictOf(way, f).told = Told(f)
<1>1. Rules(f).primary = Primary(f) /\ Rules(f).told = Told(f)
  BY DEF Rules
<1>2. ASSUME NEW b, Bound(f, b).primary = "OVERCHARGE"
      PROVE  Rules(f).primary = "OVERCHARGE" /\ Bound(f, b).told = Rules(f).told
  <2>1. CASE Rules(f).status = "DRIFT"
    <3>1. Bound(f, b).primary = Rules(f).primary /\ Bound(f, b).told = Rules(f).told
      BY <2>1 DEF Bound, Rules
    <3>2. QED
      BY <1>2, <3>1
  <2>2. CASE Rules(f).status # "DRIFT"
    BY <1>2, <2>2 DEF Bound
  <2>3. QED
    BY <2>1, <2>2
<1>3. Handmade(way).primary = way
  BY DEF Handmade
<1>4. QED
  BY <1>1, <1>2, <1>3 DEF VerdictOf

(***************************************************************************)
(* ProofPinsTheAmount: the digest of a drift proof covers the amounts that *)
(* were observed, so an archive that matches with the proof of an          *)
(* overcharge has the amount that was judged, although any other amount    *)
(* above the ceiling gives the same verdict (build_mrdp).                  *)
(***************************************************************************)
THEOREM AmountIsPinned == Spec => []ProofPinsTheAmount
<1>1. Sound => ProofPinsTheAmount
  <2> SUFFICES ASSUME Sound, outcome = "MATCH", status = "DRIFT", judged = facts,
                      archive[1].mrdp.primary = "OVERCHARGE"
               PROVE  Values(Leading(archive[1].facts.amounts)) = Values(Leading(facts.amounts))
    BY DEF ProofPinsTheAmount
  <2> USE DEF Sound
  <2>1. ReplayVerdict(archive[1]) = "MATCH" /\ state \notin Evaluating
    BY DEF ArchiveSound
  <2>2. CASE archive[1].facts = facts
    BY <2>2
  <2>3. ASSUME NEW f \in DamagedFacts(facts), archive[1] = [Snapshot EXCEPT !.facts = f]
        PROVE  Values(Leading(archive[1].facts.amounts)) = Values(Leading(facts.amounts))
    <3>1. archive[1].facts = f /\ archive[1].status = status /\ archive[1].mrdp = mrdp
      BY <2>3 DEF Snapshot
    <3>2. /\ mrdp = BuildMrdp(VerdictOf(how, facts), facts, First(facts))
          /\ mrdp.primary = "OVERCHARGE"
      BY <2>1, <3>1 DEF VerdictSound
    <3>3. Judgement(f).status = "DRIFT"
      BY <2>1, <3>1, MatchMeans
    <3>4. mrdp = [ReplayedProof(f) EXCEPT !.sealed = mrdp.sealed]
      <4>1. archive[1].mrdp # NoProof
        BY <3>1, <3>2 DEF BuildMrdp, NoProof
      <4>2. archive[1].mrdp =
              [ReplayedProof(archive[1].facts) EXCEPT !.sealed = archive[1].mrdp.sealed]
        <5>1. Judgement(archive[1].facts).status # "PASS"
          BY <3>1, <3>3
        <5>2. QED
          BY <2>1, <4>1, <5>1, MatchMeans
      <4>3. QED
        BY <3>1, <4>2
    <3>5. mrdp.primary = Primary(f) /\ mrdp.told = Told(f)
      BY <3>4 DEF ReplayedProof, BuildMrdp, Rules
    <3>6. /\ Primary(f) = "OVERCHARGE" /\ Primary(facts) = "OVERCHARGE"
          /\ Told(f) = Told(facts)
      <4>1. VerdictOf(how, facts).primary = "OVERCHARGE" /\ VerdictOf(how, facts).told = Told(f)
        BY <3>1, <3>2, <3>5 DEF BuildMrdp
      <4>2. Primary(facts) = "OVERCHARGE" /\ VerdictOf(how, facts).told = Told(facts)
        BY <4>1, SpokenOfTheFacts DEF VerdictSound
      <4>3. QED
        BY <3>2, <3>5, <4>1, <4>2
    <3>7. {e.value : e \in Top(f.amounts)} = {e.value : e \in Top(facts.amounts)}
      BY <3>6 DEF Told, Values
    <3>8. IsFiniteSet(f.amounts) /\ HasLatest(f.amounts)
      BY DamagedKept, ReplayAssumption
    <3>9. PICK v : {e.value : e \in Top(f.amounts)} = {v} /\ Values(Leading(f.amounts)) = {v}
      BY <3>6, <3>8, OneValue
    <3>10. PICK u : {e.value : e \in Top(facts.amounts)} = {u} /\ Values(Leading(facts.amounts)) = {u}
      BY <3>6, OneValue DEF FactsSound
    <3>11. v = u
      BY <3>7, <3>9, <3>10
    <3>12. QED
      BY <3>1, <3>9, <3>10, <3>11
  <2>4. \/ archive[1].facts = facts
        \/ \E f \in DamagedFacts(facts) : archive[1] = [Snapshot EXCEPT !.facts = f]
    <3>1. ASSUME NEW d, archive = <<d>>, Damaged(Snapshot, d)
          PROVE  \/ d.facts = facts
                 \/ \E f \in DamagedFacts(facts) : d = [Snapshot EXCEPT !.facts = f]
      <4>1. ASSUME NEW x, \/ d = [Snapshot EXCEPT !.history = x] \/ d = [Snapshot EXCEPT !.status = x]
                          \/ d = [Snapshot EXCEPT !.final = x] \/ d = [Snapshot EXCEPT !.mrdp = x]
                          \/ d = [Snapshot EXCEPT !.rules = x]
            PROVE  d.facts = facts
        BY <4>1 DEF Snapshot
      <4>2. QED
        BY <3>1, <4>1, SnapshotFields DEF Damaged
    <3>2. QED
      BY <3>1, SnapshotFields DEF ArchiveSound
  <2>5. QED
    BY <2>2, <2>3, <2>4
<1>2. QED
  BY <1>1, AlwaysSound, PTL

=============================================================================
