-------------------------- MODULE NegotiationProofs --------------------------
(***************************************************************************)
(* Proofs about Negotiation, for any transactions, intents, catalogue and  *)
(* bounds: what the ledgers keep under all that writes to them, the shape  *)
(* of the sessions, what a PASS of a remediation speaks of, that a ledger  *)
(* tells its rounds, and which intents the gate on proposals refuses.      *)
(***************************************************************************)
EXTENDS Negotiation, TLAPS, FiniteSetTheorems

-----------------------------------------------------------------------------
(***************************************************************************)
(* The ledgers of the trust information exchange by themselves, for any    *)
(* transactions, senders and messages, appended in any order.              *)
(***************************************************************************)

\* Every message but the first is chained to the one before it.
Chained ==
  \A tx \in Txs : \A i \in 2 .. Len(ledger[tx]) :
    ledger[tx][i].prev = Hash(ledger[tx][i - 1])

\* seen misses no message on any ledger.
SeenAll ==
  \A tx \in Txs : \A i \in 1 .. Len(ledger[tx]) : ledger[tx][i].id \in seen

TixInv == TixTypeOK /\ Chained /\ SeenAll /\ RecordedOnce

(***************************************************************************)
(* What a ledger looks like after a message was put at its end.            *)
(***************************************************************************)
LEMMA Appended ==
  ASSUME NEW S, NEW s \in Seq(S), NEW e \in S
  PROVE  /\ Append(s, e) \in Seq(S)
         /\ Len(Append(s, e)) = Len(s) + 1
         /\ \A i \in 1 .. Len(s) : Append(s, e)[i] = s[i]
         /\ Append(s, e)[Len(s) + 1] = e
  OBVIOUS

(***************************************************************************)
(* The start: no message anywhere.                                         *)
(***************************************************************************)
LEMMA TixInvInit == TixInit => TixInv
  BY DEF TixInit, TixInv, TixTypeOK, Chained, SeenAll, RecordedOnce

(***************************************************************************)
(* The ledgers after an accepted message m, position by position: those of *)
(* other transactions are as before, that of m has m at its end.           *)
(***************************************************************************)
LEMMA AcceptedLedger ==
  ASSUME TixTypeOK, NEW m \in Messages, Accepted(m), AppendAndVerify(m)
  PROVE  /\ ledger' \in [Txs -> Seq(Messages)]
         /\ \A tx \in Txs \ {m.tx} : ledger'[tx] = ledger[tx]
         /\ Len(ledger'[m.tx]) = Len(ledger[m.tx]) + 1
         /\ \A i \in 1 .. Len(ledger[m.tx]) : ledger'[m.tx][i] = ledger[m.tx][i]
         /\ ledger'[m.tx][Len(ledger[m.tx]) + 1] = m
         /\ Len(ledger[m.tx]) \in Nat
  <1>1. m.tx \in Txs
    BY DEF Messages
  <1>2. ledger[m.tx] \in Seq(Messages)
    BY <1>1 DEF TixTypeOK
  <1>3. ledger' = [ledger EXCEPT ![m.tx] = Append(ledger[m.tx], m)]
    BY DEF AppendAndVerify
  <1>4. ledger'[m.tx] = Append(ledger[m.tx], m)
    BY <1>1, <1>3 DEF TixTypeOK
  <1>5. Append(ledger[m.tx], m) \in Seq(Messages)
    BY <1>2, Appended
  <1>6. ledger' \in [Txs -> Seq(Messages)]
    BY <1>1, <1>3, <1>5 DEF TixTypeOK
  <1>7. \A tx \in Txs \ {m.tx} : ledger'[tx] = ledger[tx]
    BY <1>3 DEF TixTypeOK
  <1> QED
    BY <1>2, <1>4, <1>6, <1>7, Appended

LEMMA TixInvNext == TixInv /\ [TixNext]_tixVars => TixInv'
  <1> SUFFICES ASSUME TixInv, [TixNext]_tixVars PROVE TixInv'
    OBVIOUS
  <1>1. CASE UNCHANGED tixVars
    BY <1>1 DEF TixInv, TixTypeOK, Chained, SeenAll, RecordedOnce, tixVars
  <1>2. ASSUME NEW m \in Messages, AppendAndVerify(m)
        PROVE  TixInv'
    <2>1. CASE ~ Accepted(m)
      BY <1>2, <2>1
         DEF AppendAndVerify, TixInv, TixTypeOK, Chained, SeenAll, RecordedOnce, tixVars
    <2>2. CASE Accepted(m)
      <3> DEFINE n == Len(ledger[m.tx])
      <3>1. TixTypeOK
        BY DEF TixInv
      <3>2. /\ ledger' \in [Txs -> Seq(Messages)]
            /\ \A tx \in Txs \ {m.tx} : ledger'[tx] = ledger[tx]
            /\ Len(ledger'[m.tx]) = n + 1
            /\ \A i \in 1 .. n : ledger'[m.tx][i] = ledger[m.tx][i]
            /\ ledger'[m.tx][n + 1] = m
            /\ n \in Nat
        BY <1>2, <2>2, <3>1, AcceptedLedger
      <3>3. seen' = seen \cup {m.id} /\ m.id \notin seen /\ m.tx \in Txs /\ m.id \in Ids
        BY <1>2, <2>2 DEF AppendAndVerify, Accepted, Messages
      <3> HIDE DEF n
      <3>4. TixTypeOK'
        BY <3>1, <3>2, <3>3 DEF TixTypeOK
      <3>5. SeenAll'
        <4> SUFFICES ASSUME NEW tx \in Txs, NEW i \in 1 .. Len(ledger'[tx])
                     PROVE  ledger'[tx][i].id \in seen'
          BY DEF SeenAll
        <4>1. CASE tx # m.tx
          BY <3>2, <3>3, <4>1 DEF TixInv, SeenAll
        <4>2. CASE tx = m.tx /\ i \in 1 .. n
          BY <3>2, <3>3, <4>2 DEF TixInv, SeenAll, n
        <4>3. CASE tx = m.tx /\ i = n + 1
          BY <3>2, <3>3, <4>3
        <4> QED
          BY <3>2, <4>1, <4>2, <4>3
      <3>6. Chained'
        <4> SUFFICES ASSUME NEW tx \in Txs, NEW i \in 2 .. Len(ledger'[tx])
                     PROVE  ledger'[tx][i].prev = Hash(ledger'[tx][i - 1])
          BY DEF Chained, Hash
        <4>1. CASE tx # m.tx
          BY <3>2, <4>1 DEF TixInv, Chained
        <4>2. CASE tx = m.tx /\ i \in 1 .. n
          <5>1. /\ ledger'[tx][i] = ledger[tx][i] /\ i - 1 \in 1 .. n
                /\ ledger'[tx][i - 1] = ledger[tx][i - 1]
            BY <3>2, <4>2
          <5> QED
            BY <3>2, <4>2, <5>1 DEF TixInv, Chained, n
        <4>3. CASE tx = m.tx /\ i = n + 1
          <5>1. n >= 1 /\ ledger'[tx][n] = ledger[tx][n]
            BY <3>2, <4>3
          <5>2. ledger[m.tx] # << >>
            BY <5>1 DEF n
          <5>3. m.prev = Hash(ledger[m.tx][n])
            BY <2>2, <5>2 DEF Accepted, ChainHash, n
          <5>4. ledger'[tx][i - 1] = ledger[tx][n] /\ ledger'[tx][i] = m
            BY <3>2, <4>3, <5>1
          <5> QED
            BY <4>3, <5>3, <5>4
        <4> QED
          BY <3>2, <4>1, <4>2, <4>3
      <3>7. RecordedOnce'
        <4> SUFFICES ASSUME NEW t \in Txs, NEW u \in Txs,
                            NEW i \in 1 .. Len(ledger'[t]), NEW j \in 1 .. Len(ledger'[u]),
                            ledger'[t][i].id = ledger'[u][j].id
                     PROVE  t = u /\ i = j
          BY DEF RecordedOnce
        <4> DEFINE New(tx, k) == tx = m.tx /\ k = n + 1
        <4>1. \A tx \in Txs : \A k \in 1 .. Len(ledger'[tx]) :
                \/ New(tx, k) /\ ledger'[tx][k] = m
                \/ k \in 1 .. Len(ledger[tx]) /\ ledger'[tx][k] = ledger[tx][k]
          <5> SUFFICES ASSUME NEW tx \in Txs, NEW k \in 1 .. Len(ledger'[tx]), ~ New(tx, k)
                       PROVE  /\ k \in 1 .. Len(ledger[tx])
                              /\ ledger'[tx][k] = ledger[tx][k]
            BY <3>2
          <5>1. CASE tx # m.tx
            BY <3>2, <5>1
          <5>2. CASE tx = m.tx
            BY <3>2, <5>2 DEF n
          <5> QED
            BY <5>1, <5>2
        <4>2. CASE New(t, i) /\ New(u, j)
          BY <4>2
        <4>3. CASE New(t, i) /\ ~ New(u, j)
          BY <3>2, <3>3, <4>1, <4>3 DEF TixInv, SeenAll
        <4>4. CASE ~ New(t, i) /\ New(u, j)
          BY <3>2, <3>3, <4>1, <4>4 DEF TixInv, SeenAll
        <4>5. CASE ~ New(t, i) /\ ~ New(u, j)
          <5>1. i \in 1 .. Len(ledger[t]) /\ ledger'[t][i] = ledger[t][i]
            BY <4>1, <4>5
          <5>2. j \in 1 .. Len(ledger[u]) /\ ledger'[u][j] = ledger[u][j]
            BY <4>1, <4>5
          <5>3. RecordedOnce
            BY DEF TixInv
          <5>4. ledger[t][i].id = ledger[u][j].id
            BY <5>1, <5>2
          <5> HIDE DEF New
          <5> QED
            BY <5>1, <5>2, <5>3, <5>4 DEF RecordedOnce
        <4> QED
          BY <4>2, <4>3, <4>4, <4>5
      <3> QED
        BY <3>4, <3>5, <3>6, <3>7 DEF TixInv
    <2> QED
      BY <2>1, <2>2
  <1> QED
    BY <1>1, <1>2 DEF TixNext

(***************************************************************************)
(* A chained ledger is intact from its second message on.                  *)
(***************************************************************************)
LEMMA TixInvAudits == TixInv => AuditFailsAtTheStart
  <1> SUFFICES ASSUME TixInv, NEW tx \in Txs, ledger[tx] # << >>
               PROVE  ChainIntact(tx) <=> ledger[tx][1].prev = NoHash
    BY DEF AuditFailsAtTheStart
  <1>1. ledger[tx] \in Seq(Messages) /\ Len(ledger[tx]) \in Nat /\ Len(ledger[tx]) >= 1
    BY DEF TixInv, TixTypeOK
  <1>2. ChainIntact(tx) => ledger[tx][1].prev = NoHash
    BY <1>1 DEF ChainIntact
  <1>3. ASSUME ledger[tx][1].prev = NoHash, NEW i \in 1 .. Len(ledger[tx])
        PROVE  ledger[tx][i].prev = IF i = 1 THEN NoHash ELSE Hash(ledger[tx][i - 1])
    BY <1>1, <1>3 DEF TixInv, Chained
  <1> QED
    BY <1>2, <1>3 DEF ChainIntact

(***************************************************************************)
(* The ledgers are typed, whatever is sent: nothing malformed is appended. *)
(***************************************************************************)
THEOREM TixTyped == TixSpec => []TixTypeOK
  <1>1. TixInv => TixTypeOK
    BY DEF TixInv
  <1> QED
    BY <1>1, TixInvInit, TixInvNext, PTL DEF TixSpec

(***************************************************************************)
(* verify_chain_integrity can only fail at the first message of a ledger.  *)
(***************************************************************************)
THEOREM LedgersAudit == TixSpec => []AuditFailsAtTheStart
  BY TixInvInit, TixInvNext, TixInvAudits, PTL DEF TixSpec

(***************************************************************************)
(* No message id is on record twice, on one ledger or on two.              *)
(***************************************************************************)
THEOREM MessagesRecordedOnce == TixSpec => []RecordedOnce
  <1>1. TixInv => RecordedOnce
    BY DEF TixInv
  <1> QED
    BY <1>1, TixInvInit, TixInvNext, PTL DEF TixSpec

-----------------------------------------------------------------------------
(***************************************************************************)
(* Negotiation over them.                                                  *)
(***************************************************************************)

Statements == [total : Int, verdict : {"NONE", "PASS", "DRIFT", "UNKNOWN"}]

\* The constants name every message id and every body the actions make up.
Expressible ==
  /\ ({"ext", "elsewhere"} \cup Txs) \X Nat \X Nat \subseteq Ids
  /\ Statements \subseteq Bodies

Places ==
  {"idle", "noticing", "replanning", "requesting", "asking", "offering", "judging",
   "concluding", "returned"}

\* Where a session has read the head its next message will be built on.
Heading == {"noticing", "requesting", "offering", "concluding"}

\* A session that has not begun names some article.
Articles == Skus \cup {CHOOSE s \in Skus : TRUE}

Responses ==
  [ok : BOOLEAN, bound : BOOLEAN, expired : BOOLEAN, sku : Articles,
   quantity : Int, total : Int]

Remediations ==
  [at : Places, state : RoundStates, events : Given, rounds : Seq(RoundStates),
   original : {"NONE", "PASS", "DRIFT", "UNKNOWN"}, final : {"NONE", "PASS", "DRIFT", "UNKNOWN"},
   head : Seq(Ids), response : Responses]

\* A session under way has a round left, and began with a verdict.
SessionsSound ==
  /\ neg \in [Negotiated -> Remediations]
  /\ \A tx \in Negotiated :
       /\ Len(neg[tx].rounds) <= MaxRounds
       /\ neg[tx].at = "returned" => neg[tx].state \in Settled
       /\ neg[tx].at = "idle" => neg[tx].original = "NONE"
       /\ neg[tx].at = "noticing" => neg[tx].rounds = << >>
       /\ neg[tx].at \notin {"idle", "returned"} =>
            Len(neg[tx].rounds) < MaxRounds /\ neg[tx].original \notin {"NONE", "PASS"}

SurroundingsSound ==
  /\ CatalogTypeOK
  /\ mode \in {"GUARDED", "SHADOW"}
  /\ changes \in 0 .. MaxChanges
  /\ intent \in [Negotiated -> Intents]

\* seen holds nothing but what is on a ledger.
SeenRecorded ==
  \A x \in seen : \E tx \in Txs : \E i \in 1 .. Len(ledger[tx]) : ledger[tx][i].id = x

LedgersSound == TixInv /\ SeenRecorded

-----------------------------------------------------------------------------
(***************************************************************************)
(* What a session has sent so far: its rounds, and a part of the round     *)
(* under way.                                                              *)
(***************************************************************************)
Pending(session) ==
  CASE session.at \in {"asking", "offering"}    -> <<"REMEDIATION_REQUEST">>
    [] session.at \in {"judging", "concluding"} -> <<"REMEDIATION_REQUEST", "OFFER">>
    [] OTHER -> << >>

PartSoFar(session, i) ==
  IF session.original \in {"NONE", "PASS"} \/ i > Len(session.rounds) + 1 THEN << >>
  ELSE IF i = Len(session.rounds) + 1 THEN Pending(session)
  ELSE IF session.at = "noticing" THEN << >>
  ELSE Part(session, i)

Sent(session) ==
  [slot \in {slot \in Nat \X Nat : slot[2] \in DOMAIN PartSoFar(session, slot[1])}
     |-> PartSoFar(session, slot[1])[slot[2]]]

(***************************************************************************)
(* A message of a negotiation that is not on the ledger has been sent, so  *)
(* that the id of its next message is free.                                *)
(***************************************************************************)
IdsSent ==
  \A tx \in Negotiated, i, p \in Nat : <<tx, i, p>> \in seen => <<i, p>> \in DOMAIN Sent(neg[tx])

(***************************************************************************)
(* A ledger as a record of one negotiation: where its messages stand, and  *)
(* which round and place in the round they tell of.                        *)
(***************************************************************************)
PlacesIn(record, tx) == {k \in DOMAIN record : record[k].id[1] = tx}

SlotIn(record, k) == <<record[k].id[2], record[k].id[3]>>

\* A message of others stands where the message of this slot would.
MissedIn(record, tx, slot) ==
  \E k \in DOMAIN record \ PlacesIn(record, tx) : \A j \in PlacesIn(record, tx) :
    IF j < k THEN Precedes(SlotIn(record, j), slot) ELSE Precedes(slot, SlotIn(record, j))

(***************************************************************************)
(* What of the negotiation is on record was sent so, in that order; what   *)
(* was sent is on record, or another message stands in its stead.          *)
(***************************************************************************)
Recounts(record, tx, sent) ==
  /\ \A k \in PlacesIn(record, tx) :
       /\ SlotIn(record, k) \in DOMAIN sent /\ record[k].type = sent[SlotIn(record, k)]
       /\ \A j \in PlacesIn(record, tx) : j < k => Precedes(SlotIn(record, j), SlotIn(record, k))
  /\ \A slot \in DOMAIN sent :
       (\E k \in PlacesIn(record, tx) : SlotIn(record, k) = slot) \/ MissedIn(record, tx, slot)

RecordSound == \A tx \in Negotiated : Recounts(ledger[tx], tx, Sent(neg[tx]))

\* The last message is not of the negotiation.
Moved(record, tx) == record # << >> /\ Len(record) \notin PlacesIn(record, tx)

\* A head that was read is the head still, or others have moved it.
HeadsSound ==
  \A tx \in Negotiated :
    neg[tx].at \in Heading => neg[tx].head = ChainHash(tx) \/ Moved(ledger[tx], tx)

\* If the offer of round i is on record, it is for this total.
OfferTold(record, tx, i, total) ==
  \A k \in PlacesIn(record, tx) : SlotIn(record, k) = <<i, 2>> => record[k].body.total = total

(***************************************************************************)
(* What a PASS rests on: from its offer on, a session has the response it  *)
(* judges, and keeps it.                                                   *)
(***************************************************************************)
PassesRest(record, tx, session, max) ==
  \A k \in PlacesIn(record, tx) : record[k].body.verdict = "PASS" =>
    /\ session.at = "returned" /\ SlotIn(record, k) = <<Len(session.rounds), 3>>
    /\ session.response.total \in 0 .. max
    /\ OfferTold(record, tx, Len(session.rounds), session.response.total)

OfferRests(record, tx, session) ==
  /\ session.at = "offering" /\ session.response.ok => session.response.total \in Nat
  /\ session.at \in {"judging", "concluding"} =>
       /\ session.response.ok /\ session.response.total \in Nat
       /\ OfferTold(record, tx, Len(session.rounds) + 1, session.response.total)

OffersSound ==
  \A tx \in Negotiated :
    /\ PassesRest(ledger[tx], tx, neg[tx], intent[tx].max)
    /\ OfferRests(ledger[tx], tx, neg[tx])

NegotiationInv ==
  /\ SurroundingsSound /\ SessionsSound /\ LedgersSound /\ IdsSent /\ HeadsSound
  /\ RecordSound /\ OffersSound /\ OnlySeveralItemsFail

-----------------------------------------------------------------------------
(***************************************************************************)
(* The story of a session.  A step of it sends nothing, or one message     *)
(* that comes after all it has sent.                                       *)
(***************************************************************************)

Extends(new, old, place, type) ==
  /\ DOMAIN new = DOMAIN old \cup {place}
  /\ new[place] = type
  /\ \A p \in DOMAIN old : new[p] = old[p]

\* Going from one state of a session to the next sends one message.
Tells(before, after, slot, type) ==
  /\ slot \in Nat \X Nat
  /\ \A s \in DOMAIN Sent(before) : Precedes(s, slot)
  /\ Extends(Sent(after), Sent(before), slot, type)

\* One part of it grows by a message, and there is none behind that part.
Grows(before, after, i, type) ==
  /\ \A j \in Nat : j > i => PartSoFar(before, j) = << >>
  /\ \A j \in Nat \ {i} : PartSoFar(after, j) = PartSoFar(before, j)
  /\ PartSoFar(before, i) \in Seq(MessageTypes)
  /\ PartSoFar(after, i) = Append(PartSoFar(before, i), type)

LEMMA PartTells ==
  ASSUME NEW before, NEW after, NEW i \in Nat, NEW type \in MessageTypes,
         Grows(before, after, i, type)
  PROVE  Tells(before, after, <<i, Len(PartSoFar(before, i)) + 1>>, type)
<1> DEFINE part == PartSoFar(before, i)
           n == Len(part)
           slot == <<i, n + 1>>
<1>1. /\ n \in Nat /\ DOMAIN part = 1 .. n
      /\ DOMAIN PartSoFar(after, i) = 1 .. n + 1
      /\ PartSoFar(after, i)[n + 1] = type
      /\ \A j \in 1 .. n : PartSoFar(after, i)[j] = part[j]
  <2>1. part \in Seq(MessageTypes) /\ PartSoFar(after, i) = Append(part, type)
    BY DEF Grows
  <2> HIDE DEF part
  <2>2. QED
    BY <2>1
<1>2. ASSUME NEW j \in Nat
      PROVE  /\ j > i => DOMAIN PartSoFar(before, j) = {}
             /\ j # i => PartSoFar(after, j) = PartSoFar(before, j)
  BY DEF Grows
<1> HIDE DEF part, n
<1>3. slot \in Nat \X Nat
  BY <1>1
<1>4. DOMAIN Sent(before) = {s \in Nat \X Nat : s[2] \in DOMAIN PartSoFar(before, s[1])}
  BY DEF Sent
<1>5. DOMAIN Sent(after) = {s \in Nat \X Nat : s[2] \in DOMAIN PartSoFar(after, s[1])}
  BY DEF Sent
<1>6. ASSUME NEW s \in DOMAIN Sent(before) PROVE Precedes(s, slot) /\ s \in DOMAIN Sent(after)
  <2>1. s \in Nat \X Nat /\ s[2] \in DOMAIN PartSoFar(before, s[1])
    BY <1>4
  <2>2. ~ (s[1] > i)
    BY <1>2, <2>1
  <2>3. CASE s[1] = i
    <3>1. s[2] \in 1 .. n
      BY <1>1, <2>1, <2>3 DEF part
    <3>2. QED
      BY <1>1, <1>5, <2>1, <2>3, <3>1 DEF Precedes
  <2>4. CASE s[1] < i
    <3>1. s[1] \in Nat /\ s[1] # i /\ s \in Nat \X Nat
      BY <2>1, <2>4
    <3>2. s[2] \in DOMAIN PartSoFar(after, s[1])
      BY <1>2, <2>1, <3>1
    <3>3. QED
      BY <1>5, <2>4, <3>1, <3>2 DEF Precedes
  <2>5. QED
    BY <2>1, <2>2, <2>3, <2>4
<1>7. ASSUME NEW s \in DOMAIN Sent(after), s # slot PROVE s \in DOMAIN Sent(before)
  <2>1. s \in Nat \X Nat /\ s[2] \in DOMAIN PartSoFar(after, s[1])
    BY <1>5
  <2>2. CASE s[1] = i
    <3>1. s[2] \in 1 .. n + 1 /\ s[2] # n + 1
      BY <1>1, <1>7, <2>1, <2>2
    <3>2. QED
      BY <1>1, <1>4, <2>1, <2>2, <3>1 DEF part
  <2>3. CASE s[1] # i
    BY <1>2, <1>4, <2>1, <2>3
  <2>4. QED
    BY <2>2, <2>3
<1>8. slot \in DOMAIN Sent(after) /\ Sent(after)[slot] = type
  <2>1. slot[1] = i /\ slot[2] = n + 1
    OBVIOUS
  <2>2. slot \in DOMAIN Sent(after)
    BY <1>1, <1>3, <1>5, <2>1
  <2>3. Sent(after)[slot] = PartSoFar(after, slot[1])[slot[2]]
    BY <2>2 DEF Sent
  <2>4. QED
    BY <1>1, <2>1, <2>2, <2>3
<1>9. ASSUME NEW s \in DOMAIN Sent(before) PROVE Sent(after)[s] = Sent(before)[s]
  <2>1. s \in Nat \X Nat /\ s[2] \in DOMAIN PartSoFar(before, s[1])
    BY <1>4
  <2>2. /\ Sent(before)[s] = PartSoFar(before, s[1])[s[2]]
        /\ Sent(after)[s] = PartSoFar(after, s[1])[s[2]]
    BY <1>6 DEF Sent
  <2>3. CASE s[1] = i
    BY <1>1, <2>1, <2>2, <2>3 DEF part
  <2>4. CASE s[1] # i
    BY <1>2, <2>1, <2>2, <2>4
  <2>5. QED
    BY <2>3, <2>4
<1> HIDE DEF slot
<1>10. Extends(Sent(after), Sent(before), slot, type)
  BY <1>6, <1>7, <1>8, <1>9 DEF Extends
<1>11. QED
  BY <1>3, <1>6, <1>10 DEF Tells, slot, n, part

LEMMA SamePartsSame ==
  ASSUME NEW before, NEW after,
         \A j \in Nat : PartSoFar(after, j) = PartSoFar(before, j)
  PROVE  Sent(after) = Sent(before)
<1> DEFINE slots == {s \in Nat \X Nat : s[2] \in DOMAIN PartSoFar(before, s[1])}
<1>1. slots = {s \in Nat \X Nat : s[2] \in DOMAIN PartSoFar(after, s[1])}
  OBVIOUS
<1>2. \A s \in slots : PartSoFar(after, s[1])[s[2]] = PartSoFar(before, s[1])[s[2]]
  OBVIOUS
<1>3. QED
  BY <1>1, <1>2 DEF Sent

LEMMA ShortAppends ==
  ASSUME NEW x \in MessageTypes, NEW y \in MessageTypes, NEW z \in MessageTypes
  PROVE  /\ Append(<< >>, x) = <<x>> /\ Append(<<x>>, y) = <<x, y>>
         /\ Append(<<x, y>>, z) = <<x, y, z>>
<1>1. Append(<< >>, x) = <<x>>
  OBVIOUS
<1>2. Append(<<x>>, y) = <<x, y>>
  <2> DEFINE s == Append(<<x>>, y)
  <2>1. s \in Seq(MessageTypes) /\ Len(s) = 2 /\ s[1] = x /\ s[2] = y
    OBVIOUS
  <2> HIDE DEF s
  <2>2. DOMAIN s = 1 .. 2 /\ s = [i \in DOMAIN s |-> s[i]]
    BY <2>1
  <2>3. s = <<x, y>>
    BY <2>1, <2>2
  <2>4. QED
    BY <2>3 DEF s
<1>3. Append(<<x, y>>, z) = <<x, y, z>>
  <2> DEFINE s == Append(<<x, y>>, z)
  <2>1. s \in Seq(MessageTypes) /\ Len(s) = 3 /\ s[1] = x /\ s[2] = y /\ s[3] = z
    OBVIOUS
  <2> HIDE DEF s
  <2>2. DOMAIN s = 1 .. 3 /\ s = [i \in DOMAIN s |-> s[i]]
    BY <2>1
  <2>3. s = <<x, y, z>>
    BY <2>1, <2>2
  <2>4. QED
    BY <2>3 DEF s
<1>4. QED
  BY <1>1, <1>2, <1>3

LEMMA PartTypes ==
  ASSUME NEW r \in RoundStates
  PROVE  /\ MessagesOf(r) \in Seq(MessageTypes)
         /\ r = "REPLAN_REQUESTED" => MessagesOf(r) = <<"REMEDIATION_REQUEST", "OFFER">>
         /\ r = "DRIFT_DETECTED" =>
              MessagesOf(r) = <<"REMEDIATION_REQUEST", "OFFER", "DRIFT_NOTICE">>
         /\ r \in {"COMPLETED", "ESCALATED"} =>
              MessagesOf(r) = <<"REMEDIATION_REQUEST", "OFFER", "OUTCOME">>
         /\ r \in {"ABSTAINED", "FAILED"} => MessagesOf(r) = << >>
<1>1. CASE r = "REPLAN_REQUESTED"
  BY <1>1 DEF MessagesOf, MessageTypes
<1>2. CASE r = "DRIFT_DETECTED"
  BY <1>2 DEF MessagesOf, MessageTypes
<1>3. CASE r \in {"COMPLETED", "ESCALATED"}
  <2>1. MessagesOf(r) = <<"REMEDIATION_REQUEST", "OFFER", "OUTCOME">>
    BY <1>3 DEF MessagesOf
  <2>2. QED
    BY <1>3, <2>1 DEF MessageTypes
<1>4. CASE r \in {"ABSTAINED", "FAILED"}
  BY <1>4 DEF MessagesOf, MessageTypes
<1>5. QED
  BY <1>1, <1>2, <1>3, <1>4 DEF RoundStates

\* A session whose negotiation has begun, as far as its story goes.
Begun(session) ==
  session \in Remediations /\ session.original \notin {"NONE", "PASS"}

LEMMA PartsOf ==
  ASSUME NEW session, Begun(session), session.at # "noticing"
  PROVE  LET n == Len(session.rounds) IN
         /\ n \in Nat
         /\ PartSoFar(session, 0) = <<"DRIFT_NOTICE">>
         /\ \A j \in 1 .. n : PartSoFar(session, j) = MessagesOf(session.rounds[j])
         /\ PartSoFar(session, n + 1) = Pending(session)
         /\ \A j \in Nat : j > n + 1 => PartSoFar(session, j) = << >>
<1>1. session.rounds \in Seq(RoundStates)
  BY DEF Begun, Remediations
<1>2. Len(session.rounds) \in Nat
  BY <1>1
<1>3. QED
  BY <1>2 DEF Begun, PartSoFar, Part

LEMMA PendingTypes ==
  ASSUME NEW session
  PROVE  /\ Pending(session) \in Seq(MessageTypes)
         /\ session.at \in {"asking", "offering"} =>
              Pending(session) = <<"REMEDIATION_REQUEST">>
         /\ session.at \in {"judging", "concluding"} =>
              Pending(session) = <<"REMEDIATION_REQUEST", "OFFER">>
         /\ session.at \notin {"asking", "offering", "judging", "concluding"} =>
              Pending(session) = << >>
<1>1. CASE session.at \in {"asking", "offering"}
  <2>1. Pending(session) = <<"REMEDIATION_REQUEST">>
    BY <1>1 DEF Pending
  <2>2. QED
    BY <1>1, <2>1 DEF MessageTypes
<1>2. CASE session.at \in {"judging", "concluding"}
  BY <1>2 DEF Pending, MessageTypes
<1>3. CASE session.at \notin {"asking", "offering", "judging", "concluding"}
  BY <1>3 DEF Pending
<1>4. QED
  BY <1>1, <1>2, <1>3

\* A session that has not begun, or need not, or only read its head, has
\* sent nothing.
LEMMA UnbegunSilent ==
  ASSUME NEW session,
         \/ session.original \in {"NONE", "PASS"}
         \/ session.at = "noticing" /\ session.rounds = << >>
  PROVE  DOMAIN Sent(session) = {} /\ \A j \in Nat : PartSoFar(session, j) = << >>
<1>1. ASSUME NEW j \in Nat PROVE PartSoFar(session, j) = << >>
  <2>1. CASE session.original \in {"NONE", "PASS"}
    BY <2>1 DEF PartSoFar
  <2>2. CASE session.at = "noticing" /\ session.rounds = << >>
    <3>1. Len(session.rounds) = 0 /\ Pending(session) = << >>
      BY <2>2, PendingTypes
    <3>2. QED
      BY <2>2, <3>1 DEF PartSoFar
  <2>3. QED
    BY <2>1, <2>2
<1>2. QED
  BY <1>1 DEF Sent

\* Its first message is the notice.
LEMMA NoticeTells ==
  ASSUME NEW before, NEW after, before.at = "noticing", before.rounds = << >>, Begun(after),
         after.rounds = << >>, after.at = "replanning"
  PROVE  Tells(before, after, <<0, 1>>, "DRIFT_NOTICE")
<1>1. \A j \in Nat : PartSoFar(before, j) = << >>
  BY UnbegunSilent
<1>2. Len(after.rounds) = 0 /\ Pending(after) = << >>
  BY PendingTypes
<1>3. \A j \in Nat : PartSoFar(after, j) = IF j = 0 THEN <<"DRIFT_NOTICE">> ELSE << >>
  <2>1. ASSUME NEW j \in Nat, j # 0 PROVE PartSoFar(after, j) = << >>
    <3>1. j = 0 + 1 \/ j > 0 + 1
      BY <2>1
    <3>2. QED
      BY <1>2, <2>1, <3>1, PartsOf
  <2>2. PartSoFar(after, 0) = <<"DRIFT_NOTICE">>
    BY PartsOf
  <2>3. QED
    BY <2>1, <2>2
<1>4. "DRIFT_NOTICE" \in MessageTypes /\ << >> \in Seq(MessageTypes)
      /\ Append(<< >>, "DRIFT_NOTICE") = <<"DRIFT_NOTICE">>
  BY DEF MessageTypes
<1>5. Grows(before, after, 0, "DRIFT_NOTICE")
  BY <1>1, <1>3, <1>4 DEF Grows
<1>6. Len(PartSoFar(before, 0)) + 1 = 1
  BY <1>1
<1>7. QED
  BY <1>4, <1>5, <1>6, PartTells

\* Within the round under way the parts differ in it alone.
LEMMA RoundGoesOn ==
  ASSUME NEW before, NEW after, Begun(before), Begun(after), after.rounds = before.rounds,
         before.at # "noticing", after.at # "noticing"
  PROVE  LET n == Len(before.rounds) IN
         /\ n \in Nat
         /\ \A j \in Nat : j > n + 1 => PartSoFar(before, j) = << >>
         /\ \A j \in Nat \ {n + 1} : PartSoFar(after, j) = PartSoFar(before, j)
         /\ PartSoFar(before, n + 1) = Pending(before)
         /\ PartSoFar(after, n + 1) = Pending(after)
<1> DEFINE n == Len(before.rounds)
<1>1. n \in Nat
  BY PartsOf
<1>2. ASSUME NEW j \in Nat
      PROVE  /\ j > n + 1 => PartSoFar(before, j) = << >>
             /\ j # n + 1 => PartSoFar(after, j) = PartSoFar(before, j)
  BY <1>1, PartsOf
<1>3. PartSoFar(before, n + 1) = Pending(before) /\ PartSoFar(after, n + 1) = Pending(after)
  BY PartsOf
<1>4. QED
  BY <1>1, <1>2, <1>3

\* To read the ledger or the catalogue sends nothing.
LEMMA ReadingSilent ==
  ASSUME NEW before, NEW after, Begun(before), Begun(after), after.rounds = before.rounds,
         \/ before.at = "replanning" /\ after.at = "requesting"
         \/ before.at = "asking" /\ after.at = "offering"
         \/ before.at = "judging" /\ after.at = "concluding"
  PROVE  Sent(after) = Sent(before)
<1>1. Pending(after) = Pending(before)
  BY PendingTypes
<1>2. PICK n \in Nat :
         /\ \A j \in Nat \ {n + 1} : PartSoFar(after, j) = PartSoFar(before, j)
         /\ PartSoFar(before, n + 1) = Pending(before)
         /\ PartSoFar(after, n + 1) = Pending(after)
  BY RoundGoesOn
<1>3. \A j \in Nat : PartSoFar(after, j) = PartSoFar(before, j)
  BY <1>1, <1>2
<1>4. QED
  BY <1>3, SamePartsSame

\* A message within the round under way.
LEMMA PendingTells ==
  ASSUME NEW before, NEW after, Begun(before), Begun(after), after.rounds = before.rounds,
         NEW place, NEW type,
         \/ before.at = "requesting" /\ after.at = "asking" /\ place = 1
              /\ type = "REMEDIATION_REQUEST"
         \/ before.at = "offering" /\ after.at = "judging" /\ place = 2 /\ type = "OFFER"
  PROVE  Tells(before, after, <<Len(before.rounds) + 1, place>>, type)
<1> DEFINE n == Len(before.rounds)
<1>1. type \in MessageTypes
  BY DEF MessageTypes
<1>2. /\ Pending(after) = Append(Pending(before), type) /\ Pending(before) \in Seq(MessageTypes)
      /\ Len(Pending(before)) + 1 = place
  <2>1. /\ Append(<< >>, "REMEDIATION_REQUEST") = <<"REMEDIATION_REQUEST">>
        /\ Append(<<"REMEDIATION_REQUEST">>, "OFFER") = <<"REMEDIATION_REQUEST", "OFFER">>
    BY ShortAppends DEF MessageTypes
  <2>2. Len(<< >>) + 1 = 1 /\ Len(<<"REMEDIATION_REQUEST">>) + 1 = 2
    OBVIOUS
  <2>3. Pending(before) \in Seq(MessageTypes)
    BY PendingTypes
  <2>4. CASE before.at = "requesting"
    <3>1. Pending(before) = << >> /\ Pending(after) = <<"REMEDIATION_REQUEST">>
      BY <2>4, PendingTypes
    <3>2. QED
      BY <2>1, <2>2, <2>3, <2>4, <3>1
  <2>5. CASE before.at = "offering"
    <3>1. /\ Pending(before) = <<"REMEDIATION_REQUEST">>
          /\ Pending(after) = <<"REMEDIATION_REQUEST", "OFFER">>
      BY <2>5, PendingTypes
    <3>2. QED
      BY <2>1, <2>2, <2>3, <2>5, <3>1
  <2>6. QED
    BY <2>4, <2>5
<1>3. /\ n \in Nat
      /\ \A j \in Nat : j > n + 1 => PartSoFar(before, j) = << >>
      /\ \A j \in Nat \ {n + 1} : PartSoFar(after, j) = PartSoFar(before, j)
      /\ PartSoFar(before, n + 1) = Pending(before)
      /\ PartSoFar(after, n + 1) = Pending(after)
  BY RoundGoesOn
<1> HIDE DEF n
<1>4. Grows(before, after, n + 1, type) /\ n + 1 \in Nat
  BY <1>2, <1>3 DEF Grows
<1>5. Tells(before, after, <<n + 1, Len(PartSoFar(before, n + 1)) + 1>>, type)
  BY <1>1, <1>4, PartTells
<1>6. QED
  BY <1>2, <1>3, <1>5 DEF n

\* A round that ends: what it sends last, or nothing.
LEMMA RoundParts ==
  ASSUME NEW before, NEW after, Begun(before), Begun(after), NEW r \in RoundStates,
         after.rounds = Append(before.rounds, r), before.at # "noticing",
         after.at \in {"replanning", "returned"}
  PROVE  LET n == Len(before.rounds) IN
         /\ n \in Nat
         /\ \A j \in Nat : j > n + 1 => PartSoFar(before, j) = << >>
         /\ \A j \in Nat \ {n + 1} : PartSoFar(after, j) = PartSoFar(before, j)
         /\ PartSoFar(before, n + 1) = Pending(before)
         /\ PartSoFar(after, n + 1) = MessagesOf(r)
<1> DEFINE n == Len(before.rounds)
<1>1. before.rounds \in Seq(RoundStates)
  BY DEF Begun, Remediations
<1>2. /\ n \in Nat /\ Len(after.rounds) = n + 1 /\ after.rounds[n + 1] = r
      /\ \A j \in 1 .. n : after.rounds[j] = before.rounds[j]
  BY <1>1
<1>3. Pending(after) = << >> /\ after.at # "noticing"
  BY PendingTypes
<1>4. /\ PartSoFar(after, 0) = PartSoFar(before, 0)
      /\ \A j \in 1 .. n : PartSoFar(before, j) = MessagesOf(before.rounds[j])
      /\ PartSoFar(before, n + 1) = Pending(before)
      /\ \A j \in Nat : j > n + 1 => PartSoFar(before, j) = << >>
  BY <1>3, PartsOf
<1>5. /\ \A j \in 1 .. n + 1 : PartSoFar(after, j) = MessagesOf(after.rounds[j])
      /\ PartSoFar(after, (n + 1) + 1) = << >>
      /\ \A j \in Nat : j > (n + 1) + 1 => PartSoFar(after, j) = << >>
  BY <1>2, <1>3, PartsOf
<1> HIDE DEF n
<1>6. ASSUME NEW j \in Nat, j # n + 1 PROVE PartSoFar(after, j) = PartSoFar(before, j)
  <2>1. CASE j = 0
    BY <1>4, <2>1
  <2>2. CASE j \in 1 .. n
    <3>1. PartSoFar(after, j) = MessagesOf(after.rounds[j])
      BY <1>2, <1>5, <2>2
    <3>2. QED
      BY <1>2, <1>4, <2>2, <3>1
  <2>3. CASE j > n + 1
    <3>1. j = (n + 1) + 1 \/ j > (n + 1) + 1
      BY <1>2, <2>3
    <3>2. QED
      BY <1>4, <1>5, <2>3, <3>1
  <2>4. QED
    BY <1>2, <1>6, <2>1, <2>2, <2>3
<1>7. PartSoFar(after, n + 1) = MessagesOf(r)
  BY <1>2, <1>5
<1>8. QED
  BY <1>2, <1>4, <1>6, <1>7 DEF n

LEMMA RoundTells ==
  ASSUME NEW before, NEW after, Begun(before), Begun(after), NEW r \in RoundStates,
         after.rounds = Append(before.rounds, r), after.at \in {"replanning", "returned"},
         NEW place, NEW type,
         \/ before.at = "offering" /\ r = "REPLAN_REQUESTED" /\ place = 2 /\ type = "OFFER"
         \/ before.at = "concluding" /\ r = "DRIFT_DETECTED" /\ place = 3
              /\ type = "DRIFT_NOTICE"
         \/ before.at = "concluding" /\ r \in {"COMPLETED", "ESCALATED"} /\ place = 3
              /\ type = "OUTCOME"
  PROVE  Tells(before, after, <<Len(before.rounds) + 1, place>>, type)
<1> DEFINE n == Len(before.rounds)
<1>1. type \in MessageTypes
  BY DEF MessageTypes
<1>2. /\ MessagesOf(r) = Append(Pending(before), type) /\ Pending(before) \in Seq(MessageTypes)
      /\ Len(Pending(before)) + 1 = place
  <2>1. /\ Append(<<"REMEDIATION_REQUEST">>, "OFFER") = <<"REMEDIATION_REQUEST", "OFFER">>
        /\ \A x \in MessageTypes : Append(<<"REMEDIATION_REQUEST", "OFFER">>, x)
                                   = <<"REMEDIATION_REQUEST", "OFFER", x>>
    BY ShortAppends DEF MessageTypes
  <2>2. Pending(before) \in Seq(MessageTypes)
    BY PendingTypes
  <2>3. CASE before.at = "offering"
    <3>1. Pending(before) = <<"REMEDIATION_REQUEST">>
      BY <2>3, PendingTypes
    <3>2. /\ MessagesOf(r) = <<"REMEDIATION_REQUEST", "OFFER">> /\ place = 2
          /\ type = "OFFER"
      BY <2>3, PartTypes
    <3>3. Len(<<"REMEDIATION_REQUEST">>) + 1 = 2
      OBVIOUS
    <3>4. QED
      BY <2>1, <2>2, <3>1, <3>2, <3>3
  <2>4. CASE before.at = "concluding"
    <3>1. Pending(before) = <<"REMEDIATION_REQUEST", "OFFER">>
      BY <2>4, PendingTypes
    <3>2. MessagesOf(r) = <<"REMEDIATION_REQUEST", "OFFER", type>> /\ place = 3
      BY <2>4, PartTypes
    <3>3. QED
      BY <1>1, <2>1, <2>2, <3>1, <3>2
  <2>5. QED
    BY <2>3, <2>4
<1>3. /\ n \in Nat
      /\ \A j \in Nat : j > n + 1 => PartSoFar(before, j) = << >>
      /\ \A j \in Nat \ {n + 1} : PartSoFar(after, j) = PartSoFar(before, j)
      /\ PartSoFar(before, n + 1) = Pending(before)
      /\ PartSoFar(after, n + 1) = MessagesOf(r)
  BY RoundParts
<1> HIDE DEF n
<1>4. Grows(before, after, n + 1, type) /\ n + 1 \in Nat
  BY <1>2, <1>3 DEF Grows
<1>5. Tells(before, after, <<n + 1, Len(PartSoFar(before, n + 1)) + 1>>, type)
  BY <1>1, <1>4, PartTells
<1>6. QED
  BY <1>2, <1>3, <1>5 DEF n

LEMMA RoundSilent ==
  ASSUME NEW before, NEW after, Begun(before), Begun(after),
         NEW r \in {"ABSTAINED", "FAILED"}, before.at = "replanning",
         after.rounds = Append(before.rounds, r), after.at = "returned"
  PROVE  Sent(after) = Sent(before)
<1>1. r \in RoundStates
  BY DEF RoundStates
<1>2. MessagesOf(r) = << >> /\ Pending(before) = << >>
  BY <1>1, PartTypes, PendingTypes
<1>3. PICK n \in Nat :
         /\ \A j \in Nat \ {n + 1} : PartSoFar(after, j) = PartSoFar(before, j)
         /\ PartSoFar(before, n + 1) = Pending(before)
         /\ PartSoFar(after, n + 1) = MessagesOf(r)
  BY <1>1, RoundParts
<1>4. \A j \in Nat : PartSoFar(after, j) = PartSoFar(before, j)
  BY <1>2, <1>3
<1>5. QED
  BY <1>4, SamePartsSame

\* Of a session that has returned this is all it owes the ledger.
LEMMA SentIsOwed ==
  ASSUME NEW session \in Remediations, session.at = "returned"
  PROVE  Sent(session) = Owed(session)
<1> DEFINE n == Len(session.rounds)
           parts == IF session.original \in {"NONE", "PASS"} THEN {} ELSE 0 .. n
           slots == UNION {{i} \X DOMAIN Part(session, i) : i \in parts}
           told == {s \in Nat \X Nat : s[2] \in DOMAIN PartSoFar(session, s[1])}
<1>1. session.rounds \in Seq(RoundStates) /\ n \in Nat
  BY DEF Remediations
<1>2. ASSUME NEW i \in parts PROVE Part(session, i) \in Seq(MessageTypes) /\ i \in Nat
  <2>1. i = 0 \/ i \in 1 .. n
    BY <1>1
  <2>2. i \in 1 .. n => session.rounds[i] \in RoundStates
    BY <1>1
  <2>3. <<"DRIFT_NOTICE">> \in Seq(MessageTypes)
    BY DEF MessageTypes
  <2>4. QED
    BY <1>1, <2>1, <2>2, <2>3, PartTypes DEF Part
<1>3. ASSUME NEW j \in Nat
      PROVE  PartSoFar(session, j) = IF j \in parts THEN Part(session, j) ELSE << >>
  <2>1. Pending(session) = << >>
    BY PendingTypes
  <2>2. QED
    BY <1>1, <2>1 DEF PartSoFar
<1>4. \A s \in slots : s \in told /\ PartSoFar(session, s[1]) = Part(session, s[1])
  <2> SUFFICES ASSUME NEW i \in parts, NEW k \in DOMAIN Part(session, i)
               PROVE  <<i, k>> \in told /\ PartSoFar(session, i) = Part(session, i)
    OBVIOUS
  <2>1. i \in Nat /\ k \in Nat
    BY <1>2
  <2>2. QED
    BY <1>3, <2>1
<1>5. \A s \in told : s \in slots
  <2> SUFFICES ASSUME NEW i \in Nat, NEW k \in Nat, k \in DOMAIN PartSoFar(session, i)
               PROVE  <<i, k>> \in slots
    OBVIOUS
  <2>1. i \in parts /\ k \in DOMAIN Part(session, i)
    BY <1>3
  <2>2. QED
    BY <2>1
<1> HIDE DEF parts
<1>6. told = slots
  BY <1>4, <1>5
<1>7. Owed(session) = [s \in slots |-> Part(session, s[1])[s[2]]]
  BY DEF Owed, parts
<1>8. Sent(session) = [s \in told |-> PartSoFar(session, s[1])[s[2]]]
  BY DEF Sent
<1> HIDE DEF slots, told
<1>9. QED
  BY <1>4, <1>6, <1>7, <1>8
\* The outcome of a round comes after its offer.
LEMMA OutcomeAfterOffer ==
  ASSUME NEW session \in Remediations, session.at = "returned",
         LET n == Len(session.rounds) IN <<n, 3>> \in DOMAIN Sent(session)
  PROVE  LET n == Len(session.rounds) IN
         <<n, 2>> \in DOMAIN Sent(session) /\ Sent(session)[<<n, 2>>] = "OFFER"
<1> DEFINE n == Len(session.rounds)
<1>1. session.rounds \in Seq(RoundStates) /\ n \in Nat
  BY DEF Remediations
<1>2. 3 \in DOMAIN PartSoFar(session, n)
  BY DEF Sent
<1>3. session.original \notin {"NONE", "PASS"}
  BY <1>2 DEF PartSoFar
<1>4. Begun(session)
  BY <1>3 DEF Begun
<1>5. n # 0
  BY <1>2, <1>4, PartsOf
<1>6. n \in 1 .. n /\ session.rounds[n] \in RoundStates
  BY <1>1, <1>5
<1>7. PartSoFar(session, n) = MessagesOf(session.rounds[n])
  BY <1>4, <1>6, PartsOf
<1>8. 2 \in DOMAIN PartSoFar(session, n) /\ PartSoFar(session, n)[2] = "OFFER"
  <2> DEFINE r == session.rounds[n]
  <2>1. r \in RoundStates /\ PartSoFar(session, n) = MessagesOf(r)
    BY <1>6, <1>7
  <2> HIDE DEF r
  <2>2. r \notin {"ABSTAINED", "FAILED"}
    BY <1>2, <2>1, PartTypes
  <2>3. QED
    BY <2>1, <2>2, PartTypes DEF RoundStates
<1>9. <<n, 2>> \in Nat \X Nat /\ <<n, 2>>[1] = n /\ <<n, 2>>[2] = 2
  BY <1>1
<1>10. QED
  BY <1>8, <1>9 DEF Sent

-----------------------------------------------------------------------------
(***************************************************************************)
(* Records that get longer.                                                *)
(***************************************************************************)

Longer(longer, record, m) ==
  \E n \in Nat :
    /\ DOMAIN record = 1 .. n /\ DOMAIN longer = 1 .. n + 1 /\ longer[n + 1] = m
    /\ \A i \in 1 .. n : longer[i] = record[i]

\* A message of others leaves the places of the negotiation's messages.
LEMMA OthersKept ==
  ASSUME NEW record, NEW longer, NEW m, NEW tx, Longer(longer, record, m), m.id[1] # tx
  PROVE  /\ PlacesIn(longer, tx) = PlacesIn(record, tx)
         /\ \A k \in PlacesIn(record, tx) :
              longer[k] = record[k] /\ SlotIn(longer, k) = SlotIn(record, k)
         /\ Moved(longer, tx)
<1>1. PICK n \in Nat :
        /\ DOMAIN record = 1 .. n /\ DOMAIN longer = 1 .. n + 1 /\ longer[n + 1] = m
        /\ \A i \in 1 .. n : longer[i] = record[i]
  BY DEF Longer
<1>2. PlacesIn(longer, tx) = PlacesIn(record, tx)
  <2>1. \A k \in DOMAIN longer : k \in DOMAIN record \/ k = n + 1
    BY <1>1
  <2>2. \A k \in DOMAIN record : k \in DOMAIN longer /\ longer[k] = record[k]
    BY <1>1
  <2>3. QED
    BY <1>1, <2>1, <2>2 DEF PlacesIn
<1>3. \A k \in PlacesIn(record, tx) :
        longer[k] = record[k] /\ SlotIn(longer, k) = SlotIn(record, k)
  BY <1>1 DEF PlacesIn, SlotIn
<1>4. Moved(longer, tx)
  <2>1. Len(longer) = n + 1 /\ longer # << >>
    <3>1. longer # << >>
      BY <1>1
    <3>2. QED
      BY <1>1, <3>1
  <2>2. n + 1 \notin PlacesIn(longer, tx)
    BY <1>1 DEF PlacesIn
  <2>3. QED
    BY <2>1, <2>2 DEF Moved
<1>5. QED
  BY <1>2, <1>3, <1>4

\* A message of others changes nothing that is told.
LEMMA OthersRecounted ==
  ASSUME NEW record, NEW longer, NEW m, NEW tx, NEW sent, Longer(longer, record, m),
         m.id[1] # tx, Recounts(record, tx, sent)
  PROVE  Recounts(longer, tx, sent)
<1>1. /\ PlacesIn(longer, tx) = PlacesIn(record, tx)
      /\ \A k \in PlacesIn(record, tx) :
           longer[k] = record[k] /\ SlotIn(longer, k) = SlotIn(record, k)
  BY OthersKept
<1>2. ASSUME NEW slot, MissedIn(record, tx, slot) PROVE MissedIn(longer, tx, slot)
  <2>1. PICK k \in DOMAIN record \ PlacesIn(record, tx) : \A j \in PlacesIn(record, tx) :
          IF j < k THEN Precedes(SlotIn(record, j), slot)
                   ELSE Precedes(slot, SlotIn(record, j))
    BY <1>2 DEF MissedIn
  <2>2. k \in DOMAIN longer \ PlacesIn(longer, tx)
    BY <1>1, <2>1 DEF Longer
  <2>3. \A j \in PlacesIn(longer, tx) :
          IF j < k THEN Precedes(SlotIn(longer, j), slot)
                   ELSE Precedes(slot, SlotIn(longer, j))
    BY <1>1, <2>1
  <2>4. QED
    BY <2>2, <2>3 DEF MissedIn
<1>3. QED
  BY <1>1, <1>2 DEF Recounts

\* A message of the negotiation, sent after all the others, is told.
LEMMA OwnRecounted ==
  ASSUME NEW record, NEW longer, NEW m, NEW tx, NEW sent, Longer(longer, record, m),
         NEW slot \in Nat \X Nat, m.id = <<tx, slot[1], slot[2]>>,
         \A s \in DOMAIN sent : Precedes(s, slot),
         NEW next, Extends(next, sent, slot, m.type), Recounts(record, tx, sent)
  PROVE  /\ PlacesIn(longer, tx) = PlacesIn(record, tx) \cup {Len(longer)}
         /\ \A k \in PlacesIn(record, tx) :
              /\ longer[k] = record[k] /\ SlotIn(longer, k) = SlotIn(record, k)
              /\ SlotIn(record, k) # slot
         /\ longer[Len(longer)] = m /\ SlotIn(longer, Len(longer)) = slot
         /\ Recounts(longer, tx, next)
<1>1. PICK n \in Nat :
        /\ DOMAIN record = 1 .. n /\ DOMAIN longer = 1 .. n + 1 /\ longer[n + 1] = m
        /\ \A i \in 1 .. n : longer[i] = record[i]
  BY DEF Longer
<1>2. m.id[1] = tx /\ SlotIn(longer, n + 1) = slot
  BY <1>1 DEF SlotIn
<1>3. PlacesIn(longer, tx) = PlacesIn(record, tx) \cup {n + 1}
  <2>1. \A k \in DOMAIN longer : k \in DOMAIN record \/ k = n + 1
    BY <1>1
  <2>2. \A k \in DOMAIN record : k \in DOMAIN longer /\ longer[k] = record[k]
    BY <1>1
  <2>3. n + 1 \in DOMAIN longer
    BY <1>1
  <2>4. QED
    BY <1>1, <1>2, <2>1, <2>2, <2>3 DEF PlacesIn
<1>4. \A k \in PlacesIn(record, tx) :
        /\ longer[k] = record[k] /\ SlotIn(longer, k) = SlotIn(record, k)
        /\ k \in 1 .. n /\ k < n + 1
  BY <1>1 DEF PlacesIn, SlotIn
<1>5. \A s \in DOMAIN sent : s # slot
  BY DEF Precedes
<1>6. \A k \in PlacesIn(record, tx) :
        /\ SlotIn(record, k) \in DOMAIN sent /\ record[k].type = sent[SlotIn(record, k)]
        /\ Precedes(SlotIn(record, k), slot) /\ SlotIn(record, k) # slot
        /\ \A j \in PlacesIn(record, tx) : j < k => Precedes(SlotIn(record, j), SlotIn(record, k))
  BY <1>5 DEF Recounts
<1>7. DOMAIN next = DOMAIN sent \cup {slot} /\ next[slot] = m.type
      /\ \A s \in DOMAIN sent : next[s] = sent[s]
  BY DEF Extends
<1>8. ASSUME NEW k \in PlacesIn(longer, tx)
      PROVE  /\ SlotIn(longer, k) \in DOMAIN next /\ longer[k].type = next[SlotIn(longer, k)]
             /\ \A j \in PlacesIn(longer, tx) :
                  j < k => Precedes(SlotIn(longer, j), SlotIn(longer, k))
  <2>1. CASE k = n + 1
    <3>1. \A j \in PlacesIn(longer, tx) : j < k => j \in PlacesIn(record, tx)
      BY <1>1, <1>3, <2>1
    <3>2. QED
      BY <1>1, <1>2, <1>4, <1>6, <1>7, <2>1, <3>1
  <2>2. CASE k \in PlacesIn(record, tx)
    <3>1. \A j \in PlacesIn(longer, tx) : j < k => j \in PlacesIn(record, tx)
      BY <1>1, <1>3, <1>4, <2>2
    <3>2. QED
      BY <1>4, <1>6, <1>7, <2>2, <3>1
  <2>3. QED
    BY <1>3, <2>1, <2>2
<1>9. ASSUME NEW s \in DOMAIN next
      PROVE  (\E k \in PlacesIn(longer, tx) : SlotIn(longer, k) = s) \/ MissedIn(longer, tx, s)
  <2>1. CASE s = slot
    BY <1>2, <1>3, <2>1
  <2>2. CASE s \in DOMAIN sent /\ \E k \in PlacesIn(record, tx) : SlotIn(record, k) = s
    BY <1>3, <1>4, <2>2
  <2>3. CASE s \in DOMAIN sent /\ MissedIn(record, tx, s)
    <3>1. PICK k \in DOMAIN record \ PlacesIn(record, tx) : \A j \in PlacesIn(record, tx) :
            IF j < k THEN Precedes(SlotIn(record, j), s) ELSE Precedes(s, SlotIn(record, j))
      BY <2>3 DEF MissedIn
    <3>2. /\ k \in DOMAIN longer \ PlacesIn(longer, tx) /\ ~ (n + 1 < k)
      BY <1>1, <1>3
    <3>3. ASSUME NEW j \in PlacesIn(longer, tx)
          PROVE  IF j < k THEN Precedes(SlotIn(longer, j), s) ELSE Precedes(s, SlotIn(longer, j))
      <4>1. CASE j = n + 1
        BY <1>2, <2>3, <3>2, <4>1
      <4>2. CASE j \in PlacesIn(record, tx)
        BY <1>4, <3>1, <4>2
      <4>3. QED
        BY <1>3, <4>1, <4>2
    <3>4. QED
      BY <3>2, <3>3 DEF MissedIn
  <2>4. QED
    BY <1>7, <2>1, <2>2, <2>3 DEF Recounts
<1>10. Len(longer) = n + 1
  BY <1>1
<1>11. QED
  BY <1>1, <1>2, <1>3, <1>4, <1>6, <1>8, <1>9, <1>10 DEF Recounts

\* A message that is refused because others have moved the head is missed
\* where their message stands.
LEMMA RefusedRecounted ==
  ASSUME NEW record, record \in Seq(Messages), NEW tx, Moved(record, tx), NEW sent,
         NEW slot \in Nat \X Nat, \A s \in DOMAIN sent : Precedes(s, slot),
         NEW next, NEW type, Extends(next, sent, slot, type), Recounts(record, tx, sent)
  PROVE  Recounts(record, tx, next)
<1> DEFINE n == Len(record)
<1>1. n \in Nat /\ DOMAIN record = 1 .. n /\ n \in DOMAIN record \ PlacesIn(record, tx)
  <2>1. n \in Nat /\ DOMAIN record = 1 .. n /\ record # << >>
    BY DEF Moved
  <2>2. n # 0
    BY <2>1
  <2>3. QED
    BY <2>1, <2>2 DEF Moved
<1>2. \A s \in DOMAIN sent : s # slot
  BY DEF Precedes
<1>3. DOMAIN next = DOMAIN sent \cup {slot} /\ \A s \in DOMAIN sent : next[s] = sent[s]
  BY DEF Extends
<1>4. \A j \in PlacesIn(record, tx) : j < n /\ Precedes(SlotIn(record, j), slot)
  <2>1. \A j \in PlacesIn(record, tx) : j \in 1 .. n /\ j # n
    BY <1>1 DEF PlacesIn
  <2>2. QED
    BY <1>1, <2>1 DEF Recounts
<1> HIDE DEF n
<1>5. MissedIn(record, tx, slot)
  BY <1>1, <1>4 DEF MissedIn
<1>6. QED
  BY <1>2, <1>3, <1>5 DEF Recounts

-----------------------------------------------------------------------------
(* The answers of the merchant. *)

LEMMA ResponseType ==
  ASSUME CatalogTypeOK, NEW sku \in Skus, NEW quantity \in Nat
  PROVE  /\ ProcessBuyerRequest(sku, quantity) \in Responses
         /\ ProcessBuyerRequest(sku, quantity).ok =>
              ProcessBuyerRequest(sku, quantity).total \in Nat
<1> DEFINE base == price[sku] * quantity + Shipping
<1>1. price[sku] \in Nat /\ Shipping \in Nat
  BY CatalogAssumption DEF CatalogTypeOK
<1>2. base \in Nat
  BY <1>1
<1>3. TotalOf(price[sku] * quantity) = base + (base * 18) \div 100
  BY DEF TotalOf
<1> HIDE DEF base
<1>4. (base * 18) \div 100 \in Nat
  BY <1>2
<1>5. TotalOf(price[sku] * quantity) \in Nat
  BY <1>2, <1>3, <1>4
<1>6. ProcessBuyerRequest(sku, quantity) \in
        {Response(TRUE, FALSE, sku, quantity, TotalOf(price[sku] * quantity)),
         Rejection(sku, quantity)}
  BY DEF ProcessBuyerRequest
<1> DEFINE total == TotalOf(price[sku] * quantity)
<1>7. sku \in Articles /\ total \in Nat /\ quantity \in Int
  BY <1>5 DEF Articles
<1> HIDE DEF total
<1>8. /\ Response(TRUE, FALSE, sku, quantity, total) \in Responses
      /\ Response(TRUE, FALSE, sku, quantity, total).total = total
  BY <1>7 DEF Response, Responses
<1>9. /\ Rejection(sku, quantity) \in Responses
      /\ Rejection(sku, quantity).ok = FALSE
  BY <1>7 DEF Rejection, Response, Responses, NoTotal
<1>10. QED
  BY <1>6, <1>7, <1>8, <1>9 DEF total

LEMMA FirstResponseType ==
  ASSUME CatalogTypeOK, NEW order \in Intents,
         NEW response \in FirstResponses(order)
  PROVE  response \in Responses
<1> DEFINE r == ProcessBuyerRequest(Head(order.items).sku, Head(order.items).quantity)
<1>1. r \in Responses
  BY IntentAssumption, ResponseType
<1> HIDE DEF r
<1>2. response \in {r, [r EXCEPT !.expired = TRUE], [r EXCEPT !.bound = FALSE]}
  BY DEF FirstResponses, r
<1>3. QED
  BY <1>1, <1>2 DEF Responses

LEMMA JudgeType ==
  ASSUME NEW order, NEW response, NEW events
  PROVE  Judge(order, response, events) \in {"PASS", "DRIFT", "UNKNOWN"}
BY DEF Judge, Evaluate, Overall

\* A PASS speaks of an offer within the ceiling.
LEMMA PassIsWithin ==
  ASSUME NEW order, order.max \in Nat, NEW response, response.total \in Nat, NEW events,
         Judge(order, response, events) = "PASS"
  PROVE  response.ok /\ response.total <= order.max
<1> DEFINE offer == OfferEvidence(response, response.total)
<1>1. Economic(offer, order.max) = "PASS"
  BY DEF Judge, Evaluate, Overall, Economic, Semantic, Temporal
<1>2. PICK v \in Values(Top(offer)) : ~ (v > order.max)
  BY <1>1 DEF Economic
<1>3. PICK e \in offer : v = e.value
  BY DEF Values, Top
<1>4. response.ok /\ v = response.total
  BY <1>3 DEF OfferEvidence
<1>5. QED
  BY <1>2, <1>4

LEMMA FewerBelow ==
  ASSUME NEW S, IsFiniteSet(S), NEW x \in S, NEW T, T \subseteq S \ {x}
  PROVE  Cardinality(T) \in Nat /\ Cardinality(S) \in Nat /\ Cardinality(T) < Cardinality(S)
<1>1. /\ IsFiniteSet(S \ {x}) /\ Cardinality(S \ {x}) = Cardinality(S) - 1
      /\ Cardinality(S) \in Nat
  BY FS_RemoveElement, FS_CardinalityType
<1>2. T \in SUBSET (S \ {x})
  OBVIOUS
<1>3. IsFiniteSet(T) /\ Cardinality(T) <= Cardinality(S \ {x})
  BY <1>1, <1>2, FS_Subset
<1>4. Cardinality(T) \in Nat
  BY <1>3, FS_CardinalityType
<1>5. QED
  BY <1>1, <1>3, <1>4

\* What the gate refuses the buyer agent is more than one article.
LEMMA RefusedOrdersSeveral ==
  ASSUME NEW order \in Intents, ~ WithinIntent(order, Propose(order))
  PROVE  Cardinality(Ordered(order)) > 1
<1> DEFINE items == order.items
           n == Len(items)
           first == Head(items).sku
<1>1. /\ order.max \in Nat /\ TotalQuantity(order) \in Nat
      /\ items \in Seq(ToSet(items)) /\ items # << >>
  BY IntentAssumption
<1>2. n \in Nat /\ n >= 1 /\ DOMAIN items = 1 .. n /\ Head(items) = items[1]
  BY <1>1
<1>3. Ordered(order) = {items[i].sku : i \in 1 .. n} /\ first \in Ordered(order)
  BY <1>2 DEF Ordered
<1>4. /\ Propose(order).sku = first /\ Propose(order).quantity = TotalQuantity(order)
      /\ Propose(order).max = order.max
  BY DEF Propose
<1>5. ASSUME \A i \in 1 .. n : items[i].sku = first
      PROVE  AuthorizedQuantity(order, first) = TotalQuantity(order)
  <2>1. {i \in DOMAIN order.items : order.items[i].sku = first} = DOMAIN order.items
    BY <1>2, <1>5
  <2>2. QED
    BY <2>1 DEF AuthorizedQuantity, TotalQuantity
<1> HIDE DEF items, n, first
<1>6. ~ (TotalQuantity(order) <= AuthorizedQuantity(order, first))
  BY <1>1, <1>3, <1>4 DEF WithinIntent
<1>7. PICK i \in 1 .. n : items[i].sku # first
  BY <1>1, <1>5, <1>6
<1>8. items[i].sku \in Ordered(order)
  BY <1>3
<1>9. IsFiniteSet(Ordered(order))
  <2> DEFINE f == [j \in 1 .. n |-> items[j].sku]
  <2>1. f \in Surjection(1 .. n, Ordered(order))
    BY <1>3 DEF Surjection
  <2>2. IsFiniteSet(1 .. n)
    BY <1>2, FS_Interval
  <2> HIDE DEF f
  <2>3. QED
    BY <2>1, <2>2, FS_Surjection
<1>10. Cardinality({items[i].sku}) < Cardinality(Ordered(order))
       /\ Cardinality(Ordered(order)) \in Nat
  BY <1>3, <1>7, <1>8, <1>9, FewerBelow
<1>11. Cardinality({items[i].sku}) = 1
  BY FS_Singleton
<1>12. QED
  BY <1>10, <1>11

-----------------------------------------------------------------------------
(* The ledgers. *)

Told(from, type) ==
  from \in {"core", "buyer", "merchant"} /\ type \in {"OFFER", "DRIFT_NOTICE", "OUTCOME",
                                                      "REMEDIATION_REQUEST"}

LEMMA ChainHashType ==
  ASSUME TixTypeOK, NEW tx \in Txs
  PROVE  /\ ChainHash(tx) \in Seq(Ids) /\ NoHash \in Seq(Ids)
         /\ \A i \in DOMAIN ledger[tx] : ledger[tx][i].prev \in Seq(Ids)
<1>1. ledger[tx] \in Seq(Messages)
  BY DEF TixTypeOK
<1>2. \A i \in DOMAIN ledger[tx] : ledger[tx][i].prev \in Seq(Ids) /\ ledger[tx][i].id \in Ids
  <2>1. \A i \in DOMAIN ledger[tx] : ledger[tx][i] \in Messages
    BY <1>1
  <2>2. QED
    BY <2>1 DEF Messages
<1>3. NoHash \in Seq(Ids)
  BY DEF NoHash
<1>4. CASE ledger[tx] # << >>
  <2> DEFINE last == ledger[tx][Len(ledger[tx])]
  <2>1. Len(ledger[tx]) \in DOMAIN ledger[tx]
    BY <1>1, <1>4
  <2>2. last.prev \in Seq(Ids) /\ last.id \in Ids
    BY <1>2, <2>1
  <2>3. ChainHash(tx) = Append(last.prev, last.id)
    BY <1>4 DEF ChainHash, Hash
  <2> HIDE DEF last
  <2>4. QED
    BY <1>2, <1>3, <2>2, <2>3
<1>5. QED
  BY <1>2, <1>3, <1>4 DEF ChainHash

(***************************************************************************)
(* A message of the negotiation for this slot: built on the head that was  *)
(* read, with nothing wrong with it by itself.                             *)
(***************************************************************************)
Sends(tx, slot, m) ==
  /\ m.id = <<tx, slot[1], slot[2]>> /\ m.tx = tx /\ m.prev = neg[tx].head
  /\ m.flaws = {} /\ ~ Overreaches(m) /\ AppendAndVerify(m)

LEMMA NoteSent ==
  ASSUME Expressible, SessionsSound, NEW tx \in Negotiated,
         NEW round \in Nat, NEW place \in Nat, NEW from, NEW type, Told(from, type),
         NEW body \in Statements, Note(tx, round, place, from, type, body)
  PROVE  \E m \in Messages :
           Sends(tx, <<round, place>>, m) /\ m.type = type /\ m.body = body
<1> DEFINE m == [id |-> <<tx, round, place>>, tx |-> tx, from |-> from, type |-> type,
                 prev |-> neg[tx].head, flaws |-> {}, body |-> body]
<1>1. tx \in Txs /\ neg[tx].head \in Seq(Ids)
  BY NegotiationAssumption DEF SessionsSound, Remediations
<1>2. <<tx, round, place>> \in Ids
  BY <1>1 DEF Expressible
<1>3. from \in Participants /\ type \in MessageTypes /\ body \in Bodies
  BY SenderAssumption DEF Told, MessageTypes, Expressible
<1>4. m \in Messages
  BY <1>1, <1>2, <1>3 DEF Messages
<1>5. ~ Overreaches(m)
  BY DEF Overreaches, Told
<1>6. AppendAndVerify(m)
  BY DEF Note
<1>7. Sends(tx, <<round, place>>, m)
  BY <1>5, <1>6 DEF Sends
<1>8. QED
  BY <1>4, <1>7

LEMMA SilenceType == Silence \in Statements /\ Silence.verdict = "NONE"
BY DEF Silence, NoTotal, Statements

\* A message whose id is not one of a negotiation.
Foreign(m) == \A tx \in Txs : m.id[1] # tx

\* What the others send is such a message, or is refused as one that was
\* there before.
LEMMA InboundForeign ==
  ASSUME Expressible, TixInv, NEW tx \in Txs, Inbound(tx) \/ EvaluateAndRecord(tx)
  PROVE  UNCHANGED tixVars \/ \E m \in Messages : Foreign(m) /\ AppendAndVerify(m)
<1> USE DEF MessageTypes
<1>0. \A u \in Txs : ledger[u] \in Seq(Messages)
  BY DEF TixInv, TixTypeOK
<1>1. ASSUME NEW prev \in Heads(tx) PROVE prev \in Seq(Ids)
  <2>1. TixTypeOK
    BY DEF TixInv
  <2>2. CASE prev = NoHash
    BY <2>1, <2>2, ChainHashType
  <2>3. ASSUME NEW i \in DOMAIN ledger[tx], prev = Hash(ledger[tx][i]) PROVE prev \in Seq(Ids)
    <3>1. ledger[tx][i].prev \in Seq(Ids)
      BY <2>1, ChainHashType
    <3>2. ledger[tx][i].id \in Ids
      <4>1. ledger[tx][i] \in Messages
        BY <1>0
      <4>2. QED
        BY <4>1 DEF Messages
    <3>3. QED
      BY <2>3, <3>1, <3>2 DEF Hash
  <2>4. QED
    BY <2>2, <2>3 DEF Heads
<1>2. ASSUME NEW id \in InboundIds PROVE id \in Ids /\ \A t \in Txs : id[1] # t
  <2>1. PICK n \in 1 .. MaxInbound : id = <<"ext", n, 0>>
    BY <1>2 DEF InboundIds
  <2>2. n \in Nat /\ 0 \in Nat /\ id[1] = "ext"
    BY <2>1, NegotiationAssumption
  <2>3. QED
    BY <2>1, <2>2, SenderAssumption DEF Expressible
<1>3. << <<"elsewhere", 0, 0>> >> \in Seq(Ids)
  <2>1. <<"elsewhere", 0, 0>> \in Ids
    BY DEF Expressible
  <2>2. QED
    BY <2>1
<1>4. Silence \in Bodies
  BY SilenceType DEF Expressible
<1>5. CASE Inbound(tx)
  <2>1. PICK m \in Sendable(tx) \cup Repeatable(tx) : AppendAndVerify(m)
    BY <1>5 DEF Inbound
  <2>2. CASE m \in Sendable(tx)
    <3>1. PICK id \in InboundIds, type \in {"OFFER", "AUTHORIZATION"},
               prev \in Heads(tx) \cup {<< <<"elsewhere", 0, 0>> >>},
               flaws \in {{}, {"EXPIRED"}, {"PAYMENT_CLAIM"}} :
            m = [id |-> id, tx |-> tx, from |-> "merchant", type |-> type, prev |-> prev,
                 flaws |-> flaws, body |-> Silence]
      BY <2>2 DEF Sendable
    <3>2. prev \in Seq(Ids) /\ flaws \in SUBSET (Defects \cup Claims)
      BY <1>1, <1>3 DEF Defects, Claims
    <3>3. m \in Messages /\ Foreign(m)
      BY SenderAssumption, <1>2, <1>4, <3>1, <3>2 DEF Foreign, Messages
    <3>4. QED
      BY <2>1, <3>3
  <2>3. CASE m \in Repeatable(tx)
    <3>1. PICK u \in Txs : \E old \in ToSet(ledger[u]) : m = [old EXCEPT !.tx = tx]
      BY <2>3 DEF Repeatable
    <3>2. PICK old \in ToSet(ledger[u]) : m = [old EXCEPT !.tx = tx]
      BY <3>1
    <3>3. PICK i \in 1 .. Len(ledger[u]) : old = ledger[u][i] /\ ledger[u][i] \in Messages
      BY <1>0, <3>2 DEF ToSet
    <3>4. m.id = old.id
      BY <3>2, <3>3 DEF Messages
    <3>5. m.id \in seen
      BY <3>3, <3>4 DEF TixInv, SeenAll
    <3>6. QED
      BY <2>1, <3>5 DEF AppendAndVerify, Accepted
  <2>4. QED
    BY <2>1, <2>2, <2>3
<1>6. CASE EvaluateAndRecord(tx)
  <2>1. PICK id \in InboundIds, prev \in Heads(tx), verdict \in {"PASS", "DRIFT", "UNKNOWN"} :
          AppendAndVerify([id |-> id, tx |-> tx, from |-> "core",
            type |-> IF verdict = "DRIFT" THEN "DRIFT_NOTICE" ELSE "OUTCOME",
            prev |-> prev, flaws |-> {},
            body |-> [total |-> NoTotal, verdict |-> verdict]])
    BY <1>6 DEF EvaluateAndRecord
  <2> DEFINE type == IF verdict = "DRIFT" THEN "DRIFT_NOTICE" ELSE "OUTCOME"
             body == [total |-> NoTotal, verdict |-> verdict]
             m == [id |-> id, tx |-> tx, from |-> "core", type |-> type,
                   prev |-> prev, flaws |-> {}, body |-> body]
  <2>2. type \in MessageTypes /\ body \in Bodies
    BY DEF Expressible, Statements, MessageTypes, NoTotal
  <2>3. m \in Messages /\ Foreign(m)
    <3> HIDE DEF type, body
    <3>1. QED
      BY SenderAssumption, <1>1, <1>2, <2>2 DEF Foreign, Messages
  <2>4. AppendAndVerify(m)
    BY <2>1
  <2>5. QED
    BY <2>3, <2>4
<1>7. QED
  BY <1>5, <1>6

\* An accepted message makes its ledger longer, and no other.
LEMMA AppendedTo ==
  ASSUME TixTypeOK, NEW m \in Messages, AppendAndVerify(m)
  PROVE  \/ UNCHANGED tixVars /\ ~ Accepted(m)
         \/ /\ Accepted(m) /\ m.tx \in Txs /\ seen' = seen \cup {m.id}
            /\ Longer(ledger'[m.tx], ledger[m.tx], m)
            /\ \A tx \in Txs \ {m.tx} : ledger'[tx] = ledger[tx]
<1>1. CASE ~ Accepted(m)
  BY <1>1 DEF AppendAndVerify
<1>2. CASE Accepted(m)
  <2>1. seen' = seen \cup {m.id} /\ m.tx \in Txs
    BY <1>2 DEF AppendAndVerify, Messages
  <2>2. /\ ledger' \in [Txs -> Seq(Messages)]
        /\ \A tx \in Txs \ {m.tx} : ledger'[tx] = ledger[tx]
        /\ Len(ledger'[m.tx]) = Len(ledger[m.tx]) + 1
        /\ \A i \in 1 .. Len(ledger[m.tx]) : ledger'[m.tx][i] = ledger[m.tx][i]
        /\ ledger'[m.tx][Len(ledger[m.tx]) + 1] = m
        /\ Len(ledger[m.tx]) \in Nat
    BY <1>2, AcceptedLedger
  <2>3. ledger[m.tx] \in Seq(Messages) /\ ledger'[m.tx] \in Seq(Messages)
    BY <2>1, <2>2 DEF TixTypeOK
  <2>4. /\ DOMAIN ledger[m.tx] = 1 .. Len(ledger[m.tx])
        /\ DOMAIN ledger'[m.tx] = 1 .. Len(ledger[m.tx]) + 1
    BY <2>2, <2>3
  <2>5. Longer(ledger'[m.tx], ledger[m.tx], m)
    BY <2>2, <2>4 DEF Longer
  <2>6. QED
    BY <1>2, <2>1, <2>2, <2>5
<1>3. QED
  BY <1>1, <1>2

-----------------------------------------------------------------------------
(***************************************************************************)
(* What one step of a negotiation does: to the sessions, and to the ledger *)
(* of its transaction.                                                     *)
(***************************************************************************)

Moves(tx) ==
  /\ neg[tx].at # "returned"
  /\ neg' \in [Negotiated -> Remediations]
  /\ \A u \in Negotiated \ {tx} : neg'[u] = neg[u]
  /\ Len(neg'[tx].rounds) <= MaxRounds
  /\ neg'[tx].at = "returned" => neg'[tx].state \in Settled
  /\ neg'[tx].at # "idle"
  /\ neg'[tx].at = "noticing" => neg'[tx].rounds = << >>
  /\ neg'[tx].at # "returned" =>
       Len(neg'[tx].rounds) < MaxRounds /\ neg'[tx].original \notin {"NONE", "PASS"}
  /\ neg'[tx].state = "FAILED" =>
       neg[tx].state = "FAILED" \/ Cardinality(Ordered(intent[tx])) > 1

\* It reads the head of the ledger, the catalogue or the mode, or returns.
Reads(tx) ==
  /\ UNCHANGED tixVars /\ Sent(neg'[tx]) = Sent(neg[tx])
  /\ neg'[tx].at \in Heading => neg'[tx].head = ChainHash(tx)
  /\ neg'[tx].at = "offering" /\ neg'[tx].response.ok => neg'[tx].response.total \in Nat
  /\ neg'[tx].at # "judging"
  /\ neg'[tx].at = "concluding" =>
       /\ neg[tx].at = "judging" /\ neg'[tx].response = neg[tx].response
       /\ neg'[tx].rounds = neg[tx].rounds

\* A PASS is only said of the offer that was judged, ...
PassSaid(tx, slot, total) ==
  /\ neg[tx].at = "concluding" /\ neg'[tx].at = "returned"
  /\ neg'[tx].response = neg[tx].response /\ neg[tx].response.total <= intent[tx].max
  /\ Len(neg'[tx].rounds) = Round(tx) /\ slot = <<Round(tx), 3>>

\* ... and what will be judged is the offer that is sent.
OfferSaid(tx, slot, total) ==
  /\ slot = <<Len(neg'[tx].rounds) + 1, 2>> /\ neg'[tx].response.total = total
  /\ neg'[tx].response.ok /\ neg'[tx].response.total \in Nat

\* What is said at this slot, built on the head that was read.
MaySay(tx, slot, type, body) ==
  /\ neg[tx].at \in Heading /\ neg'[tx].at \in {"replanning", "asking", "judging", "returned"}
  /\ Tells(neg[tx], neg'[tx], slot, type)
  /\ body.verdict = "PASS" => PassSaid(tx, slot, body.total)
  /\ neg'[tx].at = "judging" => OfferSaid(tx, slot, body.total)

Says(tx, slot, m) == Sends(tx, slot, m) /\ MaySay(tx, slot, m.type, m.body)

Negotiates(tx) ==
  /\ Moves(tx)
  /\ UNCHANGED <<catalogVars, intent, mode, changes>>
  /\ Reads(tx) \/ \E slot \in Nat \X Nat, m \in Messages : Says(tx, slot, m)

LEMMA NoteSays ==
  ASSUME Expressible, SessionsSound, NEW tx \in Negotiated,
         NEW round \in Nat, NEW place \in Nat, NEW from, NEW type, Told(from, type),
         NEW body \in Statements, Note(tx, round, place, from, type, body),
         MaySay(tx, <<round, place>>, type, body)
  PROVE  \E slot \in Nat \X Nat, m \in Messages : Says(tx, slot, m)
<1>1. PICK m \in Messages :
        Sends(tx, <<round, place>>, m) /\ m.type = type /\ m.body = body
  BY NoteSent
<1>2. <<round, place>> \in Nat \X Nat
  OBVIOUS
<1>3. Says(tx, <<round, place>>, m)
  BY <1>1 DEF Says
<1>4. QED
  BY <1>2, <1>3

\* A step that leaves these rounds, and nothing else of the story, changed.
EndsWith(tx, rounds) ==
  /\ Moves(tx) /\ neg'[tx] \in Remediations /\ neg'[tx].rounds = rounds
  /\ neg'[tx].original = neg[tx].original /\ neg'[tx].response = neg[tx].response

LEMMA ReturnMoves ==
  ASSUME SessionsSound, NEW tx \in Negotiated, NEW state \in Settled,
         NEW final \in {"NONE", "PASS", "DRIFT", "UNKNOWN"},
         NEW rounds \in Seq(RoundStates), Len(rounds) <= MaxRounds,
         neg[tx].at # "returned",
         state = "FAILED" => Cardinality(Ordered(intent[tx])) > 1,
         Return(tx, state, final, rounds)
  PROVE  EndsWith(tx, rounds) /\ neg'[tx].at = "returned"
<1> DEFINE session == [neg[tx] EXCEPT !.at = "returned", !.state = state, !.final = final,
                                      !.rounds = rounds]
<1>1. neg[tx] \in Remediations
  BY DEF SessionsSound
<1>2. neg' = [neg EXCEPT ![tx] = session]
  BY DEF Return, SessionsSound
<1>3. /\ session \in Remediations /\ session.at = "returned" /\ session.state = state
      /\ session.rounds = rounds /\ session.original = neg[tx].original
      /\ session.response = neg[tx].response
  BY <1>1 DEF Remediations, Settled, RoundStates, Places
<1> HIDE DEF session
<1>4. QED
  BY <1>2, <1>3 DEF EndsWith, Moves, SessionsSound

LEMMA NextRoundMoves ==
  ASSUME SessionsSound, NEW tx \in Negotiated, NEW rounds \in Seq(RoundStates),
         Len(rounds) <= MaxRounds, NextRound(tx, rounds),
         neg[tx].at \in {"offering", "concluding"}
  PROVE  EndsWith(tx, rounds) /\ neg'[tx].at \in {"replanning", "returned"}
<1>1. neg[tx] \in Remediations /\ MaxRounds \in Nat /\ Len(rounds) \in Nat
  BY NegotiationAssumption DEF SessionsSound
<1>2. CASE Len(rounds) >= MaxRounds
  <2>1. "ABSTAINED" \in Settled /\ neg[tx].final \in {"NONE", "PASS", "DRIFT", "UNKNOWN"}
    BY <1>1 DEF Settled, Remediations
  <2>2. Return(tx, "ABSTAINED", neg[tx].final, rounds)
    BY <1>2 DEF NextRound
  <2>3. QED
    BY <2>1, <2>2, ReturnMoves
<1>3. CASE ~ (Len(rounds) >= MaxRounds)
  <2> DEFINE session == [neg[tx] EXCEPT !.at = "replanning", !.rounds = rounds]
  <2>1. neg' = [neg EXCEPT ![tx] = session]
    BY <1>3 DEF NextRound, SessionsSound
  <2>2. /\ session \in Remediations /\ session.at = "replanning" /\ session.rounds = rounds
        /\ session.original = neg[tx].original /\ session.state = neg[tx].state
        /\ session.response = neg[tx].response
    BY <1>1 DEF Remediations, Places
  <2> HIDE DEF session
  <2>3. QED
    BY <1>1, <1>3, <2>1, <2>2 DEF EndsWith, Moves, SessionsSound
<1>4. QED
  BY <1>2, <1>3

\* A step within the round under way.
LEMMA GoesOnMoves ==
  ASSUME SessionsSound, NEW tx \in Negotiated, NEW session \in Remediations,
         neg' = [neg EXCEPT ![tx] = session],
         neg[tx].at \notin {"idle", "returned"},
         session.at \notin {"idle", "noticing", "returned"},
         session.rounds = neg[tx].rounds, session.original = neg[tx].original,
         session.state = neg[tx].state
  PROVE  Moves(tx) /\ neg'[tx] = session /\ Begun(neg[tx]) /\ Begun(neg'[tx])
<1>1. neg[tx] \in Remediations /\ neg'[tx] = session
  BY DEF SessionsSound
<1>2. QED
  BY <1>1 DEF Moves, SessionsSound, Begun

LEMMA IdleType ==
  /\ Idle \in Remediations /\ Idle.rounds = << >> /\ Idle.at = "idle"
  /\ Idle.state = "DRIFT_DETECTED" /\ Idle.original = "NONE"
<1>1. (CHOOSE s \in Skus : TRUE) \in Articles
  BY DEF Articles
<1> DEFINE response0 == Rejection(CHOOSE s \in Skus : TRUE, 1)
<1>2. response0 \in Responses
  BY <1>1 DEF Rejection, Response, NoTotal, Responses
<1> HIDE DEF response0
<1>3. Idle = [at |-> "idle", state |-> "DRIFT_DETECTED", events |-> "none",
              rounds |-> << >>, original |-> "NONE", final |-> "NONE", head |-> NoHash,
              response |-> response0]
  BY DEF Idle, response0
<1>4. NoHash \in Seq(Ids)
  BY DEF NoHash
<1>5. QED
  BY <1>2, <1>3, <1>4 DEF Remediations, Places, RoundStates, Given

LEMMA StartEffect ==
  ASSUME NegotiationInv, NEW tx \in Negotiated, Start(tx)
  PROVE  Negotiates(tx)
<1> USE DEF NegotiationInv, SurroundingsSound
<1>1. MaxRounds \in 1 .. 10 /\ Len(<< >>) = 0 /\ << >> \in Seq(RoundStates)
  BY NegotiationAssumption
<1>2. neg[tx].original = "NONE" /\ neg[tx].at = "idle"
  BY DEF Start, BeginShadowed, Begin, SessionsSound
<1>3. CASE BeginShadowed(tx)
  <2>1. /\ Return(tx, "ABSTAINED", "DRIFT", << >>) /\ UNCHANGED tixVars
        /\ UNCHANGED <<catalogVars, intent, mode, changes>>
    BY <1>3 DEF BeginShadowed
  <2>2. "ABSTAINED" \in Settled /\ Len(<< >>) <= MaxRounds
    BY <1>1 DEF Settled
  <2>3. /\ Moves(tx) /\ neg'[tx].at = "returned"
        /\ neg'[tx].original = neg[tx].original
    BY <1>1, <1>2, <2>1, <2>2, ReturnMoves DEF EndsWith
  <2>4. Sent(neg'[tx]) = Sent(neg[tx])
    BY <1>2, <2>3, UnbegunSilent, SamePartsSame
  <2>5. Reads(tx)
    BY <2>1, <2>3, <2>4 DEF Reads, Heading
  <2>6. QED
    BY <2>1, <2>3, <2>5 DEF Negotiates
<1>4. ASSUME NEW response \in FirstResponses(intent[tx]), NEW events \in Given,
             Begin(tx, response, events)
      PROVE  Negotiates(tx)
  <2> DEFINE verdict == Judge(intent[tx], response, Lifecycle(events))
             completed == [Idle EXCEPT !.at = "returned", !.state = "COMPLETED",
                             !.events = events, !.original = "PASS", !.final = "PASS"]
             drifted == [Idle EXCEPT !.at = "noticing", !.events = events,
                           !.original = verdict, !.final = verdict, !.response = response,
                           !.head = ChainHash(tx)]
  <2>1. /\ UNCHANGED <<tixVars, catalogVars, intent, mode, changes>>
        /\ \/ neg' = [neg EXCEPT ![tx] = completed]
           \/ neg' = [neg EXCEPT ![tx] = drifted] /\ verdict # "PASS"
    BY <1>4 DEF Begin
  <2>2. verdict \in {"PASS", "DRIFT", "UNKNOWN"} /\ response \in Responses
    BY <1>4, JudgeType, FirstResponseType
  <2>3. Idle \in Remediations /\ Idle.rounds = << >> /\ Idle.state = "DRIFT_DETECTED"
    BY IdleType
  <2>4. ChainHash(tx) \in Seq(Ids)
    BY NegotiationAssumption, ChainHashType DEF LedgersSound, TixInv
  <2> HIDE DEF verdict
  <2>5. /\ completed \in Remediations /\ completed.at = "returned"
        /\ completed.state = "COMPLETED" /\ completed.rounds = << >>
        /\ completed.original = "PASS"
    BY <2>3 DEF Remediations, Places, RoundStates
  <2>6. /\ drifted \in Remediations /\ drifted.at = "noticing" /\ drifted.rounds = << >>
        /\ drifted.original = verdict /\ drifted.state = "DRIFT_DETECTED"
        /\ drifted.head = ChainHash(tx)
    BY <2>2, <2>3, <2>4 DEF Remediations, Places
  <2> HIDE DEF completed, drifted
  <2>7. /\ Moves(tx)
        /\ \/ neg'[tx].at = "returned" /\ neg'[tx].original = "PASS"
           \/ /\ neg'[tx].at = "noticing" /\ neg'[tx].rounds = << >>
              /\ neg'[tx].head = ChainHash(tx)
    <3>1. CASE neg' = [neg EXCEPT ![tx] = completed]
      BY <1>1, <1>2, <2>5, <3>1 DEF Moves, SessionsSound, Settled
    <3>2. CASE neg' = [neg EXCEPT ![tx] = drifted] /\ verdict # "PASS"
      <4>1. neg'[tx] = drifted /\ \A u \in Negotiated \ {tx} : neg'[u] = neg[u]
        BY <3>2 DEF SessionsSound
      <4>2. neg' \in [Negotiated -> Remediations]
        BY <2>6, <3>2 DEF SessionsSound
      <4>3. Len(neg'[tx].rounds) < MaxRounds /\ Len(neg'[tx].rounds) <= MaxRounds
        BY <1>1, <2>6, <4>1
      <4>4. QED
        BY <1>2, <2>2, <2>6, <3>2, <4>1, <4>2, <4>3 DEF Moves
    <3>3. QED
      BY <2>1, <3>1, <3>2
  <2>8. Sent(neg'[tx]) = Sent(neg[tx])
    BY <1>2, <2>7, UnbegunSilent, SamePartsSame
  <2>9. Reads(tx)
    BY <2>1, <2>7, <2>8 DEF Reads, Heading
  <2>10. QED
    BY <2>1, <2>7, <2>9 DEF Negotiates
<1>5. QED
  BY <1>3, <1>4 DEF Start

LEMMA SendNoticeEffect ==
  ASSUME Expressible, NegotiationInv, NEW tx \in Negotiated, SendNotice(tx)
  PROVE  Negotiates(tx)
<1> USE DEF NegotiationInv
<1> DEFINE session == [neg[tx] EXCEPT !.at = "replanning"]
<1>1. /\ neg[tx].at = "noticing" /\ neg' = [neg EXCEPT ![tx] = session]
      /\ Note(tx, 0, 1, "core", "DRIFT_NOTICE", Silence)
      /\ UNCHANGED <<catalogVars, intent, mode, changes>>
  BY DEF SendNotice, SessionsSound
<1>2. /\ session \in Remediations /\ session.at = "replanning"
      /\ session.rounds = neg[tx].rounds /\ session.original = neg[tx].original
      /\ session.state = neg[tx].state
  BY DEF SessionsSound, Remediations, Places
<1> HIDE DEF session
<1>3. Moves(tx) /\ neg'[tx] = session /\ Begun(neg[tx]) /\ Begun(neg'[tx])
  BY <1>1, <1>2, GoesOnMoves
<1>4. neg[tx].rounds = << >>
  BY <1>1 DEF SessionsSound
<1>5. Tells(neg[tx], neg'[tx], <<0, 1>>, "DRIFT_NOTICE")
  BY <1>1, <1>2, <1>3, <1>4, NoticeTells
<1>6. MaySay(tx, <<0, 1>>, "DRIFT_NOTICE", Silence)
  BY <1>1, <1>2, <1>3, <1>5, SilenceType DEF MaySay, Heading
<1>7. Told("core", "DRIFT_NOTICE") /\ 0 \in Nat /\ 1 \in Nat
  BY DEF Told
<1>8. \E slot \in Nat \X Nat, m \in Messages : Says(tx, slot, m)
  BY <1>1, <1>6, <1>7, NoteSays, SilenceType
<1>9. QED
  BY <1>1, <1>3, <1>8 DEF Negotiates

LEMMA ReplanRoundEffect ==
  ASSUME NegotiationInv, NEW tx \in Negotiated, ReplanRound(tx)
  PROVE  Negotiates(tx)
<1> USE DEF NegotiationInv
<1> DEFINE rounds == neg[tx].rounds
<1>1. /\ neg[tx].at = "replanning"
      /\ UNCHANGED <<tixVars, catalogVars, intent, mode, changes>>
      /\ \/ \E r \in {"ABSTAINED", "FAILED"} :
              /\ Return(tx, r, neg[tx].final, Append(rounds, r))
              /\ r = "FAILED" => ~ WithinIntent(intent[tx], Propose(intent[tx]))
         \/ ReadHead(tx, "requesting")
  BY DEF ReplanRound
<1>2. /\ neg[tx] \in Remediations /\ rounds \in Seq(RoundStates) /\ Begun(neg[tx])
      /\ Len(rounds) < MaxRounds /\ Len(rounds) \in Nat /\ MaxRounds \in Nat
      /\ neg[tx].final \in {"NONE", "PASS", "DRIFT", "UNKNOWN"}
  BY <1>1, NegotiationAssumption DEF SessionsSound, Remediations, Begun
<1> HIDE DEF rounds
<1>3. ASSUME NEW r \in {"ABSTAINED", "FAILED"},
             Return(tx, r, neg[tx].final, Append(rounds, r)),
             r = "FAILED" => ~ WithinIntent(intent[tx], Propose(intent[tx]))
      PROVE  Negotiates(tx)
  <2>1. r \in Settled /\ r \in RoundStates
    BY DEF Settled, RoundStates
  <2>2. Append(rounds, r) \in Seq(RoundStates) /\ Len(Append(rounds, r)) <= MaxRounds
    BY <1>2, <2>1
  <2>3. intent[tx] \in Intents
    BY DEF SurroundingsSound
  <2>4. r = "FAILED" => Cardinality(Ordered(intent[tx])) > 1
    BY <1>3, <2>3, RefusedOrdersSeveral
  <2>5. /\ EndsWith(tx, Append(rounds, r)) /\ Moves(tx) /\ neg'[tx].at = "returned"
        /\ neg'[tx] \in Remediations
        /\ neg'[tx].rounds = Append(rounds, r) /\ neg'[tx].original = neg[tx].original
    <3>1. neg[tx].at # "returned" /\ neg[tx].final \in {"NONE", "PASS", "DRIFT", "UNKNOWN"}
      BY <1>1, <1>2
    <3>2. EndsWith(tx, Append(rounds, r)) /\ neg'[tx].at = "returned"
      BY <1>3, <2>1, <2>2, <2>4, <3>1, ReturnMoves
    <3>3. QED
      BY <3>2 DEF EndsWith
  <2>6. Begun(neg'[tx])
    BY <1>2, <2>5 DEF Begun
  <2>7. Sent(neg'[tx]) = Sent(neg[tx])
    BY <1>1, <1>2, <2>5, <2>6, RoundSilent DEF rounds
  <2>8. Reads(tx)
    BY <1>1, <2>5, <2>7 DEF Reads, Heading
  <2>9. QED
    BY <1>1, <2>5, <2>8 DEF Negotiates
<1>4. CASE ReadHead(tx, "requesting")
  <2> DEFINE session == [neg[tx] EXCEPT !.at = "requesting", !.head = ChainHash(tx)]
  <2>1. neg' = [neg EXCEPT ![tx] = session]
    BY <1>4 DEF ReadHead, SessionsSound
  <2>2. ChainHash(tx) \in Seq(Ids)
    BY NegotiationAssumption, ChainHashType DEF LedgersSound, TixInv
  <2>3. /\ session \in Remediations /\ session.at = "requesting"
        /\ session.head = ChainHash(tx)
        /\ session.rounds = neg[tx].rounds /\ session.original = neg[tx].original
        /\ session.state = neg[tx].state
    BY <1>2, <2>2 DEF Remediations, Places
  <2> HIDE DEF session
  <2>4. Moves(tx) /\ neg'[tx] = session /\ Begun(neg'[tx])
    BY <1>1, <2>1, <2>3, GoesOnMoves
  <2>5. Sent(neg'[tx]) = Sent(neg[tx])
    BY <1>1, <1>2, <2>3, <2>4, ReadingSilent
  <2>6. Reads(tx)
    BY <1>1, <2>3, <2>4, <2>5 DEF Reads, Heading
  <2>7. QED
    BY <1>1, <2>4, <2>6 DEF Negotiates
<1>5. QED
  BY <1>1, <1>3, <1>4

LEMMA SendRequestEffect ==
  ASSUME Expressible, NegotiationInv, NEW tx \in Negotiated, SendRequest(tx)
  PROVE  Negotiates(tx)
<1> USE DEF NegotiationInv
<1> DEFINE session == [neg[tx] EXCEPT !.at = "asking"]
<1>1. /\ neg[tx].at = "requesting" /\ neg' = [neg EXCEPT ![tx] = session]
      /\ Note(tx, Round(tx), 1, "buyer", "REMEDIATION_REQUEST", Silence)
      /\ UNCHANGED <<catalogVars, intent, mode, changes>>
  BY DEF SendRequest, SessionsSound
<1>2. /\ session \in Remediations /\ session.at = "asking"
      /\ session.rounds = neg[tx].rounds /\ session.original = neg[tx].original
      /\ session.state = neg[tx].state
  BY DEF SessionsSound, Remediations, Places
<1>3. Round(tx) \in Nat /\ 1 \in Nat
  BY DEF SessionsSound, Remediations, Round
<1> HIDE DEF session
<1>4. Moves(tx) /\ neg'[tx] = session /\ Begun(neg[tx]) /\ Begun(neg'[tx])
  BY <1>1, <1>2, GoesOnMoves
<1>5. Tells(neg[tx], neg'[tx], <<Round(tx), 1>>, "REMEDIATION_REQUEST")
  BY <1>1, <1>2, <1>4, PendingTells DEF Round
<1>6. MaySay(tx, <<Round(tx), 1>>, "REMEDIATION_REQUEST", Silence)
  BY <1>1, <1>2, <1>4, <1>5, SilenceType DEF MaySay, Heading
<1>7. Told("buyer", "REMEDIATION_REQUEST")
  BY DEF Told
<1>8. \E slot \in Nat \X Nat, m \in Messages : Says(tx, slot, m)
  BY <1>1, <1>3, <1>6, <1>7, NoteSays, SilenceType
<1>9. QED
  BY <1>1, <1>4, <1>8 DEF Negotiates

LEMMA AskMerchantEffect ==
  ASSUME NegotiationInv, NEW tx \in Negotiated, AskMerchant(tx)
  PROVE  Negotiates(tx)
<1> USE DEF NegotiationInv, SurroundingsSound
<1> DEFINE proposal == Propose(intent[tx])
           response == ProcessBuyerRequest(proposal.sku, proposal.quantity)
           session == [neg[tx] EXCEPT !.at = "offering", !.head = ChainHash(tx),
                                      !.response = response]
<1>1. /\ neg[tx].at = "asking" /\ neg' = [neg EXCEPT ![tx] = session]
      /\ UNCHANGED <<tixVars, catalogVars, intent, mode, changes>>
  BY DEF AskMerchant, SessionsSound
<1>2. proposal.sku \in Skus /\ proposal.quantity \in Nat
  BY IntentAssumption DEF Propose
<1>3. response \in Responses /\ (response.ok => response.total \in Nat)
  BY <1>2, ResponseType
<1>4. ChainHash(tx) \in Seq(Ids)
  BY NegotiationAssumption, ChainHashType DEF LedgersSound, TixInv
<1>5. neg[tx] \in Remediations
  BY DEF SessionsSound
<1> HIDE DEF response, proposal
<1>6. /\ session \in Remediations /\ session.at = "offering"
      /\ session.head = ChainHash(tx) /\ session.response = response
      /\ session.rounds = neg[tx].rounds /\ session.original = neg[tx].original
      /\ session.state = neg[tx].state
  BY <1>3, <1>4, <1>5 DEF Remediations, Places
<1> HIDE DEF session
<1>7. Moves(tx) /\ neg'[tx] = session /\ Begun(neg[tx]) /\ Begun(neg'[tx])
  BY <1>1, <1>6, GoesOnMoves
<1>8. Sent(neg'[tx]) = Sent(neg[tx])
  BY <1>1, <1>6, <1>7, ReadingSilent
<1>9. Reads(tx)
  BY <1>1, <1>3, <1>6, <1>7, <1>8 DEF Reads, Heading
<1>10. QED
  BY <1>1, <1>7, <1>9 DEF Negotiates

LEMMA SendOfferEffect ==
  ASSUME Expressible, NegotiationInv, NEW tx \in Negotiated, SendOffer(tx)
  PROVE  Negotiates(tx)
<1> USE DEF NegotiationInv
<1> DEFINE response == neg[tx].response
           rounds == neg[tx].rounds
           body == [total |-> response.total, verdict |-> "NONE"]
           session == [neg[tx] EXCEPT !.at = "judging"]
<1>1. /\ neg[tx].at = "offering"
      /\ Note(tx, Round(tx), 2, "merchant", "OFFER", body)
      /\ IF response.ok THEN neg' = [neg EXCEPT ![tx] = session]
                        ELSE NextRound(tx, Append(rounds, "REPLAN_REQUESTED"))
      /\ UNCHANGED <<catalogVars, intent, mode, changes>>
  BY DEF SendOffer, SessionsSound
<1>2. /\ neg[tx] \in Remediations /\ response \in Responses /\ rounds \in Seq(RoundStates)
      /\ Len(rounds) \in Nat /\ Len(rounds) < MaxRounds /\ MaxRounds \in Nat
      /\ Begun(neg[tx])
  BY <1>1, NegotiationAssumption DEF SessionsSound, Remediations, Begun
<1>3. Round(tx) = Len(rounds) + 1 /\ Round(tx) \in Nat /\ 2 \in Nat
  BY <1>2 DEF Round
<1>4. response.ok => response.total \in Nat
  BY <1>1 DEF OffersSound, OfferRests
<1>5. /\ session \in Remediations /\ session.at = "judging"
      /\ session.rounds = rounds /\ session.original = neg[tx].original
      /\ session.state = neg[tx].state /\ session.response = response
  BY <1>2 DEF Remediations, Places
<1>6. /\ body \in Statements /\ body.verdict = "NONE" /\ body.total = response.total
      /\ Told("merchant", "OFFER")
  BY <1>2 DEF Statements, Responses, Told
<1> HIDE DEF session, body
<1>7. Moves(tx) /\ MaySay(tx, <<Round(tx), 2>>, "OFFER", body)
  <2>1. CASE response.ok
    <3>1. Moves(tx) /\ neg'[tx] = session /\ Begun(neg'[tx])
      BY <1>1, <1>5, <2>1, GoesOnMoves
    <3>2. Tells(neg[tx], neg'[tx], <<Round(tx), 2>>, "OFFER")
      BY <1>1, <1>2, <1>3, <1>5, <3>1, PendingTells
    <3>3. OfferSaid(tx, <<Round(tx), 2>>, body.total)
      BY <1>3, <1>4, <1>5, <1>6, <2>1, <3>1 DEF OfferSaid
    <3>4. QED
      BY <1>1, <1>5, <1>6, <3>1, <3>2, <3>3 DEF MaySay, Heading
  <2>2. CASE ~ response.ok
    <3>1. /\ "REPLAN_REQUESTED" \in RoundStates
          /\ Append(rounds, "REPLAN_REQUESTED") \in Seq(RoundStates)
          /\ Len(Append(rounds, "REPLAN_REQUESTED")) <= MaxRounds
      BY <1>2 DEF RoundStates
    <3>2. /\ Moves(tx) /\ neg'[tx].at \in {"replanning", "returned"}
          /\ neg'[tx] \in Remediations
          /\ neg'[tx].rounds = Append(rounds, "REPLAN_REQUESTED")
          /\ neg'[tx].original = neg[tx].original
      BY <1>1, <2>2, <3>1, NextRoundMoves DEF EndsWith
    <3>3. Begun(neg'[tx])
      BY <1>2, <3>2 DEF Begun
    <3>4. Tells(neg[tx], neg'[tx], <<Round(tx), 2>>, "OFFER")
      BY <1>1, <1>2, <1>3, <3>1, <3>2, <3>3, RoundTells
    <3>5. QED
      BY <1>1, <1>6, <3>2, <3>4 DEF MaySay, Heading
  <2>3. QED
    BY <2>1, <2>2
<1>8. \E slot \in Nat \X Nat, m \in Messages : Says(tx, slot, m)
  BY <1>1, <1>3, <1>6, <1>7, NoteSays
<1>9. QED
  BY <1>1, <1>7, <1>8 DEF Negotiates

LEMMA JudgeOfferEffect ==
  ASSUME NegotiationInv, NEW tx \in Negotiated, JudgeOffer(tx)
  PROVE  Negotiates(tx)
<1> USE DEF NegotiationInv
<1> DEFINE session == [neg[tx] EXCEPT !.at = "concluding", !.head = ChainHash(tx)]
<1>1. /\ neg[tx].at = "judging" /\ neg' = [neg EXCEPT ![tx] = session]
      /\ UNCHANGED <<tixVars, catalogVars, intent, mode, changes>>
  BY DEF JudgeOffer, ReadHead, SessionsSound
<1>2. ChainHash(tx) \in Seq(Ids) /\ neg[tx] \in Remediations
  BY NegotiationAssumption, ChainHashType DEF LedgersSound, TixInv, SessionsSound
<1>3. /\ session \in Remediations /\ session.at = "concluding"
      /\ session.head = ChainHash(tx) /\ session.response = neg[tx].response
      /\ session.rounds = neg[tx].rounds /\ session.original = neg[tx].original
      /\ session.state = neg[tx].state
  BY <1>2 DEF Remediations, Places
<1> HIDE DEF session
<1>4. Moves(tx) /\ neg'[tx] = session /\ Begun(neg[tx]) /\ Begun(neg'[tx])
  BY <1>1, <1>3, GoesOnMoves
<1>5. Sent(neg'[tx]) = Sent(neg[tx])
  BY <1>1, <1>3, <1>4, ReadingSilent
<1>6. Reads(tx)
  BY <1>1, <1>3, <1>4, <1>5 DEF Reads, Heading
<1>7. QED
  BY <1>1, <1>4, <1>6 DEF Negotiates

LEMMA SendOutcomeEffect ==
  ASSUME Expressible, NegotiationInv, NEW tx \in Negotiated, SendOutcome(tx)
  PROVE  Negotiates(tx)
<1> USE DEF NegotiationInv, SurroundingsSound
<1> DEFINE verdict == Revalidated(tx)
           rounds == neg[tx].rounds
           state == IF verdict = "PASS" THEN "COMPLETED" ELSE "ESCALATED"
           body == [total |-> NoTotal, verdict |-> verdict]
<1>1. /\ neg[tx].at = "concluding"
      /\ \/ /\ Note(tx, Round(tx), 3, "core", "DRIFT_NOTICE", Silence)
            /\ NextRound(tx, Append(rounds, "DRIFT_DETECTED"))
         \/ /\ Note(tx, Round(tx), 3, "core", "OUTCOME", body)
            /\ Return(tx, state, verdict, Append(rounds, state))
      /\ UNCHANGED <<catalogVars, intent, mode, changes>>
  BY DEF SendOutcome
<1>2. /\ neg[tx] \in Remediations /\ rounds \in Seq(RoundStates)
      /\ Len(rounds) \in Nat /\ Len(rounds) < MaxRounds /\ MaxRounds \in Nat
      /\ Begun(neg[tx])
  BY <1>1, NegotiationAssumption DEF SessionsSound, Remediations, Begun
<1>3. Round(tx) = Len(rounds) + 1 /\ Round(tx) \in Nat /\ 3 \in Nat
  BY <1>2 DEF Round
<1>4. verdict \in {"PASS", "DRIFT", "UNKNOWN"}
  BY JudgeType DEF Revalidated
<1>5. verdict = "PASS" => neg[tx].response.total <= intent[tx].max
  <2>1. intent[tx].max \in Nat
    BY IntentAssumption
  <2>2. neg[tx].response.total \in Nat
    BY <1>1 DEF OffersSound, OfferRests
  <2>3. QED
    BY <2>1, <2>2, PassIsWithin DEF Revalidated
<1> HIDE DEF verdict
<1>6. /\ body \in Statements /\ body.verdict = verdict
      /\ Told("core", "OUTCOME") /\ Told("core", "DRIFT_NOTICE")
  BY <1>4 DEF Statements, NoTotal, Told
<1>7. /\ state \in Settled /\ state \in RoundStates /\ state \in {"COMPLETED", "ESCALATED"}
      /\ state # "FAILED"
  BY DEF Settled, RoundStates
<1> HIDE DEF body, state
<1>8. CASE /\ Note(tx, Round(tx), 3, "core", "DRIFT_NOTICE", Silence)
           /\ NextRound(tx, Append(rounds, "DRIFT_DETECTED"))
  <2>1. /\ "DRIFT_DETECTED" \in RoundStates
        /\ Append(rounds, "DRIFT_DETECTED") \in Seq(RoundStates)
        /\ Len(Append(rounds, "DRIFT_DETECTED")) <= MaxRounds
    BY <1>2 DEF RoundStates
  <2>2. /\ Moves(tx) /\ neg'[tx].at \in {"replanning", "returned"}
        /\ neg'[tx] \in Remediations
        /\ neg'[tx].rounds = Append(rounds, "DRIFT_DETECTED")
        /\ neg'[tx].original = neg[tx].original
    BY <1>1, <1>8, <2>1, NextRoundMoves DEF EndsWith
  <2>3. Begun(neg'[tx])
    BY <1>2, <2>2 DEF Begun
  <2>4. Tells(neg[tx], neg'[tx], <<Round(tx), 3>>, "DRIFT_NOTICE")
    BY <1>1, <1>2, <1>3, <2>1, <2>2, <2>3, RoundTells
  <2>5. MaySay(tx, <<Round(tx), 3>>, "DRIFT_NOTICE", Silence)
    BY <1>1, <2>2, <2>4, SilenceType DEF MaySay, Heading
  <2>6. \E slot \in Nat \X Nat, m \in Messages : Says(tx, slot, m)
    BY <1>3, <1>6, <1>8, <2>5, NoteSays, SilenceType
  <2>7. QED
    BY <1>1, <2>2, <2>6 DEF Negotiates
<1>9. CASE /\ Note(tx, Round(tx), 3, "core", "OUTCOME", body)
           /\ Return(tx, state, verdict, Append(rounds, state))
  <2>1. /\ Append(rounds, state) \in Seq(RoundStates)
        /\ Len(Append(rounds, state)) = Len(rounds) + 1
        /\ Len(Append(rounds, state)) <= MaxRounds
    BY <1>2, <1>7
  <2>2. verdict \in {"NONE", "PASS", "DRIFT", "UNKNOWN"} /\ neg[tx].at # "returned"
    BY <1>1, <1>4
  <2>3. /\ Moves(tx) /\ neg'[tx].at = "returned" /\ neg'[tx] \in Remediations
        /\ neg'[tx].rounds = Append(rounds, state)
        /\ neg'[tx].original = neg[tx].original /\ neg'[tx].response = neg[tx].response
    <3>1. state = "FAILED" => Cardinality(Ordered(intent[tx])) > 1
      BY <1>7
    <3>2. EndsWith(tx, Append(rounds, state)) /\ neg'[tx].at = "returned"
      BY <1>7, <1>9, <2>1, <2>2, <3>1, ReturnMoves
    <3>3. QED
      BY <3>2 DEF EndsWith
  <2>4. Begun(neg'[tx])
    BY <1>2, <2>3 DEF Begun
  <2>5. Tells(neg[tx], neg'[tx], <<Round(tx), 3>>, "OUTCOME")
    BY <1>1, <1>2, <1>3, <1>7, <2>3, <2>4, RoundTells
  <2>6. body.verdict = "PASS" => PassSaid(tx, <<Round(tx), 3>>, body.total)
    BY <1>1, <1>3, <1>5, <1>6, <2>1, <2>3 DEF PassSaid
  <2>7. MaySay(tx, <<Round(tx), 3>>, "OUTCOME", body)
    BY <1>1, <2>3, <2>5, <2>6 DEF MaySay, Heading
  <2>8. \E slot \in Nat \X Nat, m \in Messages : Says(tx, slot, m)
    BY <1>3, <1>6, <1>9, <2>7, NoteSays
  <2>9. QED
    BY <1>1, <2>3, <2>8 DEF Negotiates
<1>10. QED
  BY <1>1, <1>8, <1>9

LEMMA RemediateEffect ==
  ASSUME Expressible, NegotiationInv, NEW tx \in Negotiated, Remediate(tx)
  PROVE  Negotiates(tx)
BY SendNoticeEffect, ReplanRoundEffect, SendRequestEffect, AskMerchantEffect, SendOfferEffect,
   JudgeOfferEffect, SendOutcomeEffect DEF Remediate, Send

-----------------------------------------------------------------------------
(* The invariant is kept. *)

\* What a step may do: one negotiation goes on, someone else appends a
\* message, or the surroundings change.
LEMMA Steps ==
  ASSUME Expressible, NegotiationInv, [Next]_vars
  PROVE  \/ \E tx \in Negotiated : Negotiates(tx)
         \/ /\ \E m \in Messages : Foreign(m) /\ AppendAndVerify(m)
            /\ UNCHANGED <<catalogVars, intent, mode, neg, changes>>
         \/ UNCHANGED <<tixVars, neg, intent>> /\ SurroundingsSound'
<1> USE DEF NegotiationInv
<1>1. ASSUME NEW tx \in Negotiated, Start(tx) \/ Remediate(tx) PROVE Negotiates(tx)
  BY <1>1, StartEffect, RemediateEffect
<1>2. ASSUME NEW tx \in Txs, Inbound(tx) \/ EvaluateAndRecord(tx)
      PROVE  /\ UNCHANGED tixVars \/ \E m \in Messages : Foreign(m) /\ AppendAndVerify(m)
             /\ UNCHANGED <<catalogVars, intent, mode, neg, changes>>
  <2>1. TixInv
    BY DEF LedgersSound
  <2>2. UNCHANGED tixVars \/ \E m \in Messages : Foreign(m) /\ AppendAndVerify(m)
    BY <1>2, <2>1, InboundForeign
  <2>3. UNCHANGED <<catalogVars, intent, mode, neg, changes>>
    BY <1>2 DEF Inbound, EvaluateAndRecord
  <2>4. QED
    BY <2>2, <2>3
<1>3. UNCHANGED <<catalogVars, intent, mode, changes>> => SurroundingsSound'
  BY DEF SurroundingsSound, CatalogTypeOK, catalogVars
<1>4. CASE Merchant
  <2>1. UNCHANGED <<tixVars, neg, intent, mode>> /\ changes' = changes + 1 /\ changes < MaxChanges
    BY <1>4 DEF Merchant
  <2>2. CatalogTypeOK'
    BY <1>4, CatalogAssumption
       DEF Merchant, AddItem, SetInventoryStatus, SurroundingsSound, CatalogTypeOK
  <2>3. QED
    BY <2>1, <2>2, NegotiationAssumption DEF SurroundingsSound
<1>5. CASE SetMode
  <2>1. /\ UNCHANGED <<tixVars, neg, intent, catalogVars>> /\ mode' \in {"GUARDED", "SHADOW"}
        /\ changes' = changes + 1 /\ changes < MaxChanges
    BY <1>5 DEF SetMode
  <2>2. QED
    BY <2>1, NegotiationAssumption DEF SurroundingsSound, CatalogTypeOK, catalogVars
<1>6. CASE UNCHANGED vars
  BY <1>3, <1>6 DEF vars
<1>7. QED
  BY <1>1, <1>2, <1>3, <1>4, <1>5, <1>6 DEF Next

LEMMA LedgersKept ==
  ASSUME LedgersSound, NEW m \in Messages, AppendAndVerify(m)
  PROVE  LedgersSound'
<1>1. TixInv /\ TixTypeOK
  BY DEF LedgersSound, TixInv
<1>2. TixInv'
  <2>1. TixNext
    BY DEF TixNext
  <2>2. QED
    BY <1>1, <2>1, TixInvNext
<1>3. CASE UNCHANGED tixVars
  BY <1>2, <1>3 DEF LedgersSound, SeenRecorded, tixVars
<1>4. CASE /\ Accepted(m) /\ m.tx \in Txs /\ seen' = seen \cup {m.id}
           /\ Longer(ledger'[m.tx], ledger[m.tx], m)
           /\ \A tx \in Txs \ {m.tx} : ledger'[tx] = ledger[tx]
  <2> SUFFICES ASSUME NEW x \in seen'
               PROVE  \E tx \in Txs : \E i \in 1 .. Len(ledger'[tx]) : ledger'[tx][i].id = x
    BY <1>2 DEF LedgersSound, SeenRecorded
  <2>1. PICK n \in Nat :
          /\ DOMAIN ledger[m.tx] = 1 .. n /\ DOMAIN ledger'[m.tx] = 1 .. n + 1
          /\ ledger'[m.tx][n + 1] = m
          /\ \A i \in 1 .. n : ledger'[m.tx][i] = ledger[m.tx][i]
    BY <1>4 DEF Longer
  <2>2. Len(ledger'[m.tx]) = n + 1 /\ Len(ledger[m.tx]) = n
    <3>1. ledger[m.tx] \in Seq(Messages) /\ ledger'[m.tx] \in Seq(Messages)
      BY <1>1, <1>2, <1>4 DEF TixInv, TixTypeOK
    <3>2. QED
      BY <2>1, <3>1
  <2>3. CASE x = m.id
    <3>1. n + 1 \in 1 .. Len(ledger'[m.tx])
      BY <2>1, <2>2
    <3>2. QED
      BY <1>4, <2>1, <2>3, <3>1
  <2>4. CASE x \in seen
    <3>1. PICK tx \in Txs : \E i \in 1 .. Len(ledger[tx]) : ledger[tx][i].id = x
      BY <2>4 DEF LedgersSound, SeenRecorded
    <3>2. PICK i \in 1 .. Len(ledger[tx]) : ledger[tx][i].id = x
      BY <3>1
    <3>3. i \in 1 .. Len(ledger'[tx]) /\ ledger'[tx][i] = ledger[tx][i]
      BY <1>4, <2>1, <2>2
    <3>4. QED
      BY <3>2, <3>3
  <2>5. QED
    BY <1>4, <2>3, <2>4
<1>5. QED
  BY <1>1, <1>3, <1>4, AppendedTo

\* A message of the negotiation is refused only when others have moved the
\* head it is built on.
LEMMA SaidOrMoved ==
  ASSUME NegotiationInv, NEW tx \in Negotiated, NEW slot \in Nat \X Nat, NEW m \in Messages,
         Says(tx, slot, m)
  PROVE  \/ /\ Longer(ledger'[tx], ledger[tx], m) /\ seen' = seen \cup {m.id}
            /\ \A t \in Txs \ {tx} : ledger'[t] = ledger[t]
         \/ UNCHANGED tixVars /\ Moved(ledger[tx], tx)
<1> USE DEF NegotiationInv
<1>1. /\ m.id = <<tx, slot[1], slot[2]>> /\ m.tx = tx /\ m.prev = neg[tx].head
      /\ m.flaws = {} /\ ~ Overreaches(m) /\ AppendAndVerify(m)
      /\ neg[tx].at \in Heading /\ Tells(neg[tx], neg'[tx], slot, m.type)
  BY DEF Says, Sends, MaySay
<1>2. slot \notin DOMAIN Sent(neg[tx])
  BY <1>1 DEF Tells, Precedes
<1>3. m.id \notin seen
  <2>1. slot[1] \in Nat /\ slot[2] \in Nat /\ <<slot[1], slot[2]>> = slot
    OBVIOUS
  <2>2. QED
    BY <1>1, <1>2, <2>1 DEF IdsSent
<1>4. TixTypeOK
  BY DEF LedgersSound, TixInv
<1>5. CASE Accepted(m)
  BY <1>1, <1>4, <1>5, AppendedTo DEF AppendAndVerify
<1>6. CASE ~ Accepted(m)
  <2>1. m.prev # ChainHash(tx)
    BY <1>1, <1>3, <1>6 DEF Accepted
  <2>2. Moved(ledger[tx], tx)
    BY <1>1, <2>1 DEF HeadsSound
  <2>3. QED
    BY <1>1, <1>6, <2>2 DEF AppendAndVerify
<1>7. QED
  BY <1>5, <1>6

(***************************************************************************)
(* What a message that is sent makes of the ledger and the session of one  *)
(* transaction.                                                            *)
(***************************************************************************)
SameLedger(tx) == ledger'[tx] = ledger[tx] /\ neg'[tx] = neg[tx]

OthersWrote(tx, m) ==
  Longer(ledger'[tx], ledger[tx], m) /\ m.id[1] # tx /\ neg'[tx] = neg[tx]

Wrote(tx, slot, m) ==
  Longer(ledger'[tx], ledger[tx], m) /\ Says(tx, slot, m) /\ Moves(tx)

WasRefused(tx, slot, m) ==
  /\ ledger'[tx] = ledger[tx] /\ Moved(ledger[tx], tx)
  /\ Says(tx, slot, m) /\ Moves(tx)

LEMMA OneLedger ==
  ASSUME NegotiationInv, NEW m \in Messages, AppendAndVerify(m), NEW tx \in Negotiated,
         \/ Foreign(m) /\ UNCHANGED neg
         \/ \E u \in Negotiated, slot \in Nat \X Nat : Says(u, slot, m) /\ Moves(u)
  PROVE  \/ SameLedger(tx) \/ OthersWrote(tx, m)
         \/ \E slot \in Nat \X Nat : Wrote(tx, slot, m) \/ WasRefused(tx, slot, m)
<1>1. TixTypeOK /\ Negotiated \subseteq Txs
  BY NegotiationAssumption DEF NegotiationInv, LedgersSound, TixInv
<1>2. CASE Foreign(m) /\ UNCHANGED neg
  <2>1. m.id[1] # tx /\ neg'[tx] = neg[tx] /\ tx \in Txs
    BY <1>1, <1>2 DEF Foreign
  <2>2. ledger'[tx] = ledger[tx] \/ Longer(ledger'[tx], ledger[tx], m)
    <3>1. CASE UNCHANGED tixVars
      BY <3>1 DEF tixVars
    <3>2. CASE /\ Longer(ledger'[m.tx], ledger[m.tx], m)
               /\ \A t \in Txs \ {m.tx} : ledger'[t] = ledger[t]
      BY <2>1, <3>2
    <3>3. QED
      BY <1>1, <3>1, <3>2, AppendedTo
  <2>3. QED
    BY <2>1, <2>2 DEF SameLedger, OthersWrote
<1>3. ASSUME NEW u \in Negotiated, NEW slot \in Nat \X Nat, Says(u, slot, m), Moves(u)
      PROVE  SameLedger(tx) \/ Wrote(tx, slot, m) \/ WasRefused(tx, slot, m)
  <2>1. \/ /\ Longer(ledger'[u], ledger[u], m)
           /\ \A t \in Txs \ {u} : ledger'[t] = ledger[t]
        \/ UNCHANGED tixVars /\ Moved(ledger[u], u)
    BY <1>3, SaidOrMoved
  <2>2. CASE tx = u
    BY <1>3, <2>1, <2>2 DEF Wrote, WasRefused, tixVars
  <2>3. CASE tx # u
    BY <1>1, <1>3, <2>1, <2>3 DEF SameLedger, Moves, tixVars
  <2>4. QED
    BY <2>2, <2>3
<1>4. QED
  BY <1>2, <1>3

\* What is known of the record before a message of the negotiation is sent.
LEMMA SaidAfter ==
  ASSUME NegotiationInv, NEW tx \in Negotiated, NEW slot \in Nat \X Nat, NEW m \in Messages,
         Says(tx, slot, m)
  PROVE  /\ m.id = <<tx, slot[1], slot[2]>>
         /\ \A s \in DOMAIN Sent(neg[tx]) : Precedes(s, slot)
         /\ Extends(Sent(neg'[tx]), Sent(neg[tx]), slot, m.type)
         /\ Recounts(ledger[tx], tx, Sent(neg[tx]))
         /\ \A k \in PlacesIn(ledger[tx], tx) :
              SlotIn(ledger[tx], k) # slot /\ ledger[tx][k].body.verdict # "PASS"
<1>1. /\ m.id = <<tx, slot[1], slot[2]>>
      /\ \A s \in DOMAIN Sent(neg[tx]) : Precedes(s, slot)
      /\ Extends(Sent(neg'[tx]), Sent(neg[tx]), slot, m.type)
      /\ neg[tx].at # "returned"
  BY DEF Says, Sends, MaySay, Tells, Heading
<1>2. Recounts(ledger[tx], tx, Sent(neg[tx]))
  BY DEF NegotiationInv, RecordSound
<1>3. ~ Precedes(slot, slot)
  BY DEF Precedes
<1>4. \A k \in PlacesIn(ledger[tx], tx) : SlotIn(ledger[tx], k) # slot
  BY <1>1, <1>2, <1>3 DEF Recounts
<1>5. \A k \in PlacesIn(ledger[tx], tx) : ledger[tx][k].body.verdict # "PASS"
  BY <1>1 DEF NegotiationInv, OffersSound, PassesRest
<1>6. QED
  BY <1>1, <1>2, <1>4, <1>5

\* The ids that are taken are still those of what was sent.
LEMMA IdsKept ==
  ASSUME NegotiationInv, NEW m \in Messages, AppendAndVerify(m),
         \/ Foreign(m) /\ UNCHANGED neg
         \/ \E u \in Negotiated, slot \in Nat \X Nat : Says(u, slot, m) /\ Moves(u)
  PROVE  IdsSent'
<1> SUFFICES ASSUME NEW tx \in Negotiated, NEW i \in Nat, NEW p \in Nat, <<tx, i, p>> \in seen'
             PROVE  <<i, p>> \in DOMAIN Sent(neg'[tx])
  BY DEF IdsSent
<1>1. <<tx, i, p>> \in seen \/ <<tx, i, p>> = m.id
  BY DEF AppendAndVerify, tixVars
<1>2. <<tx, i, p>> \in seen => <<i, p>> \in DOMAIN Sent(neg[tx])
  BY DEF NegotiationInv, IdsSent
<1>3. tx \in Txs
  BY NegotiationAssumption
<1>4. CASE Foreign(m) /\ UNCHANGED neg
  BY <1>1, <1>2, <1>3, <1>4 DEF Foreign
<1>5. ASSUME NEW u \in Negotiated, NEW slot \in Nat \X Nat, Says(u, slot, m), Moves(u)
      PROVE  <<i, p>> \in DOMAIN Sent(neg'[tx])
  <2>1. /\ m.id = <<u, slot[1], slot[2]>>
        /\ Extends(Sent(neg'[u]), Sent(neg[u]), slot, m.type)
    BY <1>5, SaidAfter
  <2>2. u # tx => neg'[tx] = neg[tx]
    BY <1>5 DEF Moves
  <2>3. slot = <<slot[1], slot[2]>>
    OBVIOUS
  <2>4. CASE u # tx
    BY <1>1, <1>2, <2>1, <2>2, <2>4
  <2>5. CASE u = tx
    <3>1. DOMAIN Sent(neg'[tx]) = DOMAIN Sent(neg[tx]) \cup {slot}
      BY <2>1, <2>5 DEF Extends
    <3>2. <<tx, i, p>> = m.id => <<i, p>> = slot
      BY <2>1, <2>3, <2>5
    <3>3. QED
      BY <1>1, <1>2, <3>1, <3>2
  <2>6. QED
    BY <2>4, <2>5
<1>6. QED
  BY <1>4, <1>5

\* A head that was read is the head still, or others have moved it.
LEMMA HeadsKept ==
  ASSUME NegotiationInv, NEW m \in Messages, AppendAndVerify(m),
         \/ Foreign(m) /\ UNCHANGED neg
         \/ \E u \in Negotiated, slot \in Nat \X Nat : Says(u, slot, m) /\ Moves(u)
  PROVE  HeadsSound'
<1> SUFFICES ASSUME NEW tx \in Negotiated, neg'[tx].at \in Heading
             PROVE  neg'[tx].head = ChainHash(tx)' \/ Moved(ledger'[tx], tx)
  BY DEF HeadsSound
<1>1. neg[tx].at \in Heading => neg[tx].head = ChainHash(tx) \/ Moved(ledger[tx], tx)
  BY DEF NegotiationInv, HeadsSound
<1>2. CASE SameLedger(tx)
  BY <1>1, <1>2 DEF SameLedger, ChainHash
<1>3. CASE OthersWrote(tx, m)
  BY <1>3, OthersKept DEF OthersWrote
<1>4. ASSUME NEW slot \in Nat \X Nat, Says(tx, slot, m) PROVE FALSE
  BY <1>4 DEF Says, MaySay, Heading
<1>5. QED
  BY <1>2, <1>3, <1>4, OneLedger DEF Wrote, WasRefused

\* What was sent is told, or another message stands in its stead.
LEMMA RecordsKept ==
  ASSUME NegotiationInv, NEW m \in Messages, AppendAndVerify(m),
         \/ Foreign(m) /\ UNCHANGED neg
         \/ \E u \in Negotiated, slot \in Nat \X Nat : Says(u, slot, m) /\ Moves(u)
  PROVE  RecordSound'
<1> SUFFICES ASSUME NEW tx \in Negotiated
             PROVE  Recounts(ledger'[tx], tx, Sent(neg'[tx]))
  BY DEF RecordSound
<1>1. Recounts(ledger[tx], tx, Sent(neg[tx]))
  BY DEF NegotiationInv, RecordSound
<1>2. CASE SameLedger(tx)
  BY <1>1, <1>2 DEF SameLedger
<1>3. CASE OthersWrote(tx, m)
  BY <1>1, <1>3, OthersRecounted DEF OthersWrote
<1>4. ASSUME NEW slot \in Nat \X Nat, Wrote(tx, slot, m)
      PROVE  Recounts(ledger'[tx], tx, Sent(neg'[tx]))
  <2>1. /\ Longer(ledger'[tx], ledger[tx], m) /\ m.id = <<tx, slot[1], slot[2]>>
        /\ \A s \in DOMAIN Sent(neg[tx]) : Precedes(s, slot)
        /\ Extends(Sent(neg'[tx]), Sent(neg[tx]), slot, m.type)
    BY <1>4, SaidAfter DEF Wrote
  <2>2. QED
    BY <1>1, <2>1, OwnRecounted
<1>5. ASSUME NEW slot \in Nat \X Nat, WasRefused(tx, slot, m)
      PROVE  Recounts(ledger'[tx], tx, Sent(neg'[tx]))
  <2>1. /\ \A s \in DOMAIN Sent(neg[tx]) : Precedes(s, slot)
        /\ Extends(Sent(neg'[tx]), Sent(neg[tx]), slot, m.type)
        /\ ledger'[tx] = ledger[tx] /\ Moved(ledger[tx], tx)
    BY <1>5, SaidAfter DEF WasRefused
  <2>2. ledger[tx] \in Seq(Messages)
    BY NegotiationAssumption DEF NegotiationInv, LedgersSound, TixInv, TixTypeOK
  <2>3. Recounts(ledger[tx], tx, Sent(neg'[tx]))
    BY <1>1, <2>1, <2>2, RefusedRecounted
  <2>4. QED
    BY <2>1, <2>3
<1>6. QED
  BY <1>2, <1>3, <1>4, <1>5, OneLedger

\* A PASS rests on the offer that was judged, on record or not.
LEMMA OffersKept ==
  ASSUME NegotiationInv, NEW m \in Messages, AppendAndVerify(m), intent' = intent,
         \/ Foreign(m) /\ UNCHANGED neg
         \/ \E u \in Negotiated, slot \in Nat \X Nat : Says(u, slot, m) /\ Moves(u)
  PROVE  OffersSound'
<1> SUFFICES ASSUME NEW tx \in Negotiated
             PROVE  /\ PassesRest(ledger'[tx], tx, neg'[tx], intent[tx].max)
                    /\ OfferRests(ledger'[tx], tx, neg'[tx])
  BY DEF OffersSound
<1>1. /\ PassesRest(ledger[tx], tx, neg[tx], intent[tx].max)
      /\ OfferRests(ledger[tx], tx, neg[tx])
  BY DEF NegotiationInv, OffersSound
<1>2. CASE SameLedger(tx)
  BY <1>1, <1>2 DEF SameLedger
<1>3. CASE OthersWrote(tx, m)
  <2>1. /\ PlacesIn(ledger'[tx], tx) = PlacesIn(ledger[tx], tx) /\ neg'[tx] = neg[tx]
        /\ \A k \in PlacesIn(ledger[tx], tx) :
             /\ ledger'[tx][k] = ledger[tx][k]
             /\ SlotIn(ledger'[tx], k) = SlotIn(ledger[tx], k)
    BY <1>3, OthersKept DEF OthersWrote
  <2>2. ASSUME NEW i, NEW total, OfferTold(ledger[tx], tx, i, total)
        PROVE  OfferTold(ledger'[tx], tx, i, total)
    BY <2>1, <2>2 DEF OfferTold
  <2>3. QED
    BY <1>1, <2>1, <2>2 DEF PassesRest, OfferRests
<1>4. ASSUME NEW slot \in Nat \X Nat, Wrote(tx, slot, m)
      PROVE  /\ PassesRest(ledger'[tx], tx, neg'[tx], intent[tx].max)
             /\ OfferRests(ledger'[tx], tx, neg'[tx])
  <2> DEFINE places == PlacesIn(ledger[tx], tx)
             last == Len(ledger'[tx])
  <2>1. \A k \in places :
          SlotIn(ledger[tx], k) # slot /\ ledger[tx][k].body.verdict # "PASS"
    BY <1>4, SaidAfter DEF Wrote
  <2>2. /\ PlacesIn(ledger'[tx], tx) = places \cup {last}
        /\ \A k \in places : /\ ledger'[tx][k] = ledger[tx][k]
                             /\ SlotIn(ledger'[tx], k) = SlotIn(ledger[tx], k)
        /\ ledger'[tx][last] = m /\ SlotIn(ledger'[tx], last) = slot
    BY <1>4, SaidAfter, OwnRecounted DEF Wrote
  <2>3. MaySay(tx, slot, m.type, m.body)
    BY <1>4 DEF Wrote, Says
  <2> HIDE DEF places, last
  <2>4. PassesRest(ledger'[tx], tx, neg'[tx], intent[tx].max)
    <3>1. CASE m.body.verdict # "PASS"
      BY <2>1, <2>2, <3>1 DEF PassesRest
    <3>2. CASE m.body.verdict = "PASS"
      <4>1. /\ neg[tx].at = "concluding" /\ neg'[tx].at = "returned"
            /\ neg'[tx].response = neg[tx].response
            /\ neg[tx].response.total <= intent[tx].max
            /\ Len(neg'[tx].rounds) = Round(tx) /\ slot = <<Round(tx), 3>>
        BY <2>3, <3>2 DEF MaySay, PassSaid
      <4>2. /\ neg[tx].response.total \in Nat
            /\ OfferTold(ledger[tx], tx, Round(tx), neg[tx].response.total)
        BY <1>1, <4>1 DEF OfferRests, Round
      <4>3. neg[tx].response.total \in 0 .. intent[tx].max
        BY <4>1, <4>2, IntentAssumption DEF NegotiationInv, SurroundingsSound
      <4>4. slot # <<Round(tx), 2>>
        BY <4>1
      <4>5. OfferTold(ledger'[tx], tx, Round(tx), neg[tx].response.total)
        BY <2>2, <4>2, <4>4 DEF OfferTold, places
      <4>6. QED
        BY <2>1, <2>2, <4>1, <4>3, <4>5 DEF PassesRest
    <3>3. QED
      BY <3>1, <3>2
  <2>5. OfferRests(ledger'[tx], tx, neg'[tx])
    <3>1. neg'[tx].at \notin {"offering", "concluding"}
      BY <2>3 DEF MaySay
    <3>2. CASE neg'[tx].at = "judging"
      <4>1. /\ slot = <<Len(neg'[tx].rounds) + 1, 2>>
            /\ neg'[tx].response.total = m.body.total
            /\ neg'[tx].response.ok /\ neg'[tx].response.total \in Nat
        BY <2>3, <3>2 DEF MaySay, OfferSaid
      <4>2. OfferTold(ledger'[tx], tx, Len(neg'[tx].rounds) + 1, neg'[tx].response.total)
        BY <2>1, <2>2, <4>1 DEF OfferTold
      <4>3. QED
        BY <3>1, <4>1, <4>2 DEF OfferRests
    <3>3. QED
      BY <3>1, <3>2 DEF OfferRests
  <2>6. QED
    BY <2>4, <2>5
<1>5. ASSUME NEW slot \in Nat \X Nat, WasRefused(tx, slot, m)
      PROVE  /\ PassesRest(ledger'[tx], tx, neg'[tx], intent[tx].max)
             /\ OfferRests(ledger'[tx], tx, neg'[tx])
  <2>1. \A k \in PlacesIn(ledger[tx], tx) :
          SlotIn(ledger[tx], k) # slot /\ ledger[tx][k].body.verdict # "PASS"
    BY <1>5, SaidAfter DEF WasRefused
  <2>2. ledger'[tx] = ledger[tx] /\ MaySay(tx, slot, m.type, m.body)
    BY <1>5 DEF WasRefused, Says
  <2>3. PassesRest(ledger'[tx], tx, neg'[tx], intent[tx].max)
    BY <2>1, <2>2 DEF PassesRest
  <2>4. OfferRests(ledger'[tx], tx, neg'[tx])
    <3>1. neg'[tx].at \notin {"offering", "concluding"}
      BY <2>2 DEF MaySay
    <3>2. CASE neg'[tx].at = "judging"
      <4>1. /\ slot = <<Len(neg'[tx].rounds) + 1, 2>>
            /\ neg'[tx].response.ok /\ neg'[tx].response.total \in Nat
        BY <2>2, <3>2 DEF MaySay, OfferSaid
      <4>2. OfferTold(ledger'[tx], tx, Len(neg'[tx].rounds) + 1, neg'[tx].response.total)
        BY <2>1, <2>2, <4>1 DEF OfferTold
      <4>3. QED
        BY <3>1, <4>1, <4>2 DEF OfferRests
    <3>3. QED
      BY <3>1, <3>2 DEF OfferRests
  <2>5. QED
    BY <2>3, <2>4
<1>6. QED
  BY <1>2, <1>3, <1>4, <1>5, OneLedger

\* Nor does a step that sends nothing break what the ledgers tell.
LEMMA ReadsKept ==
  ASSUME NegotiationInv, NEW tx \in Negotiated, Moves(tx), Reads(tx), intent' = intent
  PROVE  LedgersSound' /\ IdsSent' /\ HeadsSound' /\ RecordSound' /\ OffersSound'
<1> USE DEF NegotiationInv
<1>1. /\ ledger' = ledger /\ seen' = seen
      /\ \A u \in Negotiated \ {tx} : neg'[u] = neg[u]
      /\ \A u \in Negotiated : Sent(neg'[u]) = Sent(neg[u])
  BY DEF Reads, Moves, tixVars
<1>2. LedgersSound'
  <2>1. TixInv'
    BY <1>1, TixInvNext DEF LedgersSound, tixVars
  <2>2. QED
    BY <1>1, <2>1 DEF LedgersSound, SeenRecorded
<1>3. IdsSent' /\ RecordSound'
  BY <1>1 DEF IdsSent, RecordSound
<1>4. HeadsSound'
  <2> SUFFICES ASSUME NEW u \in Negotiated, neg'[u].at \in Heading
               PROVE  neg'[u].head = ChainHash(u)' \/ Moved(ledger'[u], u)
    BY DEF HeadsSound
  <2>1. ChainHash(u)' = ChainHash(u)
    BY <1>1 DEF ChainHash
  <2>2. QED
    BY <1>1, <2>1 DEF HeadsSound, Reads
<1>5. OffersSound'
  <2> SUFFICES ASSUME NEW u \in Negotiated
               PROVE  /\ PassesRest(ledger[u], u, neg'[u], intent[u].max)
                      /\ OfferRests(ledger[u], u, neg'[u])
    BY <1>1 DEF OffersSound
  <2>1. PassesRest(ledger[u], u, neg[u], intent[u].max) /\ OfferRests(ledger[u], u, neg[u])
    BY DEF OffersSound
  <2>2. CASE u # tx
    BY <1>1, <2>1, <2>2
  <2>3. CASE u = tx
    <3>1. PassesRest(ledger[u], u, neg'[u], intent[u].max)
      BY <2>1, <2>3 DEF PassesRest, Moves
    <3>2. OfferRests(ledger[u], u, neg'[u])
      BY <2>1, <2>3 DEF OfferRests, Reads
    <3>3. QED
      BY <3>1, <3>2
  <2>4. QED
    BY <2>2, <2>3
<1>6. QED
  BY <1>2, <1>3, <1>4, <1>5

LEMMA NegotiationStep ==
  ASSUME Expressible, NegotiationInv, [Next]_vars
  PROVE  NegotiationInv'
<1> USE DEF NegotiationInv
<1>1. CASE UNCHANGED <<tixVars, neg, intent>> /\ SurroundingsSound'
  <2>1. ledger' = ledger /\ seen' = seen /\ neg' = neg /\ intent' = intent
    BY <1>1 DEF tixVars
  <2>2. SessionsSound'
    BY <2>1 DEF SessionsSound
  <2>3. LedgersSound'
    <3>1. TixInv'
      BY <2>1, TixInvNext DEF LedgersSound, tixVars
    <3>2. QED
      BY <2>1, <3>1 DEF LedgersSound, SeenRecorded
  <2>4. IdsSent' /\ HeadsSound'
    BY <2>1 DEF IdsSent, HeadsSound, ChainHash
  <2>5. RecordSound' /\ OffersSound' /\ OnlySeveralItemsFail'
    BY <2>1 DEF RecordSound, OffersSound, OnlySeveralItemsFail
  <2>6. QED
    BY <1>1, <2>2, <2>3, <2>4, <2>5
<1>2. ASSUME NEW m \in Messages, Foreign(m), AppendAndVerify(m),
             UNCHANGED <<catalogVars, intent, mode, neg, changes>>
      PROVE  NegotiationInv'
  <2>1. SurroundingsSound' /\ SessionsSound'
    BY <1>2 DEF SurroundingsSound, CatalogTypeOK, catalogVars, SessionsSound
  <2>2. LedgersSound' /\ IdsSent' /\ HeadsSound' /\ RecordSound' /\ OffersSound'
    BY <1>2, LedgersKept, IdsKept, HeadsKept, RecordsKept, OffersKept
  <2>3. OnlySeveralItemsFail'
    BY <1>2 DEF OnlySeveralItemsFail
  <2>4. QED
    BY <2>1, <2>2, <2>3
<1>3. ASSUME NEW tx \in Negotiated, Negotiates(tx) PROVE NegotiationInv'
  <2>1. Moves(tx) /\ UNCHANGED <<catalogVars, intent, mode, changes>>
    BY <1>3 DEF Negotiates
  <2>2. SurroundingsSound'
    BY <2>1 DEF SurroundingsSound, CatalogTypeOK, catalogVars
  <2>3. SessionsSound'
    BY <2>1 DEF Moves, SessionsSound
  <2>4. OnlySeveralItemsFail'
    BY <2>1 DEF OnlySeveralItemsFail, Moves
  <2>5. CASE Reads(tx)
    BY <2>1, <2>2, <2>3, <2>4, <2>5, ReadsKept
  <2>6. ASSUME NEW slot \in Nat \X Nat, NEW m \in Messages, Says(tx, slot, m)
        PROVE  NegotiationInv'
    <3>1. AppendAndVerify(m)
      BY <2>6 DEF Says, Sends
    <3>2. LedgersSound' /\ IdsSent' /\ HeadsSound' /\ RecordSound' /\ OffersSound'
      BY <2>1, <2>6, <3>1, LedgersKept, IdsKept, HeadsKept, RecordsKept, OffersKept
    <3>3. QED
      BY <2>2, <2>3, <2>4, <3>2
  <2>7. QED
    BY <1>3, <2>5, <2>6 DEF Negotiates
<1>4. QED
  BY <1>1, <1>2, <1>3, Steps

LEMMA NegotiationInitially == Init => NegotiationInv
<1> SUFFICES ASSUME Init PROVE NegotiationInv
  OBVIOUS
<1>1. /\ TixInit /\ CatalogInit /\ intent \in [Negotiated -> Intents] /\ mode = "GUARDED"
      /\ neg = [tx \in Negotiated |-> Idle] /\ changes = 0
  BY DEF Init
<1>2. SurroundingsSound
  BY <1>1, CatalogAssumption, NegotiationAssumption
     DEF SurroundingsSound, CatalogInit, CatalogTypeOK
<1>3. /\ Idle \in Remediations /\ Idle.rounds = << >> /\ Idle.at = "idle"
      /\ Idle.original = "NONE" /\ Idle.state # "FAILED"
  BY IdleType
<1>4. SessionsSound
  BY <1>1, <1>3, NegotiationAssumption DEF SessionsSound
<1>5. LedgersSound
  BY <1>1, TixInvInit DEF LedgersSound, TixInit, SeenRecorded
<1>6. \A tx \in Negotiated : ledger[tx] = << >> /\ neg[tx] = Idle
  BY <1>1, NegotiationAssumption DEF TixInit
<1>7. IdsSent /\ HeadsSound
  BY <1>1, <1>3, <1>6 DEF TixInit, IdsSent, HeadsSound, Heading
<1>8. \A tx \in Negotiated : PlacesIn(ledger[tx], tx) = {}
  BY <1>6 DEF PlacesIn
<1>9. RecordSound
  <2>1. \A tx \in Negotiated : DOMAIN Sent(neg[tx]) = {}
    BY <1>3, <1>6, UnbegunSilent
  <2>2. QED
    BY <1>8, <2>1 DEF RecordSound, Recounts
<1>10. OffersSound
  BY <1>3, <1>6, <1>8 DEF OffersSound, PassesRest, OfferRests
<1>11. OnlySeveralItemsFail
  BY <1>3, <1>6 DEF OnlySeveralItemsFail
<1>12. QED
  BY <1>2, <1>4, <1>5, <1>7, <1>9, <1>10, <1>11 DEF NegotiationInv

LEMMA AlwaysNegotiationInv ==
  ASSUME Expressible PROVE Spec => []NegotiationInv
<1>1. NegotiationInv /\ [Next]_vars => NegotiationInv'
  BY NegotiationStep
<1>2. QED
  BY <1>1, NegotiationInitially, PTL DEF Spec

-----------------------------------------------------------------------------
(***************************************************************************)
(* The catalogue, the sessions and the ids taken keep their shape; no      *)
(* remediation goes on for more rounds than the policy has (NextRound).    *)
(***************************************************************************)
THEOREM NegotiationTyped == ASSUME Expressible PROVE Spec => []TypeOK
<1>1. NegotiationInv => TypeOK
  <2> SUFFICES ASSUME NegotiationInv PROVE TypeOK
    OBVIOUS
  <2> USE DEF NegotiationInv
  <2>1. seen = {m.id : m \in UNION {ToSet(ledger[tx]) : tx \in Txs}}
    <3>1. \A tx \in Txs : ledger[tx] \in Seq(Messages) /\ DOMAIN ledger[tx] = 1 .. Len(ledger[tx])
      BY DEF LedgersSound, TixInv, TixTypeOK
    <3>2. ASSUME NEW x \in seen PROVE x \in {m.id : m \in UNION {ToSet(ledger[tx]) : tx \in Txs}}
      <4>0. PICK tx \in Txs : \E i \in 1 .. Len(ledger[tx]) : ledger[tx][i].id = x
        BY DEF LedgersSound, SeenRecorded
      <4>1. PICK i \in 1 .. Len(ledger[tx]) : ledger[tx][i].id = x
        BY <4>0
      <4>2. ledger[tx][i] \in ToSet(ledger[tx])
        BY <3>1 DEF ToSet
      <4>3. QED
        BY <4>1, <4>2
    <3>3. ASSUME NEW tx \in Txs, NEW m \in ToSet(ledger[tx]) PROVE m.id \in seen
      <4>1. PICK i \in 1 .. Len(ledger[tx]) : m = ledger[tx][i]
        BY <3>1 DEF ToSet
      <4>2. QED
        BY <4>1 DEF LedgersSound, TixInv, SeenAll
    <3>4. QED
      BY <3>2, <3>3
  <2>2. ASSUME NEW tx \in Negotiated
        PROVE  /\ neg[tx].at \in Places
               /\ neg[tx].at = "returned" => neg[tx].state \in Settled
               /\ neg[tx].rounds \in Seq(RoundStates) /\ Len(neg[tx].rounds) <= MaxRounds
    BY DEF SessionsSound, Remediations
  <2>3. QED
    BY <2>1, <2>2 DEF TypeOK, SurroundingsSound, Places
<1>2. QED
  BY <1>1, AlwaysNegotiationInv, PTL

(***************************************************************************)
(* The ledgers that negotiation, gateway and integrity service all write   *)
(* to can fail their audit at the first message only.                      *)
(***************************************************************************)
THEOREM SharedLedgersAudit == ASSUME Expressible PROVE Spec => []AuditFailsAtTheStart
<1>1. NegotiationInv => AuditFailsAtTheStart
  BY TixInvAudits DEF NegotiationInv, LedgersSound
<1>2. QED
  BY <1>1, AlwaysNegotiationInv, PTL

(***************************************************************************)
(* No message of a remediation, or of those that write in between, is on   *)
(* record twice.                                                           *)
(***************************************************************************)
THEOREM SharedLedgersRecordOnce == ASSUME Expressible PROVE Spec => []RecordedOnce
<1>1. NegotiationInv => RecordedOnce
  BY DEF NegotiationInv, LedgersSound, TixInv
<1>2. QED
  BY <1>1, AlwaysNegotiationInv, PTL

(***************************************************************************)
(* A PASS of a remediation speaks of the offer its session ends with,      *)
(* which is within the ceiling of the intent; the offer of its round on    *)
(* the ledger is that one, or it is missing and a message of others stands *)
(* in its stead, whoever writes to the ledger between a read of its head   *)
(* and the append, and whoever changes prices (execute_bounded_remediation).*)
(***************************************************************************)
THEOREM PassSpeaksOfTheOffer == ASSUME Expressible PROVE Spec => []PassWithinCeiling
<1>1. NegotiationInv => PassWithinCeiling
  <2> SUFFICES ASSUME NegotiationInv, NEW tx \in Negotiated, NEW k \in OwnPlaces(tx),
                      ledger[tx][k].body.verdict = "PASS"
               PROVE  LET offer == <<Slot(tx, k)[1], 2>>
                          total == neg[tx].response.total
                      IN  /\ total \in 0 .. intent[tx].max
                          /\ \/ \E j \in OwnPlaces(tx) :
                                 /\ j < k /\ Slot(tx, j) = offer
                                 /\ ledger[tx][j].type = "OFFER"
                                 /\ ledger[tx][j].body.total = total
                             \/ ~ OnLedger(tx, offer) /\ Overtaken(tx, offer)
    BY DEF PassWithinCeiling
  <2> DEFINE session == neg[tx]
             n == Len(session.rounds)
             total == session.response.total
             sent == Sent(session)
  <2>1. /\ PlacesIn(ledger[tx], tx) = OwnPlaces(tx)
        /\ \A j : SlotIn(ledger[tx], j) = Slot(tx, j)
        /\ \A slot : MissedIn(ledger[tx], tx, slot) = Overtaken(tx, slot)
    BY DEF PlacesIn, OwnPlaces, SlotIn, Slot, MissedIn, Overtaken
  <2>2. /\ session.at = "returned" /\ Slot(tx, k) = <<n, 3>> /\ total \in 0 .. intent[tx].max
        /\ OfferTold(ledger[tx], tx, n, total)
    BY <2>1 DEF NegotiationInv, OffersSound, PassesRest
  <2>3. /\ session \in Remediations /\ n \in Nat /\ ledger[tx] \in Seq(Messages)
    BY NegotiationAssumption
       DEF NegotiationInv, SessionsSound, LedgersSound, TixInv, TixTypeOK, Remediations
  <2>4. Recounts(ledger[tx], tx, sent)
    BY DEF NegotiationInv, RecordSound
  <2> HIDE DEF session, sent, total
  <2>5. <<n, 3>> \in DOMAIN sent
    BY <2>1, <2>2, <2>4 DEF Recounts
  <2>6. <<n, 2>> \in DOMAIN sent /\ sent[<<n, 2>>] = "OFFER"
    BY <2>2, <2>3, <2>5, OutcomeAfterOffer DEF sent
  <2>7. ASSUME NEW j \in OwnPlaces(tx), Slot(tx, j) = <<n, 2>>
        PROVE  j < k /\ ledger[tx][j].type = "OFFER" /\ ledger[tx][j].body.total = total
    <3>1. ledger[tx][j].type = "OFFER"
      BY <2>1, <2>4, <2>6, <2>7 DEF Recounts
    <3>2. ledger[tx][j].body.total = total
      BY <2>1, <2>2, <2>7 DEF OfferTold
    <3>3. j \in Nat /\ k \in Nat
      BY <2>3 DEF OwnPlaces
    <3>4. ~ Precedes(<<n, 3>>, <<n, 2>>)
      BY <2>3 DEF Precedes
    <3>5. ~ (k < j)
      BY <2>1, <2>2, <2>4, <2>7, <3>4 DEF Recounts
    <3>6. j # k
      BY <2>2, <2>7
    <3>7. QED
      BY <3>1, <3>2, <3>3, <3>5, <3>6
  <2>8. OnLedger(tx, <<n, 2>>) \/ Overtaken(tx, <<n, 2>>)
    BY <2>1, <2>4, <2>6 DEF Recounts, OnLedger
  <2>9. Slot(tx, k)[1] = n
    BY <2>2
  <2>10. QED
    BY <2>2, <2>7, <2>8, <2>9 DEF OnLedger, total, session
<1>2. QED
  BY <1>1, AlwaysNegotiationInv, PTL

(***************************************************************************)
(* The ledger tells the remediation: what it has of one that has returned  *)
(* is what its rounds sent, in order, and for what it has not a message of *)
(* others stands that overtook it.  No outcome of an append is looked at,  *)
(* and others may write between the read of the head and the append        *)
(* (get_chain_hash and append_and_verify in execute_bounded_remediation).  *)
(***************************************************************************)
THEOREM LedgerTellsTheRounds == ASSUME Expressible PROVE Spec => []RoundsOnLedger
<1>1. NegotiationInv => RoundsOnLedger
  <2> SUFFICES ASSUME NegotiationInv, NEW tx \in Negotiated, neg[tx].at = "returned"
               PROVE  /\ \A k \in OwnPlaces(tx) :
                           /\ Slot(tx, k) \in DOMAIN Owed(neg[tx])
                           /\ ledger[tx][k].type = Owed(neg[tx])[Slot(tx, k)]
                           /\ \A j \in OwnPlaces(tx) :
                                j < k => Precedes(Slot(tx, j), Slot(tx, k))
                      /\ \A slot \in DOMAIN Owed(neg[tx]) :
                           OnLedger(tx, slot) \/ Overtaken(tx, slot)
    BY DEF RoundsOnLedger
  <2>1. neg[tx] \in Remediations /\ Recounts(ledger[tx], tx, Sent(neg[tx]))
    BY DEF NegotiationInv, SessionsSound, RecordSound
  <2>2. Recounts(ledger[tx], tx, Owed(neg[tx]))
    BY <2>1, SentIsOwed
  <2>3. /\ PlacesIn(ledger[tx], tx) = OwnPlaces(tx)
        /\ \A j : SlotIn(ledger[tx], j) = Slot(tx, j)
        /\ \A slot : MissedIn(ledger[tx], tx, slot) = Overtaken(tx, slot)
    BY DEF PlacesIn, OwnPlaces, SlotIn, Slot, MissedIn, Overtaken
  <2>4. QED
    BY <2>2, <2>3 DEF Recounts, OnLedger
<1>2. QED
  BY <1>1, AlwaysNegotiationInv, PTL

(***************************************************************************)
(* validate_proposal_against_intent refuses the projection of the buyer    *)
(* agent for no intent but one for several articles.                       *)
(***************************************************************************)
THEOREM GateRefusesSeveralOnly == ASSUME Expressible PROVE Spec => []OnlySeveralItemsFail
<1>1. NegotiationInv => OnlySeveralItemsFail
  BY DEF NegotiationInv
<1>2. QED
  BY <1>1, AlwaysNegotiationInv, PTL

=============================================================================
