-------------------------- MODULE KillSwitchProofs --------------------------
(***************************************************************************)
(* Theorems about KillSwitch, for any transactions, callers and bounds.    *)
(***************************************************************************)
EXTENDS KillSwitch, SequenceTheorems, TLAPS

-----------------------------------------------------------------------------
(***************************************************************************)
(* Types.                                                                  *)
(***************************************************************************)

USE DEF SafetyStates, KillTriggers, Triggers, Reasons

\* The finding acted on, whatever is evaluated, is one that can be recorded.
LEMMA FindingType ==
  ASSUME NEW expired, NEW valid, NEW status, NEW n, NEW tolerance
  PROVE  LET finding == EnforcedFinding(expired, valid, status, n, tolerance)
         IN  /\ finding.to \in {"RUNNING", "REQUIRES_REVALIDATION", "KILLED"}
             /\ finding.trigger \in Triggers
BY DEF EnforcedFinding, IntegrityFinding, Finding, NoFinding

\* Every operation decides a sequence of records.
LEMMA RecordsType ==
  ASSUME TypeOK, NEW t \in Txs, NEW trigger \in Triggers, NEW same
  PROVE  /\ KillRecords(t, trigger, same) \in Seq(Records)
         /\ InitiateRecords(t, trigger) \in Seq(Records)
         /\ ResumeRecords(t) \in Seq(Records)
         /\ RejectRecords(t) \in Seq(Records)
<1>1. states[t] \in SafetyStates
  BY DEF TypeOK
<1>2. \A from, to \in SafetyStates, why \in Reasons, tr \in Triggers :
        Record(from, to, tr, why) \in Records
  BY DEF Record, Records
<1>3. \A r \in Records : <<r>> \in Seq(Records)
  OBVIOUS
<1>4. \A a, b \in Records : <<a, b>> \in Seq(Records)
  OBVIOUS
<1>5. KillRecords(t, trigger, same) \in Seq(Records)
  BY <1>1, <1>2, <1>3 DEF KillRecords
<1>6. InitiateRecords(t, trigger) \in Seq(Records)
  BY <1>1, <1>2, <1>3 DEF InitiateRecords
<1>7. ResumeRecords(t) \in Seq(Records)
  BY <1>1, <1>2, <1>3, <1>4 DEF ResumeRecords
<1>8. RejectRecords(t) \in Seq(Records)
  BY <1>1, <1>2, <1>3 DEF RejectRecords
<1>9. QED
  BY <1>5, <1>6, <1>7, <1>8

LEMMA FindingRecordsType ==
  ASSUME TypeOK, NEW t \in Txs, NEW expired, NEW valid, NEW status, NEW n, NEW same
  PROVE  FindingRecords(t, EnforcedFinding(expired, valid, status, n, MaxUnknown), same)
           \in Seq(Records)
<1> DEFINE finding == EnforcedFinding(expired, valid, status, n, MaxUnknown)
<1>1. finding.trigger \in Triggers
  BY FindingType
<1>2. /\ KillRecords(t, finding.trigger, same) \in Seq(Records)
      /\ InitiateRecords(t, finding.trigger) \in Seq(Records)
  BY <1>1, RecordsType
<1>3. <<>> \in Seq(Records)
  OBVIOUS
<1> HIDE DEF finding
<1>4. FindingRecords(t, finding, same) \in Seq(Records)
  BY <1>2, <1>3 DEF FindingRecords
<1>5. QED
  BY <1>4 DEF finding

\* Deciding keeps the types, whatever operation decides.
LEMMA DecideType ==
  ASSUME TypeOK, NEW c \in Callers, NEW t \in Txs, NEW recs \in Seq(Records),
         Decide(c, t, recs), unknowns' \in [Txs -> Nat]
  PROVE  TypeOK'
<1>1. (IF recs = <<>> THEN Idle ELSE Decided(t, recs))
        \in {Idle} \cup [tx : Txs, recs : Seq(Records) \ {<<>>}]
  BY DEF Decided
<1>2. QED
  BY <1>1 DEF TypeOK, Decide, Idle, Decided

(***************************************************************************)
(* The tables of the service keep their types, with any number of callers  *)
(* between their reads and their writes.                                   *)
(***************************************************************************)
THEOREM TypeCorrect == Spec => []TypeOK
<1>1. Init => TypeOK
  BY DEF Init, TypeOK, Idle, Decided
<1>2. TypeOK /\ [Next]_vars => TypeOK'
  <2> SUFFICES ASSUME TypeOK, [Next]_vars PROVE TypeOK'
    OBVIOUS
  <2>1. ASSUME NEW c \in Callers, Commit(c) PROVE TypeOK'
    <3>1. Busy(c) /\ Idle.recs = <<>>
      BY <2>1 DEF Commit, Idle, Decided
    <3>2. pend[c] \in [tx : Txs, recs : Seq(Records) \ {<<>>}]
      BY <3>1 DEF TypeOK, Busy
    <3> DEFINE t == pend[c].tx
               rec == Head(pend[c].recs)
               rest == Tail(pend[c].recs)
    <3>3. t \in Txs /\ rec \in Records /\ rest \in Seq(Records)
      BY <3>2, HeadTailProperties
    <3>4. rec.to \in SafetyStates
      BY <3>3 DEF Records
    <3>5. states' \in [Txs -> SafetyStates]
      BY <2>1, <3>3, <3>4 DEF Commit, TypeOK
    <3>6. history' \in [Txs -> Seq(Records)]
      <4>1. Append(history[t], rec) \in Seq(Records)
        BY <3>3, AppendProperties DEF TypeOK
      <4>2. QED
        BY <2>1, <3>3, <4>1 DEF Commit, TypeOK
    <3>7. pend' \in [Callers -> {Idle} \cup [tx : Txs, recs : Seq(Records) \ {<<>>}]]
      BY <2>1, <3>3 DEF Commit, TypeOK, Decided
    <3>8. QED
      BY <2>1, <3>5, <3>6, <3>7 DEF Commit, TypeOK
  <2>2. ASSUME NEW c \in Callers, NEW t \in Txs, NEW ctx \in Contexts,
               Register(c, t, ctx)
        PROVE  TypeOK'
    <3>1. <<Record("RUNNING", "RUNNING", "NONE", "init")>> \in Seq(Records)
      BY DEF Record, Records
    <3>2. QED
      BY <2>2, <3>1 DEF Register, TypeOK
  <2>3. ASSUME NEW c \in Callers, NEW t \in Txs, Kill(c, t) PROVE TypeOK'
    BY <2>3, RecordsType, DecideType DEF Kill, TypeOK
  <2>4. ASSUME NEW c \in Callers, NEW t \in Txs, Pause(c, t) PROVE TypeOK'
    <3>1. <<Record(states[t], "PAUSED", "ADMINISTRATIVE_PAUSE", "paused")>>
            \in Seq(Records)
      BY DEF Record, Records, TypeOK
    <3>2. QED
      BY <2>4, <3>1, DecideType DEF Pause, TypeOK
  <2>5. ASSUME NEW c \in Callers, NEW t \in Txs, Unpause(c, t) PROVE TypeOK'
    <3>1. <<Record("PAUSED", "RUNNING", "NONE", "unpaused")>> \in Seq(Records)
      BY DEF Record, Records
    <3>2. QED
      BY <2>5, <3>1, DecideType DEF Unpause, TypeOK
  <2>6. ASSUME NEW c \in Callers, NEW t \in Txs, InitiateRevalidation(c, t)
        PROVE  TypeOK'
    BY <2>6, RecordsType, DecideType DEF InitiateRevalidation, TypeOK
  <2>7. ASSUME NEW c \in Callers, NEW t \in Txs, NEW request \in Requests,
               Revalidate(c, t, request)
        PROVE  TypeOK'
    <3>1. (IF RevalidationAccepted(request, t, contexts[t])
             THEN ResumeRecords(t) ELSE RejectRecords(t)) \in Seq(Records)
      BY RecordsType
    <3>2. QED
      BY <2>7, <3>1, DecideType DEF Revalidate, TypeOK
  <2>8. ASSUME NEW c \in Callers, NEW t \in Txs, NEW expired \in BOOLEAN,
               NEW valid \in BOOLEAN, NEW status \in {"PASS", "DRIFT", "UNKNOWN"},
               EvaluateAndEnforce(c, t, expired, valid, status)
        PROVE  TypeOK'
    <3> DEFINE counted == unknowns[t] +
                   (IF CountsUnknown(expired, valid, status) THEN 1 ELSE 0)
               recs(same) == FindingRecords(t,
                   EnforcedFinding(expired, valid, status, counted, MaxUnknown), same)
    <3>1. \A same \in BOOLEAN : recs(same) \in Seq(Records)
      BY FindingRecordsType
    <3>2. counted \in Nat
      BY DEF TypeOK
    <3>3. PICK same \in BOOLEAN : Decide(c, t, recs(same))
      BY <2>8 DEF EvaluateAndEnforce
    <3>4. unknowns' \in [Txs -> Nat]
      BY <2>8, <3>2 DEF EvaluateAndEnforce, TypeOK
    <3> HIDE DEF recs
    <3>5. QED
      BY <3>1, <3>3, <3>4, DecideType
  <2>9. CASE UNCHANGED vars
    BY <2>9 DEF TypeOK, vars
  <2>10. QED
    BY <2>1, <2>2, <2>3, <2>4, <2>5, <2>6, <2>7, <2>8, <2>9 DEF Next
<1>3. QED
  BY <1>1, <1>2, PTL DEF Spec

-----------------------------------------------------------------------------
(***************************************************************************)
(* The audit history.  With one operation at a time the records a caller   *)
(* decided still start from the state in force when they are written: they *)
(* chain on to the history.  This is what a second caller destroys.        *)
(***************************************************************************)

\* Records that can be appended to the history of t, one after the other.
Chained(t, recs) ==
  /\ recs # <<>> => recs[1].from = states[t]
  /\ \A i \in 1 .. Len(recs) - 1 : recs[i + 1].from = recs[i].to
  /\ \A i \in 1 .. Len(recs) : recs[i].why = "rejected" => recs[i].to = recs[i].from

ChainInv ==
  /\ TypeOK
  /\ AuditChain
  /\ \A c \in Callers : Busy(c) => Chained(pend[c].tx, pend[c].recs)

\* Every operation decides records that chain on to the state it read.
LEMMA RecordsChained ==
  ASSUME TypeOK, NEW t \in Txs, NEW trigger, NEW same
  PROVE  /\ Chained(t, KillRecords(t, trigger, same))
         /\ Chained(t, InitiateRecords(t, trigger))
         /\ Chained(t, ResumeRecords(t))
         /\ Chained(t, RejectRecords(t))
<1>1. \A r : r.from = states[t] /\ r.why # "rejected" => Chained(t, <<r>>)
  BY DEF Chained
<1>2. Chained(t, <<>>)
  BY DEF Chained
<1>3. Chained(t, KillRecords(t, trigger, same))
  BY <1>1, <1>2 DEF KillRecords, Record
<1>4. Chained(t, InitiateRecords(t, trigger))
  BY <1>1 DEF InitiateRecords, Record
<1>5. Chained(t, RejectRecords(t))
  BY DEF RejectRecords, Record, Chained
<1>6. Chained(t, ResumeRecords(t))
  <2>1. CASE states[t] = "KILLED"
    BY <2>1 DEF ResumeRecords, Chained, Record
  <2>2. CASE states[t] # "KILLED"
    BY <2>2, <1>1 DEF ResumeRecords, Record
  <2>3. QED
    BY <2>1, <2>2
<1>7. QED
  BY <1>3, <1>4, <1>5, <1>6

LEMMA DecideChained ==
  ASSUME ChainInv, NEW c \in Callers, NEW t \in Txs, NEW recs,
         Chained(t, recs), Decide(c, t, recs), TypeOK'
  PROVE  ChainInv'
<1>1. AuditChain'
  BY DEF ChainInv, AuditChain, Decide, Last
<1>2. ASSUME NEW d \in Callers, Busy(d)'
      PROVE  Chained(pend[d].tx, pend[d].recs)'
  <2>1. CASE d = c
    <3>1. pend'[c] = Decided(t, recs)
      BY <1>2, <2>1 DEF Decide, Busy, Idle, Decided, ChainInv, TypeOK
    <3>2. QED
      BY <2>1, <3>1 DEF Chained, Decided, Decide
  <2>2. CASE d # c
    <3>1. pend'[d] = pend[d]
      BY <2>2 DEF Decide, ChainInv, TypeOK
    <3>2. Chained(pend[d].tx, pend[d].recs)
      BY <1>2, <3>1 DEF ChainInv, Busy
    <3>3. QED
      BY <3>1, <3>2 DEF Chained, Decide
  <2>3. QED
    BY <2>1, <2>2
<1>3. QED
  BY <1>1, <1>2 DEF ChainInv

\* The write of the first decided record, when no other caller is busy.
LEMMA CommitChained ==
  ASSUME ChainInv, TypeOK', NEW c \in Callers, Commit(c),
         \A d \in Callers : d = c
  PROVE  ChainInv'
<1>1. Busy(c) /\ Idle.recs = <<>>
  BY DEF Commit, Idle, Decided
<1>2. pend[c] \in [tx : Txs, recs : Seq(Records) \ {<<>>}]
  BY <1>1 DEF ChainInv, TypeOK, Busy
<1> DEFINE t == pend[c].tx
           recs == pend[c].recs
           rec == Head(recs)
           rest == Tail(recs)
<1>3. /\ t \in Txs /\ recs \in Seq(Records) /\ recs # <<>>
      /\ Chained(t, recs)
  BY <1>1, <1>2 DEF ChainInv
<1>4. /\ rec = recs[1] /\ rec \in Records
      /\ rest \in Seq(Records) /\ Len(rest) = Len(recs) - 1
      /\ \A i \in 1 .. Len(rest) : rest[i] = recs[i + 1]
      /\ Len(recs) \in Nat \ {0}
  BY <1>3, HeadTailProperties
<1>5. rec.from = states[t] /\ (rec.why = "rejected" => rec.to = rec.from)
  BY <1>3, <1>4 DEF Chained
<1>6. /\ states' = [states EXCEPT ![t] = rec.to]
      /\ history' = [history EXCEPT ![t] = Append(history[t], rec)]
      /\ pend'[c] = IF rest = <<>> THEN Idle ELSE Decided(t, rest)
  BY <1>3, <1>5 DEF Commit, ChainInv, TypeOK
<1>7. AuditChain'
  <2> SUFFICES ASSUME NEW u \in Txs
               PROVE  /\ \A i \in 1 .. Len(history'[u]) - 1 :
                           history'[u][i + 1].from = history'[u][i].to
                      /\ history'[u] # <<>> => Last(u)'.to = states'[u]
    BY DEF AuditChain
  <2>1. CASE u # t
    BY <2>1, <1>6 DEF ChainInv, AuditChain, TypeOK, Last
  <2>2. CASE u = t
    <3> DEFINE h == history[t]
               g == Append(h, rec)
    <3>1. h \in Seq(Records) /\ Len(h) \in Nat
      BY <1>3 DEF ChainInv, TypeOK
    <3>2. history'[t] = g /\ states'[t] = rec.to
      BY <1>3, <1>6 DEF ChainInv, TypeOK
    <3>3. /\ Len(g) = Len(h) + 1 /\ g[Len(g)] = rec
          /\ \A i \in 1 .. Len(h) : g[i] = h[i]
      BY <3>1, <1>4, AppendProperties
    <3>4. /\ \A i \in 1 .. Len(h) - 1 : h[i + 1].from = h[i].to
          /\ Len(h) > 0 => h[Len(h)].to = states[t]
      BY <1>3, <3>1 DEF ChainInv, AuditChain, Last
    <3> HIDE DEF h, g
    <3>5. ASSUME NEW i \in 1 .. Len(g) - 1 PROVE g[i + 1].from = g[i].to
      <4>1. CASE i < Len(h)
        BY <4>1, <3>1, <3>3, <3>4
      <4>2. CASE i = Len(h)
        BY <4>2, <3>1, <3>3, <3>4, <1>5
      <4>3. QED
        BY <4>1, <4>2, <3>1, <3>3
    <3>6. QED
      BY <2>2, <3>2, <3>3, <3>5 DEF Last
  <2>3. QED
    BY <2>1, <2>2
<1>8. ASSUME Busy(c)' PROVE Chained(pend[c].tx, pend[c].recs)'
  <2>1. rest # <<>> /\ pend'[c] = Decided(t, rest)
    <3>1. pend'[c].recs # <<>>
      BY <1>8 DEF Busy
    <3>2. Idle.recs = <<>>
      BY DEF Idle, Decided
    <3> HIDE DEF rest
    <3>3. QED
      BY <1>6, <3>1, <3>2
  <2>2. /\ rest[1].from = recs[1].to
        /\ \A i \in 1 .. Len(rest) - 1 : rest[i + 1].from = rest[i].to
        /\ \A i \in 1 .. Len(rest) : rest[i].why = "rejected" => rest[i].to = rest[i].from
    <3>1. Len(rest) > 0
      BY <1>4, <2>1
    <3>2. /\ \A i \in 1 .. Len(recs) - 1 : recs[i + 1].from = recs[i].to
          /\ \A i \in 1 .. Len(recs) :
               recs[i].why = "rejected" => recs[i].to = recs[i].from
      BY <1>3 DEF Chained
    <3> HIDE DEF rest, recs
    <3>3. rest[1] = recs[2] /\ 1 \in 1 .. Len(recs) - 1
      BY <1>4, <3>1
    <3>4. rest[1].from = recs[1].to
      BY <3>2, <3>3
    <3>5. ASSUME NEW i \in 1 .. Len(rest) - 1
          PROVE  rest[i + 1].from = rest[i].to
      <4>1. /\ i + 1 \in 1 .. Len(rest) /\ i \in 1 .. Len(rest)
            /\ i + 1 \in 1 .. Len(recs) - 1
        BY <1>4
      <4>2. rest[i + 1] = recs[i + 1 + 1] /\ rest[i] = recs[i + 1]
        BY <1>4, <4>1
      <4>3. QED
        BY <3>2, <4>1, <4>2
    <3>6. ASSUME NEW i \in 1 .. Len(rest)
          PROVE  rest[i].why = "rejected" => rest[i].to = rest[i].from
      BY <1>4, <3>2
    <3>7. QED
      BY <3>4, <3>5, <3>6
  <2>3. states'[t] = recs[1].to
    BY <1>3, <1>4, <1>6 DEF ChainInv, TypeOK
  <2> HIDE DEF rest, recs, t
  <2>4. QED
    BY <2>1, <2>2, <2>3 DEF Chained, Decided
<1>9. QED
  BY <1>7, <1>8 DEF ChainInv

OneCaller == \A c, d \in Callers : c = d

LEMMA ChainStep ==
  ASSUME OneCaller, ChainInv, TypeOK', [Next]_vars PROVE ChainInv'
<1>1. ASSUME NEW c \in Callers, Commit(c) PROVE ChainInv'
  BY <1>1, CommitChained DEF OneCaller
<1>2. ASSUME NEW c \in Callers, NEW t \in Txs, NEW ctx \in Contexts,
             Register(c, t, ctx)
      PROVE  ChainInv'
  <2>1. \A d \in Callers : ~Busy(d)'
    BY <1>2 DEF Register, OneCaller, Busy
  <2>2. AuditChain'
    BY <1>2 DEF Register, ChainInv, AuditChain, TypeOK, Last, Record
  <2>3. QED
    BY <2>1, <2>2 DEF ChainInv
<1>3. ASSUME NEW c \in Callers, NEW t \in Txs,
             Kill(c, t) \/ InitiateRevalidation(c, t)
      PROVE  ChainInv'
  <2>1. /\ \A same \in BOOLEAN : Chained(t, KillRecords(t, "ADMINISTRATIVE_KILL", same))
        /\ Chained(t, InitiateRecords(t, "NONE"))
    BY RecordsChained DEF ChainInv
  <2>2. QED
    BY <1>3, <2>1, DecideChained DEF Kill, InitiateRevalidation
<1>4. ASSUME NEW c \in Callers, NEW t \in Txs, Pause(c, t) \/ Unpause(c, t)
      PROVE  ChainInv'
  <2>1. /\ Chained(t, <<Record(states[t], "PAUSED", "ADMINISTRATIVE_PAUSE", "paused")>>)
        /\ states[t] = "PAUSED" =>
             Chained(t, <<Record("PAUSED", "RUNNING", "NONE", "unpaused")>>)
    BY DEF Chained, Record
  <2>2. QED
    BY <1>4, <2>1, DecideChained DEF Pause, Unpause
<1>5. ASSUME NEW c \in Callers, NEW t \in Txs, NEW request \in Requests,
             Revalidate(c, t, request)
      PROVE  ChainInv'
  <2>1. Chained(t, IF RevalidationAccepted(request, t, contexts[t])
                     THEN ResumeRecords(t) ELSE RejectRecords(t))
    BY RecordsChained DEF ChainInv
  <2>2. QED
    BY <1>5, <2>1, DecideChained DEF Revalidate
<1>6. ASSUME NEW c \in Callers, NEW t \in Txs, NEW expired \in BOOLEAN,
             NEW valid \in BOOLEAN, NEW status \in {"PASS", "DRIFT", "UNKNOWN"},
             EvaluateAndEnforce(c, t, expired, valid, status)
      PROVE  ChainInv'
  <2>1. ASSUME NEW finding, NEW same PROVE Chained(t, FindingRecords(t, finding, same))
    <3>1. /\ Chained(t, KillRecords(t, finding.trigger, same))
          /\ Chained(t, InitiateRecords(t, finding.trigger))
      BY RecordsChained DEF ChainInv
    <3>2. Chained(t, <<>>)
      BY DEF Chained
    <3>3. QED
      BY <3>1, <3>2 DEF FindingRecords
  <2>2. QED
    BY <1>6, <2>1, DecideChained DEF EvaluateAndEnforce
<1>7. CASE UNCHANGED vars
  BY <1>7 DEF vars, ChainInv, AuditChain, Chained, Busy, Last
<1>8. QED
  BY <1>1, <1>2, <1>3, <1>4, <1>5, <1>6, <1>7 DEF Next

(***************************************************************************)
(* As long as the service is called by one thread at a time, its history   *)
(* is a faithful account of the safety state, whatever is called.          *)
(***************************************************************************)
THEOREM HistoryIsChain ==
  ASSUME OneCaller PROVE Spec => []AuditChain
<1>1. Init => ChainInv
  BY DEF Init, ChainInv, AuditChain, TypeOK, Idle, Decided, Busy
<1>2. ChainInv /\ TypeOK' /\ [Next]_vars => ChainInv'
  BY ChainStep
<1>3. ChainInv => AuditChain
  BY DEF ChainInv
<1>4. QED
  BY <1>1, <1>2, <1>3, TypeCorrect, PTL DEF Spec

-----------------------------------------------------------------------------
(***************************************************************************)
(* Leaving KILLED.  No operation decides a record that leads from KILLED   *)
(* to RUNNING, and with one caller at a time the record written starts     *)
(* from the state in force.                                                *)
(***************************************************************************)

Lawful(recs) ==
  \A i \in 1 .. Len(recs) : recs[i].from = "KILLED" => recs[i].to # "RUNNING"

LawfulInv == \A c \in Callers : Lawful(pend[c].recs)

LEMMA RecordsLawful ==
  ASSUME TypeOK, NEW t \in Txs, NEW trigger, NEW same
  PROVE  /\ Lawful(KillRecords(t, trigger, same))
         /\ Lawful(InitiateRecords(t, trigger))
         /\ Lawful(ResumeRecords(t))
         /\ Lawful(RejectRecords(t))
<1>1. \A r : (r.from = "KILLED" => r.to # "RUNNING") => Lawful(<<r>>)
  BY DEF Lawful
<1>2. Lawful(<<>>)
  BY DEF Lawful
<1>3. Lawful(KillRecords(t, trigger, same))
  BY <1>1, <1>2 DEF KillRecords, Record
<1>4. Lawful(InitiateRecords(t, trigger)) /\ Lawful(RejectRecords(t))
  BY <1>1 DEF InitiateRecords, RejectRecords, Record
<1>5. Lawful(ResumeRecords(t))
  <2>1. CASE states[t] = "KILLED"
    BY <2>1 DEF ResumeRecords, Record, Lawful
  <2>2. CASE states[t] # "KILLED"
    BY <2>2, <1>1 DEF ResumeRecords, Record
  <2>3. QED
    BY <2>1, <2>2
<1>6. QED
  BY <1>3, <1>4, <1>5

LEMMA DecideLawful ==
  ASSUME TypeOK, LawfulInv, NEW c \in Callers, NEW t \in Txs, NEW recs,
         Lawful(recs), Decide(c, t, recs)
  PROVE  LawfulInv'
<1>1. Lawful(Idle.recs)
  BY DEF Lawful, Idle, Decided
<1>2. \A d \in Callers : pend'[d] = pend[d] \/ pend'[d] = Idle \/ pend'[d].recs = recs
  BY DEF Decide, TypeOK, Decided
<1>3. QED
  BY <1>1, <1>2 DEF LawfulInv

LEMMA LawfulStep ==
  ASSUME TypeOK, LawfulInv, [Next]_vars PROVE LawfulInv'
<1>1. ASSUME NEW c \in Callers, Commit(c) PROVE LawfulInv'
  <2> DEFINE rest == Tail(pend[c].recs)
  <2>1. pend[c].recs \in Seq(Records) /\ pend[c].recs # <<>>
    BY <1>1 DEF Commit, Busy, TypeOK, Idle, Decided
  <2>2. Lawful(rest)
    <3> DEFINE recs == pend[c].recs
    <3>1. /\ Len(rest) = Len(recs) - 1 /\ Len(recs) \in Nat
          /\ \A i \in 1 .. Len(rest) : rest[i] = recs[i + 1]
      BY <2>1, HeadTailProperties
    <3>2. Lawful(recs)
      BY DEF LawfulInv
    <3> HIDE DEF rest, recs
    <3>3. QED
      BY <3>1, <3>2 DEF Lawful
  <2>3. Lawful(Idle.recs)
    BY DEF Lawful, Idle, Decided
  <2> HIDE DEF rest
  <2>4. \A d \in Callers : pend'[d] = pend[d] \/ pend'[d] = Idle \/ pend'[d].recs = rest
    BY <1>1 DEF Commit, TypeOK, Decided, rest
  <2>5. QED
    BY <2>2, <2>3, <2>4 DEF LawfulInv
<1>2. ASSUME NEW c \in Callers, NEW t \in Txs, NEW ctx \in Contexts,
             Register(c, t, ctx)
      PROVE  LawfulInv'
  BY <1>2 DEF Register, LawfulInv
<1>3. ASSUME NEW c \in Callers, NEW t \in Txs,
             Kill(c, t) \/ InitiateRevalidation(c, t)
      PROVE  LawfulInv'
  <2>1. /\ \A same \in BOOLEAN : Lawful(KillRecords(t, "ADMINISTRATIVE_KILL", same))
        /\ Lawful(InitiateRecords(t, "NONE"))
    BY RecordsLawful
  <2>2. QED
    BY <1>3, <2>1, DecideLawful DEF Kill, InitiateRevalidation
<1>4. ASSUME NEW c \in Callers, NEW t \in Txs, Pause(c, t) \/ Unpause(c, t)
      PROVE  LawfulInv'
  <2>1. /\ Lawful(<<Record(states[t], "PAUSED", "ADMINISTRATIVE_PAUSE", "paused")>>)
        /\ Lawful(<<Record("PAUSED", "RUNNING", "NONE", "unpaused")>>)
    BY DEF Lawful, Record
  <2>2. QED
    BY <1>4, <2>1, DecideLawful DEF Pause, Unpause
<1>5. ASSUME NEW c \in Callers, NEW t \in Txs, NEW request \in Requests,
             Revalidate(c, t, request)
      PROVE  LawfulInv'
  <2>1. Lawful(IF RevalidationAccepted(request, t, contexts[t])
                 THEN ResumeRecords(t) ELSE RejectRecords(t))
    BY RecordsLawful
  <2>2. QED
    BY <1>5, <2>1, DecideLawful DEF Revalidate
<1>6. ASSUME NEW c \in Callers, NEW t \in Txs, NEW expired \in BOOLEAN,
             NEW valid \in BOOLEAN, NEW status \in {"PASS", "DRIFT", "UNKNOWN"},
             EvaluateAndEnforce(c, t, expired, valid, status)
      PROVE  LawfulInv'
  <2>1. ASSUME NEW finding, NEW same PROVE Lawful(FindingRecords(t, finding, same))
    <3>1. /\ Lawful(KillRecords(t, finding.trigger, same))
          /\ Lawful(InitiateRecords(t, finding.trigger))
      BY RecordsLawful
    <3>2. Lawful(<<>>)
      BY DEF Lawful
    <3>3. QED
      BY <3>1, <3>2 DEF FindingRecords
  <2>2. QED
    BY <1>6, <2>1, DecideLawful DEF EvaluateAndEnforce
<1>7. CASE UNCHANGED vars
  BY <1>7 DEF vars, LawfulInv
<1>8. QED
  BY <1>1, <1>2, <1>3, <1>4, <1>5, <1>6, <1>7 DEF Next

(***************************************************************************)
(* One thread at a time, "KILLED ... CANNOT transition directly to         *)
(* RUNNING" (domain/kill_switch/policy.py:42) holds of the state in force. *)
(* Without the assumption it does not: see the run KillSwitchRace.         *)
(***************************************************************************)
THEOREM KilledIsFenced ==
  ASSUME OneCaller PROVE Spec => KilledNeverRuns
<1> DEFINE Inv == ChainInv /\ LawfulInv
<1>1. Init => Inv
  BY DEF Init, ChainInv, AuditChain, TypeOK, Idle, Decided, Busy, LawfulInv, Lawful
<1>2. Inv /\ TypeOK' /\ [Next]_vars => Inv'
  BY ChainStep, LawfulStep DEF ChainInv
<1>3. Inv /\ [Next]_vars =>
        [\A t \in Txs : states[t] = "KILLED" /\ states'[t] = "RUNNING"
                          => Len(history'[t]) = 1]_vars
  <2> SUFFICES ASSUME Inv, Next, NEW t \in Txs,
                      states[t] = "KILLED", states'[t] = "RUNNING"
               PROVE  Len(history'[t]) = 1
    OBVIOUS
  <2>1. ASSUME NEW c \in Callers, Commit(c) PROVE FALSE
    <3>1. Busy(c) /\ pend[c].recs \in Seq(Records) /\ pend[c].recs # <<>>
      BY <2>1 DEF Commit, Busy, TypeOK, Idle, Decided, ChainInv
    <3>2. Head(pend[c].recs) = pend[c].recs[1] /\ 1 \in 1 .. Len(pend[c].recs)
      BY <3>1, HeadTailProperties
    <3>3. pend[c].tx = t /\ Head(pend[c].recs).to = "RUNNING"
      BY <2>1 DEF Commit, ChainInv, TypeOK
    <3>4. Head(pend[c].recs).from = "KILLED"
      BY <3>1, <3>2, <3>3 DEF ChainInv, Chained
    <3>5. QED
      BY <3>2, <3>3, <3>4 DEF LawfulInv, Lawful
  <2>2. ASSUME NEW c \in Callers, NEW u \in Txs, NEW ctx \in Contexts,
               Register(c, u, ctx)
        PROVE  Len(history'[t]) = 1
    BY <2>2 DEF Register, ChainInv, TypeOK
  <2>3. ASSUME UNCHANGED states PROVE FALSE
    BY <2>3
  <2>4. \A c, u, recs : Decide(c, u, recs) => UNCHANGED states
    BY DEF Decide
  <2>5. ASSUME NEW c \in Callers, NEW u \in Txs,
               \/ Kill(c, u) \/ Pause(c, u) \/ Unpause(c, u)
               \/ InitiateRevalidation(c, u)
               \/ \E request \in Requests : Revalidate(c, u, request)
               \/ \E expired, valid \in BOOLEAN, status \in {"PASS", "DRIFT", "UNKNOWN"} :
                    EvaluateAndEnforce(c, u, expired, valid, status)
        PROVE  UNCHANGED states
    BY <2>4, <2>5 DEF Kill, Pause, Unpause, InitiateRevalidation, Revalidate,
                      EvaluateAndEnforce
  <2>6. QED
    BY <2>1, <2>2, <2>3, <2>5 DEF Next
<1>4. QED
  BY <1>1, <1>2, <1>3, TypeCorrect, PTL DEF Spec, KilledNeverRuns

-----------------------------------------------------------------------------
(***************************************************************************)
(* Leaving a hold.  KILLED and REQUIRES_REVALIDATION are left only by the  *)
(* record of an accepted revalidation: nothing else is decided from there, *)
(* a pause included.                                                       *)
(***************************************************************************)

Held == {"KILLED", "REQUIRES_REVALIDATION"}

HoldsOn(recs) ==
  \A i \in 1 .. Len(recs) :
    recs[i].from \in Held => recs[i].to \in Held \/ recs[i].why = "revalidated"

\* After a kill the records stay in Held until one is a revalidation.
Fenced(h) ==
  \A i, j \in 1 .. Len(h) :
    /\ i <= j
    /\ h[i].to = "KILLED"
    /\ \A k \in i + 1 .. j : h[k].why # "revalidated"
    => h[j].to \in Held

FenceInv ==
  /\ \A t \in Txs : Fenced(history[t])
  /\ \A c \in Callers : HoldsOn(pend[c].recs)

LEMMA RecordsHold ==
  ASSUME TypeOK, NEW t \in Txs, NEW trigger, NEW same
  PROVE  /\ HoldsOn(<<>>)
         /\ HoldsOn(KillRecords(t, trigger, same))
         /\ HoldsOn(InitiateRecords(t, trigger))
         /\ HoldsOn(ResumeRecords(t))
         /\ HoldsOn(RejectRecords(t))
<1>1. \A r : (r.from \in Held => r.to \in Held \/ r.why = "revalidated") => HoldsOn(<<r>>)
  BY DEF HoldsOn
<1>2. HoldsOn(<<>>)
  BY DEF HoldsOn
<1>3. HoldsOn(KillRecords(t, trigger, same))
  BY <1>1, <1>2 DEF KillRecords, Record, Held
<1>4. HoldsOn(InitiateRecords(t, trigger)) /\ HoldsOn(RejectRecords(t))
  BY <1>1 DEF InitiateRecords, RejectRecords, Record, Held
<1>5. HoldsOn(ResumeRecords(t))
  <2>1. CASE states[t] = "KILLED"
    BY <2>1 DEF ResumeRecords, Record, HoldsOn, Held
  <2>2. CASE states[t] # "KILLED"
    BY <2>2, <1>1 DEF ResumeRecords, Record
  <2>3. QED
    BY <2>1, <2>2
<1>6. QED
  BY <1>2, <1>3, <1>4, <1>5

LEMMA DecideFenced ==
  ASSUME TypeOK, FenceInv, NEW c \in Callers, NEW t \in Txs, NEW recs,
         HoldsOn(recs), Decide(c, t, recs)
  PROVE  FenceInv'
<1>1. HoldsOn(Idle.recs)
  BY DEF HoldsOn, Idle, Decided
<1>2. \A d \in Callers : pend'[d] = pend[d] \/ pend'[d] = Idle \/ pend'[d].recs = recs
  BY DEF Decide, TypeOK, Decided
<1>3. QED
  BY <1>1, <1>2 DEF FenceInv, Decide

\* Appending a record that starts where the history ends keeps it fenced.
LEMMA AppendFenced ==
  ASSUME NEW h \in Seq(Records), NEW rec \in Records, Fenced(h),
         h # <<>> => rec.from = h[Len(h)].to, HoldsOn(<<rec>>)
  PROVE  Fenced(Append(h, rec))
<1> DEFINE g == Append(h, rec)
<1>1. /\ Len(g) = Len(h) + 1 /\ g[Len(g)] = rec /\ Len(h) \in Nat
      /\ \A i \in 1 .. Len(h) : g[i] = h[i]
  BY AppendProperties
<1>2. rec.from \in Held => rec.to \in Held \/ rec.why = "revalidated"
  BY DEF HoldsOn
<1> HIDE DEF g
<1>3. SUFFICES ASSUME NEW i \in 1 .. Len(g), NEW j \in 1 .. Len(g), i <= j,
                      g[i].to = "KILLED",
                      \A k \in i + 1 .. j : g[k].why # "revalidated"
               PROVE  g[j].to \in Held
  BY DEF Fenced, g
<1>4. CASE j <= Len(h)
  <2>1. \A k \in i + 1 .. j : h[k].why # "revalidated"
    BY <1>1, <1>3, <1>4
  <2>2. QED
    BY <1>1, <1>3, <1>4, <2>1 DEF Fenced
<1>5. CASE j = Len(g) /\ i = Len(g)
  BY <1>3, <1>5 DEF Held
<1>6. CASE j = Len(g) /\ i <= Len(h)
  <2>1. \A k \in i + 1 .. Len(h) : h[k].why # "revalidated"
    BY <1>1, <1>3, <1>6
  <2>2. i \in 1 .. Len(h) /\ Len(h) \in 1 .. Len(h) /\ h[i].to = "KILLED"
    BY <1>1, <1>3, <1>6
  <2>3. h[Len(h)].to \in Held
    BY <2>1, <2>2 DEF Fenced
  <2>4. rec.from \in Held
    BY <2>2, <2>3
  <2>5. rec.why # "revalidated"
    BY <1>1, <1>3, <1>6
  <2>6. QED
    BY <1>1, <1>2, <1>6, <2>4, <2>5
<1>7. QED
  BY <1>1, <1>4, <1>5, <1>6

LEMMA CommitFenced ==
  ASSUME ChainInv, FenceInv, NEW c \in Callers, Commit(c)
  PROVE  FenceInv'
<1> DEFINE t == pend[c].tx
           recs == pend[c].recs
           rest == Tail(recs)
<1>1. Busy(c) /\ pend[c] \in [tx : Txs, recs : Seq(Records) \ {<<>>}]
  BY DEF Commit, Busy, ChainInv, TypeOK, Idle, Decided
<1>2. /\ t \in Txs /\ recs \in Seq(Records) /\ recs # <<>>
      /\ Chained(t, recs) /\ HoldsOn(recs)
  BY <1>1 DEF ChainInv, FenceInv
<1>3. /\ Head(recs) = recs[1] /\ recs[1] \in Records
      /\ rest \in Seq(Records) /\ Len(rest) = Len(recs) - 1
      /\ \A i \in 1 .. Len(rest) : rest[i] = recs[i + 1]
      /\ Len(recs) \in Nat \ {0}
  BY <1>2, HeadTailProperties
<1>4. HoldsOn(rest) /\ HoldsOn(<<recs[1]>>)
  <2> HIDE DEF rest, recs
  <2>1. HoldsOn(rest)
    BY <1>2, <1>3 DEF HoldsOn
  <2>2. QED
    BY <1>2, <1>3, <2>1 DEF HoldsOn
<1>5. history' = [history EXCEPT ![t] = Append(history[t], recs[1])]
  BY <1>3 DEF Commit
<1>6. /\ history[t] \in Seq(Records)
      /\ history[t] # <<>> => recs[1].from = history[t][Len(history[t])].to
  BY <1>2 DEF ChainInv, TypeOK, AuditChain, Last, Chained
<1>7. Fenced(Append(history[t], recs[1]))
  <2> HIDE DEF recs, t
  <2> QED
    BY <1>2, <1>3, <1>4, <1>6, AppendFenced DEF FenceInv
<1>8. \A u \in Txs : Fenced(history'[u])
  BY <1>2, <1>5, <1>7 DEF FenceInv, ChainInv, TypeOK
<1>9. HoldsOn(Idle.recs)
  BY DEF HoldsOn, Idle, Decided
<1> HIDE DEF rest
<1>10. \A d \in Callers : pend'[d] = pend[d] \/ pend'[d] = Idle \/ pend'[d].recs = rest
  BY DEF Commit, ChainInv, TypeOK, Decided, rest
<1>11. QED
  BY <1>4, <1>8, <1>9, <1>10 DEF FenceInv

LEMMA FenceStep ==
  ASSUME ChainInv, FenceInv, [Next]_vars PROVE FenceInv'
<1>0. TypeOK
  BY DEF ChainInv
<1>1. ASSUME NEW c \in Callers, NEW t \in Txs, NEW ctx \in Contexts,
             Register(c, t, ctx)
      PROVE  FenceInv'
  <2>1. Fenced(<<Record("RUNNING", "RUNNING", "NONE", "init")>>)
    BY DEF Fenced, Record, Held
  <2>2. QED
    BY <1>0, <1>1, <2>1 DEF Register, FenceInv, TypeOK
<1>2. ASSUME NEW c \in Callers, NEW t \in Txs,
             Kill(c, t) \/ InitiateRevalidation(c, t)
      PROVE  FenceInv'
  <2>1. /\ \A same \in BOOLEAN : HoldsOn(KillRecords(t, "ADMINISTRATIVE_KILL", same))
        /\ HoldsOn(InitiateRecords(t, "NONE"))
    BY <1>0, RecordsHold
  <2>2. QED
    BY <1>0, <1>2, <2>1, DecideFenced DEF Kill, InitiateRevalidation
<1>3. ASSUME NEW c \in Callers, NEW t \in Txs, Pause(c, t) \/ Unpause(c, t)
      PROVE  FenceInv'
  <2>1. Pause(c, t) =>
          HoldsOn(<<Record(states[t], "PAUSED", "ADMINISTRATIVE_PAUSE", "paused")>>)
    BY DEF Pause, MayMove, PermittedSafety, HoldsOn, Record, Held
  <2>2. HoldsOn(<<Record("PAUSED", "RUNNING", "NONE", "unpaused")>>)
    BY DEF HoldsOn, Record, Held
  <2>3. QED
    BY <1>0, <1>3, <2>1, <2>2, DecideFenced DEF Pause, Unpause
<1>4. ASSUME NEW c \in Callers, NEW t \in Txs, NEW request \in Requests,
             Revalidate(c, t, request)
      PROVE  FenceInv'
  <2>1. HoldsOn(IF RevalidationAccepted(request, t, contexts[t])
                  THEN ResumeRecords(t) ELSE RejectRecords(t))
    BY <1>0, RecordsHold
  <2>2. QED
    BY <1>0, <1>4, <2>1, DecideFenced DEF Revalidate
<1>5. ASSUME NEW c \in Callers, NEW t \in Txs, NEW expired \in BOOLEAN,
             NEW valid \in BOOLEAN, NEW status \in {"PASS", "DRIFT", "UNKNOWN"},
             EvaluateAndEnforce(c, t, expired, valid, status)
      PROVE  FenceInv'
  <2>1. \A finding, same : HoldsOn(FindingRecords(t, finding, same))
    BY <1>0, RecordsHold DEF FindingRecords
  <2>2. QED
    BY <1>0, <1>5, <2>1, DecideFenced DEF EvaluateAndEnforce
<1>6. CASE UNCHANGED vars
  BY <1>6 DEF vars, FenceInv
<1>7. QED
  BY <1>1, <1>2, <1>3, <1>4, <1>5, <1>6, CommitFenced DEF Next

(***************************************************************************)
(* One thread at a time, the history between a kill and a later resumption *)
(* contains a successful revalidation (KillSwitchService.revalidate),      *)
(* whatever pauses, holds and further kills it also contains.              *)
(***************************************************************************)
THEOREM KillIsLiftedByRevalidation ==
  ASSUME OneCaller PROVE Spec => []ResumeIsRevalidated
<1> DEFINE Inv == ChainInv /\ FenceInv
<1>1. Init => Inv
  BY DEF Init, ChainInv, AuditChain, TypeOK, Idle, Decided, Busy, FenceInv, Fenced, HoldsOn
<1>2. Inv /\ TypeOK' /\ [Next]_vars => Inv'
  BY ChainStep, FenceStep
<1>3. Inv => ResumeIsRevalidated
  <2> SUFFICES ASSUME Inv, NEW t \in Txs, NEW i \in 1 .. Len(history[t]),
                      NEW j \in 1 .. Len(history[t]), i < j,
                      history[t][i].to = "KILLED", history[t][j].to = "RUNNING",
                      \A k \in i + 1 .. j : history[t][k].why # "revalidated"
               PROVE  FALSE
    BY DEF ResumeIsRevalidated
  <2>1. Len(history[t]) \in Nat
    BY DEF ChainInv, TypeOK
  <2>2. history[t][j].to \in Held
    BY <2>1 DEF FenceInv, Fenced
  <2>3. QED
    BY <2>2 DEF Held
<1>4. QED
  BY <1>1, <1>2, <1>3, TypeCorrect, PTL DEF Spec

-----------------------------------------------------------------------------
(***************************************************************************)
(* The tolerance of unresolved evaluations.  A transaction whose count has *)
(* reached it is held, or the caller at work on it is about to hold it or  *)
(* to clear the count.                                                     *)
(***************************************************************************)

\* Once these records are written the transaction is held, or revalidated.
Settling(recs) ==
  /\ recs # <<>>
  /\ recs[Len(recs)].to \in Held \/ recs[Len(recs)].why = "revalidated"

ToleranceInv ==
  \A t \in Txs : unknowns[t] >= MaxUnknown =>
    /\ Quiet(t) => states[t] \in Held
    /\ \A c \in Callers : pend[c].tx = t => Settling(pend[c].recs)

\* What a call decides when the count is n: it settles the transaction, or
\* decides nothing and the transaction is held already.
Settled(t, n, recs) ==
  n >= MaxUnknown => IF recs = <<>> THEN states[t] \in Held ELSE Settling(recs)

LEMMA AllQuiet ==
  ASSUME OneCaller, TypeOK, NEW c \in Callers, ~Busy(c)
  PROVE  \A t \in Txs : Quiet(t)
BY NoTxAssumption DEF OneCaller, TypeOK, Busy, Quiet, Idle, Decided

LEMMA RecordsSettle ==
  ASSUME TypeOK, NEW t \in Txs, NEW n, NEW trigger, NEW same
  PROVE  /\ Settled(t, n, KillRecords(t, trigger, same))
         /\ Settled(t, n, InitiateRecords(t, trigger))
         /\ Settled(t, n, ResumeRecords(t))
         /\ states[t] \in Held => Settled(t, n, RejectRecords(t))
BY DEF Settled, Settling, KillRecords, InitiateRecords, ResumeRecords, RejectRecords,
       Record, Held

LEMMA DecideTolerated ==
  ASSUME OneCaller, TypeOK, ToleranceInv, NEW c \in Callers, ~Busy(c), NEW t \in Txs,
         NEW recs, Decide(c, t, recs), NEW n \in Nat, unknowns' = [unknowns EXCEPT ![t] = n],
         Settled(t, n, recs)
  PROVE  ToleranceInv'
<1>1. \A u \in Txs : Quiet(u)
  BY AllQuiet
<1>2. states' = states
  BY DEF Decide
<1>3. \A d \in Callers : d = c
  BY DEF OneCaller
<1>4. pend'[c] = IF recs = <<>> THEN Idle ELSE Decided(t, recs)
  BY DEF Decide, TypeOK
<1>5. SUFFICES ASSUME NEW u \in Txs, unknowns'[u] >= MaxUnknown
               PROVE  /\ Quiet(u)' => states'[u] \in Held
                      /\ pend'[c].tx = u => Settling(pend'[c].recs)
  BY <1>3 DEF ToleranceInv
<1>6. CASE u # t
  <2>1. states[u] \in Held
    BY <1>1, <1>5, <1>6 DEF ToleranceInv, TypeOK
  <2>2. pend'[c].tx # u
    BY <1>4, <1>6, NoTxAssumption DEF Idle, Decided
  <2>3. QED
    BY <1>2, <2>1, <2>2
<1>7. CASE u = t
  <2>1. n >= MaxUnknown
    BY <1>5, <1>7 DEF TypeOK
  <2>2. CASE recs = <<>>
    BY <1>2, <1>4, <1>7, <2>1, <2>2, NoTxAssumption DEF Settled, Idle, Decided
  <2>3. CASE recs # <<>>
    <3>1. pend'[c].tx = t /\ pend'[c].recs = recs
      BY <1>4, <2>3 DEF Decided
    <3>2. ~Quiet(t)'
      BY <3>1 DEF Quiet
    <3>3. QED
      BY <1>7, <2>1, <2>3, <3>1, <3>2 DEF Settled
  <2>4. QED
    BY <2>2, <2>3
<1>8. QED
  BY <1>6, <1>7

LEMMA CommitTolerated ==
  ASSUME OneCaller, ChainInv, ToleranceInv, NEW c \in Callers, Commit(c)
  PROVE  ToleranceInv'
<1> DEFINE t == pend[c].tx
           recs == pend[c].recs
           rest == Tail(recs)
<1>1. Busy(c) /\ pend[c] \in [tx : Txs, recs : Seq(Records) \ {<<>>}]
  BY DEF Commit, Busy, ChainInv, TypeOK, Idle, Decided
<1>2. /\ t \in Txs /\ recs \in Seq(Records) /\ recs # <<>> /\ Chained(t, recs)
  BY <1>1 DEF ChainInv
<1>3. /\ Head(recs) = recs[1]
      /\ rest \in Seq(Records) /\ Len(rest) = Len(recs) - 1
      /\ \A i \in 1 .. Len(rest) : rest[i] = recs[i + 1]
      /\ Len(recs) \in Nat \ {0}
  BY <1>2, HeadTailProperties
<1>4. \A d \in Callers : d = c
  BY DEF OneCaller
<1>5. /\ states' = [states EXCEPT ![t] = recs[1].to]
      /\ unknowns' = [unknowns EXCEPT ![t] = IF recs[1].why = "revalidated"
                                               THEN 0 ELSE unknowns[t]]
      /\ pend'[c] = IF rest = <<>> THEN Idle ELSE Decided(t, rest)
  <2>1. recs[1].why = "rejected" => recs[1].to = states[t]
    BY <1>2, <1>3 DEF Chained
  <2>2. QED
    BY <1>2, <1>3, <2>1 DEF Commit, ChainInv, TypeOK
<1> HIDE DEF t, recs, rest
<1>6. SUFFICES ASSUME NEW u \in Txs, unknowns'[u] >= MaxUnknown
               PROVE  /\ Quiet(u)' => states'[u] \in Held
                      /\ pend'[c].tx = u => Settling(pend'[c].recs)
  BY <1>4 DEF ToleranceInv
<1>7. CASE u # t
  <2>1. unknowns[u] >= MaxUnknown /\ states'[u] = states[u]
    BY <1>2, <1>5, <1>6, <1>7 DEF ChainInv, TypeOK
  <2>2. Quiet(u)
    BY <1>4, <1>7 DEF Quiet, t
  <2>3. pend'[c].tx # u
    BY <1>5, <1>7, NoTxAssumption DEF Idle, Decided
  <2>4. QED
    BY <2>1, <2>2, <2>3 DEF ToleranceInv
<1>8. CASE u = t
  <2>1. unknowns[t] >= MaxUnknown /\ recs[1].why # "revalidated"
    BY <1>2, <1>5, <1>6, <1>8, UnknownAssumption DEF ChainInv, TypeOK
  <2>2. Settling(recs)
    BY <1>2, <2>1 DEF ToleranceInv, t, recs
  <2>3. CASE rest = <<>>
    <3>1. Len(recs) = 1
      BY <1>3, <2>3
    <3>2. states'[t] \in Held
      BY <1>2, <1>5, <2>1, <2>2, <3>1 DEF Settling, ChainInv, TypeOK
    <3>3. pend'[c].tx # u
      BY <1>5, <2>3, NoTxAssumption DEF Idle, Decided
    <3>4. QED
      BY <1>8, <3>2, <3>3
  <2>4. CASE rest # <<>>
    <3>1. pend'[c].tx = t /\ pend'[c].recs = rest
      BY <1>5, <2>4 DEF Decided
    <3>2. Len(rest) > 0
      BY <1>3, <2>4
    <3>3. rest[Len(rest)] = recs[Len(recs)]
      BY <1>3, <3>2
    <3>4. Settling(rest)
      BY <2>2, <2>4, <3>3 DEF Settling
    <3>5. QED
      BY <1>8, <3>1, <3>4 DEF Quiet
  <2>5. QED
    BY <2>3, <2>4
<1>9. QED
  BY <1>7, <1>8

LEMMA ToleranceStep ==
  ASSUME OneCaller, ChainInv, ToleranceInv, [Next]_vars PROVE ToleranceInv'
<1>0. TypeOK
  BY DEF ChainInv
<1>1. ASSUME NEW c \in Callers, NEW t \in Txs, NEW ctx \in Contexts,
             Register(c, t, ctx)
      PROVE  ToleranceInv'
  <2>1. /\ unknowns' = [unknowns EXCEPT ![t] = 0] /\ UNCHANGED pend
        /\ states' = [states EXCEPT ![t] = "RUNNING"]
    BY <1>1 DEF Register
  <2>2. \A u \in Txs : unknowns'[u] >= MaxUnknown => u # t /\ unknowns'[u] = unknowns[u]
    BY <1>0, <2>1, UnknownAssumption DEF TypeOK
  <2>3. QED
    BY <1>0, <2>1, <2>2 DEF ToleranceInv, TypeOK, Quiet
<1>2. ASSUME NEW t \in Txs
      PROVE  unknowns[t] \in Nat /\ unknowns = [unknowns EXCEPT ![t] = unknowns[t]]
  BY <1>0 DEF TypeOK
<1>3. ASSUME NEW c \in Callers, ~Busy(c), NEW t \in Txs
      PROVE  unknowns[t] >= MaxUnknown => states[t] \in Held
  BY <1>0, <1>3, AllQuiet DEF ToleranceInv
<1>4. ASSUME NEW c \in Callers, NEW t \in Txs,
             Kill(c, t) \/ InitiateRevalidation(c, t)
      PROVE  ToleranceInv'
  <2>1. /\ \A same \in BOOLEAN : Settled(t, unknowns[t], KillRecords(t, "ADMINISTRATIVE_KILL", same))
        /\ Settled(t, unknowns[t], InitiateRecords(t, "NONE"))
    BY <1>0, RecordsSettle
  <2>2. QED
    BY <1>0, <1>2, <1>4, <2>1, DecideTolerated DEF Kill, InitiateRevalidation
<1>5. ASSUME NEW c \in Callers, NEW t \in Txs, Pause(c, t) \/ Unpause(c, t)
      PROVE  ToleranceInv'
  <2>1. states[t] \notin Held
    BY <1>0, <1>5 DEF Pause, Unpause, MayMove, PermittedSafety, Held, TypeOK
  <2>2. ~Busy(c) /\ unknowns' = unknowns
    BY <1>5 DEF Pause, Unpause
  <2>3. \A recs : Settled(t, unknowns[t], recs)
    BY <1>3, <2>1, <2>2 DEF Settled
  <2>4. PICK recs : Decide(c, t, recs)
    BY <1>5 DEF Pause, Unpause
  <2>5. QED
    BY <1>0, <1>2, <2>2, <2>3, <2>4, DecideTolerated
<1>6. ASSUME NEW c \in Callers, NEW t \in Txs, NEW request \in Requests,
             Revalidate(c, t, request)
      PROVE  ToleranceInv'
  <2> DEFINE recs == IF RevalidationAccepted(request, t, contexts[t])
                       THEN ResumeRecords(t) ELSE RejectRecords(t)
  <2>1. ~Busy(c) /\ unknowns' = unknowns /\ Decide(c, t, recs)
    BY <1>6 DEF Revalidate
  <2>2. Settled(t, unknowns[t], RejectRecords(t))
    BY <1>0, <1>3, <2>1, RecordsSettle DEF Settled
  <2>3. Settled(t, unknowns[t], recs)
    BY <1>0, <2>2, RecordsSettle
  <2> HIDE DEF recs
  <2>4. QED
    BY <1>0, <1>2, <2>1, <2>3, DecideTolerated
<1>7. ASSUME NEW c \in Callers, NEW t \in Txs, NEW expired \in BOOLEAN,
             NEW valid \in BOOLEAN, NEW status \in {"PASS", "DRIFT", "UNKNOWN"},
             EvaluateAndEnforce(c, t, expired, valid, status)
      PROVE  ToleranceInv'
  <2> DEFINE counted == unknowns[t] +
               (IF CountsUnknown(expired, valid, status) THEN 1 ELSE 0)
             finding == EnforcedFinding(expired, valid, status, counted, MaxUnknown)
  <2>0. PICK same \in BOOLEAN : Decide(c, t, FindingRecords(t, finding, same))
    BY <1>7 DEF EvaluateAndEnforce
  <2> DEFINE recs == FindingRecords(t, finding, same)
  <2>1. /\ ~Busy(c) /\ unknowns' = [unknowns EXCEPT ![t] = counted]
        /\ Decide(c, t, recs)
    BY <1>7, <2>0 DEF EvaluateAndEnforce
  <2>2. counted \in Nat
    BY <1>2
  <2>3. Settled(t, counted, recs)
    <3>1. CASE finding = NoFinding
      <4>1. counted >= MaxUnknown => counted = unknowns[t]
        BY <1>2, <3>1, UnknownAssumption
           DEF EnforcedFinding, IntegrityFinding, Finding, NoFinding, CountsUnknown
      <4>2. recs = <<>>
        BY <3>1 DEF FindingRecords
      <4> HIDE DEF counted, recs
      <4>3. QED
        BY <1>3, <2>1, <4>1, <4>2 DEF Settled
    <3>2. CASE finding # NoFinding
      <4> HIDE DEF counted, finding
      <4>1. QED
        BY <1>0, <3>2, RecordsSettle DEF FindingRecords
    <3>3. QED
      BY <3>1, <3>2
  <2> HIDE DEF recs, counted
  <2>4. QED
    BY <1>0, <2>1, <2>2, <2>3, DecideTolerated
<1>8. CASE UNCHANGED vars
  BY <1>8 DEF vars, ToleranceInv, Quiet
<1>9. QED
  BY <1>1, <1>4, <1>5, <1>6, <1>7, <1>8, CommitTolerated DEF Next

(***************************************************************************)
(* One thread at a time, a transaction whose unresolved evaluations have   *)
(* reached max_unknown_tolerance runs again only after the count was       *)
(* cleared, however it is paused, unpaused, killed and evaluated.          *)
(***************************************************************************)
THEOREM ToleranceHolds ==
  ASSUME OneCaller PROVE Spec => []UnknownTolerance
<1> DEFINE Inv == ChainInv /\ ToleranceInv
<1>1. Init => Inv
  BY UnknownAssumption
     DEF Init, ChainInv, AuditChain, TypeOK, Idle, Decided, Busy, ToleranceInv
<1>2. Inv /\ TypeOK' /\ [Next]_vars => Inv'
  BY ChainStep, ToleranceStep
<1>3. Inv => UnknownTolerance
  BY DEF ToleranceInv, UnknownTolerance, Held
<1>4. QED
  BY <1>1, <1>2, <1>3, TypeCorrect, PTL DEF Spec
=============================================================================
