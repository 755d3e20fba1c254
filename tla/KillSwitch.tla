----------------------------- MODULE KillSwitch -----------------------------
(***************************************************************************)
(* The kill-switch service (services/kill_switch/service.py): the safety   *)
(* state of every transaction, its registered context, the count of its    *)
(* unresolved evaluations and its audit history.                           *)
(*                                                                         *)
(* Every operation reads the current state, validates the move, and then   *)
(* writes state and history, with no lock; the service is called from the  *)
(* worker threads of the HTTP server.  So an operation here is two steps:  *)
(* one that reads and decides, leaving the decided records in pend[c], and *)
(* Commit(c), which writes them.  With a single caller the two steps are   *)
(* the sequential operation.                                               *)
(***************************************************************************)
EXTENDS KillSwitchPolicy, Sequences

CONSTANTS
  Txs,           \* transaction ids
  NoTx,          \* no transaction
  Callers,       \* threads that call the service
  Contexts,      \* (intent, agent, merchant) triples a caller can register
  NoContext,     \* a transaction that was never registered
  Evidence,      \* sets of evidence authorities a request can carry
  Ages,          \* ages in seconds a request can have
  MaxUnknown,    \* max_unknown_tolerance
  MaxHistory     \* bound of the exploration: records per transaction

ASSUME UnknownAssumption == MaxUnknown \in Nat \ {0}
ASSUME HistoryAssumption == MaxHistory \in Nat
ASSUME NoTxAssumption == NoTx \notin Txs
ASSUME ContextAssumption == NoContext \notin Contexts

VARIABLES
  states,    \* _states, with get_state's default for an unknown transaction
  contexts,  \* _contexts
  unknowns,  \* _unknown_counts
  history,   \* _histories
  pend       \* per caller: the records decided and not yet written

vars == <<states, contexts, unknowns, history, pend>>

Triggers == KillTriggers \cup {"NONE", "ADMINISTRATIVE_PAUSE",
                               "EXPIRED_AUTHORIZATION", "REPEATED_UNKNOWN"}

Reasons == {"init", "killed", "paused", "unpaused", "initiated",
            "revalidated", "rejected"}

Records ==
  [from : SafetyStates, to : SafetyStates, trigger : Triggers, why : Reasons]

Requests == [tx : Txs, context : Contexts, evidence : Evidence, age : Ages]

Record(from, to, trigger, why) ==
  [from |-> from, to |-> to, trigger |-> trigger, why |-> why]

\* What a caller still has to write: records of transaction tx, in order.
Decided(tx, recs) == [tx |-> tx, recs |-> recs]
Idle == Decided(NoTx, <<>>)

Busy(c) == pend[c].recs # <<>>

Last(t) == history[t][Len(history[t])]

Init ==
  /\ states = [t \in Txs |-> "KILLED"]
  /\ contexts = [t \in Txs |-> NoContext]
  /\ unknowns = [t \in Txs |-> 0]
  /\ history = [t \in Txs |-> <<>>]
  /\ pend = [c \in Callers |-> Idle]

(***************************************************************************)
(* register_transaction overwrites whatever was known of t.                *)
(***************************************************************************)
Register(c, t, ctx) ==
  /\ ~Busy(c)
  /\ states' = [states EXCEPT ![t] = "RUNNING"]
  /\ contexts' = [contexts EXCEPT ![t] = ctx]
  /\ unknowns' = [unknowns EXCEPT ![t] = 0]
  /\ history' = [history EXCEPT ![t] =
                   <<Record("RUNNING", "RUNNING", "NONE", "init")>>]
  /\ UNCHANGED pend

\* kill: nothing when the last record already is this kill, for the same
\* reason (a text, of which only this is kept).
KillRecords(t, trigger, same) ==
  IF states[t] = "KILLED" /\ history[t] # <<>> /\ Last(t).trigger = trigger /\ same
    THEN <<>>
    ELSE <<Record(states[t], "KILLED", trigger, "killed")>>

\* Mutant: trigger and resulting state are passed in the wrong order.
InitiateRecordsSwapped(t, trigger) ==
  <<Record(states[t], trigger, "REQUIRES_REVALIDATION", "initiated")>>

\* initiate_revalidation: legal from every state.
InitiateRecords(t, trigger) ==
  <<Record(states[t], "REQUIRES_REVALIDATION", trigger, "initiated")>>

\* The decided records wait in pend[c]; an empty list is an early return.
Decide(c, t, recs) ==
  /\ Len(history[t]) + Len(recs) <= MaxHistory
  /\ pend' = [pend EXCEPT ![c] = IF recs = <<>> THEN Idle ELSE Decided(t, recs)]
  /\ UNCHANGED <<states, contexts, history>>

Kill(c, t) ==
  /\ ~Busy(c)
  /\ \E same \in BOOLEAN : Decide(c, t, KillRecords(t, "ADMINISTRATIVE_KILL", same))
  /\ UNCHANGED unknowns

\* pause of a PAUSED transaction returns early; an illegal move raises.
Pause(c, t) ==
  /\ ~Busy(c)
  /\ states[t] # "PAUSED"
  /\ MayMove(states[t], "PAUSED")
  /\ Decide(c, t, <<Record(states[t], "PAUSED", "ADMINISTRATIVE_PAUSE", "paused")>>)
  /\ UNCHANGED unknowns

Unpause(c, t) ==
  /\ ~Busy(c)
  /\ states[t] = "PAUSED"
  /\ Decide(c, t, <<Record("PAUSED", "RUNNING", "NONE", "unpaused")>>)
  /\ UNCHANGED unknowns

InitiateRevalidation(c, t) ==
  /\ ~Busy(c)
  /\ Decide(c, t, InitiateRecords(t, "NONE"))
  /\ UNCHANGED unknowns

\* Mutant: a killed transaction is resumed without entering revalidation.
ResumeRecordsDirect(t) ==
  <<Record("REQUIRES_REVALIDATION", "RUNNING", "NONE", "revalidated")>>

(***************************************************************************)
(* What an accepted request writes: a KILLED transaction first enters      *)
(* REQUIRES_REVALIDATION, every other one moves to RUNNING directly.       *)
(***************************************************************************)
ResumeRecords(t) ==
  IF states[t] = "KILLED"
    THEN <<Record("KILLED", "REQUIRES_REVALIDATION", "NONE", "initiated"),
           Record("REQUIRES_REVALIDATION", "RUNNING", "NONE", "revalidated")>>
    ELSE <<Record(states[t], "RUNNING", "NONE", "revalidated")>>

RejectRecords(t) == <<Record(states[t], states[t], "NONE", "rejected")>>

Revalidate(c, t, request) ==
  /\ ~Busy(c)
  /\ contexts[t] # NoContext
  /\ Decide(c, t, IF RevalidationAccepted(request, t, contexts[t])
                    THEN ResumeRecords(t)
                    ELSE RejectRecords(t))
  /\ UNCHANGED unknowns

FindingRecords(t, finding, same) ==
  IF finding = NoFinding THEN <<>>
  ELSE IF finding.to = "KILLED" THEN KillRecords(t, finding.trigger, same)
                                ELSE InitiateRecords(t, finding.trigger)

\* evaluate_and_enforce: the count is written before the finding is decided.
EvaluateAndEnforce(c, t, expired, bindingValid, status) ==
  LET counted == unknowns[t] +
                   (IF CountsUnknown(expired, bindingValid, status) THEN 1 ELSE 0)
      finding == EnforcedFinding(expired, bindingValid, status, counted, MaxUnknown)
  IN  /\ ~Busy(c)
      /\ counted <= MaxUnknown + 1           \* bound of the exploration
      /\ unknowns' = [unknowns EXCEPT ![t] = counted]
      /\ \E same \in BOOLEAN : Decide(c, t, FindingRecords(t, finding, same))

(***************************************************************************)
(* The first decided record is written: the state it resulted in, and the  *)
(* history.  A successful revalidation also clears the count.              *)
(***************************************************************************)
Commit(c) ==
  LET t == pend[c].tx
      rec == Head(pend[c].recs)
      rest == Tail(pend[c].recs)
  IN  /\ Busy(c)
      /\ states' = [states EXCEPT ![t] = IF rec.why = "rejected" THEN @ ELSE rec.to]
      /\ history' = [history EXCEPT ![t] = Append(@, rec)]
      /\ unknowns' = [unknowns EXCEPT ![t] = IF rec.why = "revalidated" THEN 0 ELSE @]
      /\ pend' = [pend EXCEPT ![c] = IF rest = <<>> THEN Idle ELSE Decided(t, rest)]
      /\ UNCHANGED contexts

Next ==
  \E c \in Callers :
    \/ Commit(c)
    \/ \E t \in Txs :
         \/ \E ctx \in Contexts : Register(c, t, ctx)
         \/ Kill(c, t)
         \/ Pause(c, t)
         \/ Unpause(c, t)
         \/ InitiateRevalidation(c, t)
         \/ \E request \in Requests : Revalidate(c, t, request)
         \/ \E expired, bindingValid \in BOOLEAN,
               status \in {"PASS", "DRIFT", "UNKNOWN"} :
              EvaluateAndEnforce(c, t, expired, bindingValid, status)

Spec == Init /\ [][Next]_vars

-----------------------------------------------------------------------------
\* The variables have the types the service gives them.
TypeOK ==
  /\ states \in [Txs -> SafetyStates]
  /\ contexts \in [Txs -> Contexts \cup {NoContext}]
  /\ unknowns \in [Txs -> Nat]
  /\ history \in [Txs -> Seq(Records)]
  /\ pend \in [Callers -> {Idle} \cup [tx : Txs, recs : Seq(Records) \ {<<>>}]]

\* Nobody is between the read and the write of an operation on t.
Quiet(t) == \A c \in Callers : pend[c].tx # t

(***************************************************************************)
(* The audit history is a chain: every record starts in the state the      *)
(* previous one resulted in, and the last one results in the state in      *)
(* force (the "immutable transition history" of the class docstring).      *)
(***************************************************************************)
AuditChain ==
  \A t \in Txs :
    /\ \A i \in 1 .. Len(history[t]) - 1 :
         history[t][i + 1].from = history[t][i].to
    /\ history[t] # <<>> => Last(t).to = states[t]

(***************************************************************************)
(* A kill is lifted only by an accepted revalidation: between a record     *)
(* that results in KILLED and a later one that results in RUNNING there is *)
(* a successful revalidation, whatever pauses and holds lie between.       *)
(***************************************************************************)
ResumeIsRevalidated ==
  \A t \in Txs : \A i, j \in 1 .. Len(history[t]) :
    /\ i < j
    /\ history[t][i].to = "KILLED"
    /\ history[t][j].to = "RUNNING"
    => \E k \in i + 1 .. j : history[t][k].why = "revalidated"

(***************************************************************************)
(* Once the tolerance of unresolved evaluations is reached, the            *)
(* transaction runs again only after a revalidation cleared the count:     *)
(* pausing and unpausing cannot get round it.                              *)
(***************************************************************************)
UnknownTolerance ==
  \A t \in Txs :
    Quiet(t) /\ unknowns[t] >= MaxUnknown => states[t] # "RUNNING"

(***************************************************************************)
(* "KILLED: Execution halted; CANNOT transition directly to RUNNING"       *)
(* (policy.py:42), as a property of the state the execution gate reads:    *)
(* only a registration, which restarts the history, makes that step.       *)
(* Refuted with two callers, whose reads and writes interleave.            *)
(***************************************************************************)
KilledNeverRuns ==
  [][\A t \in Txs :
       states[t] = "KILLED" /\ states'[t] = "RUNNING"
         => Len(history'[t]) = 1]_vars
=============================================================================
