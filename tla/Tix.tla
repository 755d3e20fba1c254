--------------------------------- MODULE Tix ---------------------------------
(***************************************************************************)
(* The trust information exchange (services/tix/exchange_service.py and    *)
(* domain/tix/verifier.py): one ledger of messages per transaction, each   *)
(* message chained to the one before it by its hash.                       *)
(*                                                                         *)
(* A hash stands for all it covers: the hash of a message is the sequence  *)
(* of the ids it is chained through, its own last.  What the verifier      *)
(* finds wrong with a message by itself, whatever the ledgers hold, is     *)
(* the set of its flaws.                                                   *)
(***************************************************************************)
EXTENDS Naturals, Sequences

CONSTANTS
  Txs,
  Ids,         \* message ids
  Core,        \* the senders taken for the control plane
  Participants, \* all senders
  Bodies       \* what a message says, as far as anyone reads it

ASSUME CoreAssumption == Core \subseteq Participants

VARIABLES
  ledger,   \* _ledgers
  seen      \* _seen_message_ids, of all transactions

tixVars == <<ledger, seen>>

NoHash == << >>
MessageTypes ==
  {"OFFER", "INTEGRITY_CHECK", "DRIFT_NOTICE", "REMEDIATION_REQUEST", "OUTCOME",
   "AUTHORIZATION"}

\* Reasons to refuse any message, and claims only the core may make.
Defects == {"EXPIRED", "FUTURE", "MISMATCH", "FORGED"}
Claims == {"PAYMENT_CLAIM", "AUTHORITATIVE"}

Messages ==
  [id : Ids, tx : Txs, from : Participants, type : MessageTypes,
   prev : Seq(Ids), flaws : SUBSET (Defects \cup Claims), body : Bodies]

Hash(m) == Append(m.prev, m.id)

ChainHash(tx) ==
  IF ledger[tx] = << >> THEN NoHash ELSE Hash(ledger[tx][Len(ledger[tx])])

\* What only the control plane may say.
Overreaches(m) ==
  /\ m.from \notin Core
  /\ \/ m.type = "AUTHORIZATION"
     \/ "PAYMENT_CLAIM" \in m.flaws
     \/ m.type = "OUTCOME" /\ "AUTHORITATIVE" \in m.flaws

\* Mutant: any message the sender saw last is good enough.
AcceptedUnchained(m) ==
  /\ m.id \notin seen
  /\ m.flaws \cap Defects = {}
  /\ ledger[m.tx] # << >> => m.prev # NoHash
  /\ ~ Overreaches(m)

\* Mutant: ids are compared within one ledger only.
AcceptedPerLedger(m) ==
  /\ m.id \notin {ledger[m.tx][i].id : i \in DOMAIN ledger[m.tx]}
  /\ m.flaws \cap Defects = {}
  /\ ledger[m.tx] # << >> => m.prev = ChainHash(m.tx)
  /\ ~ Overreaches(m)

\* verify_message; the first message of a ledger may name any predecessor.
Accepted(m) ==
  /\ m.id \notin seen
  /\ m.flaws \cap Defects = {}
  /\ ledger[m.tx] # << >> => m.prev = ChainHash(m.tx)
  /\ ~ Overreaches(m)

\* append_and_verify: a refused message leaves no trace.
AppendAndVerify(m) ==
  IF Accepted(m)
    THEN /\ ledger' = [ledger EXCEPT ![m.tx] = Append(ledger[m.tx], m)]
         /\ seen' = seen \cup {m.id}
    ELSE UNCHANGED tixVars

\* verify_chain_integrity.
ChainIntact(tx) ==
  \A i \in 1 .. Len(ledger[tx]) :
    ledger[tx][i].prev = IF i = 1 THEN NoHash ELSE Hash(ledger[tx][i - 1])

TixInit ==
  /\ ledger = [tx \in Txs |-> << >>]
  /\ seen = {}

TixNext == \E m \in Messages : AppendAndVerify(m)

TixSpec == TixInit /\ [][TixNext]_tixVars

-----------------------------------------------------------------------------
TixTypeOK ==
  /\ ledger \in [Txs -> Seq(Messages)]
  /\ seen \subseteq Ids

(***************************************************************************)
(* Whatever was retried, delayed or sent out of order, the audit of a      *)
(* ledger fails for one reason only: its first message names a             *)
(* predecessor, which append_and_verify does not look at.                  *)
(***************************************************************************)
AuditFailsAtTheStart ==
  \A tx \in Txs : ledger[tx] # << >> =>
    (ChainIntact(tx) <=> ledger[tx][1].prev = NoHash)

(***************************************************************************)
(* No message is on record twice, neither on one ledger nor under another  *)
(* transaction, although each ledger is checked by its chain alone.        *)
(***************************************************************************)
RecordedOnce ==
  \A t, u \in Txs : \A i \in 1 .. Len(ledger[t]), j \in 1 .. Len(ledger[u]) :
    ledger[t][i].id = ledger[u][j].id => t = u /\ i = j
=============================================================================
