-------------------------- MODULE MCOrchestration --------------------------
(* Instances of Orchestration for TLC. *)
EXTENDS Orchestration

CONSTANTS t1, k1, k2

\* A proposal and an offer within the ceiling of 2, with one thing changed
\* at a time.
Plain == [tx |-> t1, max |-> 2, sku |-> "item", ask |-> 2, price |-> 2,
          extra |-> FALSE, pay |-> 0, claim |-> "none", execute |-> FALSE,
          action |-> FALSE, clock |-> 1, attempt |-> 1, key |-> NoKey,
          ids |-> TRUE, sound |-> TRUE, clean |-> TRUE]

Keyed == [Plain EXCEPT !.key = k1]
Surge == [Plain EXCEPT !.price = 4]
SurgeKeyed == [Surge EXCEPT !.key = k1, !.attempt = 2]
Richer == [Surge EXCEPT !.max = 4]
Substitute == [Surge EXCEPT !.sku = "substitute", !.attempt = 2]
Extra == [Plain EXCEPT !.extra = TRUE]
Overpaid == [Plain EXCEPT !.pay = 4, !.action = TRUE, !.key = k2]
Pending == [Plain EXCEPT !.pay = NoAmount]
PendingExtra == [Pending EXCEPT !.extra = TRUE, !.action = TRUE]
Paid == [Surge EXCEPT !.pay = 2, !.clock = 0]
Claimed == [Plain EXCEPT !.claim = "invalid", !.execute = TRUE]
Captured == [Plain EXCEPT !.claim = "valid", !.execute = TRUE]
Early == [Plain EXCEPT !.clock = 0, !.attempt = 2, !.price = 0]
Stale == [Plain EXCEPT !.sound = FALSE]
Greedy == [Richer EXCEPT !.ask = 4]
Strange == [Plain EXCEPT !.ids = FALSE]
Tainted == [Plain EXCEPT !.clean = FALSE]

MCInputs ==
  {Keyed, SurgeKeyed, Richer, Substitute, Extra, Overpaid, Pending, PendingExtra,
   Paid, Claimed, Captured, Early, Greedy, Stale, Strange, Tainted}

\* The ordered item costs more than the ceiling of 2.
MCPrice == [s \in SKUs |-> CASE s = "item" -> 3 [] s = "substitute" -> 2 [] OTHER -> 1]
MCAllInStock == [s \in SKUs |-> TRUE]
=============================================================================
