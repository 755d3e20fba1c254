------------------------ MODULE MCTransactionSlice ------------------------
(* Instances of TransactionSlice for TLC. *)
EXTENDS TransactionSlice, TLC, FiniteSetsExt

Charge(a, c, i) == [amount |-> a, captured |-> c, items |-> i]

\* The ceiling is 2: within it, and two units above it, which a refund of 1
\* does not cover and a refund of 2 does.
MCCharges == {Charge(2, TRUE, "authorized"), Charge(4, TRUE, "authorized"),
              Charge(4, TRUE, "unstated"), Charge(2, FALSE, "diverging")}
MCRaceCharges == {Charge(4, TRUE, "authorized")}
MCFullRefund == {2}
MCSymmetry == Permutations(Threads) \cup Permutations(Txs)
MCRefunds == {1, 2}

Refunded(t) ==
  MapThenSumSet(LAMBDA d : d.amt, {d \in done : d.tx = t /\ d.type = "REFUND"})

(***************************************************************************)
(* "a compensatory refund of the discrepancy restores integrity"           *)
(* (services/recovery/policy.py:115): the refunds executed for a           *)
(* transaction leave at least the ceiling of what was charged.             *)
(***************************************************************************)
RefundsWithinOvercharge ==
  \A t \in Txs : cur[t] # 0 =>
    \A a \in sess[cur[t]].bundle.amounts :
      a > MaxTotal => a - Refunded(t) >= MaxTotal
=============================================================================
