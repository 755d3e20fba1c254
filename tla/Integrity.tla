----------------------------- MODULE Integrity -----------------------------
(***************************************************************************)
(* The pure integrity engine (services/evaluation.py over domain/rules):   *)
(* a verdict on the evidence and the events of one transaction.            *)
(*                                                                         *)
(* Evidence of a field is a set of records with the rank of its authority, *)
(* its place in the order by observation time and id, and its value.  An   *)
(* amount is a natural number of minor units in the contract's currency or *)
(* NoAmount for a payment reported without one;                            *)
(* executed items are "authorized" or "diverging" from the contract.       *)
(* An event has an identity, a kind, and says whether it fell inside the   *)
(* contract's validity window; the same event may occur twice.             *)
(***************************************************************************)
EXTENDS Integers, FiniteSets

Top(evidence) == {e \in evidence : \A f \in evidence : f.rank <= e.rank}

Values(evidence) == {e.value : e \in evidence}

NoAmount == -1

\* Mutant: one unit above the ceiling is tolerated.
EconomicTolerant(amounts, maxTotal) ==
  LET values == Values(Top(amounts))
  IN  IF Cardinality(values) # 1 \/ NoAmount \in values THEN "UNKNOWN"
      ELSE IF \A v \in values : v > maxTotal + 1 THEN "DRIFT" ELSE "PASS"

\* check_economic: the top tier must agree; the ceiling is inclusive.
Economic(amounts, maxTotal) ==
  LET values == Values(Top(amounts))
  IN  IF Cardinality(values) # 1 \/ NoAmount \in values THEN "UNKNOWN"
      ELSE IF \A v \in values : v > maxTotal THEN "DRIFT" ELSE "PASS"

\* check_semantic: of the top tier the latest record decides.
Semantic(items) ==
  LET latest == {e \in Top(items) : \A f \in Top(items) : f.at <= e.at}
  IN  IF latest = {} THEN "UNKNOWN"
      ELSE IF "diverging" \in Values(latest) THEN "DRIFT" ELSE "PASS"

\* check_temporal: nothing outside the window, nothing twice, and no more
\* captures than the contract allows.
Temporal(events, repeated, maxCaptures) ==
  IF events = {} THEN "UNKNOWN"
  ELSE IF \/ repeated
          \/ \E e \in events : e.late
          \/ Cardinality({e \in events : e.kind = "capture"}) > maxCaptures
         THEN "DRIFT" ELSE "PASS"

\* DRIFT takes precedence, then UNKNOWN; PASS needs all three rules.
Overall(statuses) ==
  IF "DRIFT" \in statuses THEN "DRIFT"
  ELSE IF "UNKNOWN" \in statuses THEN "UNKNOWN" ELSE "PASS"

(***************************************************************************)
(* evaluate_integrity.  The violations are named after what later code     *)
(* looks for in their text.                                                *)
(***************************************************************************)
Evaluate(amounts, items, events, repeated, maxTotal, maxCaptures) ==
  LET econ == Economic(amounts, maxTotal)
      sem == Semantic(items)
      temp == Temporal(events, repeated, maxCaptures)
  IN  [status |-> Overall({econ, sem, temp}),
       viol |-> (IF econ = "DRIFT" THEN {"OVERCHARGE"} ELSE {})
                  \cup (IF sem = "DRIFT" THEN {"ITEMS"} ELSE {})
                  \cup (IF temp = "DRIFT" THEN {"TEMPORAL"} ELSE {})
                  \cup (IF Cardinality(Values(Top(amounts))) > 1
                          THEN {"CONFLICT"} ELSE {})]
=============================================================================
