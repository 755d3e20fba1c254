--------------------------- MODULE MCSessionViews ---------------------------
(* Instances of SessionViews for TLC. *)
EXTENDS SessionViews, TLC

Charge(a, c, i) == [amount |-> a, captured |-> c, items |-> i]

\* Within the ceiling of 2, above it, of an item not named, not captured.
MCCharges == {Charge(2, TRUE, "authorized"), Charge(4, TRUE, "authorized"),
              Charge(2, TRUE, "unstated"), Charge(2, FALSE, "diverging")}
MCRefunds == {2}
\* Only the first order is ever worked on, and killed; the second can be paid.
MCOneWorked ==
  /\ \A s \in Sessions \ {1} : sess[s].sm \in {"ABSENT", "EXECUTING"}
  /\ \A t \in Txs : cur[t] = 2 => ks[t] = "RUNNING"

\* The default policy, in units of 5 ms and in eighths, but for the time to
\* a decision, which a few ticks exceed.
MCPolicy == [detect |-> 1000, prove |-> 600, intervene |-> 400, revalidate |-> 2000,
             final |-> 100, unknown |-> 3000, coverage |-> 6, valid |-> 4, completeness |-> 6]
=============================================================================
