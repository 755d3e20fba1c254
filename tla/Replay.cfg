\* One transaction of up to ten transitions: a first verdict, two recoveries or
\* resolutions with two payments and two events, archived at rest, damaged in
\* one place, and replayed.
SPECIFICATION Spec
CONSTANTS
  AmountIds = {"a1", "a2"}
  EventIds = {"e1", "e2"}
  Amounts = {10, 20, 30}
  Refunds = {10}
  MaxTotal = 10
  MaxCaptures = 1
  MaxHistory = 10
INVARIANTS
  TypeOK
  HonestReplays
  MatchIsTrue
  ProofPinsTheAmount
CHECK_DEADLOCK FALSE
