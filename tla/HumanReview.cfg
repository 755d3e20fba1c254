SPECIFICATION Spec
CONSTANTS
  Txs = {t1}
  Total <- MCTotal
  Foreign = {}
  Actors = {"operator", "agent"}
  Agents = {"agent"}
  Policies <- MCPolicies
  InitialPolicy <- MCDefault
  Tolerance = 2
  MaxChanges = 3
  MaxEvaluations = 2
INVARIANTS
  HeldHasReview
