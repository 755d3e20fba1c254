SPECIFICATION Spec
CONSTANTS
  Txs = {t1, t2}
  Threads = {w1, w2}
  Keys = {}
  NoTx = NoTx
  MaxSessions = 2
  MaxPayments = 1
  Charges <- MCRaceCharges
  RefundAmounts <- MCFullRefund
  MaxTotal = 2
  MaxRecovery = 2
  MaxResolution = 1
  MaxUnknown = 2
  Events = {}
SYMMETRY MCSymmetry
INVARIANTS
  ConsumedByOwner
  ConsumeNeverRaises
  ExecutionsBounded
PROPERTIES
  ImplementsLifecycle
  ClosedRecord
CHECK_DEADLOCK FALSE
