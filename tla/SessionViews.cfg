SPECIFICATION ViewSpec
CONSTANTS
  Txs = {t1, t2}
  Threads = {w1}
  Keys = {}
  NoTx = NoTx
  MaxSessions = 2
  MaxPayments = 1
  Charges <- MCCharges
  RefundAmounts <- MCRefunds
  MaxTotal = 2
  MaxRecovery = 2
  MaxResolution = 2
  MaxUnknown = 2
  Events = {"expiry", "operator"}
  TickLength = 100
  MaxClock = 1
  Policy <- MCPolicy
INVARIANTS
  DriftIsLocated
  CompletionMeansPass
  LastValidTrusted
  NoClockAnomaly
CONSTRAINT MCOneWorked
CHECK_DEADLOCK FALSE
