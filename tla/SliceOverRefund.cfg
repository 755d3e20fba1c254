SPECIFICATION Spec
CONSTANTS
  Txs = {t1}
  Threads = {w1}
  Keys = {k1, k2}
  NoTx = NoTx
  MaxSessions = 1
  MaxPayments = 1
  Charges <- MCRaceCharges
  RefundAmounts <- MCRefunds
  MaxTotal = 2
  MaxRecovery = 3
  MaxResolution = 3
  MaxUnknown = 2
  Events = {}
INVARIANTS
  RefundsWithinOvercharge
CHECK_DEADLOCK FALSE
