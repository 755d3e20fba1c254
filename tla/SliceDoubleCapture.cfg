SPECIFICATION Spec
CONSTANTS
  Txs = {t1}
  Threads = {w1, w2}
  Keys = {}
  NoTx = NoTx
  MaxSessions = 2
  MaxPayments = 2
  Charges <- MCRaceCharges
  RefundAmounts <- MCFullRefund
  MaxTotal = 2
  MaxRecovery = 2
  MaxResolution = 2
  MaxUnknown = 2
  Events = {}
INVARIANTS
  OneCapture
CHECK_DEADLOCK FALSE
