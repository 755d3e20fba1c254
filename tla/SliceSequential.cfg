SPECIFICATION FairSpec
CONSTANTS
  Txs = {t1}
  Threads = {w1}
  Keys = {k1}
  NoTx = NoTx
  MaxSessions = 2
  MaxPayments = 2
  Charges <- MCCharges
  RefundAmounts <- MCRefunds
  MaxTotal = 2
  MaxRecovery = 3
  MaxResolution = 3
  MaxUnknown = 2
  Events = {"expiry", "operator"}
INVARIANTS
  TypeOK
  PassWithinBudget
  RefundsOnRecord
  OneCapture
PROPERTIES
  VerdictReached
