SPECIFICATION Spec
CONSTANTS
  t1 = t1
  k1 = k1
  k2 = k2
  Txs = {t1}
  Threads = {w1}
  Keys = {k1, k2}
  NoKey = NoKey
  Inputs <- MCInputs
  Attempts = {1}
  Charges = {2, 4}
  Price <- MCPrice
  InStock <- MCAllInStock
  ExpiresAt = 2
  MaxReplans = 1
  MaxResolutions = 1
  Shared = TRUE
  MaxCalls = 3
INVARIANTS
  TypeOK
  CompletedWithinIntent
  CompletedOnce
  RecoveryNeedsDrift
  IdempotentReplay
