SPECIFICATION Spec
CONSTANTS
  Txs = {t1, t2}
  Ids <- MCIds
  Core = {"core"}
  Participants = {"core", "buyer", "merchant"}
  Bodies <- MCBodies
  Skus = {"mouse"}
  Prices = {20, 40}
  MaxStock = 1
  Shipping = 1
  MaxOrderValue = 50
  FirstPrice <- MCFirstPrice
  FirstStock <- MCFirstStock
  Intents <- MCIntents
  Negotiated = {t1}
  MaxRounds = 2
  MaxChanges = 2
  MaxInbound = 1
INVARIANTS
  TypeOK
  AuditFailsAtTheStart
  RecordedOnce
  RoundsOnLedger
  PassWithinCeiling
  OnlySeveralItemsFail
PROPERTIES
  NegotiationReturns
CHECK_DEADLOCK FALSE
