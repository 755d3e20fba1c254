SPECIFICATION Spec
CONSTANTS
  Txs = {t1}
  Callers = {c1}
  Contexts = {ctx1, ctx2}
  NoTx = NoTx
  NoContext = NoContext
  Evidence <- MCEvidence
  Ages <- MCAges
  MaxUnknown = 2
  MaxHistory = 5
INVARIANTS
  TypeOK
  AuditChain
  ResumeIsRevalidated
  UnknownTolerance
PROPERTIES
  KilledNeverRuns
