SPECIFICATION Spec
CONSTANTS
  Txs = {t1}
  Callers = {c1, c2}
  Contexts = {ctx1}
  NoTx = NoTx
  NoContext = NoContext
  Evidence <- MCOneEvidence
  Ages <- MCOneAge
  MaxUnknown = 2
  MaxHistory = 3
PROPERTIES
  KilledNeverRuns
