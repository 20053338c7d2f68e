CONSTANTS
  p = p
  q = q
  g1 = g1
  g2 = g2
  g3 = g3
  Process = {p, q}
  Goroutine = {g1, g2, g3}
  ProcessOf <- MCProcessOf
  Shared = {p, q}
  Gap = 3
  Faults = {"io", "write", "crash"}
  None = None
  Op = {o1, o2}
  Accounts <- MCAccounts
  Asked <- MCAsked
  Nobody = Nobody
  NoAccount = NoAccount
SPECIFICATION ClientSpec
INVARIANTS IndInv TradeConnSound
PROPERTIES GapsAreKept PoolMovesOn OperationsEnd
