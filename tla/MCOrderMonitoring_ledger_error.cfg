CONSTANTS
  w1 = w1
  w2 = w2
  p1 = p1
  p2 = p2
  r1 = r1
  t1 = t1
  t2 = t2
  t3 = t3
  None = None
  Owners = {w1, w2}
  Params = {p1, p2}
  Roots = {r1}
  Txs = {t1}
  Created <- TwoOwners
  RootSet <- NoRoots
  RootKeysMatch = {}
  UsePolling = FALSE
  FaultKinds = {"ledger_error"}
  MaxFaults = 1
  MaxIds = 3
SPECIFICATION FairSpec
PROPERTIES
  AskedAgain
