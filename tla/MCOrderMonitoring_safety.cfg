CONSTANTS
  w1 = w1
  w2 = w2
  p1 = p1
  p2 = p2
  r1 = r1
  t1 = t1
  t2 = t2
  t3 = t3
  None = None
  Owners = {w1, w2}
  Params = {p1, p2}
  Roots = {r1}
  Txs = {t1, t2, t3}
  Created <- TwoOwners
  RootSet <- RootsOfW1
  RootKeysMatch = {t2}
  UsePolling = FALSE
  FaultKinds = {"disconnect", "unseen_loss", "restart", "rpc_error", "ledger_error"}
  MaxFaults = 2
  MaxIds = 5
SPECIFICATION Spec
INVARIANTS
  EntryHandedOverOnce
  NoOrderVanishes
  MonitoringInv
PROPERTIES
  HandsOverOrders
