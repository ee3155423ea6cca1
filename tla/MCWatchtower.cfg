CONSTANTS
  a1 = a1
  a2 = a2
  a3 = a3
  a4 = a4
  c1 = c1
  o1 = o1
  o2 = o2
  None = None
  Agents = {a1, a2, a3, a4}
  Quorums <- MCQuorums
  Down = {}
  Orders = {o1, o2}
  MaxCopies = 1
  FaultKinds = {"restart"}
  MaxFaults = 1
  Conditionals = {c1}
  Parts = 2
  Part <- MCPart
  Notices = 1
  Misdated = {}
  Lossy = {a4}
SPECIFICATION WatchFairSpec
INVARIANTS
  WatchInv
  OnePartForwarded
PROPERTIES
  RunsRounds
  MinedForwarded
