CONSTANTS
  a1 = a1
  a2 = a2
  a3 = a3
  a4 = a4
  o1 = o1
  o2 = o2
  None = None
  Agents = {a1, a2, a3, a4}
  Quorums <- MCQuorums
  Down = {}
  Orders = {o1, o2}
  MaxCopies = 1
  FaultKinds = {}
  MaxFaults = 0
SPECIFICATION OwnListsSpec
PROPERTIES
  EveryOrderForwarded
