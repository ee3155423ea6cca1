CONSTANTS
  o1 = o1
  o2 = o2
  o3 = o3
  None = None
  Orders = {o1, o2}
  OtherTypes = {}
  Twap <- Mixed
  MaxTime = 8
  MaxIds = 2
  MaxFaults = 0
SPECIFICATION Spec
INVARIANTS
  DroppedOnlyIfExpired
