CONSTANTS
  o1 = o1
  o2 = o2
  o3 = o3
  None = None
  Orders = {o1, o2, o3}
  OtherTypes = {o3}
  Twap <- Matching
  MaxTime = 8
  MaxIds = 3
  MaxFaults = 1
SPECIFICATION FairSpec
CHECK_DEADLOCK FALSE
INVARIANTS
  AnswerWellFormed
  DroppedOnlyIfExpired
  PartsHanded
  PollInv
PROPERTIES
  EveryRequestAnswered
