CONSTANTS
  w1 = w1 w2 = w2 m1 = m1 m2 = m2 Nothing = Nothing
  Workers <- TwoWorkers
  Messages <- TwoMessages
  Allowed <- OneMessage
  MaxAttempts = 3
  MaxFaults = 2
SPECIFICATION FairOutbox
INVARIANT SentWasTaken
PROPERTY EveryMessageSettles
CHECK_DEADLOCK FALSE
