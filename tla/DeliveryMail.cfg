CONSTANTS
  w1 = w1 w2 = w2 m1 = m1 m2 = m2 d1 = d1 d2 = d2 r1 = r1 r2 = r2 Nothing = Nothing
  Workers <- OneWorker
  Messages <- TwoMessages
  Allowed <- OneMessage
  Deliveries <- TwoDeliveries
  ChannelOf <- EmailAndInApp
  Requests <- OneRequest
  MaxAttempts = 2
  MaxIds = 1
  MaxRetries = 1
  MaxFaults = 1
  BrokerUp = FALSE
  Operations <- All
SPECIFICATION Spec
CHECK_DEADLOCK FALSE
INVARIANTS CopiesAccounted
PROPERTIES SettledStays OutboxSpec
