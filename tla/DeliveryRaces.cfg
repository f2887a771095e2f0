CONSTANTS
  w1 = w1 w2 = w2 m1 = m1 m2 = m2 d1 = d1 d2 = d2 r1 = r1 r2 = r2 Nothing = Nothing
  Workers <- TwoWorkers
  Messages <- NoMessage
  Allowed <- NoMessage
  Deliveries <- OneDelivery
  ChannelOf <- OneWhatsApp
  Requests <- TwoRequests
  MaxAttempts = 2
  MaxIds = 3
  MaxRetries = 1
  MaxFaults = 1
  BrokerUp = TRUE
  Operations <- All
SPECIFICATION FairSpec
INVARIANTS SentWasSent NoneForgotten SendsExplained
PROPERTIES CancelledIsFinal DeliveriesConclude
CHECK_DEADLOCK FALSE
