CONSTANTS
  p1 = p1 p2 = p2 r1 = r1 r2 = r2 Nobody = Nobody
  Requests <- OneRequest
  Plans <- OnePlan
  Amounts = {1, 2}
  MinFirst = 2
  GapDays = 1
  MaxItems = 2
  MaxPayments = 3
  MaxDay = 2
  Operations <- AllOperations
SPECIFICATION Spec
PROPERTIES LedgerKept StatusFollowsLedger
