CONSTANTS
  p1 = p1 p2 = p2 r1 = r1 r2 = r2 Nobody = Nobody
  Requests <- TwoRequests
  Plans <- OnePlan
  Amounts = {1, 2}
  MinFirst = 2
  GapDays = 1
  MaxItems = 2
  MaxPayments = 2
  MaxDay = 1
  Operations <- NoVoid
SPECIFICATION Spec
SYMMETRY Symmetry
INVARIANTS NeverOverpaid NextInStep ScheduleAddsUp
PROPERTIES FirstPaymentRegisters
