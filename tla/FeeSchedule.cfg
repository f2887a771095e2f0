CONSTANTS
  MaxAmount = 3
  MaxLength = 3
  MaxPaid = 7
  LastDay = 3
  MaxPayable = 20
SPECIFICATION ScheduleSpec
CHECK_DEADLOCK FALSE
INVARIANTS CollectedInOrder NextIsOwed SpreadFair
