CONSTANTS
  r1 = r1 r2 = r2 Unmarked = Unmarked
  Requests <- TwoRequests
  MaxAttempts = 2
  Paper <- Papers
  MaxMark = 1
  NeverOverlap <- UnsafePairs
  StartsOvertake = FALSE
SPECIFICATION Spec
SYMMETRY Symmetry
INVARIANTS OneSitting TotalIsSum
PROPERTIES HandedInStays
