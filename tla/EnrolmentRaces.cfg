CONSTANTS
  s1 = s1 s2 = s2 b1 = b1 b2 = b2 c1 = c1 r1 = r1 r2 = r2 r3 = r3
  Requests <- TwoRequests
  Students <- OneStudent
  Batches <- TwoBatches
  Courses <- OneCourse
  Capacities = {1}
  MaxRows = 2
  AtCentre <- Everywhere
  Operations <- PlacingAndStatus
SPECIFICATION Spec
SYMMETRY Symmetry
INVARIANTS OneLivePerStudentBatch TransferredHasSuccessor 
