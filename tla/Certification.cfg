CONSTANTS
  r1 = r1 r2 = r2
  Requests <- TwoRequests
  MaxCertificates = 3
  NeverOverlap <- UnsafePairs
SPECIFICATION Spec
SYMMETRY Symmetry
INVARIANTS OneLive ChainHolds LiveIsApproved
PROPERTIES DecisionStands RevocationStands EndedStays
