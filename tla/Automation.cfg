CONSTANTS
  w1 = w1 w2 = w2 r1 = r1 escalate = escalate relax = relax Nothing = Nothing
  Workers <- TwoWorkers
  Readers <- OneReader
  Levels <- RiskLevels
  MaxChanges = 2
  Verdict <- Verdicts
  MaxClock = 2
  ChangesOverlap = FALSE
  Rules <- TwoRules
  Matches <- Conditions
  Flags <- Actions
  MaxDepth = 3
  MaxRuns = 2
  MaxLosses = 1
SPECIFICATION Spec
SYMMETRY Symmetry
INVARIANTS GuardsHold OneTaskPerRun 
CHECK_DEADLOCK FALSE
