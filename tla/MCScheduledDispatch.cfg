CONSTANTS
  Workers = {w1, w2}
  Requests = {r1, r2}
  Tasks = {t1}
  MaxQueued = 1
  MaxBatches = 2
  MaxBudget = 1
  MaxCrashes = 1
SPECIFICATION Spec
SYMMETRY Symmetry
INVARIANTS
  PauseOverrunBounded
  
  RunNowBounded
