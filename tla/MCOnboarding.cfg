CONSTANTS
  BankSize = 40
  NameStart <- MCNameStart
  MaxCost = 3
  CustomizeEstimate = 1
  ValidateEstimate = 1
  BatchEstimate = 1
  Slack = 1
  HitProfiles <- MCHits
  Additions <- MCAdditions
  Removals <- MCRemovals
  MaxAdded = 1
  CorrectedHints = {"cfo", "compliance"}
  MaxBatches = 2
  Tenants = {"a", "b"}
  Reqs = {"p", "q"}
  EditableTasks = {"t1", "t2"}
  CadenceTasks = {"t1", "t2"}
  EditCadences = {"nightly", "monthly"}
  CharterReqs = {"p", "q"}
  MaxVersions = 2
  MaxEdits = 2
  MaxSyncFaults = 1
  Options <- MCOptions
  BranchOf <- MCBranchOf
  Guess <- MCGuess
  MaxMounts = 2
  MaxInFlight = 2
  MaxWebFaults = 1
  Items <- MCItems
  Recommendations = {"i2"}
  TaskTypes = {"o1"}
  Providers = {"p1", "p2"}
  CharterTexts = {"x", "y"}
  MaxScreenFaults = 1
  FoundTasks <- MCFoundTasks
  AddedTask = "new"
  MaxChartEdits = 2
  MaxChartFaults = 1
SPECIFICATION Spec
INVARIANTS
  AccountedSpendWithinCap
  FinishedChartIsSound
  OutcomeMatchesMoney
  AcceptedCompanyRuns
  
PROPERTIES
  ClaimIsFinal
CHECK_DEADLOCK FALSE
