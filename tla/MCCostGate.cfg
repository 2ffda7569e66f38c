CONSTANTS
  Calls = {c1, c2}
  Replicas = {r1, r2}
  Roles = {sales, support}
  TaskTypes = {emailAgent}
  Models = {frontier, cheap, unknownModel}
  sales = sales
  support = support
  emailAgent = emailAgent
  frontier = frontier
  cheap = cheap
  unknownModel = unknownModel
  Uncapped = Uncapped
  NoRow = NoRow
  Unpriced = Unpriced
  NoModel = NoModel
  Estimate <- MCEstimate
  LowerModel <- MCLowerModel
  Inputs <- MCInputsUnpriced
  Configs <- MCConfigs
  Actuals = {1, 3}
  LastDay = 1
  DaysPerMonth = 1
SPECIFICATION Spec
INVARIANTS
  TypeOK
  CeilingHolds
  CountersMatchReservations
  GrantIsBacked
  OrphansExplained
  LocalMirrorsDurable
  LocalUnderestimates
PROPERTIES
  ResolvedOnce
SYMMETRY MCSymmetry
CHECK_DEADLOCK FALSE
