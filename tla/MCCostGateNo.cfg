CONSTANTS
  Calls = {c1, c2}
  Replicas = {r1}
  Roles = {sales, support}
  TaskTypes = {emailAgent}
  Models = {frontier, cheap, unknownModel}
  sales = sales
  support = support
  emailAgent = emailAgent
  frontier = frontier
  cheap = cheap
  unknownModel = unknownModel
  Uncapped = Uncapped
  NoRow = NoRow
  Unpriced = Unpriced
  NoModel = NoModel
  Estimate <- MCEstimate
  LowerModel <- MCLowerModel
  Inputs <- MCFrontierInputs
  Configs <- MCMonthly
  Actuals = {2}
  LastDay = 1
  DaysPerMonth = 1
SPECIFICATION Spec
PROPERTIES
  LocalNoIsDurableNo
CHECK_DEADLOCK FALSE
