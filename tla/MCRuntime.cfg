CONSTANTS
  NSteps = 4
  Gated = {2, 4}
  MaxStarts = 1
  Subscriptions = {sub1, sub2}
  NoSubscription = NoSubscription
  MaxFailures = 2
  errorThreshold = 3
  windowMs = 2
  initialCooldownMs = 1
  maxCooldownMs = 3
  MaxTime = 14
  Conns = {c1, c2}
  Requests = {r1, r2}
  MaxDbFaults = 1
  MaxBoots = 1
  OAuthTenants = {"acme", "zen"}
  SubAgents = {"scheduling", "events"}
  MaxFlows = 2
  MaxCallbacks = 2
  StateTtl = 1
  MaxOAuthTime = 2
SPECIFICATION Spec
INVARIANTS
  CompletedChainDidEverything
  
  PausedWorkerIsRescheduled
  TenantsStayApart
  PoolIsClean
PROPERTIES
  RequestsAnswered
CHECK_DEADLOCK FALSE
