CONSTANTS
  Actions = {draft1, email}
  Recommendations = {}
  TaskTypes = {newsletter, billing}
  newsletter = newsletter
  billing = billing
  TaskTypeOf <- MCOneTaskType
  HasEffect = {email}
  Denied = {}
  Requests = {q1, q2}
  OfferThreshold = 2
SPECIFICATION Spec
INVARIANTS
  EffectFailuresAreReturned
CHECK_DEADLOCK FALSE
