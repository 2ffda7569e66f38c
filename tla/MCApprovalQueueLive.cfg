CONSTANTS
  Actions = {draft1, draft2}
  Recommendations = {digest}
  TaskTypes = {newsletter, billing}
  newsletter = newsletter
  billing = billing
  TaskTypeOf <- MCOneTaskType
  HasEffect = {}
  Denied = {}
  Requests = {q1, q2}
  OfferThreshold = 1
SPECIFICATION FairSpec
PROPERTIES
  SpotCheckRejectionRevokes
CHECK_DEADLOCK FALSE
