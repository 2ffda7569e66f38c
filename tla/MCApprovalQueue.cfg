CONSTANTS
  Actions = {draft1, draft2, email, invoice}
  Recommendations = {digest}
  TaskTypes = {newsletter, billing}
  newsletter = newsletter
  billing = billing
  TaskTypeOf <- MCOneTaskType
  HasEffect = {email}
  Denied = {invoice}
  Requests = {q1, q2, q3}
  OfferThreshold = 2
SPECIFICATION Spec
INVARIANTS
  TypeOK
  EffectOnlyAfterApproval
  OfferMatchesStreak
  AutonomyIsEarned
PROPERTIES
  ImplementsLifecycle
SYMMETRY MCSymmetry
CHECK_DEADLOCK FALSE
