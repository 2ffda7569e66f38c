CONSTANTS
  Submissions = {s1, s2}
  DedupKeys = {digest, manual}
  Ceo = {}
  WantsEffect = {digest}
  Batchable = {digest}
  Gated = {digest}
SPECIFICATION Spec
INVARIANTS
  GateBeforeExecutor
CHECK_DEADLOCK FALSE
