CONSTANTS
  Submissions = {s1, s2, s3}
  DedupKeys = {digest, ceoReview, manual}
  Ceo = {ceoReview}
  WantsEffect = {digest, ceoReview}
  Batchable = {digest, manual}
  Gated = {digest, ceoReview}
SPECIFICATION FairSpec
INVARIANTS
  TypeOK
  ExecutedAtMostOnce
  StatusIsEarned
  NoUnearnedEffect
  ReservationHeld
  LedgerAccountsForRun
PROPERTIES
  StatusMovesForward
  TaskFinishes

CHECK_DEADLOCK FALSE
