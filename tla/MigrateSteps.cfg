SPECIFICATION Spec
CONSTANTS
  m1 = m1
  m2 = m2
  m3 = m3
  Free = Free
  Migrators = {m1, m2, m3}
  DirOf <- AllUp
  VersionOf <- OneEdited
  Ids <- TwoIds
  Statements = 2
  Versions = {1, 2}
  Transactional = FALSE
  HasLock = TRUE
  Dropping = {m3}
INVARIANTS
  MigInv
  RecordedMeansRan
  AppliedInOrder
  DoneMeansApplied
