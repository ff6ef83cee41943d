SPECIFICATION Spec
CONSTANTS
  m1 = m1
  m2 = m2
  m3 = m3
  Free = Free
  Migrators = {m1, m2, m3}
  DirOf <- UpThenDown
  VersionOf <- SameFiles
  Ids <- TwoIds
  Statements = 2
  Versions = {1, 2}
  Transactional = TRUE
  HasLock = TRUE
  Dropping = {}
INVARIANTS
  RunsOnce
