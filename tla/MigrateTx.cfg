SPECIFICATION Spec
CONSTANTS
  m1 = m1
  m2 = m2
  m3 = m3
  Free = Free
  Migrators = {m1, m2, m3}
  DirOf <- AllUp
  VersionOf <- OneEdited
  Ids <- TwoIds
  Statements = 2
  Versions = {1, 2}
  Transactional = TRUE
  HasLock = FALSE
  Dropping = {}
PROPERTY
  HistoryHolds
