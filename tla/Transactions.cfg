SPECIFICATION FairSpec
CONSTANTS
  t1 = t1
  t2 = t2
  s1 = s1
  k1 = k1
  k2 = k2
  None = None
  Calls = {t1, t2, s1}
  StepsOf <- TwoStatements
  Transactions = {t1, t2}
  Parent <- CalledFromT1
  Conns = {k1, k2}
  Exclusive = TRUE
  AbortsOnError = TRUE
INVARIANTS
  TxInv
  NoForeignWork
  ResolvedMeansCommitted
  RejectedMeansUndone
PROPERTIES
  CommitTogether
  EveryCallSettles
