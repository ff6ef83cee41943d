SPECIFICATION LockSpec
CONSTANTS
  c1 = c1
  c2 = c2
  c3 = c3
  o1 = o1
  o2 = o2
  o3 = o3
  Claims = {c1, c2, c3}
  Owners = {o1, o2, o3}
  OwnerOf <- OwnTokens
  Ttl = 2
  RenewTtls = {1, 2}
  Skew <- OneAhead
  FoundRows = TRUE
  MaxTime = 3
INVARIANTS
  LockInv
  MutualExclusion
  NotAllRefused
  
PROPERTY
  LiveRowKept
VIEW LockView
