SPECIFICATION EtlSpec
CONSTANTS
  c1 = c1
  c2 = c2
  o1 = o1
  o2 = o2
  p1 = p1
  p2 = p2
  Claims = {c1, c2}
  Owners = {o1, o2}
  OwnerOf <- OwnTokens
  Ttl = 2
  RenewTtls = {}
  Skew <- NoSkew
  FoundRows = TRUE
  MaxTime = 3
  Grain = 2
  Closed = 5
  JobStart = 0
  Entries = {"run", "backfill", "replay"}
  Pruners = {p1}
  InitMarks <- AnyMarks
  Offsets <- BehindUtc
  LeasesOutlast = TRUE
  PruneForward = TRUE
  PrunesApart = TRUE
  PruneFolded = TRUE
  AllowPruned = FALSE
  FaultsUntil = 3
VIEW EtlView
INVARIANTS
  
  RollupComplete
PROPERTIES
  ContractHolds
