SPECIFICATION FairSpec
CONSTANTS
  Items = {i1}
  Scripts = {s1, s2}
  Makers = {m1}
  Prices = {1, 2}
  MaxAttempts = 2
  MaxEdits = 2
  NoOne = NoOne
INVARIANT TypeOK
PROPERTIES AppliesOwnClaim RollbackRestoresCost ClaimsEnd
CHECK_DEADLOCK FALSE
