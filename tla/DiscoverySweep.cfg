CONSTANTS
  u1 = u1
  u2 = u2
  i1 = i1
  s1 = s1
  s2 = s2
  host1 = host1
  host2 = host2
  Urls = {u1, u2}
  Seed = u1
  Items = {i1}
  MaxSweeps = 1
  MaxPages = 2
  Sessions = {s1, s2}
  ByHand = {s2}
  Name <- TwoHosts
  NoName = NoName
  Lease = 1
  Cooldown = 1
SPECIFICATION FairSpec
INVARIANTS TypeOK CursorIsWork CompletedIsReconciled
PROPERTIES LeaseExcludes SweepCompletes KeepsContract
