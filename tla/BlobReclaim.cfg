SPECIFICATION FairSpec
CONSTANTS
  d1 = d1  r1 = r1  m1 = m1
  q1 = q1  q2 = q2  p1 = p1  s1 = s1
  None = None
  Digest = {d1}
  Repo = {r1}
  Manifest = {m1}
  Layers <- OneLayer
  Foreign <- NoForeign
  Shard = {s1}
  ShardOf <- OneShard
  Req = {q1}
  Pass = {p1}
  Grace = 1
  PassSpan = 0
  TaskSpan = 0
  MaxFaults = 1
  Disconnects = TRUE
  ValidateReferences = TRUE
PROPERTIES GarbageReclaimed LocksReleased
