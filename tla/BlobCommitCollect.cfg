SPECIFICATION Spec
CONSTANTS
  d1 = d1  r1 = r1  m1 = m1
  q1 = q1  q2 = q2  p1 = p1  s1 = s1
  None = None
  Digest = {d1}
  Repo = {r1}
  Manifest = {m1}
  Layers <- OneLayer
  Foreign <- NoForeign
  Shard = {s1}
  ShardOf <- OneShard
  Req = {q1, q2}
  Pass = {p1}
  Grace = 2
  PassSpan = 1
  TaskSpan = 1
  MaxFaults = 1
  Disconnects = FALSE
  ValidateReferences = TRUE
SYMMETRY ReqSymmetry
INVARIANTS TypeOK BytesBehindRecords LeaksOnlyByFault
PROPERTIES GraceHonoured
