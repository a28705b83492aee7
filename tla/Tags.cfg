SPECIFICATION Spec
CONSTANTS
  m1 = m1  m2 = m2  m3 = m3  t1 = t1  t2 = t2
  q1 = q1  q2 = q2  p1 = p1
  None = None
  Manifest = {m1, m2, m3}
  Tag = {t2}
  Children <- IndexOfM1
  Subject <- SubjectM1
  Artifact <- CosignT2
  Req = {q1, q2}
  Pass = {p1}
  MinAge = 1
  MaxClock = 1
  MaxFaults = 1
  ValidateReferences = TRUE
  Disconnects = FALSE
SYMMETRY ReqSymmetry
INVARIANTS TypeOK TagEdgesAgree TagsResolve NoDanglingEdges
PROPERTIES PurgeSparesWanted ImplementsTagMap
