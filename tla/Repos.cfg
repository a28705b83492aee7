SPECIFICATION Spec
CONSTANTS
  q1 = q1  q2 = q2
  Purger = Purger
  None = None
  MaxId = 2
  Req = {q1, q2}
  MaxFaults = 1
SYMMETRY ReqSymmetry
INVARIANTS TypeOK StrandedOnlyByRace
PROPERTIES FreshStart
