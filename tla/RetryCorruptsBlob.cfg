SPECIFICATION Spec
CONSTANTS
  a = a  b = b  c = c  q1 = q1  q2 = q2
  Hole = Hole
  None = None
  MaxLen = 2
  Offered <- Honest
  Req = {q1, q2}
  Purges = FALSE
  Ttl = 0
  MaxFaults = 0
  Disconnects = TRUE
SYMMETRY ReqSymmetry
CONSTRAINT OneClient
INVARIANTS CommittedContent
CHECK_DEADLOCK FALSE
