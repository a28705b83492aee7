SPECIFICATION Spec
CONSTANTS
  a = a  b = b  c = c  q1 = q1  q2 = q2
  Hole = Hole
  None = None
  MaxLen = 2
  Offered <- Careless
  Req = {q1, q2}
  Purges = FALSE
  Ttl = 0
  MaxFaults = 1
  Disconnects = TRUE
SYMMETRY ReqSymmetry
INVARIANTS TypeOK CorruptOnlyByRace OffsetLostOnlyByRace
PROPERTIES ImplementsBuffer
CHECK_DEADLOCK FALSE
