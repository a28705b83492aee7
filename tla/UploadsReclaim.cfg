SPECIFICATION FairSpec
CONSTANTS
  a = a  b = b  c = c  q1 = q1  q2 = q2
  Hole = Hole
  None = None
  MaxLen = 2
  Offered <- Honest
  Req = {q1}
  Purges = TRUE
  Ttl = 1
  MaxFaults = 0
  Disconnects = FALSE
INVARIANTS NoOrphanFile
PROPERTIES AbandonedReclaimed
CHECK_DEADLOCK FALSE
