SPECIFICATION Spec
CONSTANTS
    None = None
    MaxByte = 19
    Names <- MCNames
    Digests <- MCDigests
    Tags <- MCTags
    Bodies = {b1}
    HoursPerDay = 2
    MAX_BUCKETS = 3
    MaxCount = 1
    MaxHour = 2
    MaxPulls = 2
    MaxChunks = 1
    MaxIds = 2
INVARIANTS TypeOK Conserved WindowExact
