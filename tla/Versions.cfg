SPECIFICATION Spec
CONSTANTS
  r1 = r1  r2 = r2  r3 = r3
  None = None
  Record = {r1, r2, r3}
  MaxVersion = 3
  Build <- Builds
SYMMETRY RecordSymmetry
INVARIANTS TypeOK Readable MarkerBehindData
PROPERTIES ResumesWhereItDied
