SPECIFICATION Spec
CONSTANTS
  MaxByte = 30
  None = None
  Universe <- Rows
  Ask <- Asked
  Ns = {None, 0, 1, 9}
  Start <- From
  DefaultPage = 1
  MaxPage = 2
  SearchStep = 2
  SearchCeiling = 3
  CountStep = 1
  CountCeiling = 2
  MaxWrites = 2
INVARIANTS TypeOK PagesAgree PagesAscend WalkComplete OnlyAskedFor TallyHonest SweepExact
