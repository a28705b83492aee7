SPECIFICATION Spec
CONSTANTS
  MAX_NAME_LEN = 5
  MAX_TAG_LEN = 3
  None = None
  Junk = Junk
  Minted <- Generated
  Scenes <- AllScenes
  Held <- X
  referrers_enabled = TRUE
  chunk_size = 2
INVARIANTS RoutedAsMeant AuthSound ServedExact
PROPERTY Delivered
