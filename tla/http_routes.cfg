SPECIFICATION MCSpec
CONSTANTS
  Modes = {"AUTO", "CHUNK"}
  Small = 1
  Large = 2
  Chunk = 2
  Sizes = {0, 2, 3}
  Ranges <- MCRanges
  Routes = {"hard", "mount", "try"}
  Omitted = Omitted
  Junk = Junk
  Star = Star
  MaxChanges = 1
  MaxRequests = 2
  Wrap = 16
  Methods = {"GET", "POST"}
  Names = {":x", ":y"}
  Illegal = {"!"}
  Patterns <- MCPatterns
  Mounts <- MCMounts
  Requests <- MCRequests
  Files <- MCFiles
  MaxRoutes = 3
INVARIANTS    LookupIsBest
CHECK_DEADLOCK FALSE
