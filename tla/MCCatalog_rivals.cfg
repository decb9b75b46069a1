CONSTANTS
  Creators = {p1, p2, p3}
  Founders = {}
  Editors = {}
  Shelves = {shelf}
  ShelfSlug <- MCShelfSlug
  Names <- MCNames
  Slugs <- MCSlugs
  Candidates <- MCCandidates
  Posts <- Rivals
  Patches <- NoPatches
  Deletes = FALSE
  Closes = FALSE
  MaxSuffix = 4
  Tries = 2
  MaxInt = 2
  None = None
  red = red
  redTwo = redTwo
  shelf = shelf
  annex = annex
SPECIFICATION FairSpec
INVARIANT ConflictMeansRivals
PROPERTY EveryCreateEnds
