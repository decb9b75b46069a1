CONSTANTS
  Creators = {p1}
  Founders = {}
  Editors = {e1}
  Shelves = {shelf, annex}
  ShelfSlug <- MCShelfSlug
  Names <- MCNames
  Slugs <- MCSlugs
  Candidates <- MCCandidates
  Posts <- OnePost
  Patches <- Changes
  Deletes = TRUE
  Closes = FALSE
  MaxSuffix = 4
  Tries = 2
  MaxInt = 2
  None = None
  red = red
  redTwo = redTwo
  shelf = shelf
  annex = annex
SPECIFICATION Spec
PROPERTY DeletedStaysDeleted
