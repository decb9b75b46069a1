CONSTANTS
  Creators = {p1, p2}
  Founders = {k1}
  Editors = {e1}
  Shelves = {shelf, annex}
  ShelfSlug <- MCShelfSlug
  Names <- MCNames
  Slugs <- MCSlugs
  Candidates <- MCCandidates
  Posts <- Flawed
  Patches <- Changes
  Deletes = TRUE
  Closes = TRUE
  MaxSuffix = 4
  Tries = 2
  MaxInt = 2
  None = None
  red = red
  redTwo = redTwo
  shelf = shelf
  annex = annex
SPECIFICATION Spec
SYMMETRY CreatorSymmetry
INVARIANTS
  TypeOK
  CreatesAreWhole
  ProductsAreShelved
