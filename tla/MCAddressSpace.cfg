\* Four pages, the upper half negative as a long; no region reaches the top.
CONSTANTS
  Spaces = {a1, a2}
  Regions = {m1, m2, m3}
  NULL = NULL
  NAddresses = 16
  PageSize = 4
  Starts = {0, 1, 6, 8, 11, 13}
  Lens = {0, 4, 5}
  Limit = 15
SPECIFICATION Spec
SYMMETRY Symmetry
INVARIANTS
  RegionsDisjoint
  LookupFindsOwner
  RefusedOnlyIfTaken
  ListedOnce
  MapAssertsHold
