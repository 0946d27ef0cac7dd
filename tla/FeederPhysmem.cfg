\* Six pages, one of them uncounted; the feeder keeps two, the source two.
CONSTANTS
  NPages = 6
  Uncounted = 1
  pages_to_keep = 2
  min_free_source_pages = 2
SPECIFICATION FairSpec
INVARIANTS
  PagesConserved
  CountersAgree
  FeederStatsConsistent
  FeederReplenished
PROPERTIES
  ReserveIsLastResort
  AllocReturns
  ImplementsPageAllocator
