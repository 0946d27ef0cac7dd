\* Four CPUs contend for one mutex.
CONSTANTS
  CPUs = {c1, c2, c3, c4}
  NoName = NoName
SPECIFICATION FairSpec
INVARIANTS
  MutualExclusion
  BlockerIsConcerned
  HolderNotMisnamed
PROPERTIES
  LockReleased
