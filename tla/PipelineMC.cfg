SPECIFICATION FairSpec
CONSTANTS
  BatchSize = 2
  PageSize = 6
  MaxListing = 14
INVARIANTS
  TypeOK
  NoGap
  NothingLost
  ErrorIsFinal
  PrefetchIsBounded
PROPERTIES
  PassEnds
  ActsAsLoop
CHECK_DEADLOCK FALSE
