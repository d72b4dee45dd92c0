SPECIFICATION FairSpec
CONSTANTS
  MaxFailures = 6
  MaxRestarts = 1
INVARIANTS TypeOK LinksKnown
PROPERTY ServiceReturns
CHECK_DEADLOCK TRUE
