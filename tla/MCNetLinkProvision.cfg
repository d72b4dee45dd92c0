SPECIFICATION FairSpec
CONSTANTS
  MaxFailures = 1
  MaxRestarts = 1
PROPERTIES CommissioningJoins
CHECK_DEADLOCK TRUE
