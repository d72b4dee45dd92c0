SPECIFICATION FairSpec
CONSTANTS
  Tasks = {t1, t2}
  t1 = t1
  t2 = t2
  Timeout = 5
INVARIANTS WayBack NeverStuckBusy
PROPERTY Recovers
