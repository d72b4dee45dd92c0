SPECIFICATION Spec
CONSTANTS
  Networks = {home, plant}
  NoNetwork = NoNetwork
  Periods = {50, 1000}
  DefaultPeriod = 1000
  Clouds = {generic, aws}
  Generic = generic
  Absent = Absent
  MaxTroubles = 2
INVARIANTS TypeOK CacheCoherent FlagVouches OnlyAsked
SYMMETRY Symmetry
CHECK_DEADLOCK TRUE
