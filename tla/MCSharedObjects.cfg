SPECIFICATION SharedSpec
CONSTANTS
  Length = 2
  Items = {a, b}
  Senders = {s1, s2}
  Receivers = {r1, r2}
  NoItem = NoItem
  Nobody = Nobody
  Flags = {f, g}
  Callers = {c1, c2}
  MaxPolls = 2
  NoRequest = NoRequest
  NoCaller = NoCaller
  Users = {u1, u2}
  NoUser = NoUser
INVARIANTS ClaimsConserved RingIntact BusOwned BusReleased
PROPERTIES ImplementsFifo CallsProgress ImplementsEvents
CHECK_DEADLOCK TRUE
