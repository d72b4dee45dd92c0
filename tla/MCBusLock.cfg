SPECIFICATION BusSpec
CONSTANTS
  Users = {u1, u2, u3}
  NoUser = NoUser
INVARIANT TimeoutReported
CHECK_DEADLOCK TRUE
