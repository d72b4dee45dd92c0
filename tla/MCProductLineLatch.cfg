SPECIFICATION Spec
CONSTANTS
  Profiles = {"industrial"}
  Factors = {4}
  CounterMod = 3
  MaxPulses = 4
  MaxBacklog = 2
  MaxSession = 2
  MaxBusOff = 1
  AlarmAge = 2
  AgeMod = 5
INVARIANT FaultLatched
