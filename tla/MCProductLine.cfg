SPECIFICATION Spec
CONSTANTS
  Profiles = {"industrial", "predictive", "agriculture", "energy", "coldchain", "water", "ev",
              "automotive", "tracker", "robotics"}
  Factors = {4}
  CounterMod = 3
  MaxPulses = 4
  MaxBacklog = 2
  MaxSession = 2
  MaxBusOff = 1
  AlarmAge = 2
  AgeMod = 5
INVARIANTS
  TypeOK InhibitStopsPump TamperSealsValve OpenMeansOpen BurstHolds NeverOverbilled
  ChargingHasSession
PROPERTIES NoSpuriousFault StandingFaultReturns OutputsCatchUp ExcursionStaysLoud SilenceAlarms
