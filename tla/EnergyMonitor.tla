---------------------------- MODULE EnergyMonitor ----------------------------
(***************************************************************************)
(* The energy product: measuring, the limits, the alarm and its light,     *)
(* components/iot_usecases/src/iot_uc_energy.c, called by                  *)
(* components/iot_profiles/src/iot_profile_energy.c.                       *)
(*                                                                         *)
(* A measurement exceeds the power limit, another one, or none; the energy *)
(* registers, the power factor and the scales are numbers that decide      *)
(* nothing else.                                                           *)
(***************************************************************************)
EXTENDS CommandTask

VARIABLES
  exceeds,   \* the limits that what was measured exceeds
  alarm,     \* s.alarm
  led        \* level of the alarm's pin

energy == <<exceeds, alarm, led>>

LimitKinds == {"over_w", "voltage_or_current"}

EnergyInit == exceeds = {} /\ alarm = FALSE /\ led = FALSE

\* iot_uc_energy_led_alarm at the end of a measurement.
Light(on) == on

\* iot_profile_energy_sensor, iot_uc_energy_on_adc, iot_uc_energy_measure, eval_alarms.
EnergySample ==
  /\ exceeds' \in SUBSET LimitKinds
  /\ alarm' = (exceeds' # {})
  /\ led' = Light(exceeds' # {})
  /\ UNCHANGED todo

\* iot_uc_energy_measure with a JSON; set_limits, calibrate and pf, which change
\* what is exceeded; over_power, over_voltage, under_voltage and over_current,
\* which evaluate one limit; led_alarm.
EnergyCommands ==
  {Do("exceeds", over) \o Do("evaluate", LimitKinds) \o Do("light?", 0) : over \in SUBSET LimitKinds}
    \cup {Do("exceeds", over) : over \in SUBSET LimitKinds}
    \cup {Do("evaluate", {kind}) : kind \in LimitKinds}
    \cup {Do("light?", 0)}

EnergyCommand ==
  /\ Take(EnergyCommands)
  /\ UNCHANGED energy

StoreExceeds ==
  /\ Due("exceeds") /\ Done
  /\ exceeds' = Value
  /\ UNCHANGED <<alarm, led>>

\* eval_alarms on the command task: the comparisons, then the store.
Evaluate ==
  /\ Due("evaluate")
  /\ todo' = Do("alarm", exceeds \cap Value # {}) \o Tail(todo)
  /\ UNCHANGED energy

StoreAlarm ==
  /\ Due("alarm") /\ Done
  /\ alarm' = Value
  /\ UNCHANGED <<exceeds, led>>

\* iot_uc_energy_led_alarm: the alarm is read, then the pin is written.
ReadAlarm ==
  /\ Due("light?")
  /\ todo' = Do("led", alarm) \o Tail(todo)
  /\ UNCHANGED energy

WriteLed ==
  /\ Due("led") /\ Done
  /\ led' = Value
  /\ UNCHANGED <<exceeds, alarm>>

EnergyStep == StoreExceeds \/ Evaluate \/ StoreAlarm \/ ReadAlarm \/ WriteLed

EnergyTypeOK == exceeds \subseteq LimitKinds /\ alarm \in BOOLEAN /\ led \in BOOLEAN

\* While a limit stays exceeded the light is on again and again: a command that
\* evaluated another limit, or wrote the light from an alarm it read before a
\* sample raised it, puts it out until the next sample only.
LedCatchesUp == <>[](exceeds # {}) => []<>led
=============================================================================
