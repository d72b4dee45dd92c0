----------------------------- MODULE Irrigation -----------------------------
(***************************************************************************)
(* The agriculture product: the pump, its automatic and its inhibition,    *)
(* components/iot_usecases/src/iot_uc_field.c, called by                   *)
(* components/iot_profiles/src/iot_profile_rest.c.                         *)
(*                                                                         *)
(* The soil is dry (ag.moist < ag.thresh) or not; the irrigation window is *)
(* recorded and not used by the code.                                      *)
(***************************************************************************)
EXTENDS CommandTask

VARIABLES
  dry, inhibit,
  pump,   \* ag.pump
  duty    \* the PWM output is on

irrigation == <<dry, inhibit, pump, duty>>

IrrigationInit == dry = TRUE /\ inhibit = FALSE /\ pump = FALSE /\ duty = FALSE

DutyOnChange(on) == IF on = pump THEN duty ELSE on   \* mutant: the output is written on a change only

\* pump_hw in the sensor task, with on after its look at the inhibition.
Duty(on) == on

\* iot_profile_agri_sensor, iot_uc_agri_on_sample: iot_uc_agri_soil and
\* iot_uc_agri_pump_auto.
IrrigationSample ==
  /\ dry' \in BOOLEAN
  /\ pump' = (dry' /\ ~inhibit)
  /\ duty' = Duty(dry' /\ ~inhibit)
  /\ UNCHANGED <<inhibit, todo>>

InhibitLate == Do("switch", FALSE) \o Do("inhibit", TRUE)   \* mutant: the pump is stopped first

\* iot_uc_agri_inhibit with a value other than 0.
Inhibit == Do("inhibit", TRUE) \o Do("switch", FALSE)

\* iot_uc_agri_pump_on, _off, _auto, _soil and _inhibit.
IrrigationCommands ==
  {Inhibit, Do("inhibit", FALSE), Do("auto", 0)}
    \cup {Do("switch", on) : on \in BOOLEAN} \cup {Do("dry", b) : b \in BOOLEAN}

IrrigationCommand ==
  /\ Take(IrrigationCommands)
  /\ UNCHANGED irrigation

\* iot_uc_agri_soil: what a message says of the soil.
StoreDry ==
  /\ Due("dry") /\ Done
  /\ dry' = Value
  /\ UNCHANGED <<inhibit, pump, duty>>

StoreInhibit ==
  /\ Due("inhibit") /\ Done
  /\ inhibit' = Value
  /\ UNCHANGED <<dry, pump, duty>>

\* pump_hw on the command task: the look at the inhibition, then two stores.
\* iot_uc_agri_pump_auto looks at the soil before.
Switch ==
  /\ Due("switch") \/ Due("auto")
  /\ LET on == ~inhibit /\ IF Due("auto") THEN dry ELSE Value
     IN todo' = Do("pump", on) \o Do("duty", on) \o Tail(todo)
  /\ UNCHANGED irrigation

StorePump ==
  /\ Due("pump") /\ Done
  /\ pump' = Value
  /\ UNCHANGED <<dry, inhibit, duty>>

WriteDuty ==
  /\ Due("duty") /\ Done
  /\ duty' = Value
  /\ UNCHANGED <<dry, inhibit, pump>>

IrrigationStep == StoreDry \/ StoreInhibit \/ Switch \/ StorePump \/ WriteDuty

IrrigationTypeOK == {dry, inhibit, pump, duty} \subseteq BOOLEAN

\* The pump stands still when it is inhibited, its output too: no sample that comes
\* while the inhibition is being set starts it again.
InhibitStopsPump == inhibit /\ Idle => ~pump /\ ~duty

\* What is reported of the pump and what it does agree again and again: the next
\* sample mends a command's two stores that another sample came between.
PumpSettles == []<>(pump = duty)
=============================================================================
