----------------------------- MODULE Vibration -----------------------------
(***************************************************************************)
(* Predictive maintenance: the effective vibration, its peak and the       *)
(* health derived from it, components/iot_usecases/src/iot_uc_industrial.c, *)
(* called by components/iot_profiles/src/iot_profile_predictive.c.         *)
(*                                                                         *)
(* An acceleration is a level: below 2 (0), 5 (1), 8 (2) or not (3).       *)
(* Crest factor and trend are computed from the others and only reported.  *)
(***************************************************************************)
EXTENDS Integers, CommandTask

VARIABLES rms, peak, health

vibration == <<rms, peak, health>>

Accelerations == 0..3

\* pm is zero, its health too, until the first sample.
VibrationInit == rms = 0 /\ peak = 0 /\ health = 0

\* What pm.rms becomes, nine tenths of it and a tenth of a reading of the sensor,
\* which is at most 16.5: the level is kept, or left by one towards the reading.
Moved(r, a) == {r} \cup (IF a > r THEN {r + 1} ELSE IF a < r THEN {r - 1} ELSE {})

\* pm.health for each level.
Scores == <<100, 70, 40, 15>>

\* iot_uc_pm_health at the end of a sample.
HealthNow(r) == Scores[r + 1]

\* iot_profile_predictive_sensor, iot_uc_pm_on_sample, iot_uc_pm_features.
VibrationSample ==
  /\ \E a \in Accelerations :
       /\ rms' \in Moved(rms, a)
       /\ peak' = IF a > peak THEN a ELSE peak
  /\ health' = HealthNow(rms')
  /\ UNCHANGED todo

\* iot_uc_pm_features with the acceleration a message names, of any size, so that
\* any level may follow; iot_uc_pm_health and iot_uc_pm_reset_peak.
VibrationCommands ==
  {Do("rms", r) \o Do("peak?", a) \o Do("below", 0) : r \in Accelerations, a \in Accelerations}
    \cup {Do("below", 0), Do("peak", 0)}

VibrationCommand ==
  /\ Take(VibrationCommands)
  /\ UNCHANGED vibration

\* iot_uc_pm_health on the command task: rms is read anew for each comparison.
Compare(level) ==
  IF rms <= level THEN Do("health", Scores[level + 1])
  ELSE IF level < 2 THEN Do("below", level + 1) ELSE Do("health", Scores[4])

VibrationStep ==
  \/ Store("rms", rms) /\ UNCHANGED <<peak, health>>
  \/ Store("peak", peak) /\ UNCHANGED <<rms, health>>
  \/ Store("health", health) /\ UNCHANGED <<rms, peak>>
  \/ /\ Due("peak?")
     /\ Look("peak?", IF Value > peak THEN Do("peak", Value) ELSE <<>>)
     /\ UNCHANGED vibration
  \/ /\ Due("below")
     /\ Look("below", Compare(Value))
     /\ UNCHANGED vibration

VibrationTypeOK ==
  /\ {rms, peak} \subseteq Accelerations
  /\ health = 0 \/ \E i \in DOMAIN Scores : health = Scores[i]

\* The health is the one of the vibration; commands that judged levels the
\* samples have left may disturb it for a while (OutputsCatchUp of ProductLine).
HealthIsOfNow == health = HealthNow(rms)
=============================================================================
