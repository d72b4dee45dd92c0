------------------------------ MODULE Tracker ------------------------------
(***************************************************************************)
(* The asset tracker: signal, motion, battery and fence,                   *)
(* components/iot_usecases/src/iot_uc_field.c, called by                   *)
(* components/iot_profiles/src/iot_profile_rest.c.                         *)
(*                                                                         *)
(* A signal strength is a level: 0 is weaker than any limit of the fence,  *)
(* 1 stronger than the usual limit of -90.  The sleep interval is recorded *)
(* and not used by the code.                                               *)
(***************************************************************************)
EXTENDS Integers, CommandTask

VARIABLES
  rssi, moving,
  batt_low,    \* tr.batt_mv < 3300
  geo_inside

tracker == <<rssi, moving, batt_low, geo_inside>>

TrackerInit == rssi = 1 /\ moving = FALSE /\ batt_low = FALSE /\ geo_inside = TRUE

\* iot_profile_tracker_sensor, which gives iot_uc_trk_on_sample the same values
\* each time; the fence is not looked at.
TrackerSample ==
  /\ rssi' = 1 /\ moving' = FALSE /\ batt_low' = FALSE
  /\ UNCHANGED <<geo_inside, todo>>

\* iot_uc_trk_beacon, _motion, _batt and _geo; a message that names the motion has
\* it set before it is looked at.
TrackerCommands ==
  {Do("rssi", r) : r \in 0..1} \cup {Do("batt_low", b) : b \in BOOLEAN}
    \cup {Do("moving", FALSE)} \cup {Do("moving", TRUE) \o Do("moving", b) : b \in BOOLEAN}
    \cup {Do("fence", limit) : limit \in 0..2}

\* iot_profile_tracker_cmd
TrackerCommand ==
  /\ Take(TrackerCommands)
  /\ UNCHANGED tracker

TrackerStep ==
  \/ Store("rssi", rssi) /\ UNCHANGED <<moving, batt_low, geo_inside>>
  \/ Store("moving", moving) /\ UNCHANGED <<rssi, batt_low, geo_inside>>
  \/ Store("batt_low", batt_low) /\ UNCHANGED <<rssi, moving, geo_inside>>
  \/ Store("inside", geo_inside) /\ UNCHANGED <<rssi, moving, batt_low>>
  \/ /\ Due("fence")
     /\ Look("fence", Do("inside", rssi >= Value))
     /\ UNCHANGED tracker

TrackerTypeOK == rssi \in 0..1 /\ {moving, batt_low, geo_inside} \subseteq BOOLEAN
=============================================================================
