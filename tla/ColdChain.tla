------------------------------ MODULE ColdChain ------------------------------
(***************************************************************************)
(* The cold chain product: excursion and door alarm and their              *)
(* acknowledgement, components/iot_usecases/src/iot_uc_field.c, called by  *)
(* components/iot_profiles/src/iot_profile_rest.c.                         *)
(*                                                                         *)
(* The goods are hot (cd.t > cd.t_max) or not; humidity and the minutes of *)
(* an excursion are recorded and decide nothing.                           *)
(***************************************************************************)
EXTENDS CommandTask

VARIABLES hot, door, excursion_alarm, acked

cold == <<hot, door, excursion_alarm, acked>>

ColdInit == hot = FALSE /\ door = FALSE /\ excursion_alarm = FALSE /\ acked = FALSE

AckedForGood == IF hot' /\ ~hot THEN FALSE ELSE acked   \* mutant: only a new excursion withdraws it

\* iot_uc_cold_excursion: an excursion withdraws the acknowledgement.
Acked == IF hot' THEN FALSE ELSE acked

\* iot_profile_coldchain_sensor, iot_uc_cold_on_sample: iot_uc_cold_sample,
\* iot_uc_cold_door, with a door its sensors report shut, and iot_uc_cold_excursion.
ColdSample ==
  /\ hot' \in BOOLEAN
  /\ excursion_alarm' = (hot' \/ door)
  /\ door' = FALSE
  /\ acked' = Acked
  /\ UNCHANGED todo

\* iot_uc_cold_sample, _excursion, _door and _ack.
ColdCommands ==
  {Do("hot", b) \o Do("sound", 0) : b \in BOOLEAN}
    \cup {Do("excursion?", 0), Do("acked", TRUE) \o Do("silence?", 0)}
    \cup {Do("door", FALSE) \o Do("door", b) \o Do("door?", 0) : b \in BOOLEAN}

ColdCommand ==
  /\ Take(ColdCommands)
  /\ UNCHANGED cold

\* The stores of a command, and what its use cases look at before they store.
ColdStep ==
  \/ Store("hot", hot) /\ UNCHANGED <<door, excursion_alarm, acked>>
  \/ Store("door", door) /\ UNCHANGED <<hot, excursion_alarm, acked>>
  \/ Store("acked", acked) /\ UNCHANGED <<hot, door, excursion_alarm>>
  \/ Store("excursion_alarm", excursion_alarm) /\ UNCHANGED <<hot, door, acked>>
  \/ /\ \/ Look("sound", Do("excursion_alarm", hot \/ door))
        \/ Look("excursion?", IF hot THEN Do("excursion_alarm", TRUE) \o Do("acked", FALSE) ELSE <<>>)
        \/ Look("door?", IF door THEN Do("excursion_alarm", TRUE) ELSE <<>>)
        \/ Look("silence?", IF ~door /\ ~hot THEN Do("excursion_alarm", FALSE) ELSE <<>>)
     /\ UNCHANGED cold

ColdTypeOK == {hot, door, excursion_alarm, acked} \subseteq BOOLEAN

\* While the goods stay hot the alarm sounds unacknowledged again and again: an
\* acknowledgement, or one that judged a cool sample, is good until the next sample only.
ExcursionStaysLoud == <>[]hot => []<>(excursion_alarm /\ ~acked)
=============================================================================
