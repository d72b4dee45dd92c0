------------------------------- MODULE Robot -------------------------------
(***************************************************************************)
(* The gateway of a robot: how long its controller has been silent,        *)
(* components/iot_usecases/src/iot_uc_field.c, called by                   *)
(* components/iot_profiles/src/iot_profile_rest.c.                         *)
(*                                                                         *)
(* The age of the heartbeat counts the silent samples, 200 ms each.  What  *)
(* the controller is reported to say (emergency stop, battery) is stored   *)
(* and decides nothing else.                                               *)
(***************************************************************************)
EXTENDS Integers, CommandTask

CONSTANTS
  AlarmAge,   \* silent samples after which the heartbeat is missed (5000 ms)
  AgeMod      \* the age wraps here (2^32 ms)

ASSUME RobotAssumption == AlarmAge \in Nat /\ AgeMod \in Nat /\ AgeMod > AlarmAge + 1

VARIABLES
  heard,    \* rb.uart_n > 0
  hb_age,   \* rb.hb_age_ms
  estop,
  flat      \* rb.batt_mv < 18000

robot == <<heard, hb_age, estop, flat>>

RobotInit == heard = FALSE /\ hb_age = 0 /\ estop = FALSE /\ flat = FALSE

OlderCapped(age) == IF age < AlarmAge THEN age + 1 ELSE age   \* mutant: off by one

\* rb.hb_age_ms += 200
Older(age) == (age + 1) % AgeMod

\* iot_profile_robotics_sensor, iot_uc_robot_on_uart: the bytes that came in
\* 10 ms, or none, then iot_uc_robot_uart and iot_uc_robot_hb.
RobotSample ==
  /\ heard' \in BOOLEAN
  /\ hb_age' = IF heard' THEN 0 ELSE Older(hb_age)
  /\ UNCHANGED <<estop, flat, todo>>

\* iot_uc_robot_uart, which a message gives no bytes, _hb, _estop and _batt.
RobotCommands ==
  {Do("heard", FALSE) \o Do("heard?", 0), Do("silent?", 0)}
    \cup {Do("estop", b) : b \in BOOLEAN} \cup {Do("flat", b) : b \in BOOLEAN}

\* iot_profile_robotics_cmd: a message that says move goes to iot_uc_robot_reject.
RobotCommand ==
  /\ Take(RobotCommands)
  /\ UNCHANGED robot

\* On the command task the age is read here and stored by a later step: what
\* the samples in between made of it is overwritten.
RobotStep ==
  \/ Store("heard", heard) /\ UNCHANGED <<hb_age, estop, flat>>
  \/ Store("age", hb_age) /\ UNCHANGED <<heard, estop, flat>>
  \/ Store("estop", estop) /\ UNCHANGED <<heard, hb_age, flat>>
  \/ Store("flat", flat) /\ UNCHANGED <<heard, hb_age, estop>>
  \/ Look("heard?", IF heard THEN Do("age", 0) ELSE <<>>) /\ UNCHANGED robot
  \/ Look("silent?", IF heard THEN <<>> ELSE Do("grow", 0)) /\ UNCHANGED robot
  \/ Look("grow", Do("age", Older(hb_age))) /\ UNCHANGED robot

RobotTypeOK == hb_age \in 0..(AgeMod - 1) /\ {heard, estop, flat} \subseteq BOOLEAN

\* A controller that falls silent for good is reported again and again, however
\* often commands put the age back and although it wraps to 0.
SilenceReported == <>[]~heard => []<>(hb_age > AlarmAge)
=============================================================================
