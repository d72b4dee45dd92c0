------------------------------ MODULE Charger ------------------------------
(***************************************************************************)
(* The gateway of an EV charger: the state it shows, its session and its   *)
(* fault flag, components/iot_usecases/src/iot_uc_ev_auto.c, called by     *)
(* components/iot_profiles/src/iot_profile_ev.c.                           *)
(*                                                                         *)
(* Energy and temperature are computed from the millivolts of a sample and *)
(* only reported, but for the limit the temperature is compared with.      *)
(***************************************************************************)
EXTENDS Integers, CommandTask

CONSTANT MaxSession   \* bound: the number the session counter is counted up to

ASSUME ChargerAssumption == MaxSession \in Nat \ {0}

VARIABLES
  chg_state, session,
  ev_fault   \* ev.fault

charger == <<chg_state, session, ev_fault>>

ChargerInit == chg_state = "Idle" /\ session = 0 /\ ev_fault = FALSE

\* ev.temp > 70, with a temperature of 25 + (mv % 200) / 20.
TooHot(mv) == 25 * 20 + (mv % 200) > 70 * 20

\* iot_profile_ev_sensor, iot_uc_ev_on_sample, iot_uc_ev_sample.
ChargerSample ==
  /\ \E mv \in {0, 199, 3300} : ev_fault' = TooHot(mv)
  /\ UNCHANGED <<chg_state, session, todo>>

\* iot_uc_ev_start without a word of the contactor, which it denies as the hook does.
Start == Do("chg_state", "Charging") \o Do("session?", 0)

EndKeepingState == Do("session", 0)   \* mutant: the state is not taken back

\* iot_uc_ev_session with a value of 0.
End == Do("session", 0) \o Do("chg_state", "Idle")

\* iot_uc_ev_start, _stop, _session, _fault, and _sample with any number.
ChargerCommands ==
  {Start, End, Do("chg_state", "Idle"), Do("fault", TRUE) \o Do("chg_state", "Fault"),
   Do("fault", FALSE)}
    \cup {Do("session", n + 1) : n \in {session} \ {MaxSession}}

\* iot_profile_ev_cmd: a message that says contactor goes to iot_uc_ev_reject_contactor.
ChargerCommand ==
  /\ Take(ChargerCommands)
  /\ UNCHANGED charger

\* iot_uc_ev_start: a session begins unless there is one.
OpenSession == IF session = 0 THEN Do("session", 1) ELSE <<>>

ChargerStep ==
  \/ Store("chg_state", chg_state) /\ UNCHANGED <<session, ev_fault>>
  \/ Store("session", session) /\ UNCHANGED <<chg_state, ev_fault>>
  \/ Store("fault", ev_fault) /\ UNCHANGED <<chg_state, session>>
  \/ Look("session?", OpenSession) /\ UNCHANGED charger

ChargerTypeOK ==
  /\ chg_state \in {"Idle", "Charging", "Fault"}
  /\ session \in 0..MaxSession
  /\ ev_fault \in BOOLEAN

\* Whenever a command is done and the gateway shows a charge, the charge has a
\* session: whatever starts, stops, faults and session commands came before.
ChargingHasSession == chg_state = "Charging" /\ Idle => session # 0
=============================================================================
