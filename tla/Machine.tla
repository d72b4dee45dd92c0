------------------------------- MODULE Machine -------------------------------
(***************************************************************************)
(* The industrial product: the state machine, its limits and its           *)
(* acknowledgement, components/iot_usecases/src/iot_uc_industrial.c, called *)
(* by components/iot_profiles/src/iot_profile_industrial.c.                *)
(*                                                                         *)
(* A reading is a level: 0 at rest (a current of at most 0.4 A), 2 over     *)
(* every limit, 1 over the limit 0 and not over the limit 1.  The pressure *)
(* is handled as the current is and left out.  The vibration is over its   *)
(* limit or not.  Hours and pulses are counters nothing else depends on.   *)
(***************************************************************************)
EXTENDS Integers, CommandTask

VARIABLES
  reading, limit, vib, st,
  ack_needed,
  old_limit   \* history: the limits before the set_limits at work

machine == <<reading, limit, vib, st, ack_needed, old_limit>>

Quantities == {"t", "i"}
Levels == 0..2

MachineInit ==
  /\ reading = [q \in Quantities |-> 0] /\ limit = [q \in Quantities |-> 1] /\ vib = FALSE
  /\ st = "IDLE" /\ ack_needed = 0
  /\ old_limit = limit

OverLimit(now) == \E q \in Quantities : now[q] > limit[q]

OverUnlessLatched(now) == OverLimit(now) /\ ack_needed = 0   \* mutant: a pending fault is not raised again

\* The first condition of ind_step_state.
Over(now) == OverLimit(now)

\* What ind_step_state makes of the readings when no limit is exceeded.
Settled(now, vibrates) ==
  IF vibrates THEN "WARN"
  ELSE IF st = "FAULT" THEN "FAULT"
  ELSE IF now["i"] > 0 THEN "RUN" ELSE "IDLE"

\* iot_profile_industrial_sensor, iot_uc_ind_on_sample; what its sensors can
\* read: any temperature, and a current of 1 to 3 A.
MachineSample ==
  /\ \E t \in Levels, vibrates \in BOOLEAN :
       LET now == [t |-> t, i |-> 1]
       IN /\ reading' = now /\ vib' = vibrates
          /\ st' = IF Over(now) THEN "FAULT" ELSE Settled(now, vibrates)
          /\ ack_needed' = IF Over(now) THEN 1 ELSE ack_needed
  /\ UNCHANGED <<limit, old_limit, todo>>

SetLimitsCleared(new) ==   \* mutant: the limits are cleared before the new ones are stored
  Do("limit", <<"t", 0>>) \o Do("limit", <<"i", 0>>)
    \o Do("limit", <<"t", new.t>>) \o Do("limit", <<"i", new.i>>)

\* iot_uc_ind_set_limits: one limit after the other.
SetLimits(new) == Do("limit", <<"t", new.t>>) \o Do("limit", <<"i", new.i>>) \o Do("vib", TRUE)

\* iot_uc_ind_sample with a JSON, iot_uc_ind_state, iot_uc_ind_ack; t_alarm is
\* mapped to a set_limits.  Limits a message does not name are stored as they are.
MachineCommands ==
  {SetLimits([t |-> t, i |-> i]) : t \in 0..1, i \in 0..1}
    \cup {Do("reading", <<"t", t>>) \o Do("reading", <<"i", i>>) \o Do("vib", FALSE) \o Do("step", 0) :
            t \in {0, 2}, i \in {0, 2}}
    \cup {Do("step", 0), Do("acknowledge", 0)}

MachineCommand ==
  /\ Take(MachineCommands)
  /\ old_limit' = limit
  /\ UNCHANGED <<reading, limit, vib, st, ack_needed>>

StoreLimit ==
  /\ Due("limit") /\ Done
  /\ limit' = [limit EXCEPT ![Value[1]] = Value[2]]
  /\ UNCHANGED <<reading, vib, st, ack_needed, old_limit>>

StoreReading ==
  /\ Due("reading") /\ Done
  /\ reading' = [reading EXCEPT ![Value[1]] = Value[2]]
  /\ UNCHANGED <<limit, vib, st, ack_needed, old_limit>>

\* A vibration, or a limit for it, that a message brings.
StoreVib ==
  /\ Due("vib") /\ Done
  /\ vib' \in BOOLEAN
  /\ UNCHANGED <<reading, limit, st, ack_needed, old_limit>>

\* ind_step_state on the command task: the verdict, stored by the steps after it.
StepState ==
  /\ Due("step")
  /\ todo' = (IF Over(reading) THEN Do("st", "FAULT") \o Do("ack_needed", 1)
              ELSE IF Settled(reading, vib) = "FAULT" THEN <<>>
              ELSE Do("st", Settled(reading, vib))) \o Tail(todo)
  /\ UNCHANGED machine

AcknowledgeCounted ==   \* mutant: the flag is counted down
  /\ Due("acknowledge")
  /\ todo' = (IF st = "FAULT" THEN Do("st", "IDLE") \o Do("ack_needed", ack_needed - 1) ELSE <<>>)
               \o Tail(todo)
  /\ UNCHANGED machine

\* iot_uc_ind_ack
Acknowledge ==
  /\ Due("acknowledge")
  /\ todo' = (IF st = "FAULT" THEN Do("st", "IDLE") \o Do("ack_needed", 0) ELSE <<>>) \o Tail(todo)
  /\ UNCHANGED machine

StoreState ==
  /\ Due("st") /\ Done
  /\ st' = Value
  /\ UNCHANGED <<reading, limit, vib, ack_needed, old_limit>>

StoreAckNeeded ==
  /\ Due("ack_needed") /\ Done
  /\ ack_needed' = Value
  /\ UNCHANGED <<reading, limit, vib, st, old_limit>>

MachineStep ==
  StoreLimit \/ StoreReading \/ StoreVib \/ StepState \/ Acknowledge \/ StoreState \/ StoreAckNeeded

MachineTypeOK ==
  /\ reading \in [Quantities -> Levels]
  /\ {limit, old_limit} \subseteq [Quantities -> 0..1]
  /\ vib \in BOOLEAN /\ st \in {"IDLE", "RUN", "WARN", "FAULT"} /\ ack_needed \in 0..1

\* The limits the command at work will have stored when it is done.
LimitToBe(q) ==
  LET stores == {i \in DOMAIN todo : todo[i].op = "limit" /\ todo[i].v[1] = q}
  IN IF stores = {} THEN limit[q] ELSE todo[CHOOSE i \in stores : \A j \in stores : j <= i].v[2]

\* A sample that comes while set_limits is at work, between two of the limits it
\* stores, raises no fault that neither the limits before nor those after call for.
NoSpuriousFault ==
  [][MachineSample /\ st # "FAULT" /\ st' = "FAULT" =>
       \E q \in Quantities : reading'[q] > old_limit[q] \/ reading'[q] > LimitToBe(q)]_machine

\* While a limit stays exceeded the machine is in FAULT again and again, whatever
\* acknowledgements, warnings and stale verdicts of commands come in between.
StandingFaultReturns == <>[]OverLimit(reading) => []<>(st = "FAULT")

\* A fault is left by its acknowledgement only: it is "latched".
FaultLatched == ack_needed = 1 /\ Idle => st = "FAULT"
=============================================================================
