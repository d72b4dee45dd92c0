----------------------------- MODULE CanGateway -----------------------------
(***************************************************************************)
(* The automotive product: frames of the vehicle's bus, filtered by their  *)
(* identifier and decoded, components/iot_usecases/src/iot_uc_ev_auto.c,   *)
(* called by components/iot_profiles/src/iot_profile_automotive.c.         *)
(*                                                                         *)
(* The decoded speed, engine speed and temperature are of a frame, or the  *)
(* least there are, which is what a message decodes to.                    *)
(***************************************************************************)
EXTENDS Integers, CommandTask

CONSTANT MaxBusOff   \* bound: times a message counts a bus-off

ASSUME CanAssumption == MaxBusOff \in Nat

VARIABLES last_id, accepted, signals, bus_off, dtc

can == <<last_id, accepted, signals, bus_off, dtc>>

CanInit ==
  last_id = 0 /\ accepted = FALSE /\ signals = "none" /\ bus_off = 0 /\ dtc = 0

\* iot_uc_auto_filter
Accepts(id) == 256 <= id /\ id <= 2047

\* iot_profile_automotive_sensor takes the identifier from one byte of what the
\* SPI bus answers; iot_uc_auto_on_frame.
CanSample ==
  /\ \E byte \in {0, 255} :
       /\ last_id' = byte
       /\ accepted' = Accepts(byte)
       /\ signals' = IF Accepts(byte) THEN "frame" ELSE signals
  /\ UNCHANGED <<bus_off, dtc, todo>>

\* iot_uc_auto_filter and _decode, which a message gives zeros; _bus_off and _dtc.
CanCommands ==
  {Do("last_id", 0) \o Do("accepted", Accepts(0)), Do("signals", "least")}
    \cup {Do("bus_off", n + 1) : n \in {bus_off} \ {MaxBusOff}}
    \cup {Do("dtc", code) : code \in 0..1}

\* iot_profile_automotive_cmd: a message that says can_tx goes to iot_uc_auto_reject_tx.
CanCommand ==
  /\ Take(CanCommands)
  /\ UNCHANGED can

CanStep ==
  \/ Store("last_id", last_id) /\ UNCHANGED <<accepted, signals, bus_off, dtc>>
  \/ Store("accepted", accepted) /\ UNCHANGED <<last_id, signals, bus_off, dtc>>
  \/ Store("signals", signals) /\ UNCHANGED <<last_id, accepted, bus_off, dtc>>
  \/ Store("bus_off", bus_off) /\ UNCHANGED <<last_id, accepted, signals, dtc>>
  \/ Store("dtc", dtc) /\ UNCHANGED <<last_id, accepted, signals, bus_off>>

CanTypeOK ==
  /\ last_id \in 0..255 /\ accepted \in BOOLEAN
  /\ signals \in {"none", "frame", "least"}
  /\ bus_off \in 0..MaxBusOff /\ dtc \in 0..1
=============================================================================
