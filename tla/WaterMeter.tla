----------------------------- MODULE WaterMeter -----------------------------
(***************************************************************************)
(* The water product: components/iot_usecases/src/iot_uc_water.c, with the *)
(* hooks of components/iot_profiles/src/iot_profile_water.c that call it   *)
(* and the way a command takes to it (iot_services.c, iot_security.c,      *)
(* iot_uc.c).                                                              *)
(*                                                                         *)
(* CommandTask says how its two tasks interleave.  iot_gpio_write holds a  *)
(* mutex while it writes the pin, which makes the write one step.          *)
(*                                                                         *)
(* Litres are abstracted to the pulses they stand for, and the flow to     *)
(* what the thresholds of 0.1 and 40 l/min tell apart.                     *)
(***************************************************************************)
EXTENDS Integers, CommandTask

CONSTANTS
  Factors,       \* k-factors (pulses per litre) a command may name
  CounterMod,    \* the pulse counter wraps here (2^32 in the code)
  MaxPulses,     \* bound: pulses that come
  MaxBacklog     \* bound: pulses between two samples

ASSUME WaterAssumption ==
  /\ Factors \subseteq Nat \ {0}
  /\ MaxPulses \in Nat /\ MaxBacklog \in Nat
  /\ CounterMod \in Nat /\ CounterMod > MaxBacklog

VARIABLES
  pulses,       \* the pulses that have come, of which s_count[pin] is the remainder
  last_pulses, flow, k_ppl, billing, valve_open, tamper, frozen,
  pin,          \* level of the valve's pin
  seen,         \* history: pulses at the last sample
  skipped,      \* history: pulses sampled while the register was frozen
  fed,          \* history: a command gave the meter a count of its own
  driven,       \* history: the pin has been written since boot
  shut          \* history: a burst was sampled, and no command at work since could open

water == <<pulses, last_pulses, flow, k_ppl, billing, valve_open, tamper, frozen, pin, seen,
           skipped, fed, driven, shut>>
meter == <<last_pulses, flow, billing>>
history == <<seen, skipped>>

Flows == {"none", "flow", "burst"}

\* w.flow_lpm for d pulses in a second, against 0.1 and w.burst_lpm.
FlowOf(d, k) ==
  CASE 60 * d > 40 * k -> "burst"
    [] 60 * d <= 40 * k /\ 600 * d > k -> "flow"
    [] OTHER -> "none"

DeltaAbs(now, before) == IF now >= before THEN now - before ELSE before - now   \* mutant: a distance

\* The pulses since the last count; a counter that went back counts as none.
Delta(now, before) == IF now >= before THEN now - before ELSE 0

WaterInit ==
  /\ pulses = 0 /\ last_pulses = 0 /\ flow = "none" /\ k_ppl = 2 /\ billing = 0
  /\ valve_open = TRUE /\ pin = FALSE
  /\ tamper = FALSE /\ frozen = FALSE
  /\ seen = 0 /\ skipped = 0 /\ fed = FALSE /\ driven = FALSE /\ shut = FALSE

\* gpio_isr
Pulse ==
  /\ pulses < MaxPulses
  /\ pulses - seen < MaxBacklog
  /\ pulses' = pulses + 1
  /\ UNCHANGED <<meter, k_ppl, valve_open, tamper, frozen, pin, todo, history, fed, driven, shut>>

-----------------------------------------------------------------------------
(* The sensor task *)

\* iot_exti_count, of 32 bits in the code.
Count == pulses % CounterMod

ClosesIfOpen(d) == FlowOf(d, k_ppl) = "burst" /\ valve_open   \* mutant: a closed valve needs no writing

\* iot_uc_water_burst
Closes(d) == FlowOf(d, k_ppl) = "burst"

\* iot_profile_water_sensor, iot_uc_water_on_sample, iot_uc_water_meter: the
\* metering, the leak, which is only reported, and the burst.
WaterSample ==
  LET d == Delta(Count, last_pulses)
  IN /\ last_pulses' = Count
     /\ flow' = FlowOf(d, k_ppl)
     /\ billing' = IF frozen THEN billing ELSE billing + d
     /\ valve_open' = (valve_open /\ ~Closes(d))
     /\ pin' = (pin /\ ~Closes(d))
     /\ driven' = (driven \/ Closes(d))
     /\ shut' = (shut \/ (flow' = "burst" /\ Idle))
     /\ skipped' = IF frozen THEN skipped + (pulses - seen) ELSE skipped
     /\ seen' = pulses
     /\ UNCHANGED <<pulses, k_ppl, tamper, frozen, todo, fed>>

-----------------------------------------------------------------------------
(* The command task *)

ApplyValvePinFirst(open) == Do("pin", open) \o Do("valve", open)   \* mutant: swapped

\* apply_valve
ApplyValve(open) == Do("valve", open) \o Do("pin", open)

OpenUnchecked == ApplyValve(TRUE)   \* mutant: the tamper latch is not looked at

\* iot_uc_water_valve_open
Open == Do("sealed?", TRUE) \o ApplyValve(TRUE)

\* iot_uc_water_tamper
Tamper == Do("tamper", TRUE) \o ApplyValve(FALSE)

\* The commands that store anything, each with its script.
\* "meter" with a count of 0 is the one that names no count.
WaterCommands ==
  {Open, ApplyValve(FALSE), Tamper, Do("burst?", TRUE)}
    \cup {Do("freeze", b) : b \in BOOLEAN}
    \cup {Do("factor", k) : k \in Factors}
    \cup {Do("meter", n) : n \in {0, CounterMod - 1}}

\* cmd_task, iot_profile_water_cmd.
\* Bound: one command gives the meter a count.
WaterCommand ==
  /\ Take({script \in WaterCommands : script[1].op = "meter" => ~fed})
  /\ shut' = (shut /\ todo' # Open)
  /\ UNCHANGED <<pulses, meter, k_ppl, valve_open, tamper, frozen, pin, history, fed, driven>>

CheckTamper ==
  /\ Due("sealed?")
  /\ todo' = IF tamper THEN <<>> ELSE Tail(todo)
  /\ UNCHANGED <<pulses, meter, k_ppl, valve_open, tamper, frozen, pin, history, fed, driven, shut>>

SetValve ==
  /\ Due("valve") /\ Done
  /\ valve_open' = Value
  /\ UNCHANGED <<pulses, meter, k_ppl, tamper, frozen, pin, history, fed, driven, shut>>

WritePin ==
  /\ Due("pin") /\ Done
  /\ pin' = Value /\ driven' = TRUE
  /\ UNCHANGED <<pulses, meter, k_ppl, valve_open, tamper, frozen, history, fed, shut>>

SetTamper ==
  /\ Due("tamper") /\ Done
  /\ tamper' = TRUE
  /\ UNCHANGED <<pulses, meter, k_ppl, valve_open, frozen, pin, history, fed, driven, shut>>

\* iot_uc_water_billing
Freeze ==
  /\ Due("freeze") /\ Done
  /\ frozen' = Value
  /\ UNCHANGED <<pulses, meter, k_ppl, valve_open, tamper, pin, history, fed, driven, shut>>

\* iot_uc_water_set_k, with a factor in its range.
SetFactor ==
  /\ Due("factor") /\ Done
  /\ k_ppl' = Value
  /\ UNCHANGED <<pulses, meter, valve_open, tamper, frozen, pin, history, fed, driven, shut>>

\* iot_uc_water_burst
CheckBurst ==
  /\ Due("burst?")
  /\ todo' = (IF flow = "burst" THEN ApplyValve(FALSE) ELSE <<>>) \o Tail(todo)
  /\ UNCHANGED <<pulses, meter, k_ppl, valve_open, tamper, frozen, pin, history, fed, driven, shut>>

\* iot_uc_water_meter, on the command task: the delta is computed, then stored
\* count by count; a sample in between is overwritten.
Meter ==
  /\ Due("meter")
  /\ LET d == Delta(Value, last_pulses)
     IN todo' = Do("last", Value) \o Do("flow", FlowOf(d, k_ppl))
                  \o (IF frozen THEN <<>> ELSE Do("bill", d)) \o Do("burst?", TRUE) \o Tail(todo)
  /\ fed' = TRUE
  /\ UNCHANGED <<pulses, meter, k_ppl, valve_open, tamper, frozen, pin, history, driven, shut>>

StoreLast ==
  /\ Due("last") /\ Done
  /\ last_pulses' = Value
  /\ UNCHANGED <<pulses, flow, billing, k_ppl, valve_open, tamper, frozen, pin, history, fed, driven,
                 shut>>

StoreFlow ==
  /\ Due("flow") /\ Done
  /\ flow' = Value
  /\ UNCHANGED <<pulses, last_pulses, billing, k_ppl, valve_open, tamper, frozen, pin, history, fed,
                 driven, shut>>

\* billing += delta: it is read here and stored by StoreBilling.
ReadBilling ==
  /\ Due("bill")
  /\ todo' = Do("billing", billing + Value) \o Tail(todo)
  /\ UNCHANGED <<pulses, meter, k_ppl, valve_open, tamper, frozen, pin, history, fed, driven, shut>>

StoreBilling ==
  /\ Due("billing") /\ Done
  /\ billing' = Value
  /\ UNCHANGED <<pulses, last_pulses, flow, k_ppl, valve_open, tamper, frozen, pin, history, fed,
                 driven, shut>>

WaterStep ==
  \/ CheckTamper \/ SetValve \/ WritePin \/ SetTamper \/ Freeze \/ SetFactor \/ CheckBurst
  \/ Meter \/ StoreLast \/ StoreFlow \/ ReadBilling \/ StoreBilling

-----------------------------------------------------------------------------
(* Properties *)

\* Every variable has a value the code can give it.
WaterTypeOK ==
  /\ pulses \in 0..MaxPulses /\ seen \in 0..pulses /\ skipped \in 0..pulses
  /\ last_pulses \in 0..(CounterMod - 1)
  /\ flow \in Flows
  /\ k_ppl \in Factors \cup {2}
  /\ billing \in Nat
  /\ {valve_open, tamper, frozen, pin, fed, driven, shut} \subseteq BOOLEAN

\* A latched tamper keeps the valve shut, in the register and at the pin, whatever
\* bursts and commands follow it: the check of iot_uc_water_valve_open and the
\* three statements of iot_uc_water_tamper on one side, samples on the other.
TamperSealsValve == tamper /\ Idle => ~valve_open /\ ~pin

\* The register never says open while the pin, once written, is shut: a sample
\* that shuts both between the two statements of apply_valve leaves at most the
\* pin open.  At boot the register says open and the pin has not been written.
OpenMeansOpen == valve_open /\ driven /\ Idle => pin

\* Once a burst has been sampled with no command at work, the pin stays shut until
\* a command to open the valve comes: a race that left it open is healed then.
BurstHolds == shut => ~pin

\* Every pulse is billed at most once, and none that was sampled while the register
\* was frozen, in spite of a counter that wraps.  A command that gives the meter a
\* count of its own, or none, makes it bill from there, and again from there on: it
\* costs at most one round of the counter, however the samples fall between its
\* statements.
NeverOverbilled == billing + skipped <= seen + (IF fed THEN CounterMod - 1 ELSE 0)
=============================================================================
