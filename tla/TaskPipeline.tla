---------------------------- MODULE TaskPipeline ----------------------------
(***************************************************************************)
(* The task architecture (components/iot_rtos/src/iot_tasks.c) with the    *)
(* boot sequence that starts it (main/main.c), the interrupt that drives   *)
(* it (components/iot_drivers/src/iot_exti.c) and the MQTT pump that       *)
(* drains it (components/iot_mqtt/src/iot_mqtt.c):                         *)
(*                                                                         *)
(*   ISR -> sensor_isr_sem -> sensor -> sample_q -> proc -> telemetry_q    *)
(*       -> mqtt_pump -> client -> broker                                  *)
(*                                       BLE, MQTT -> command_q -> cmd      *)
(*                                                                         *)
(* A sample is its sequence number; what the sensor hook writes into it is *)
(* left out, but for samples built without a hook.  The queues are the     *)
(* FIFOs of BoundedFifo, which HostQueue implements.                       *)
(***************************************************************************)
EXTENDS Naturals, Sequences, FiniteSets

CONSTANTS
  SampleLen, TelemetryLen, CommandLen,   \* lengths of the three queues
  Commands, Shutdown, NoCommand,         \* what arrives; Shutdown is plt.shutdown
  ReturnAborts,   \* the port aborts when a task function returns (FreeRTOS)
  MaxSeq,         \* bound: no more samples than this are taken
  MaxUnacked      \* bound: no more messages than this wait for an acknowledgement

ASSUME PipelineAssumption ==
  /\ SampleLen \in Nat /\ TelemetryLen \in Nat /\ CommandLen \in Nat
  /\ Shutdown \in Commands /\ NoCommand \notin Commands
  /\ ReturnAborts \in BOOLEAN
  /\ MaxSeq \in Nat /\ MaxUnacked \in Nat

VARIABLES
  main,         \* the next statement of app_main
  at,           \* per task, the next statement of its loop
  hooks,        \* which of s_sensor_hook and s_cmd_hook are set
  exti,         \* gpio_isr is installed
  inbound,      \* a BLE or MQTT callback may deliver commands
  isr_sem, sample_q, telemetry_q, command_q,   \* s_ctx
  s_seq, s_shutdown,
  hand,         \* the sample that sensor, proc and pump hold, 0 for none
  cmd,          \* the command that cmd holds, or none
  published,    \* the samples the MQTT client accepted, in that order
  outbox,       \* those of them it may still send
  arrived,      \* the sample that reached the broker last, 0 for none
  lost,         \* the samples dropped on the way
  stop_seq,     \* s_seq when the shutdown was requested
  aborted       \* a task function returned to a port that aborts

boot == <<main, hooks, exti, inbound>>
client == <<outbox, arrived>>
sampling == <<s_seq, hand, sample_q, telemetry_q, published, lost, client>>
commanding == <<command_q, cmd, s_shutdown, stop_seq>>
vars == <<boot, at, isr_sem, sampling, commanding, aborted>>

Loops == {"sensor", "proc", "cmd", "diag", "wdt"}   \* what iot_tasks_start creates
Tasks == Loops \cup {"pump"}
Holders == {"sensor", "proc", "pump"}
Steps == {"absent", "top", "wait", "build", "send", "handle", "recv", "publish", "returned"}

Init ==
  /\ main = "objects"
  /\ at = [t \in Tasks |-> "absent"]
  /\ hooks = {} /\ exti = FALSE /\ inbound = FALSE
  /\ isr_sem = 0
  /\ sample_q = <<>> /\ telemetry_q = <<>> /\ command_q = <<>>
  /\ s_seq = 0 /\ s_shutdown = FALSE
  /\ hand = [t \in Holders |-> 0]
  /\ cmd = NoCommand
  /\ published = <<>> /\ lost = {}
  /\ outbox = {} /\ arrived = 0
  /\ stop_seq = 0
  /\ aborted = FALSE

Goto(t, s) == at' = [at EXCEPT ![t] = s]
Hold(t, n) == hand' = [hand EXCEPT ![t] = n]

-----------------------------------------------------------------------------
(* app_main: iot_tasks_start, the profile, the hooks, the transports.  A   *)
(* failure makes app_main return; the tasks created by then keep running.  *)

AfterCreate ==
  [t \in Loops |->
     CASE t = "sensor" -> "proc"
       [] t = "proc" -> "cmd"
       [] t = "cmd" -> "diag"
       [] t = "diag" -> "wdt"
       [] t = "wdt" -> "profile"]

CreateObjects ==
  /\ main = "objects"
  /\ main' \in {"kick", "failed"}
  /\ UNCHANGED <<hooks, exti, inbound, at, isr_sem, sampling, commanding, aborted>>

Kick ==
  /\ main = "kick"
  /\ main' = "sensor"
  /\ isr_sem' = 1
  /\ UNCHANGED <<hooks, exti, inbound, at, sampling, commanding, aborted>>

CreateTask(t) ==
  /\ main = t
  /\ \/ /\ main' = AfterCreate[t]
        /\ Goto(t, "top")
     \/ /\ main' = "failed"
        /\ UNCHANGED at
  /\ UNCHANGED <<hooks, exti, inbound, isr_sem, sampling, commanding, aborted>>

\* Two profiles of the ten attach their pulse input; the attach may fail.
StartProfile ==
  /\ main = "profile"
  /\ main' = "hook_sensor"
  /\ exti' \in BOOLEAN
  /\ UNCHANGED <<hooks, inbound, at, isr_sem, sampling, commanding, aborted>>

SetSensorHookAfterBle ==   \* mutant: BLE is started before the hooks are set
  /\ main = "hook_sensor"
  /\ main' = "hook_cmd"
  /\ hooks' = hooks \cup {"sensor"}
  /\ inbound' \in BOOLEAN
  /\ UNCHANGED <<exti, at, isr_sem, sampling, commanding, aborted>>

\* iot_tasks_set_hooks writes one pointer after the other.  The processing
\* hook between them copies its input, as proc_task does without one.
SetSensorHook ==
  /\ main = "hook_sensor"
  /\ main' = "hook_cmd"
  /\ hooks' = hooks \cup {"sensor"}
  /\ UNCHANGED <<exti, inbound, at, isr_sem, sampling, commanding, aborted>>

SetCmdHook ==
  /\ main = "hook_cmd"
  /\ main' = "ble"
  /\ hooks' = hooks \cup {"cmd"}
  /\ UNCHANGED <<exti, inbound, at, isr_sem, sampling, commanding, aborted>>

StartBle ==
  /\ main = "ble"
  /\ main' = "wifi"
  /\ inbound' \in BOOLEAN
  /\ UNCHANGED <<hooks, exti, at, isr_sem, sampling, commanding, aborted>>

\* Not provisioned, no IP address within 30 s, or go on to MQTT.
JoinWifi ==
  /\ main = "wifi"
  /\ main' \in {"mqtt", "done"}
  /\ UNCHANGED <<hooks, exti, inbound, at, isr_sem, sampling, commanding, aborted>>

\* The client may not start, or may start while its pump cannot be created.
StartMqtt ==
  /\ main = "mqtt"
  /\ main' = "done"
  /\ \/ UNCHANGED <<inbound, at>>
     \/ /\ inbound' = TRUE
        /\ Goto("pump", "recv") \/ UNCHANGED at
  /\ UNCHANGED <<hooks, exti, isr_sem, sampling, commanding, aborted>>

Boot ==
  \/ CreateObjects \/ Kick \/ \E t \in Loops : CreateTask(t)
  \/ StartProfile \/ SetSensorHook \/ SetCmdHook
  \/ StartBle \/ JoinWifi \/ StartMqtt

-----------------------------------------------------------------------------
(* The top of every loop, and what the outside world does.                 *)

\* "if (s_shutdown) break", and then the task function returns.
Leave(t) ==
  /\ at[t] = "top"
  /\ s_shutdown
  /\ Goto(t, "returned")
  /\ aborted' = ReturnAborts
  /\ UNCHANGED <<boot, isr_sem, sampling, commanding>>

BlockUnchecked(t) ==   \* mutant: the loop does not look at s_shutdown
  /\ at[t] = "top"
  /\ t = "sensor" => s_seq < MaxSeq
  /\ Goto(t, "wait")
  /\ UNCHANGED <<boot, isr_sem, sampling, commanding, aborted>>

\* Into the blocking call.  diag and wdt only have a delay between two looks
\* at s_shutdown, which changes nothing and is left out.
Block(t) ==
  /\ at[t] = "top"
  /\ ~s_shutdown
  /\ t = "sensor" => s_seq < MaxSeq
  /\ Goto(t, "wait")
  /\ UNCHANGED <<boot, isr_sem, sampling, commanding, aborted>>

\* gpio_isr: a binary semaphore already given stays given.
Pulse ==
  /\ exti
  /\ isr_sem' = 1
  /\ UNCHANGED <<boot, at, sampling, commanding, aborted>>

\* gatt_access and mqtt_event send with timeout 0: a full queue drops it.
Command(c) ==
  /\ inbound
  /\ Len(command_q) < CommandLen
  /\ command_q' = Append(command_q, c)
  /\ UNCHANGED <<boot, at, isr_sem, sampling, cmd, s_shutdown, stop_seq, aborted>>

-----------------------------------------------------------------------------
(* sensor_task *)

\* iot_sem_take(sensor_isr_sem, 200): the result is ignored.
TakeSem ==
  /\ at["sensor"] = "wait"
  /\ isr_sem' = 0
  /\ Goto("sensor", "build")
  /\ UNCHANGED <<boot, sampling, commanding, aborted>>

\* msg.seq = ++s_seq, then the hook, which may fail to read its sensors.
Build ==
  /\ at["sensor"] = "build"
  /\ s_seq' = s_seq + 1
  /\ \/ /\ Goto("sensor", "send")
        /\ Hold("sensor", s_seq + 1)
        /\ UNCHANGED lost
     \/ /\ "sensor" \in hooks
        /\ Goto("sensor", "top")
        /\ lost' = lost \cup {s_seq + 1}
        /\ UNCHANGED hand
  /\ UNCHANGED <<boot, isr_sem, sample_q, telemetry_q, published, client, commanding,
                 aborted>>

SendSampleOver ==   \* mutant: a full queue forgets what it had
  /\ at["sensor"] = "send"
  /\ sample_q' = IF Len(sample_q) < SampleLen
                   THEN Append(sample_q, hand["sensor"]) ELSE <<hand["sensor"]>>
  /\ Goto("sensor", "top")
  /\ Hold("sensor", 0)
  /\ UNCHANGED <<boot, isr_sem, s_seq, telemetry_q, published, lost, client, commanding,
                 aborted>>

SendSample ==
  /\ at["sensor"] = "send"
  /\ Len(sample_q) < SampleLen
  /\ sample_q' = Append(sample_q, hand["sensor"])
  /\ Goto("sensor", "top")
  /\ Hold("sensor", 0)
  /\ UNCHANGED <<boot, isr_sem, s_seq, telemetry_q, published, lost, client, commanding,
                 aborted>>

\* What task t holds cannot be passed on and is forgotten.
Drop(t, next) ==
  /\ lost' = lost \cup {hand[t]}
  /\ Goto(t, next)
  /\ Hold(t, 0)
  /\ UNCHANGED <<boot, isr_sem, s_seq, sample_q, telemetry_q, published, client, commanding,
                 aborted>>

\* The queue is still full after 10 ms.
DropSample ==
  /\ at["sensor"] = "send"
  /\ Len(sample_q) >= SampleLen
  /\ Drop("sensor", "top")

-----------------------------------------------------------------------------
(* proc_task *)

PeekSample ==   \* mutant: the sample stays in the queue
  /\ at["proc"] = "wait"
  /\ sample_q # <<>>
  /\ Hold("proc", Head(sample_q))
  /\ Goto("proc", "send")
  /\ UNCHANGED <<boot, isr_sem, s_seq, sample_q, telemetry_q, published, lost, client, commanding,
                 aborted>>

RecvSample ==
  /\ at["proc"] = "wait"
  /\ sample_q # <<>>
  /\ Hold("proc", Head(sample_q))
  /\ sample_q' = Tail(sample_q)
  /\ Goto("proc", "send")
  /\ UNCHANGED <<boot, isr_sem, s_seq, telemetry_q, published, lost, client, commanding,
                 aborted>>

SendTelemetry ==
  /\ at["proc"] = "send"
  /\ Len(telemetry_q) < TelemetryLen
  /\ telemetry_q' = Append(telemetry_q, hand["proc"])
  /\ Goto("proc", "top")
  /\ Hold("proc", 0)
  /\ UNCHANGED <<boot, isr_sem, s_seq, sample_q, published, lost, client, commanding,
                 aborted>>

DropTelemetry ==
  /\ at["proc"] = "send"
  /\ Len(telemetry_q) >= TelemetryLen
  /\ Drop("proc", "top")

NothingForever(t, q) ==   \* mutant: iot_queue_recv without a timeout
  /\ at[t] = "wait"
  /\ q = <<>>
  /\ UNCHANGED vars

\* iot_queue_recv with 250 ms: back to the top when there is nothing.
NothingFor(t, q) ==
  /\ at[t] = "wait"
  /\ q = <<>>
  /\ Goto(t, "top")
  /\ UNCHANGED <<boot, isr_sem, sampling, commanding, aborted>>

-----------------------------------------------------------------------------
(* mqtt_pump: does not look at s_shutdown, and nothing clears s_run.       *)

RecvTelemetry ==
  /\ at["pump"] = "recv"
  /\ telemetry_q # <<>>
  /\ Hold("pump", Head(telemetry_q))
  /\ telemetry_q' = Tail(telemetry_q)
  /\ Goto("pump", "publish")
  /\ UNCHANGED <<boot, isr_sem, s_seq, sample_q, published, lost, client, commanding,
                 aborted>>

PublishAgain ==   \* mutant: a message is published again
  /\ at["pump"] = "publish"
  /\ published' = Append(published, hand["pump"])
  /\ arrived' = hand["pump"]
  /\ \/ Goto("pump", "recv") /\ Hold("pump", 0)
     \/ UNCHANGED <<at, hand>>
  /\ UNCHANGED <<boot, isr_sem, s_seq, sample_q, telemetry_q, lost, outbox, commanding, aborted>>

\* The client takes the message, with QoS 1: it is there and acknowledged soon,
\* or stays in the outbox, whether or not it got to the broker.
Publish ==
  /\ at["pump"] = "publish"
  /\ published' = Append(published, hand["pump"])
  /\ \/ arrived' = hand["pump"] /\ UNCHANGED outbox
     \/ /\ Cardinality(outbox) < MaxUnacked
        /\ arrived' \in {arrived, hand["pump"]}
        /\ outbox' = outbox \cup {hand["pump"]}
  /\ Goto("pump", "recv")
  /\ Hold("pump", 0)
  /\ UNCHANGED <<boot, isr_sem, s_seq, sample_q, telemetry_q, lost, commanding, aborted>>

FailPublishLeaves ==   \* mutant: the pump ends at the first failure
  /\ at["pump"] = "publish"
  /\ Drop("pump", "returned")

\* The session is not up, or the client refuses the message.
FailPublish ==
  /\ at["pump"] = "publish"
  /\ Drop("pump", "recv")

\* The client's own task, when a session is lost or an acknowledgement is not
\* there in time: the message goes out again, is acknowledged, or has expired.
Resend(n) ==
  /\ n \in outbox
  /\ arrived' \in {arrived, n}
  /\ outbox' \in {outbox, outbox \ {n}}
  /\ UNCHANGED <<boot, at, isr_sem, s_seq, hand, sample_q, telemetry_q, published, lost,
                 commanding, aborted>>

-----------------------------------------------------------------------------
(* cmd_task *)

RecvCommand ==
  /\ at["cmd"] = "wait"
  /\ command_q # <<>>
  /\ cmd' = Head(command_q)
  /\ command_q' = Tail(command_q)
  /\ Goto("cmd", "handle")
  /\ UNCHANGED <<boot, isr_sem, sampling, s_shutdown, stop_seq, aborted>>

\* s_cmd_hook, if there is one: iot_tasks_request_shutdown for Shutdown.
Handle ==
  /\ at["cmd"] = "handle"
  /\ IF "cmd" \in hooks /\ cmd = Shutdown
       THEN s_shutdown' = TRUE /\ stop_seq' = s_seq
       ELSE UNCHANGED <<s_shutdown, stop_seq>>
  /\ cmd' = NoCommand
  /\ Goto("cmd", "top")
  /\ UNCHANGED <<boot, isr_sem, sampling, command_q, aborted>>

-----------------------------------------------------------------------------
SensorStep == Leave("sensor") \/ Block("sensor") \/ TakeSem \/ Build \/ SendSample \/ DropSample
ProcStep ==
  Leave("proc") \/ Block("proc") \/ RecvSample \/ NothingFor("proc", sample_q)
    \/ SendTelemetry \/ DropTelemetry
CmdStep ==
  Leave("cmd") \/ Block("cmd") \/ RecvCommand \/ NothingFor("cmd", command_q) \/ Handle
PumpStep == RecvTelemetry \/ Publish \/ FailPublish

Next ==
  /\ ~aborted
  /\ \/ Boot
     \/ SensorStep \/ ProcStep \/ CmdStep \/ PumpStep
     \/ Leave("diag") \/ Leave("wdt")
     \/ \E n \in outbox : Resend(n)
     \/ Pulse \/ \E c \in Commands : Command(c)

Spec == Init /\ [][Next]_vars

(***************************************************************************)
(* Every task blocks in each round of its loop, so a lower priority gets   *)
(* its turn, and every blocking call of these tasks has a timeout or is on *)
(* a lock held for a few statements.  That needs an interrupt rate the     *)
(* sensor task can keep up with: it is among the highest priorities and    *)
(* does not block while the semaphore is given.  Nothing obliges pulses    *)
(* and commands to come.                                                   *)
(***************************************************************************)
Fairness ==
  /\ WF_vars(~aborted /\ Boot)
  /\ WF_vars(~aborted /\ SensorStep)
  /\ WF_vars(~aborted /\ ProcStep)
  /\ WF_vars(~aborted /\ CmdStep)
  /\ WF_vars(~aborted /\ PumpStep)
  /\ WF_vars(~aborted /\ Leave("diag"))
  /\ WF_vars(~aborted /\ Leave("wdt"))

FairSpec == Spec /\ Fairness
-----------------------------------------------------------------------------
Numbers == 1 .. MaxSeq

TypeOK ==
  /\ main \in Loops \cup {"objects", "kick", "profile", "hook_sensor", "hook_cmd",
                          "ble", "wifi", "mqtt", "done", "failed"}
  /\ at \in [Tasks -> Steps]
  /\ hooks \subseteq {"sensor", "cmd"}
  /\ exti \in BOOLEAN /\ inbound \in BOOLEAN
  /\ isr_sem \in {0, 1}
  /\ sample_q \in Seq(Numbers) /\ telemetry_q \in Seq(Numbers)
  /\ command_q \in Seq(Commands)
  /\ s_seq \in 0 .. MaxSeq /\ s_shutdown \in BOOLEAN
  /\ hand \in [Holders -> 0 .. MaxSeq]
  /\ cmd \in Commands \cup {NoCommand}
  /\ published \in Seq(Numbers)
  /\ outbox \subseteq Numbers /\ arrived \in 0 .. MaxSeq
  /\ lost \subseteq Numbers
  /\ stop_seq \in 0 .. MaxSeq
  /\ aborted \in BOOLEAN

\* The samples on their way, those furthest along first.
Held(t) == IF hand[t] = 0 THEN <<>> ELSE <<hand[t]>>
Line ==
  published \o Held("pump") \o telemetry_q \o Held("proc") \o sample_q \o Held("sensor")

Increasing(s) == \A i, j \in 1 .. Len(s) : i < j => s[i] < s[j]

\* No sample overtakes another or is there twice anywhere between the sensor
\* and the MQTT client, although three tasks and two queues with their timeouts
\* hand it on.
PipelineOrder == Increasing(Line)

\* Every number that was given out belongs to a sample that is on its way,
\* handed to the client, or dropped, and to one of these only: no step loses a
\* sample that the code does not give up, and none is published after all.
Accounted ==
  LET seen == {Line[i] : i \in DOMAIN Line}
  IN  seen \cup lost = 1 .. s_seq /\ seen \cap lost = {}

\* No command is taken from its queue before the profile's handler is there:
\* cmd_task runs from the start and would discard it.
NoCommandUnheard == at["cmd"] = "handle" => "cmd" \in hooks

\* The request for a shutdown is not lost in the middle of a sensor round:
\* at most the round that was under way takes one more sample.
SamplingStops == s_shutdown => s_seq <= stop_seq + 1

\* A requested shutdown is complete at some time: every task of the
\* architecture leaves its loop, whatever it was blocked on.
OrderlyShutdown == s_shutdown ~> \A t \in Loops : at[t] = "returned"

\* A sample in a queue moves on, if the boot got as far as the task that takes
\* it, and unless the tasks are shutting down; the pump drains its queue even
\* then.
In(n, q) == \E i \in DOMAIN q : q[i] = n
SamplesMove ==
  \A n \in Numbers :
    /\ at["proc"] # "absent" /\ In(n, sample_q) ~> ~In(n, sample_q) \/ s_shutdown
    /\ at["pump"] # "absent" /\ In(n, telemetry_q) ~> In(n, published) \/ n \in lost

\* What the proofs add to make these inductive: a task holds a sample just
\* while it is about to pass it on, a task that is not created yet is absent,
\* a round of the sensor has a number left for its sample, and no command is
\* there before its handler.
HandsMatch ==
  /\ hand["sensor"] # 0 <=> at["sensor"] = "send"
  /\ hand["proc"] # 0 <=> at["proc"] = "send"
  /\ hand["pump"] # 0 <=> at["pump"] = "publish"

BootOrder ==
  /\ main \in {"objects", "kick", "sensor"} => at["sensor"] = "absent"
  /\ main \in {"objects", "kick", "sensor", "proc"} => at["proc"] = "absent"
  /\ main # "done" => at["pump"] = "absent"

RoundOpen == at["sensor"] \in {"wait", "build"} => s_seq < MaxSeq

HandlerFirst ==
  /\ main \in {"ble", "wifi", "mqtt", "done"} => "cmd" \in hooks
  /\ inbound => main \in {"wifi", "mqtt", "done"}
  /\ command_q # <<>> => inbound

RoundsLeft == IF at["sensor"] \in {"wait", "build"} THEN 1 ELSE 0
LastRound == s_shutdown => s_seq + RoundsLeft <= stop_seq + 1

\* The inductive invariant of the pipeline.
PipelineInv ==
  /\ TypeOK /\ HandsMatch /\ BootOrder /\ RoundOpen /\ HandlerFirst /\ LastRound
  /\ PipelineOrder /\ Accounted /\ NoCommandUnheard

\* What the client is handed, and the broker gets of it, is a lossy stream.
Stream == INSTANCE LossyStream
            WITH taken <- s_seq, sent <- published, unsettled <- outbox

\* The samples are handed to the client once, in order, and after they were
\* taken, so that all that reaches the broker twice or late is what the client
\* repeats for want of an acknowledgement (QoS 1, iot_mqtt.c:183).
ImplementsStream == Stream!Spec
=============================================================================
