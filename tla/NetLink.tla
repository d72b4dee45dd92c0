------------------------------ MODULE NetLink ------------------------------
(***************************************************************************)
(* The connection manager (components/iot_wifi/src/iot_wifi.c), the event  *)
(* handler of the MQTT client (components/iot_mqtt/src/iot_mqtt.c) and the *)
(* part of app_main (main/main.c) that starts them, with the Wi-Fi driver, *)
(* the MQTT client library, power cuts and restarts around them.           *)
(*                                                                         *)
(* Three threads share system_evt and the two s_state variables: app_main, *)
(* the event loop, which runs wifi_event, and the MQTT client, which runs  *)
(* mqtt_event.  todo[t] is what is left of the handler thread t is in, one *)
(* statement after the other: a state to store in its s_state, or a call.  *)
(***************************************************************************)
EXTENDS Naturals, Sequences

CONSTANTS
  MaxFailures,   \* bound: failed joins, lost links and lost sessions
  MaxRestarts    \* bound: power cuts and restarts

ASSUME NetLinkAssumption == MaxFailures \in Nat /\ MaxRestarts \in Nat

VARIABLES
  provisioned,   \* in NVS, with a network to join
  cfg,           \* provisioned in the copy app_main loaded
  main,          \* the next statement of app_main
  todo,          \* per thread, the rest of its handler
  wifi,          \* s_state of iot_wifi.c
  s_backoff_ms,
  waited,        \* the delay before the last attempt to reconnect, in ms
  mqtt,          \* s_state of iot_mqtt.c
  bits,          \* of system_evt
  air,           \* external: what the Wi-Fi driver has come to
  events,        \* external: what the event loop has not handled yet
  session,       \* external: what the MQTT client has come to
  failures, restarts

ram == <<cfg, main, todo, wifi, s_backoff_ms, waited, mqtt, bits, air, events, session>>
vars == <<provisioned, ram, failures, restarts>>

Threads == {"main", "loop", "mqtt"}
WifiStates == {"DISCONNECTED", "CONNECTING", "CONNECTED", "IP_READY", "ERROR", "RECONNECTING"}
MqttStates == {"DOWN", "CONNECTING", "UP", "ERROR"}
Steps == WifiStates \cup MqttStates
           \cup {"raise", "lower", "start", "connect", "reset", "delay", "raise_up", "lower_up"}

\* set_state: the variable, and after the lock is released the event bits.
SetState(st) == <<st, IF st = "IP_READY" THEN "raise" ELSE "lower">>

\* wifi_event, per event.
Script ==
  [STA_START        |-> SetState("CONNECTING") \o <<"connect">>,
   STA_CONNECTED    |-> SetState("CONNECTED") \o <<"reset">>,
   STA_DISCONNECTED |-> SetState("RECONNECTING") \o <<"delay", "connect">> \o SetState("CONNECTING"),
   GOT_IP           |-> SetState("IP_READY")]

OnDisconnectedSilent == <<"CONNECTING">>   \* mutant: the bit stays

\* mqtt_event, for a session that begins and one that ends; the client may
\* report an error before it gives a session, or the attempt at one, up.
OnConnected == <<"UP", "raise_up">>
OnDisconnected == <<"CONNECTING", "lower_up">>
OnError == <<"ERROR">>

NoHandlers == [t \in Threads |-> <<>>]

Init ==
  /\ provisioned \in BOOLEAN
  /\ cfg = FALSE
  /\ main = "load"
  /\ todo = NoHandlers
  /\ wifi = "DISCONNECTED" /\ s_backoff_ms = 1000 /\ waited = 0
  /\ mqtt = "DOWN"
  /\ bits = {}
  /\ air = "off" /\ events = <<>>
  /\ session = "none"
  /\ failures = 0 /\ restarts = 0

Idle(t) == todo[t] = <<>>
Run(t, steps) == todo' = [todo EXCEPT ![t] = steps]

\* Thread t executes the next statement of its handler, one of S.
Executes(t, S) ==
  /\ ~Idle(t)
  /\ Head(todo[t]) \in S
  /\ Run(t, Tail(todo[t]))

-----------------------------------------------------------------------------
(* app_main *)

\* iot_config_load: from here on app_main looks at its own copy.
Load ==
  /\ main = "load"
  /\ cfg' = provisioned
  /\ main' = IF provisioned THEN "wifi" ELSE "done"
  /\ UNCHANGED <<provisioned, todo, wifi, s_backoff_ms, waited, mqtt, bits, air, events, session,
                 failures, restarts>>

\* iot_wifi_start: the driver takes the network's name, or refuses it.
StartWifi ==
  /\ main = "wifi"
  /\ main' = "wait"
  /\ \/ Run("main", SetState("CONNECTING") \o <<"start">>)
     \/ Run("main", SetState("ERROR"))
  /\ UNCHANGED <<provisioned, cfg, wifi, s_backoff_ms, waited, mqtt, bits, air, events, session,
                 failures, restarts>>

\* iot_event_wait with 30 s.
SeeIp ==
  /\ main = "wait" /\ Idle("main")
  /\ "WIFI_IP" \in bits
  /\ main' = "mqtt"
  /\ UNCHANGED <<provisioned, cfg, todo, wifi, s_backoff_ms, waited, mqtt, bits, air, events,
                 session, failures, restarts>>

WaitTimeout ==
  /\ main = "wait" /\ Idle("main")
  /\ "WIFI_IP" \notin bits
  /\ main' = "done"
  /\ UNCHANGED <<provisioned, cfg, todo, wifi, s_backoff_ms, waited, mqtt, bits, air, events,
                 session, failures, restarts>>

\* iot_mqtt_start: the state first, or there is no memory for a client.
PrepareClient ==
  /\ main = "mqtt"
  /\ \/ main' = "client" /\ mqtt' = "CONNECTING"
     \/ main' = "done" /\ UNCHANGED mqtt
  /\ UNCHANGED <<provisioned, cfg, todo, wifi, s_backoff_ms, waited, bits, air, events, session,
                 failures, restarts>>

StartClient ==
  /\ main = "client"
  /\ main' = "done"
  /\ session' \in {"none", "down"}
  /\ UNCHANGED <<provisioned, cfg, todo, wifi, s_backoff_ms, waited, mqtt, bits, air, events,
                 failures, restarts>>

AppMain == Load \/ StartWifi \/ SeeIp \/ WaitTimeout \/ PrepareClient \/ StartClient

-----------------------------------------------------------------------------
(* The statements of the handlers. *)

\* One of the failures of the network or the driver.
Fail == failures < MaxFailures /\ failures' = failures + 1

StoreWifi(t) ==
  /\ t # "mqtt"
  /\ Executes(t, WifiStates)
  /\ wifi' = Head(todo[t])
  /\ UNCHANGED <<provisioned, cfg, main, s_backoff_ms, waited, mqtt, bits, air, events, session,
                 failures, restarts>>

StoreMqtt ==
  /\ Executes("mqtt", MqttStates)
  /\ mqtt' = Head(todo["mqtt"])
  /\ UNCHANGED <<provisioned, cfg, main, wifi, s_backoff_ms, waited, bits, air, events, session,
                 failures, restarts>>

\* iot_event_set and iot_event_clear, each atomic.
ChangeBits(t) ==
  /\ Executes(t, {"raise", "lower", "raise_up", "lower_up"})
  /\ bits' = CASE Head(todo[t]) = "raise" -> bits \cup {"WIFI_IP"}
               [] Head(todo[t]) = "lower" -> bits \ {"WIFI_IP", "MQTT_UP"}
               [] Head(todo[t]) = "raise_up" -> bits \cup {"MQTT_UP"}
               [] Head(todo[t]) = "lower_up" -> bits \ {"MQTT_UP"}
  /\ UNCHANGED <<provisioned, cfg, main, wifi, s_backoff_ms, waited, mqtt, air, events, session,
                 failures, restarts>>

\* esp_wifi_start, which may fail.
StartRadio ==
  /\ Executes("main", {"start"})
  /\ \/ air' = "idle" /\ events' = Append(events, "STA_START")
     \/ UNCHANGED <<air, events>>
  /\ UNCHANGED <<provisioned, cfg, main, wifi, s_backoff_ms, waited, mqtt, bits, session, failures,
                 restarts>>

ConnectAfterSession ==   \* mutant: waits until the MQTT client has noticed
  /\ session # "up"
  /\ Executes("loop", {"connect"})
  /\ air' = IF air = "idle" THEN "joining" ELSE air
  /\ UNCHANGED <<provisioned, cfg, main, wifi, s_backoff_ms, waited, mqtt, bits, events, session,
                 failures, restarts>>

\* esp_wifi_connect; its result is ignored: of an attempt that the driver refuses
\* no event tells, and nothing makes another.
Connect ==
  /\ Executes("loop", {"connect"})
  /\ \/ /\ air' = IF air \in {"idle", "refused"} THEN "joining" ELSE air
        /\ UNCHANGED failures
     \/ air = "idle" /\ air' = "refused" /\ Fail
  /\ UNCHANGED <<provisioned, cfg, main, wifi, s_backoff_ms, waited, mqtt, bits, events, session,
                 restarts>>

ResetBackoff ==
  /\ Executes("loop", {"reset"})
  /\ s_backoff_ms' = 1000
  /\ UNCHANGED <<provisioned, cfg, main, wifi, waited, mqtt, bits, air, events, session, failures,
                 restarts>>

DelayUncapped ==   \* mutant: s_backoff_ms is doubled every time
  /\ Executes("loop", {"delay"})
  /\ s_backoff_ms' = s_backoff_ms * 2
  /\ waited' = IF s_backoff_ms > 50 THEN 50 ELSE s_backoff_ms
  /\ UNCHANGED <<provisioned, cfg, main, wifi, mqtt, bits, air, events, session, failures, restarts>>

Delay ==
  /\ Executes("loop", {"delay"})
  /\ s_backoff_ms' = IF s_backoff_ms < 30000 THEN s_backoff_ms * 2 ELSE s_backoff_ms
  /\ waited' = IF s_backoff_ms > 50 THEN 50 ELSE s_backoff_ms
  /\ UNCHANGED <<provisioned, cfg, main, wifi, mqtt, bits, air, events, session, failures, restarts>>

Statement(t) ==
  \/ StoreWifi(t) \/ ChangeBits(t)
  \/ t = "main" /\ StartRadio
  \/ t = "loop" /\ (Connect \/ ResetBackoff \/ Delay)
  \/ t = "mqtt" /\ StoreMqtt

\* The event loop runs the handler of the next event to its end.
HandleEvent ==
  /\ Idle("loop")
  /\ events # <<>>
  /\ Run("loop", Script[Head(events)])
  /\ events' = Tail(events)
  /\ UNCHANGED <<provisioned, cfg, main, wifi, s_backoff_ms, waited, mqtt, bits, air, session,
                 failures, restarts>>

-----------------------------------------------------------------------------
(* The Wi-Fi driver: it reports what it does, and does not retry.          *)

Radio(state, event) ==
  /\ air' = state
  /\ events' = Append(events, event)
  /\ UNCHANGED <<provisioned, cfg, main, todo, wifi, s_backoff_ms, waited, mqtt, bits, session,
                 restarts>>

Associate == air = "joining" /\ Radio("joined", "STA_CONNECTED") /\ UNCHANGED failures
GetAddress == air = "joined" /\ Radio("ip", "GOT_IP") /\ UNCHANGED failures

\* The network is away or refuses the device, or the link breaks.
LoseLink == air \in {"joining", "joined", "ip"} /\ Fail /\ Radio("idle", "STA_DISCONNECTED")

(* The MQTT client: it reconnects by itself, and only notices with its     *)
(* keep-alive that the network is gone.                                    *)

Client(state, steps) ==
  /\ Idle("mqtt")
  /\ session' = state
  /\ Run("mqtt", steps)
  /\ UNCHANGED <<provisioned, cfg, main, wifi, s_backoff_ms, waited, mqtt, bits, air, events,
                 restarts>>

OpenSession == session = "down" /\ air = "ip" /\ Client("up", OnConnected) /\ UNCHANGED failures
LoseSession ==
  /\ session \in {"down", "up"}
  /\ Fail
  /\ Client("down", OnDisconnected) \/ Client("down", OnError \o OnDisconnected)

-----------------------------------------------------------------------------
\* iot_provision_apply_json and the factory reset, on the command task.
Provision ==
  /\ provisioned' \in BOOLEAN
  /\ UNCHANGED <<ram, failures, restarts>>

\* A power cut, a reset, the restart after an update: only NVS remains.
Restart ==
  /\ restarts < MaxRestarts
  /\ restarts' = restarts + 1
  /\ cfg' = FALSE
  /\ main' = "load"
  /\ todo' = NoHandlers
  /\ wifi' = "DISCONNECTED" /\ s_backoff_ms' = 1000 /\ waited' = 0
  /\ mqtt' = "DOWN"
  /\ bits' = {}
  /\ air' = "off" /\ events' = <<>>
  /\ session' = "none"
  /\ UNCHANGED <<provisioned, failures>>

Next ==
  \/ AppMain \/ \E t \in Threads : Statement(t)
  \/ HandleEvent
  \/ Associate \/ GetAddress \/ LoseLink
  \/ OpenSession \/ LoseSession
  \/ Provision \/ Restart

Spec == Init /\ [][Next]_vars

(***************************************************************************)
(* Every thread runs, the network lets the device in unless it fails, and  *)
(* failures are finite in number.  Nothing obliges anyone to provision or  *)
(* to restart the device.                                                  *)
(***************************************************************************)
Fairness ==
  /\ WF_vars(AppMain)
  /\ \A t \in Threads : WF_vars(Statement(t))
  /\ WF_vars(HandleEvent)
  /\ WF_vars(Associate) /\ WF_vars(GetAddress) /\ WF_vars(OpenSession)

FairSpec == Spec /\ Fairness
-----------------------------------------------------------------------------
Backoffs == {1000, 2000, 4000, 8000, 16000, 32000}

TypeOK ==
  /\ provisioned \in BOOLEAN /\ cfg \in BOOLEAN
  /\ main \in {"load", "wifi", "wait", "mqtt", "client", "done"}
  /\ todo \in [Threads -> Seq(Steps)]
  /\ wifi \in WifiStates /\ mqtt \in MqttStates
  /\ s_backoff_ms \in Backoffs /\ waited \in {0, 50}
  /\ bits \subseteq {"WIFI_IP", "MQTT_UP"}
  /\ air \in {"off", "idle", "refused", "joining", "joined", "ip"}
  /\ events \in Seq(DOMAIN Script)
  /\ session \in {"none", "down", "up"}
  /\ failures \in 0 .. MaxFailures /\ restarts \in 0 .. MaxRestarts

Quiet == Idle("main") /\ Idle("loop") /\ events = <<>>

\* Whenever no event is waiting or being handled, the state and the bit the
\* other tasks look at say what the radio does, and the radio is not left
\* idle: nothing but the handler of its last event ever makes it try again.
\* An attempt that the driver refused is taken for one.
LinkKnown ==
  Quiet /\ air # "off" =>
    /\ wifi = CASE air \in {"joining", "refused"} -> "CONNECTING"
                [] air = "joined" -> "CONNECTED"
                [] air = "ip" -> "IP_READY"
                [] air = "idle" -> "no state"
    /\ "WIFI_IP" \in bits <=> air = "ip"

\* The pump publishes while the client has a session, and no task is told of
\* a session that is over, whatever the Wi-Fi handler does to the shared bits.
SessionKnown ==
  Idle("mqtt") =>
    /\ mqtt = "UP" <=> session = "up"
    /\ "MQTT_UP" \in bits => session = "up"

\* What the tasks are told of the two links is what they are.
LinksKnown == LinkKnown /\ SessionKnown

\* After the last failure the device is on the network again and stays there,
\* with no timer or task of its own to drive the attempts; and so is its
\* session with the broker, once the client was started.  An attempt that the
\* driver refused is never made up for.
Reconnects == <>[](air \in {"off", "refused"} \/ "WIFI_IP" \in bits)

SessionReturns == <>[](session = "none" \/ mqtt = "UP" \/ air = "refused")
ServiceReturns == Reconnects /\ SessionReturns

\* "BLE JSON -> NVS -> wifi start | WIFI_IP_READY" (tests/integration): a
\* device that is commissioned while it runs joins the network.
CommissioningJoins ==
  main = "done" /\ ~cfg /\ provisioned ~> "WIFI_IP" \in bits \/ ~provisioned
=============================================================================
