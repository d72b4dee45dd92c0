--------------------------- MODULE Commissioning ---------------------------
(***************************************************************************)
(* Commissioning over BLE: the NimBLE host with its callbacks              *)
(* (components/iot_ble/src/iot_ble.c), the command task, which applies     *)
(* what they put into command_q (components/iot_provision), and a phone    *)
(* that writes its message until it reads "prov=1".  The cloud may write   *)
(* into the same queue, and the power may fail at any time.                *)
(*                                                                         *)
(* Of the configuration only the network and the flag are here, and the    *)
(* order in which iot_config_save writes them.  ConfigStore has the rest,  *)
(* and what happens when NVS refuses to open, to give or to take an entry; *)
(* here it never does.                                                     *)
(***************************************************************************)
EXTENDS CommandPath

CONSTANTS
  Letters,        \* what phones write
  CloudLetters,   \* what the cloud sends
  QueueDepth,     \* slots of command_q
  MaxFaults       \* bound: failed starts, lost links, power cuts, calls of the cloud

ASSUME CommissioningAssumption ==
  /\ QueueDepth \in Nat \ {0} /\ MaxFaults \in Nat
  /\ Blank \notin Networks
  /\ Letters \cup CloudLetters \subseteq Messages

VARIABLES
  hook, letter,   \* the product, and the phone's message
  nvs, s_cfg,
  main,           \* "off", "boot" until iot_ble_init, "up"
  online,         \* app_main found a network to join
  host,           \* the NimBLE host: "down", "starting", "synced"
  gap,            \* the event gap_event is to handle
  s_connected,
  adv, link,      \* external: the controller advertises, has a connection
  failed,         \* an advertising start has failed since the power came
  command_q,
  doing, hand, draft,   \* the command task: next statement, its message, what it saves
  told,           \* the phone has read prov=1, and nobody has undone it since
  torn,           \* a cut stopped a save that was removing the network
  faults

product == <<hook, letter>>
ble == <<main, online, host, gap, s_connected, adv, link, failed>>
task == <<command_q, doing, hand, draft>>
vars == <<product, nvs, s_cfg, ble, task, told, torn, faults>>

NoLetter == [opcode |-> "config", text |-> "empty", fields |-> <<>>]
Configs == [network : Values, flag : BOOLEAN]
Bare == [network |-> Blank, flag |-> FALSE]

TypeOK ==
  /\ hook \in Hooks /\ letter \in Messages
  /\ nvs \in Configs /\ s_cfg \in Configs /\ draft \in Configs
  /\ main \in {"off", "boot", "up"} /\ online \in BOOLEAN
  /\ host \in {"down", "starting", "synced"}
  /\ gap \in {"none", "connected", "failed", "disconnected"}
  /\ s_connected \in BOOLEAN /\ adv \in BOOLEAN /\ link \in BOOLEAN /\ failed \in BOOLEAN
  /\ told \in BOOLEAN /\ torn \in BOOLEAN
  /\ command_q \in Seq(Messages) /\ Len(command_q) <= QueueDepth
  /\ hand \in Messages
  /\ doing \in {"idle", "route", "network", "flag", "cache"}
  /\ faults \in 0 .. MaxFaults

Init ==
  /\ hook \in Hooks /\ letter \in Letters
  /\ nvs \in {Bare} \cup [network : Networks, flag : {TRUE}]
  /\ s_cfg = Bare
  /\ main = "off" /\ online = FALSE
  /\ host = "down" /\ gap = "none"
  /\ s_connected = FALSE /\ adv = FALSE /\ link = FALSE /\ failed = FALSE
  /\ command_q = <<>> /\ doing = "idle" /\ hand = NoLetter /\ draft = Bare
  /\ told = FALSE /\ torn = FALSE
  /\ faults = 0

Fault == faults < MaxFaults /\ faults' = faults + 1

-----------------------------------------------------------------------------
(* The device starts. *)

\* app_main up to iot_ble_init: the configuration, the tasks, the hooks.
PowerOn ==
  /\ main = "off"
  /\ main' = "boot"
  /\ s_cfg' = nvs
  /\ online' = (nvs.flag /\ nvs.network # Blank)
  /\ UNCHANGED <<product, nvs, host, gap, s_connected, adv, link, failed, task, told, torn, faults>>

\* iot_ble_init; app_main does not look at its result.
InitBle ==
  /\ main = "boot"
  /\ main' = "up"
  /\ \/ host' = "starting" /\ UNCHANGED <<failed, faults>>
     \/ Fault /\ failed' = TRUE /\ UNCHANGED host
  /\ UNCHANGED <<product, nvs, s_cfg, online, gap, s_connected, adv, link, task, told, torn>>

\* iot_ble_start_advertising; its callers ignore the result.
Advertise ==
  \/ adv' = TRUE /\ UNCHANGED <<failed, faults>>
  \/ Fault /\ failed' = TRUE /\ adv' = FALSE

SyncQuietly ==   \* mutant: the host is ready and does not advertise
  /\ host = "starting"
  /\ host' = "synced"
  /\ UNCHANGED <<product, nvs, s_cfg, main, online, gap, s_connected, link, adv, failed, faults,
                 task, told, torn>>

\* ble_on_sync.
Sync ==
  /\ host = "starting"
  /\ host' = "synced"
  /\ Advertise
  /\ UNCHANGED <<product, nvs, s_cfg, main, online, gap, s_connected, link, task, told, torn>>

GapEventOnce ==   \* mutant: an attempt that failed does not bring the advertising back
  /\ gap # "none"
  /\ gap' = "none"
  /\ s_connected' = (gap = "connected" \/ (s_connected /\ gap # "disconnected"))
  /\ IF gap # "disconnected" THEN UNCHANGED <<adv, failed, faults>> ELSE Advertise
  /\ UNCHANGED <<product, nvs, s_cfg, main, online, host, link, task, told, torn>>

\* gap_event.
GapEvent ==
  /\ gap # "none"
  /\ gap' = "none"
  /\ s_connected' = (gap = "connected" \/ (s_connected /\ gap # "disconnected"))
  /\ IF gap = "connected" THEN UNCHANGED <<adv, failed, faults>> ELSE Advertise
  /\ UNCHANGED <<product, nvs, s_cfg, main, online, host, link, task, told, torn>>

-----------------------------------------------------------------------------
(* The command task. *)

Send(m) == command_q' = IF Len(command_q) < QueueDepth THEN Append(command_q, m) ELSE command_q

Receive ==
  /\ main # "off" /\ doing = "idle" /\ command_q # <<>>
  /\ hand' = Head(command_q) /\ command_q' = Tail(command_q)
  /\ doing' = "route"
  /\ UNCHANGED <<product, nvs, s_cfg, ble, draft, told, torn, faults>>

\* iot_config_save of d; the namespace may not open.
Save(d) ==
  \/ doing' = "network" /\ draft' = d /\ UNCHANGED <<hand, faults>>
  \/ Fault /\ doing' = "idle" /\ hand' = NoLetter /\ UNCHANGED draft

\* iot_provision_apply_json, for what it finds under "ssid".
Applied(network) ==
  LET n == IF network = Number THEN nvs.network ELSE network
  IN  [network |-> n, flag |-> n # Blank]

\* The hook; what it does to anything but the configuration is not here.
\* iot_provision_apply_json loads first, which brings the cache up to date.
Execute ==
  LET it == Hook(hook, hand)
  IN  /\ doing = "route"
      /\ \/ it.does = "provision" /\ s_cfg' = nvs /\ Save(Applied(it.network))
         \/ it.does = "reset" /\ Save(Bare) /\ UNCHANGED s_cfg
         \/ /\ it.does \notin {"provision", "reset"}
            /\ doing' = "idle" /\ hand' = NoLetter
            /\ UNCHANGED <<s_cfg, draft, faults>>
      /\ UNCHANGED <<product, nvs, ble, command_q, told, torn>>

\* A save that takes the network away is under way.
Removing == doing \in {"network", "flag", "cache"} /\ ~draft.flag

WriteNetworkLate ==   \* mutant: the cache is new before the entries are
  /\ doing = "network" /\ doing' = "flag"
  /\ nvs' = [nvs EXCEPT !.network = draft.network]
  /\ s_cfg' = draft
  /\ UNCHANGED <<product, ble, command_q, hand, draft, told, torn, faults>>

WriteNetwork ==
  /\ doing = "network" /\ doing' = "flag"
  /\ nvs' = [nvs EXCEPT !.network = draft.network]
  /\ UNCHANGED <<product, s_cfg, ble, command_q, hand, draft, told, torn, faults>>

WriteFlag ==
  /\ doing = "flag" /\ doing' = "cache"
  /\ nvs' = [nvs EXCEPT !.flag = draft.flag]
  /\ UNCHANGED <<product, s_cfg, ble, command_q, hand, draft, told, torn, faults>>

StoreCache ==
  /\ doing = "cache" /\ doing' = "idle"
  /\ s_cfg' = draft
  /\ hand' = NoLetter /\ draft' = Bare
  /\ told' = (told /\ ~Removing) /\ torn' = FALSE
  /\ UNCHANGED <<product, nvs, ble, command_q, faults>>

-----------------------------------------------------------------------------
(* The phone, the air, the cloud and the power. *)

\* A phone that is not done connects; the attempt may fail.
Connect ==
  /\ adv /\ ~told
  /\ adv' = FALSE
  /\ \/ link' = TRUE /\ gap' = "connected" /\ UNCHANGED faults
     \/ Fault /\ gap' = "failed" /\ UNCHANGED link
  /\ UNCHANGED <<product, nvs, s_cfg, main, online, host, s_connected, failed, task, told, torn>>

\* The link is lost, or the phone is done.
Disconnect ==
  /\ link /\ gap = "none"
  /\ IF told THEN UNCHANGED faults ELSE Fault
  /\ link' = FALSE /\ gap' = "disconnected"
  /\ UNCHANGED <<product, nvs, s_cfg, main, online, host, s_connected, adv, failed, task, told, torn>>

\* gatt_access, a write: acknowledged even if the queue is full.
Write ==
  /\ s_connected /\ gap = "none" /\ ~told
  /\ Send(letter)
  /\ UNCHANGED <<product, nvs, s_cfg, ble, doing, hand, draft, told, torn, faults>>

\* gatt_access, a read of 0xFF01.
ReadBack ==
  /\ s_connected /\ gap = "none" /\ ~told
  /\ s_cfg.flag
  /\ told' = TRUE
  /\ UNCHANGED <<product, nvs, s_cfg, ble, task, torn, faults>>

\* mqtt_event, MQTT_EVENT_DATA; NetLink says when there is a session.
CloudSends ==
  /\ online /\ main = "up" /\ Fault
  /\ \E m \in CloudLetters : Send(m)
  /\ UNCHANGED <<product, nvs, s_cfg, ble, doing, hand, draft, told, torn>>

PowerCut ==
  /\ main # "off" /\ Fault
  /\ main' = "off" /\ online' = FALSE
  /\ host' = "down" /\ gap' = "none"
  /\ s_connected' = FALSE /\ adv' = FALSE /\ link' = FALSE /\ failed' = FALSE
  /\ s_cfg' = Bare
  /\ command_q' = <<>> /\ doing' = "idle" /\ hand' = NoLetter /\ draft' = Bare
  /\ told' = (told /\ ~Removing)
  /\ torn' = (torn \/ (Removing /\ doing = "flag"))
  /\ UNCHANGED <<product, nvs>>

Device == PowerOn \/ InitBle \/ Sync \/ GapEvent
CommandTask == Receive \/ Execute \/ WriteNetwork \/ WriteFlag \/ StoreCache
World == Connect \/ Disconnect \/ Write \/ ReadBack \/ CloudSends \/ PowerCut

Next == Device \/ CommandTask \/ World

Spec == Init /\ [][Next]_vars

\* The device runs, and so does the phone: connected, it writes and reads.
FairSpec ==
  /\ Spec
  /\ WF_vars(Device) /\ WF_vars(CommandTask)
  /\ WF_vars(Connect) /\ WF_vars(Write) /\ WF_vars(ReadBack)

-----------------------------------------------------------------------------
(* Properties. *)

\* A device is never lost for the phones: once its host has handled what
\* happened, it is connected, and knows it, or it advertises -- unless an
\* advertising start failed, which nothing repeats before the next power cut.
Reachable ==
  host = "synced" /\ gap = "none" =>
    /\ s_connected = link
    /\ link \/ adv \/ failed

\* What the phone was told is true and stays true over power cuts: the flag
\* is in NVS, with a network -- unless a cut stopped the removal of a network
\* between its name and its flag, after which the device says prov=1 without.
ReadBackTrue ==
  told /\ ~Removing => nvs.flag /\ (nvs.network # Blank \/ torn)

\* The device does with a message what its keys ask for, whatever product it
\* is, if the message is plain (CommandPath).
RoutedAsMeant ==
  doing = "route" /\ Plain(hand) => Hook(hook, hand) = Meant(hook, hand)

\* A plain message that asks to provision a network, which the hook does not
\* take for something else.
Commissions(m) ==
  Plain(m) /\ Meant(hook, m).does = "provision" /\ Meant(hook, m).network \in Networks

\* A phone that keeps writing such a message is told in the end that the
\* device is provisioned, though writes are dropped at a full queue, links are
\* lost and the power fails -- unless an advertising start failed for good.
Commissioned == Commissions(letter) => <>told \/ <>[]failed
=============================================================================
