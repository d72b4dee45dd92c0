---------------------------- MODULE ConfigStore ----------------------------
(***************************************************************************)
(* The runtime configuration (components/iot_core/src/iot_config.c): a     *)
(* structure in RAM and one NVS entry per field, with everything that      *)
(* changes them: app_main, iot_provision_apply_json and the platform use   *)
(* cases.  app_main is done with its save before the command task starts,  *)
(* and the command task executes one command at a time, so that there is   *)
(* one operation in progress at most; the power may fail in the middle of  *)
(* it, and on what the power cut leaves in NVS the device boots again.     *)
(* NVS may refuse every call: to open, to read an entry, to write one.     *)
(*                                                                         *)
(* A password and a broker have the name of the network they are for.      *)
(***************************************************************************)
EXTENDS Naturals, Sequences, FiniteSets

CONSTANTS
  Networks, NoNetwork,
  Periods, DefaultPeriod,   \* sample_period_ms
  Clouds, Generic,          \* iot_cloud_provider_t
  Absent,                   \* an NVS entry that is not there
  MaxTroubles               \* bound: power cuts, and what NVS refuses

ASSUME ConfigAssumption ==
  /\ NoNetwork \notin Networks
  /\ DefaultPeriod \in Periods /\ Generic \in Clouds
  /\ Absent \notin Networks /\ Absent # NoNetwork
  /\ Absent \notin Periods /\ Absent \notin Clouds
  /\ Absent \notin BOOLEAN /\ Absent \notin {"unprovisioned", "own"}
  /\ MaxTroubles \in Nat

VARIABLES
  nvs,     \* the namespace "iot"
  s_cfg,
  at,      \* "off", or the next statement
  op,      \* the last operation that called iot_config_save
  draft,   \* the structure it saves
  key,     \* the next entry iot_config_save writes
  blind,   \* the fields the structure it changed did not have from NVS
  missed,  \* the entries the cache is not known to agree with, for NVS refused
           \* to give them to the last load, or to take them from the last save
  was,     \* the configuration NVS held when the operation began
  troubles \* how often the power failed or NVS refused

vars == <<nvs, s_cfg, at, op, draft, key, blind, missed, was, troubles>>

FlagFirst ==   \* mutant: the flag is written before the network
  <<"device_id", "provisioned", "wifi_ssid", "wifi_pass", "mqtt_uri", "sample_ms", "cloud_id">>

\* The order of the nvs_set calls; mqtt_uri stands for mqtt_user and
\* mqtt_pass too, which come next.
KeyOrder ==
  <<"device_id", "wifi_ssid", "wifi_pass", "mqtt_uri", "sample_ms", "provisioned", "cloud_id">>

Keys == {KeyOrder[i] : i \in 1 .. Len(KeyOrder)}

Values ==
  [device_id : {"unprovisioned", "own"},
   wifi_ssid : Networks \cup {NoNetwork},
   wifi_pass : Networks \cup {NoNetwork},
   mqtt_uri : Networks \cup {NoNetwork},
   sample_ms : Periods,
   provisioned : BOOLEAN,
   cloud_id : Clouds]

\* iot_config_set_defaults
Defaults ==
  [device_id |-> "unprovisioned", wifi_ssid |-> NoNetwork, wifi_pass |-> NoNetwork,
   mqtt_uri |-> NoNetwork, sample_ms |-> DefaultPeriod, provisioned |-> FALSE,
   cloud_id |-> Generic]

Empty == [k \in Keys |-> Absent]

\* What iot_config_load makes of entries it can read.
View(n) == [k \in Keys |-> IF n[k] = Absent THEN Defaults[k] ELSE n[k]]

Init ==
  /\ nvs = Empty
  /\ s_cfg = Defaults
  /\ at = "off"
  /\ op = "none"
  /\ draft = Defaults
  /\ key = 1 /\ blind = {} /\ missed = {}
  /\ was = Defaults
  /\ troubles = 0

\* nvs_bootstrap, which erases a partition it cannot use, and iot_config_init,
\* which reads nothing.
PowerOn ==
  /\ at = "off"
  /\ at' = "boot"
  /\ nvs' \in {nvs, Empty}
  /\ s_cfg' = Defaults
  /\ was' = View(nvs')
  /\ op' = "none" /\ draft' = Defaults
  /\ key' = 1 /\ blind' = {} /\ missed' = Keys
  /\ UNCHANGED troubles

Trouble(n) ==
  /\ troubles + n <= MaxTroubles
  /\ troubles' = troubles + n

\* The sets of at most n entries.
AtMost == [n \in 0 .. MaxTroubles |-> {u \in SUBSET Keys : Cardinality(u) <= n}]

\* What iot_config_load gives, which succeeds in any case: the cache as it is
\* when the namespace does not open, and else the entries, an unread one being
\* taken for one that is not there.
Loads ==
  {[cfg |-> s_cfg, unread |-> missed, refused |-> 1]}
    \cup {[cfg |-> View([k \in Keys |-> IF k \in u THEN Absent ELSE nvs[k]]),
           unread |-> u, refused |-> Cardinality(u)] : u \in AtMost[MaxTroubles - troubles]}

\* It brings the cache up to date as well.
Load(l) ==
  /\ s_cfg' = l.cfg
  /\ blind' = l.unread

\* Operation o, to whose load NVS refused n calls, calls iot_config_save(&d);
\* the namespace may not open.
Save(o, d, n) ==
  /\ op' = o
  /\ draft' = d
  /\ key' = 1
  /\ was' = View(nvs)
  /\ UNCHANGED nvs
  /\ \/ at' = "write" /\ missed' = {} /\ Trouble(n)
     \/ at' = "idle" /\ missed' = blind' /\ Trouble(n + 1)

\* The part of app_main that loads, and names the device.
Boot ==
  /\ at = "boot"
  /\ \E l \in Loads :
       /\ Load(l)
       /\ IF l.cfg.device_id = "unprovisioned"
            THEN Save("boot", [l.cfg EXCEPT !.device_id = "own"], l.refused)
            ELSE /\ at' = "idle" /\ missed' = l.unread /\ Trouble(l.refused)
                 /\ UNCHANGED <<nvs, op, draft, key, was>>

\* What a commissioning JSON may say, of one network; a key "cloud" is not read.
Json ==
  [keys : SUBSET {"wifi_ssid", "wifi_pass", "mqtt_uri"}, network : Networks]

\* iot_provision_apply_json: the keys the JSON has, on top of what is there.
Provisioned(cfg, json) ==
  LET named == [k \in Keys |->
        IF k \in json.keys THEN json.network
        ELSE IF k = "device_id" THEN "own" ELSE cfg[k]]
  IN  [named EXCEPT !.provisioned = named.wifi_ssid # NoNetwork]

Provision(json) ==
  /\ at = "idle"
  /\ \E l \in Loads : Load(l) /\ Save("provision", Provisioned(l.cfg, json), l.refused)

SetSampleMsAlone(ms) ==   \* mutant: the other fields are not loaded first
  /\ at = "idle"
  /\ \E l \in Loads :
       Load(l) /\ Save("set_sample_ms", [Defaults EXCEPT !.sample_ms = ms], l.refused)

\* iot_uc_plt_set_sample_ms and iot_uc_plt_set_cloud, in their ranges.
SetSampleMs(ms) ==
  /\ at = "idle"
  /\ \E l \in Loads :
       Load(l) /\ Save("set_sample_ms", [l.cfg EXCEPT !.sample_ms = ms], l.refused)

SetCloud(c) ==
  /\ at = "idle"
  /\ \E l \in Loads :
       Load(l) /\ Save("set_cloud", [l.cfg EXCEPT !.cloud_id = c], l.refused)

\* iot_uc_plt_factory_reset: saves the defaults without loading.
FactoryReset ==
  /\ at = "idle"
  /\ blind' = missed /\ UNCHANGED s_cfg
  /\ Save("factory_reset", Defaults, 0)

WriteKeyTooFar ==   \* mutant: one entry too many
  /\ at = "write"
  /\ nvs' = [nvs EXCEPT ![KeyOrder[key]] = draft[KeyOrder[key]]]
  /\ IF key <= Len(KeyOrder)
       THEN key' = key + 1 /\ UNCHANGED at
       ELSE at' = "store" /\ UNCHANGED key
  /\ UNCHANGED <<s_cfg, op, draft, blind, missed, was, troubles>>

\* One nvs_set, whose result is ignored.
WriteKey ==
  /\ at = "write"
  /\ LET k == KeyOrder[key]
     IN  \/ nvs' = [nvs EXCEPT ![k] = draft[k]] /\ UNCHANGED <<missed, troubles>>
         \/ missed' = missed \cup {k} /\ Trouble(1) /\ UNCHANGED nvs
  /\ IF key < Len(KeyOrder)
       THEN key' = key + 1 /\ UNCHANGED at
       ELSE at' = "store" /\ UNCHANGED key
  /\ UNCHANGED <<s_cfg, op, draft, blind, was>>

StoreNothing ==   \* mutant: the cache is not brought up to date
  /\ at = "store"
  /\ at' = "idle"
  /\ UNCHANGED <<nvs, s_cfg, op, draft, key, blind, missed, was, troubles>>

\* s_cfg = *in, under the lock.
Store ==
  /\ at = "store"
  /\ at' = "idle"
  /\ s_cfg' = draft
  /\ UNCHANGED <<nvs, op, draft, key, blind, missed, was, troubles>>

\* NVS writes an entry as a whole; RAM is lost (op, draft, blind and missed stay
\* until the next boot, to speak about what the cut interrupted).
PowerCut ==
  /\ at # "off"
  /\ Trouble(1)
  /\ at' = "off"
  /\ s_cfg' = Defaults /\ key' = 1
  /\ UNCHANGED <<nvs, op, draft, blind, missed, was>>

Next ==
  \/ PowerOn \/ Boot
  \/ \E json \in Json : Provision(json)
  \/ \E ms \in Periods : SetSampleMs(ms)
  \/ \E c \in Clouds : SetCloud(c)
  \/ FactoryReset
  \/ WriteKey \/ Store
  \/ PowerCut

Spec == Init /\ [][Next]_vars
-----------------------------------------------------------------------------
Ops == {"none", "boot", "provision", "set_sample_ms", "set_cloud", "factory_reset"}

TypeOK ==
  /\ View(nvs) \in Values
  /\ s_cfg \in Values /\ draft \in Values /\ was \in Values
  /\ at \in {"off", "boot", "idle", "write", "store"}
  /\ op \in Ops
  /\ key \in 1 .. Len(KeyOrder) /\ blind \subseteq Keys /\ missed \subseteq Keys
  /\ troubles \in 0 .. MaxTroubles

\* Between two operations the cache holds what NVS holds, but for entries the
\* last load could not read or the last save could not write: what BLE reports
\* of the running device is what the next boot acts upon.  A namespace that
\* does not open for the first load leaves the cache with the defaults, until
\* a later load or save gets through.
CacheCoherent ==
  at = "idle" => \A k \in Keys : s_cfg[k] # View(nvs)[k] => k \in missed

\* The flag is written after what it vouches for: however a commissioning is
\* interrupted, a device that was not provisioned and now is has the network,
\* the password and the broker it was given, but for those that NVS refused.
FlagVouches ==
  View(nvs).provisioned /\ ~was.provisioned =>
    \A k \in {"wifi_ssid", "wifi_pass", "mqtt_uri"} :
      View(nvs)[k] # draft[k] => k \in missed

\* An operation changes the fields it is about and no other, although it
\* writes them all, and wherever it is interrupted; but for those that NVS
\* refused to give to the load the operation began with, which it overwrites
\* with what the cache or the defaults say.
Touches ==
  [none |-> {}, boot |-> {"device_id"},
   provision |-> {"device_id", "wifi_ssid", "wifi_pass", "mqtt_uri", "provisioned"},
   set_sample_ms |-> {"sample_ms"}, set_cloud |-> {"cloud_id"}, factory_reset |-> Keys]

OnlyAsked == \A k \in Keys \ (Touches[op] \cup blind) : View(nvs)[k] = was[k]
=============================================================================
