------------------------- MODULE ConfigStoreProofs -------------------------
(***************************************************************************)
(* Proofs about ConfigStore, for every set of networks, periods and clouds *)
(* and any number of power cuts and refusals of NVS: but for what NVS      *)
(* refused, the cache is what the next boot reads, the flag vouches for    *)
(* the network, and an operation changes only the fields it is about.      *)
(***************************************************************************)
EXTENDS ConfigStore, FiniteSetTheorems, TLAPS

USE ConfigAssumption

-----------------------------------------------------------------------------
(* Configurations *)

KeyNames ==
  {"device_id", "wifi_ssid", "wifi_pass", "mqtt_uri", "sample_ms", "provisioned", "cloud_id"}

LEMMA KeysAreNames == Keys = KeyNames
BY DEF Keys, KeyOrder, KeyNames

LEMMA KeysAreFinite == IsFiniteSet(Keys)
<1>1. IsFiniteSet({"device_id"})
  BY FS_Singleton
<1>2. IsFiniteSet({"device_id"} \cup {"wifi_ssid"})
  BY <1>1, FS_AddElement
<1>3. IsFiniteSet({"device_id"} \cup {"wifi_ssid"} \cup {"wifi_pass"})
  BY <1>2, FS_AddElement
<1>4. IsFiniteSet({"device_id"} \cup {"wifi_ssid"} \cup {"wifi_pass"} \cup {"mqtt_uri"})
  BY <1>3, FS_AddElement
<1> DEFINE four == {"device_id"} \cup {"wifi_ssid"} \cup {"wifi_pass"} \cup {"mqtt_uri"}
<1> HIDE DEF four
<1>5. IsFiniteSet(four \cup {"sample_ms"})
  BY <1>4, FS_AddElement DEF four
<1>6. IsFiniteSet(four \cup {"sample_ms"} \cup {"provisioned"})
  BY <1>5, FS_AddElement
<1>7. IsFiniteSet(four \cup {"sample_ms"} \cup {"provisioned"} \cup {"cloud_id"})
  BY <1>6, FS_AddElement
<1>8. Keys = four \cup {"sample_ms"} \cup {"provisioned"} \cup {"cloud_id"}
  BY KeysAreNames DEF KeyNames, four
<1> QED
  BY <1>7, <1>8

\* Every entry has one place in the order of the writes.
LEMMA PlaceOfKey ==
  /\ Len(KeyOrder) = 7
  /\ \A i \in 1 .. 7 : KeyOrder[i] \in Keys
  /\ \A i, j \in 1 .. 7 : KeyOrder[i] = KeyOrder[j] => i = j
  /\ KeyOrder[6] = "provisioned"
  /\ {"wifi_ssid", "wifi_pass", "mqtt_uri"} = {KeyOrder[i] : i \in 2 .. 4}
  /\ \A k \in Keys : \E i \in 1 .. 7 : k = KeyOrder[i]
BY DEF Keys, KeyOrder

LEMMA FieldsMakeValues ==
  ASSUME NEW f, f = [k \in Keys |-> f[k]],
         f["device_id"] \in {"unprovisioned", "own"},
         f["wifi_ssid"] \in Networks \cup {NoNetwork},
         f["wifi_pass"] \in Networks \cup {NoNetwork},
         f["mqtt_uri"] \in Networks \cup {NoNetwork},
         f["sample_ms"] \in Periods, f["provisioned"] \in BOOLEAN, f["cloud_id"] \in Clouds
  PROVE  f \in Values
BY KeysAreNames DEF Values, KeyNames

LEMMA ValuesHaveFields ==
  ASSUME NEW f \in Values
  PROVE  /\ f = [k \in Keys |-> f[k]]
         /\ f["device_id"] \in {"unprovisioned", "own"}
         /\ f["wifi_ssid"] \in Networks \cup {NoNetwork}
         /\ f["wifi_pass"] \in Networks \cup {NoNetwork}
         /\ f["mqtt_uri"] \in Networks \cup {NoNetwork}
         /\ f["sample_ms"] \in Periods /\ f["provisioned"] \in BOOLEAN /\ f["cloud_id"] \in Clouds
BY KeysAreNames DEF Values, KeyNames

LEMMA NoValueIsAbsent == ASSUME NEW f \in Values, NEW k \in Keys PROVE f[k] # Absent
BY ValuesHaveFields, KeysAreNames DEF KeyNames

LEMMA DefaultsAreValues == Defaults \in Values
BY DEF Defaults, Values

\* One field of a configuration replaced by that of another.
LEMMA MixIsValue ==
  ASSUME NEW f \in Values, NEW g \in Values, NEW k \in Keys
  PROVE  [f EXCEPT ![k] = g[k]] \in Values
<1> DEFINE m == [f EXCEPT ![k] = g[k]]
<1>1. m = [j \in Keys |-> IF j = k THEN g[k] ELSE f[j]]
  BY ValuesHaveFields
<1>2. \A j \in KeyNames : m[j] = IF j = k THEN g[j] ELSE f[j]
  BY <1>1, KeysAreNames
<1> HIDE DEF m
<1>3. m = [j \in Keys |-> m[j]]
  BY <1>1
<1>4. m \in Values
  BY <1>2, <1>3, ValuesHaveFields, FieldsMakeValues DEF KeyNames
<1> QED
  BY <1>4 DEF m

\* What a load makes of NVS once an entry has been written.
LEMMA ViewOfWrite ==
  ASSUME NEW n, n = [k \in Keys |-> n[k]], NEW k \in Keys, NEW v, v # Absent
  PROVE  View([n EXCEPT ![k] = v]) = [View(n) EXCEPT ![k] = v]
BY DEF View

LEMMA ViewOfEmpty == View(Empty) \in Values /\ Empty = [k \in Keys |-> Empty[k]]
<1>1. View(Empty) = Defaults
  BY KeysAreNames DEF View, Empty, Defaults, KeyNames
<1> QED
  BY <1>1, DefaultsAreValues DEF Empty

\* An entry that is not read is taken for one that is not there.
LEMMA ViewOfUnread ==
  ASSUME View(nvs) \in Values, NEW u \in SUBSET Keys
  PROVE  LET cfg == View([k \in Keys |-> IF k \in u THEN Absent ELSE nvs[k]])
         IN  cfg \in Values /\ \A k \in Keys \ u : cfg[k] = View(nvs)[k]
<1> DEFINE cfg == View([k \in Keys |-> IF k \in u THEN Absent ELSE nvs[k]])
<1>1. \A k \in Keys : cfg[k] = IF k \in u THEN Defaults[k] ELSE View(nvs)[k]
  BY DEF View
<1>2. cfg = [k \in Keys |-> cfg[k]]
  BY DEF View
<1> HIDE DEF cfg
<1>3. cfg \in Values
  <2>1. \A k \in KeyNames : cfg[k] = IF k \in u THEN Defaults[k] ELSE View(nvs)[k]
    BY <1>1, KeysAreNames
  <2> QED
    BY <1>2, <2>1, DefaultsAreValues, ValuesHaveFields, FieldsMakeValues DEF KeyNames
<1> QED
  BY <1>1, <1>3 DEF cfg

-----------------------------------------------------------------------------
(* The inductive invariant *)

EntriesKnown == nvs = [k \in Keys |-> nvs[k]]

Written(k) == View(nvs)[k] = draft[k] \/ k \in missed

\* While a save is at key, the entries before it are written, or could not be, and
\* the others are as the operation found them.
Progress ==
  /\ at = "write" =>
       \A i \in 1 .. 7 :
         IF i < key THEN Written(KeyOrder[i]) ELSE View(nvs)[KeyOrder[i]] = was[KeyOrder[i]]
  /\ at = "store" => \A k \in Keys : Written(k)
  /\ at = "boot" => was = View(nvs) /\ missed = Keys

\* What is being saved differs from what was there in the fields the operation
\* is about, and in those it could not read.
DraftMinds ==
  at = "write" => \A k \in Keys \ (Touches[op] \cup blind) : draft[k] = was[k]

StoreInv ==
  TypeOK /\ EntriesKnown /\ Progress /\ DraftMinds /\ CacheCoherent /\ FlagVouches /\ OnlyAsked

LEMMA InitEstablishes == Init => StoreInv
<1> SUFFICES ASSUME Init PROVE StoreInv
  OBVIOUS
<1>1. TypeOK /\ EntriesKnown
  BY ViewOfEmpty, DefaultsAreValues, PlaceOfKey DEF Init, TypeOK, EntriesKnown, Ops
<1>2. View(nvs) = Defaults
  BY KeysAreNames DEF Init, View, Empty, Defaults, KeyNames
<1>3. Progress /\ DraftMinds /\ CacheCoherent /\ FlagVouches /\ OnlyAsked
  BY <1>2 DEF Init, Progress, DraftMinds, CacheCoherent, FlagVouches, OnlyAsked
<1> QED
  BY <1>1, <1>3 DEF StoreInv

-----------------------------------------------------------------------------
(* The steps *)

LEMMA PowerOnStep == ASSUME StoreInv, PowerOn PROVE StoreInv'
<1>1. View(nvs') \in Values /\ nvs' = [k \in Keys |-> nvs'[k]]
  BY ViewOfEmpty DEF PowerOn, StoreInv, TypeOK, EntriesKnown
<1>2. TypeOK' /\ EntriesKnown'
  BY <1>1, DefaultsAreValues, PlaceOfKey DEF PowerOn, StoreInv, TypeOK, EntriesKnown, Ops
<1>3. was' = View(nvs')
  BY DEF PowerOn
<1>4. (Progress /\ DraftMinds /\ CacheCoherent /\ FlagVouches /\ OnlyAsked)'
  BY <1>3 DEF PowerOn, Progress, DraftMinds, CacheCoherent, FlagVouches, OnlyAsked
<1> QED
  BY <1>2, <1>4 DEF StoreInv

LoadBut(u) ==
  [cfg |-> View([k \in Keys |-> IF k \in u THEN Absent ELSE nvs[k]]),
   unread |-> u, refused |-> Cardinality(u)]

\* The namespace did not open, or did, and then a set u of entries was not read.
LEMMA LoadIsOneOfTwo ==
  ASSUME StoreInv, NEW l \in Loads
  PROVE  \/ l = [cfg |-> s_cfg, unread |-> missed, refused |-> 1]
         \/ \E u \in SUBSET Keys : l = LoadBut(u)
<1>1. MaxTroubles - troubles \in 0 .. MaxTroubles
  BY DEF StoreInv, TypeOK
<1>2. \A u \in AtMost[MaxTroubles - troubles] : u \in SUBSET Keys
  BY <1>1 DEF AtMost
<1>3. Loads = {[cfg |-> s_cfg, unread |-> missed, refused |-> 1]}
                \cup {LoadBut(u) : u \in AtMost[MaxTroubles - troubles]}
  BY DEF Loads, LoadBut
<1> QED
  BY <1>2, <1>3

\* What a load gives between two operations, or at boot: a configuration, which is that
\* of NVS but for the fields that were not read.
LEMMA LoadGives ==
  ASSUME StoreInv, at \in {"boot", "idle"}, NEW l \in Loads
  PROVE  /\ l.cfg \in Values /\ l.unread \subseteq Keys
         /\ \A k \in Keys \ l.unread : l.cfg[k] = View(nvs)[k]
<1>1. /\ View(nvs) \in Values /\ s_cfg \in Values /\ missed \subseteq Keys
      /\ troubles \in 0 .. MaxTroubles
  BY DEF StoreInv, TypeOK
<1>2. CASE l = [cfg |-> s_cfg, unread |-> missed, refused |-> 1]
  <2>1. l.cfg = s_cfg /\ l.unread = missed
    BY <1>2
  <2> QED
    BY <1>1, <2>1 DEF StoreInv, Progress, CacheCoherent
<1>3. ASSUME NEW u \in SUBSET Keys, l = LoadBut(u)
      PROVE  /\ l.cfg \in Values /\ l.unread \subseteq Keys
             /\ \A k \in Keys \ l.unread : l.cfg[k] = View(nvs)[k]
  <2>1. /\ l.cfg = View([k \in Keys |-> IF k \in u THEN Absent ELSE nvs[k]])
        /\ l.unread = u
    BY <1>3 DEF LoadBut
  <2> QED
    BY <1>1, <2>1, ViewOfUnread
<1> QED
  BY <1>2, <1>3, LoadIsOneOfTwo

LEMMA RefusedType == ASSUME StoreInv, NEW l \in Loads PROVE l.refused \in Nat
<1>1. CASE l = [cfg |-> s_cfg, unread |-> missed, refused |-> 1]
  BY <1>1
<1>2. ASSUME NEW u \in SUBSET Keys, l = LoadBut(u) PROVE l.refused \in Nat
  <2>1. l.refused = Cardinality(u)
    BY <1>2 DEF LoadBut
  <2> QED
    BY <2>1, KeysAreFinite, FS_Subset, FS_CardinalityType
<1> QED
  BY <1>1, <1>2, LoadIsOneOfTwo

\* What the operations have in common: they change the structure cfg that is the cache
\* from now on, in their own fields only.
LEMMA SaveStep ==
  ASSUME StoreInv, NEW o \in Ops, NEW cfg \in Values, NEW d \in Values, NEW n, Save(o, d, n),
         s_cfg' = cfg, blind' \subseteq Keys,
         \A k \in Keys \ blind' : cfg[k] = View(nvs)[k],
         \A k \in Keys \ Touches[o] : d[k] = cfg[k],
         troubles' \in 0 .. MaxTroubles
  PROVE  StoreInv'
<1>1. /\ nvs' = nvs /\ View(nvs') = View(nvs) /\ was' = View(nvs) /\ draft' = d /\ op' = o
      /\ key' = 1
      /\ \/ at' = "write" /\ missed' = {}
         \/ at' = "idle" /\ missed' = blind'
  BY DEF Save
<1>2. TypeOK' /\ EntriesKnown'
  BY <1>1, PlaceOfKey DEF StoreInv, TypeOK, EntriesKnown
<1>3. Progress' /\ DraftMinds'
  BY <1>1, PlaceOfKey DEF Progress, DraftMinds
<1>4. CacheCoherent'
  BY <1>1 DEF CacheCoherent
<1>5. FlagVouches' /\ OnlyAsked'
  BY <1>1 DEF FlagVouches, OnlyAsked
<1> QED
  BY <1>2, <1>3, <1>4, <1>5 DEF StoreInv

\* The same of an operation that begins with a load.
LEMMA LoadAndSave ==
  ASSUME StoreInv, at \in {"boot", "idle"}, NEW l \in Loads, Load(l),
         NEW o \in Ops, NEW d \in Values, Save(o, d, l.refused),
         \A k \in Keys \ Touches[o] : d[k] = l.cfg[k]
  PROVE  StoreInv'
<1>1. troubles' \in 0 .. MaxTroubles
  BY RefusedType DEF Save, Trouble, StoreInv, TypeOK
<1>2. /\ l.cfg \in Values /\ l.unread \subseteq Keys
      /\ \A k \in Keys \ l.unread : l.cfg[k] = View(nvs)[k]
  BY LoadGives
<1>3. s_cfg' = l.cfg /\ blind' = l.unread
  BY DEF Load
<1> QED
  BY <1>1, <1>2, <1>3, SaveStep

LEMMA BootStep == ASSUME StoreInv, Boot PROVE StoreInv'
<1>0. PICK l \in Loads :
        /\ Load(l)
        /\ IF l.cfg.device_id = "unprovisioned"
             THEN Save("boot", [l.cfg EXCEPT !.device_id = "own"], l.refused)
             ELSE /\ at' = "idle" /\ missed' = l.unread /\ Trouble(l.refused)
                  /\ UNCHANGED <<nvs, op, draft, key, was>>
  BY DEF Boot
<1> DEFINE d == [l.cfg EXCEPT !.device_id = "own"]
<1>1. /\ at = "boot"
      /\ l.cfg \in Values /\ l.unread \subseteq Keys
      /\ \A k \in Keys \ l.unread : l.cfg[k] = View(nvs)[k]
  BY LoadGives DEF Boot
<1>2. CASE l.cfg.device_id = "unprovisioned"
  <2>1. d \in Values
    BY <1>1 DEF Values
  <2>2. \A k \in Keys \ {"device_id"} : d[k] = l.cfg[k]
    BY <1>1, KeysAreNames DEF Values, KeyNames
  <2> HIDE DEF d
  <2>3. Save("boot", d, l.refused) /\ Load(l)
    BY <1>0, <1>2 DEF d
  <2> QED
    BY <1>1, <2>1, <2>2, <2>3, LoadAndSave DEF Ops, Touches
<1>3. CASE l.cfg.device_id # "unprovisioned"
  <2>1. /\ nvs' = nvs /\ View(nvs') = View(nvs) /\ was' = was /\ draft' = draft /\ op' = op
        /\ key' = key /\ at' = "idle" /\ Trouble(l.refused)
        /\ s_cfg' = l.cfg /\ missed' = l.unread /\ blind' = l.unread
    BY <1>0, <1>3 DEF Load
  <2>2. TypeOK' /\ EntriesKnown'
    <3>1. troubles' \in 0 .. MaxTroubles
      BY <2>1, RefusedType DEF Trouble, StoreInv, TypeOK
    <3> QED
      BY <1>1, <2>1, <3>1 DEF StoreInv, TypeOK, EntriesKnown
  <2>3. Progress' /\ DraftMinds' /\ CacheCoherent'
    BY <1>1, <2>1 DEF Progress, DraftMinds, CacheCoherent
  <2>4. FlagVouches' /\ OnlyAsked'
    BY <1>1, <2>1 DEF StoreInv, Progress, FlagVouches, OnlyAsked
  <2> QED
    BY <2>2, <2>3, <2>4 DEF StoreInv
<1> QED
  BY <1>2, <1>3

\* A commissioning message, of which a key that is not there keeps its value.
LEMMA ProvisionStep == ASSUME StoreInv, NEW json \in Json, Provision(json) PROVE StoreInv'
<1>0. PICK l \in Loads : Load(l) /\ Save("provision", Provisioned(l.cfg, json), l.refused)
  BY DEF Provision
<1> DEFINE named == [k \in Keys |->
               IF k \in json.keys THEN json.network
               ELSE IF k = "device_id" THEN "own" ELSE l.cfg[k]]
           d == Provisioned(l.cfg, json)
<1>1. json.keys \subseteq {"wifi_ssid", "wifi_pass", "mqtt_uri"} /\ json.network \in Networks
  BY DEF Json
<1>2. at = "idle" /\ l.cfg \in Values
  BY LoadGives DEF Provision
<1>3. named \in Values
  <2>1. \A k \in KeyNames : named[k] =
          IF k \in json.keys THEN json.network
          ELSE IF k = "device_id" THEN "own" ELSE l.cfg[k]
    BY KeysAreNames
  <2>2. named = [k \in Keys |-> named[k]]
    OBVIOUS
  <2> HIDE DEF named
  <2> QED
    BY <1>1, <1>2, <2>1, <2>2, ValuesHaveFields, FieldsMakeValues DEF KeyNames
<1>4. \A k \in Keys \ Touches["provision"] : named[k] = l.cfg[k]
  BY <1>1 DEF Touches
<1>5. d = [named EXCEPT !.provisioned = named.wifi_ssid # NoNetwork]
  BY DEF Provisioned
<1> HIDE DEF named, d
<1>6. d \in Values
  BY <1>3, <1>5 DEF Values
<1>7. \A k \in Keys \ Touches["provision"] : d[k] = named[k]
  BY <1>3, <1>5, KeysAreNames DEF Values, KeyNames, Touches
<1>8. Load(l) /\ Save("provision", d, l.refused)
  BY <1>0 DEF d
<1> QED
  BY <1>2, <1>4, <1>6, <1>7, <1>8, LoadAndSave DEF Ops

LEMMA SetSampleMsStep == ASSUME StoreInv, NEW ms \in Periods, SetSampleMs(ms) PROVE StoreInv'
<1>0. PICK l \in Loads :
        Load(l) /\ Save("set_sample_ms", [l.cfg EXCEPT !.sample_ms = ms], l.refused)
  BY DEF SetSampleMs
<1> DEFINE d == [l.cfg EXCEPT !.sample_ms = ms]
<1>1. at = "idle" /\ l.cfg \in Values
  BY LoadGives DEF SetSampleMs
<1>2. d \in Values /\ \A k \in Keys \ {"sample_ms"} : d[k] = l.cfg[k]
  BY <1>1, KeysAreNames DEF Values, KeyNames
<1>3. Load(l) /\ Save("set_sample_ms", d, l.refused)
  BY <1>0
<1> HIDE DEF d
<1> QED
  BY <1>1, <1>2, <1>3, LoadAndSave DEF Ops, Touches

LEMMA SetCloudStep == ASSUME StoreInv, NEW c \in Clouds, SetCloud(c) PROVE StoreInv'
<1>0. PICK l \in Loads : Load(l) /\ Save("set_cloud", [l.cfg EXCEPT !.cloud_id = c], l.refused)
  BY DEF SetCloud
<1> DEFINE d == [l.cfg EXCEPT !.cloud_id = c]
<1>1. at = "idle" /\ l.cfg \in Values
  BY LoadGives DEF SetCloud
<1>2. d \in Values /\ \A k \in Keys \ {"cloud_id"} : d[k] = l.cfg[k]
  BY <1>1, KeysAreNames DEF Values, KeyNames
<1>3. Load(l) /\ Save("set_cloud", d, l.refused)
  BY <1>0
<1> HIDE DEF d
<1> QED
  BY <1>1, <1>2, <1>3, LoadAndSave DEF Ops, Touches

LEMMA FactoryResetStep == ASSUME StoreInv, FactoryReset PROVE StoreInv'
<1>1. Save("factory_reset", Defaults, 0) /\ at = "idle" /\ s_cfg' = s_cfg /\ blind' = missed
  BY DEF FactoryReset
<1>2. troubles' \in 0 .. MaxTroubles
  BY <1>1 DEF Save, Trouble, StoreInv, TypeOK
<1>3. /\ s_cfg \in Values /\ missed \subseteq Keys
      /\ \A k \in Keys \ missed : s_cfg[k] = View(nvs)[k]
  BY <1>1 DEF StoreInv, TypeOK, CacheCoherent
<1> QED
  BY <1>1, <1>2, <1>3, DefaultsAreValues, SaveStep DEF Ops, Touches

LEMMA WriteKeyStep == ASSUME StoreInv, WriteKey PROVE StoreInv'
<1> DEFINE k == KeyOrder[key]
<1>1. /\ at = "write" /\ s_cfg' = s_cfg /\ op' = op /\ draft' = draft /\ was' = was
      /\ blind' = blind /\ troubles' \in 0 .. MaxTroubles /\ key \in 1 .. 7 /\ k \in Keys
  BY PlaceOfKey DEF WriteKey, Trouble, StoreInv, TypeOK
<1>2. \/ key < 7 /\ key' = key + 1 /\ at' = "write"
      \/ key = 7 /\ key' = key /\ at' = "store"
  BY <1>1, PlaceOfKey DEF WriteKey
<1>3. View(nvs) \in Values /\ draft \in Values
  BY DEF StoreInv, TypeOK
<1>4. \/ /\ nvs' = [nvs EXCEPT ![k] = draft[k]] /\ missed' = missed
         /\ View(nvs') = [View(nvs) EXCEPT ![k] = draft[k]]
      \/ nvs' = nvs /\ View(nvs') = View(nvs) /\ missed' = missed \cup {k}
  <2>1. CASE nvs' = [nvs EXCEPT ![k] = draft[k]] /\ missed' = missed
    <3>1. draft[k] # Absent
      BY <1>1, <1>3, NoValueIsAbsent
    <3> QED
      BY <1>1, <2>1, <3>1, ViewOfWrite DEF StoreInv, EntriesKnown
  <2>2. CASE nvs' = nvs /\ missed' = missed \cup {k}
    BY <2>2
  <2> QED
    BY <2>1, <2>2 DEF WriteKey
<1>5. TypeOK' /\ EntriesKnown'
  <2>1. View(nvs') \in Values
    BY <1>1, <1>3, <1>4, MixIsValue
  <2>2. EntriesKnown'
    BY <1>1, <1>4 DEF StoreInv, EntriesKnown
  <2> HIDE DEF k
  <2>3. TypeOK'
    BY <1>1, <1>2, <1>4, <2>1, PlaceOfKey DEF StoreInv, TypeOK
  <2> QED
    BY <2>2, <2>3
\* Entry k is dealt with, the others stay as they were.
<1>6. /\ View(nvs')[k] = draft[k] \/ k \in missed'
      /\ missed \subseteq missed'
      /\ \A j \in Keys \ {k} : View(nvs')[j] = View(nvs)[j]
  <2>1. \A j \in Keys : [View(nvs) EXCEPT ![k] = draft[k]][j] = IF j = k THEN draft[k] ELSE View(nvs)[j]
    BY <1>1, <1>3, ValuesHaveFields
  <2> HIDE DEF k
  <2>2. CASE nvs' = nvs /\ View(nvs') = View(nvs) /\ missed' = missed \cup {k}
    BY <2>2
  <2>3. CASE View(nvs') = [View(nvs) EXCEPT ![k] = draft[k]] /\ missed' = missed
    BY <1>1, <2>1, <2>3
  <2> QED
    BY <1>4, <2>2, <2>3
<1>7. \A i \in 1 .. 7 : i # key => KeyOrder[i] \in Keys \ {k}
  BY <1>1, PlaceOfKey
<1>8. \A i \in 1 .. 7 : i <= key =>
        View(nvs')[KeyOrder[i]] = draft[KeyOrder[i]] \/ KeyOrder[i] \in missed'
  <2> SUFFICES ASSUME NEW i \in 1 .. 7, i <= key
               PROVE  View(nvs')[KeyOrder[i]] = draft[KeyOrder[i]] \/ KeyOrder[i] \in missed'
    OBVIOUS
  <2>1. CASE i = key
    BY <1>6, <2>1
  <2>2. CASE i < key
    <3>1. Written(KeyOrder[i])
      BY <1>1, <2>2 DEF StoreInv, Progress
    <3>2. KeyOrder[i] \in Keys \ {k}
      BY <1>7, <2>2
    <3> HIDE DEF k
    <3> QED
      BY <1>6, <3>1, <3>2 DEF Written
  <2> QED
    BY <1>1, <2>1, <2>2
<1> HIDE DEF k
<1>9. \A i \in 1 .. 7 : i > key => View(nvs')[KeyOrder[i]] = was[KeyOrder[i]]
  BY <1>1, <1>6, <1>7 DEF StoreInv, Progress
<1>10. Progress'
  BY <1>1, <1>2, <1>8, <1>9, PlaceOfKey DEF Progress, Written
<1>11. DraftMinds' /\ CacheCoherent'
  BY <1>1, <1>2 DEF StoreInv, DraftMinds, CacheCoherent
<1>12. FlagVouches'
  <2>1. CASE key >= 6
    BY <1>1, <1>8, <2>1, PlaceOfKey DEF FlagVouches, Written
  <2>2. CASE key < 6
    <3>1. View(nvs')["provisioned"] = was["provisioned"]
      BY <1>9, <2>2, PlaceOfKey
    <3> QED
      BY <1>1, <3>1 DEF FlagVouches
  <2> QED
    BY <1>1, <2>1, <2>2
<1>13. OnlyAsked'
  <2>1. ASSUME NEW j \in Keys \ (Touches[op] \cup blind) PROVE View(nvs')[j] = was[j]
    <3>1. View(nvs)[j] = was[j] /\ draft[j] = was[j]
      BY <1>1 DEF StoreInv, OnlyAsked, DraftMinds
    <3>2. View(nvs')[j] = View(nvs)[j] \/ View(nvs')[j] = draft[j]
      BY <1>1, <1>3, <1>4, ValuesHaveFields
    <3> QED
      BY <3>1, <3>2
  <2> QED
    BY <1>1, <2>1 DEF OnlyAsked
<1> QED
  BY <1>5, <1>10, <1>11, <1>12, <1>13 DEF StoreInv

LEMMA LastStep == ASSUME StoreInv, Store \/ PowerCut \/ UNCHANGED vars PROVE StoreInv'
<1>1. /\ nvs' = nvs /\ View(nvs') = View(nvs) /\ was' = was /\ draft' = draft /\ op' = op
      /\ blind' = blind /\ missed' = missed
  BY DEF Store, PowerCut, vars
<1>2. TypeOK' /\ EntriesKnown'
  <2>1. s_cfg' \in Values /\ at' \in {"off", "boot", "idle", "write", "store"}
    BY DefaultsAreValues DEF StoreInv, TypeOK, Store, PowerCut, vars
  <2>2. key' \in 1 .. Len(KeyOrder) /\ troubles' \in 0 .. MaxTroubles
    BY PlaceOfKey DEF StoreInv, TypeOK, Store, PowerCut, Trouble, vars
  <2> QED
    BY <1>1, <2>1, <2>2 DEF StoreInv, TypeOK, EntriesKnown
<1>3. FlagVouches' /\ OnlyAsked'
  BY <1>1 DEF StoreInv, FlagVouches, OnlyAsked
<1>4. CASE Store
  <2>1. CacheCoherent'
    BY <1>1, <1>4 DEF StoreInv, Progress, Written, CacheCoherent, Store
  <2>2. Progress' /\ DraftMinds'
    BY <1>1, <1>4 DEF Progress, DraftMinds, Store
  <2> QED
    BY <1>2, <1>3, <2>1, <2>2 DEF StoreInv
<1>5. CASE PowerCut
  BY <1>2, <1>3, <1>5 DEF StoreInv, Progress, DraftMinds, CacheCoherent, PowerCut
<1>6. CASE UNCHANGED vars
  <2>1. at' = at /\ key' = key /\ s_cfg' = s_cfg
    BY <1>6 DEF vars
  <2>2. Progress' /\ DraftMinds' /\ CacheCoherent'
    BY <1>1, <2>1 DEF StoreInv, Progress, Written, DraftMinds, CacheCoherent
  <2> QED
    BY <1>2, <1>3, <2>2 DEF StoreInv
<1> QED
  BY <1>4, <1>5, <1>6

LEMMA StepKeeps == StoreInv /\ [Next]_vars => StoreInv'
BY PowerOnStep, BootStep, ProvisionStep, SetSampleMsStep, SetCloudStep, FactoryResetStep,
   WriteKeyStep, LastStep DEF Next

-----------------------------------------------------------------------------
(* The theorems *)

\* The invariant holds in every state the device can reach (iot_config.c with
\* everything that calls it).
THEOREM StoreInvariant == Spec => []StoreInv
<1>1. Init => StoreInv
  BY InitEstablishes
<1>2. StoreInv /\ [Next]_vars => StoreInv'
  BY StepKeeps
<1> QED
  BY <1>1, <1>2, PTL DEF Spec

\* The entries, the cache and the structure being saved are configurations, for any
\* networks, periods and clouds.
THEOREM StoreTypes == Spec => []TypeOK
<1>1. StoreInv => TypeOK
  BY DEF StoreInv
<1> QED
  BY <1>1, StoreInvariant, PTL

\* iot_config_load and iot_config_save leave in s_cfg what the next boot reads,
\* but for entries NVS refused, all of them if it did not open for the first load.
THEOREM CacheStaysCoherent == Spec => []CacheCoherent
<1>1. StoreInv => CacheCoherent
  BY DEF StoreInv
<1> QED
  BY <1>1, StoreInvariant, PTL

\* A device that iot_provision_apply_json has made provisioned has the network it
\* was given, wherever the power was cut.
THEOREM FlagKeepsItsWord == Spec => []FlagVouches
<1>1. StoreInv => FlagVouches
  BY DEF StoreInv
<1> QED
  BY <1>1, StoreInvariant, PTL

\* No operation changes in NVS a field it is not about, wherever it was cut, but for
\* those its load did not get from NVS (iot_config.c:104-109, main.c:89-92).
THEOREM OnlyAskedChanges == Spec => []OnlyAsked
<1>1. StoreInv => OnlyAsked
  BY DEF StoreInv
<1> QED
  BY <1>1, StoreInvariant, PTL
=============================================================================
