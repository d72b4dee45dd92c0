------------------------ MODULE CommissioningProofs ------------------------
(***************************************************************************)
(* Commissioning for any messages, any depth of the queue and any number   *)
(* of faults: a phone finds the device, what it reads back is true, and a  *)
(* plain message does what its keys ask for.                               *)
(***************************************************************************)
EXTENDS Commissioning, TLAPS

-----------------------------------------------------------------------------
(* Types. *)

LEMMA ElementOf == ASSUME NEW S, NEW s \in Seq(S), NEW i \in DOMAIN s PROVE s[i] \in S
  OBVIOUS

LEMMA FieldValue ==
  ASSUME NEW m \in Messages, NEW i \in DOMAIN m.fields PROVE m.fields[i].value \in Values
<1>1. m.fields \in Seq([key : Keys, value : Values])
  BY DEF Messages
<1>2. m.fields[i] \in [key : Keys, value : Values]
  BY <1>1, ElementOf, Zenon
<1> QED
  BY <1>2

LEMMA AfterIsValue == ASSUME NEW m \in Messages, NEW w PROVE After(m, w) \in Values
<1> DEFINE colon == Min(Places(m, w)) \div 2 + 1
<1> HIDE DEF colon
<1>1. After(m, w) = IF HasWord(m, w) /\ colon \in DOMAIN m.fields
                      THEN m.fields[colon].value ELSE Number
  BY DEF After, colon
<1>2. Number \in Values
  BY DEF Values
<1> QED
  BY <1>1, <1>2, FieldValue

LEMMA HookNetwork == ASSUME NEW m \in Messages PROVE Hook(hook, m).network \in Values
<1> DEFINE a == After(m, "ssid")
           u == After(m, "uc")
<1> HIDE DEF a, u
<1>1. a \in Values
  BY AfterIsValue DEF a
<1>2. \A x : Does(x).network \in Values
  BY DEF Does, Values
<1>3. Provide(a).network \in Values
  BY <1>1 DEF Provide
<1>4. Run(u, a).network \in Values
  BY <1>2, <1>3 DEF Run
<1>5. Handle(m) \in {Does("refuse"), Does("ota"), Does("forward"), Provide(a), Run(u, a)}
  BY DEF Handle, a, u
<1>6. Handle(m).network \in Values
  BY <1>2, <1>3, <1>4, <1>5
<1> QED
  BY <1>2, <1>6 DEF Hook

LEMMA SaveIsConfig ==
  ASSUME nvs \in Configs, NEW n \in Values PROVE Applied(n) \in Configs
  BY DEF Applied, Configs, Blank, Number

LEMMA SendKeepsQueue ==
  ASSUME TypeOK, NEW m \in Messages, Send(m)
  PROVE  command_q' \in Seq(Messages) /\ Len(command_q') <= QueueDepth
  BY CommissioningAssumption DEF Send, TypeOK

LEMMA HeadAndTail ==
  ASSUME NEW S, NEW s \in Seq(S), s # <<>>
  PROVE  Head(s) \in S /\ Tail(s) \in Seq(S) /\ Len(Tail(s)) = Len(s) - 1
  OBVIOUS

LEMMA FaultCounts == TypeOK /\ Fault => faults' \in 0 .. MaxFaults
<1>1. MaxFaults \in Nat
  BY CommissioningAssumption
<1> QED
  BY <1>1 DEF TypeOK, Fault

LEMMA NothingTyped == Bare \in Configs /\ NoLetter \in Messages
<1>1. Bare \in Configs
  BY DEF Bare, Configs, Values
<1>2. \A S : <<>> \in Seq(S)
  OBVIOUS
<1>3. NoLetter \in Messages
  BY <1>2 DEF NoLetter, Messages, Opcodes, Texts
<1> QED
  BY <1>1, <1>3

LEMMA InitType == Init => TypeOK
<1> SUFFICES ASSUME Init PROVE TypeOK
  OBVIOUS
<1>1. nvs \in Configs
  BY NothingTyped DEF Init, Configs, Values
<1>2. command_q \in Seq(Messages) /\ Len(command_q) <= QueueDepth /\ faults \in 0 .. MaxFaults
  BY CommissioningAssumption DEF Init
<1>3. letter \in Messages
  BY CommissioningAssumption DEF Init
<1> QED
  BY <1>1, <1>2, <1>3, NothingTyped DEF Init, TypeOK

LEMMA StepType == TypeOK /\ [Next]_vars => TypeOK'
<1> SUFFICES ASSUME TypeOK, [Next]_vars PROVE TypeOK'
  OBVIOUS
<1>0. Bare \in Configs /\ NoLetter \in Messages /\ (Fault => faults' \in 0 .. MaxFaults)
  BY NothingTyped, FaultCounts
<1> USE <1>0 DEF TypeOK, product, ble, task
<1>1. CASE UNCHANGED vars
  BY <1>1 DEF vars
<1>2. CASE Device
  <2>1. CASE PowerOn
    BY <2>1 DEF PowerOn
  <2>2. CASE InitBle
    <3>1. failed' \in BOOLEAN /\ faults' \in 0 .. MaxFaults
      BY <2>2, Zenon DEF InitBle
    <3> QED
      BY <2>2, <3>1 DEF InitBle
  <2>3. CASE Sync
    <3>1. adv' \in BOOLEAN /\ failed' \in BOOLEAN /\ faults' \in 0 .. MaxFaults
      BY <2>3, Zenon DEF Sync, Advertise
    <3> QED
      BY <2>3, <3>1 DEF Sync
  <2>4. CASE GapEvent
    <3>1. adv' \in BOOLEAN /\ failed' \in BOOLEAN /\ faults' \in 0 .. MaxFaults
      BY <2>4, Zenon DEF GapEvent, Advertise
    <3>2. s_connected' \in BOOLEAN
      BY <2>4, Zenon DEF GapEvent
    <3> QED
      BY <2>4, <3>1, <3>2 DEF GapEvent
  <2> QED
    BY <1>2, <2>1, <2>2, <2>3, <2>4 DEF Device
<1>3. CASE CommandTask
  <2>1. CASE Receive
    <3>1. command_q' \in Seq(Messages) /\ Len(command_q') <= QueueDepth /\ hand' \in Messages
      <4>1. /\ Head(command_q) \in Messages /\ Tail(command_q) \in Seq(Messages)
            /\ Len(Tail(command_q)) = Len(command_q) - 1
        BY <2>1, HeadAndTail, Zenon DEF Receive, TypeOK
      <4>2. QueueDepth \in Nat /\ Len(command_q) \in Nat
        BY CommissioningAssumption
      <4> QED
        BY <2>1, <4>1, <4>2 DEF Receive
    <3> QED
      BY <2>1, <3>1 DEF Receive
  <2>2. CASE Execute
    <3>1. Applied(Hook(hook, hand).network) \in Configs
      BY HookNetwork, SaveIsConfig
    <3>2. draft' \in Configs /\ s_cfg' \in Configs /\ hand' \in Messages
            /\ faults' \in 0 .. MaxFaults /\ doing' \in {"idle", "network"}
      BY <2>2, <3>1 DEF Execute, Save
    <3> QED
      BY <2>2, <3>2 DEF Execute
  <2>3. CASE WriteNetwork
    BY <2>3 DEF WriteNetwork, Configs
  <2>4. CASE WriteFlag
    BY <2>4 DEF WriteFlag, Configs
  <2>5. CASE StoreCache
    BY <2>5 DEF StoreCache
  <2> QED
    BY <1>3, <2>1, <2>2, <2>3, <2>4, <2>5 DEF CommandTask
<1>4. CASE World
  <2>1. CASE Connect
    BY <2>1, ZenonT(30) DEF Connect
  <2>2. CASE Disconnect
    BY <2>2, ZenonT(30) DEF Disconnect
  <2>3. CASE Write
    BY <2>3, SendKeepsQueue DEF Write
  <2>4. CASE ReadBack
    BY <2>4 DEF ReadBack
  <2>5. CASE CloudSends
    <3>1. PICK m \in CloudLetters : Send(m)
      BY <2>5 DEF CloudSends
    <3>2. m \in Messages
      BY CommissioningAssumption
    <3>3. command_q' \in Seq(Messages) /\ Len(command_q') <= QueueDepth
      BY <3>1, <3>2, SendKeepsQueue
    <3> QED
      BY <2>5, <3>3 DEF CloudSends
  <2>6. CASE PowerCut
    <3>1. told' \in BOOLEAN /\ torn' \in BOOLEAN
      BY <2>6, Zenon DEF PowerCut
    <3>2. command_q' \in Seq(Messages) /\ Len(command_q') <= QueueDepth
      BY <2>6, CommissioningAssumption DEF PowerCut
    <3> QED
      BY <2>6, <3>1, <3>2 DEF PowerCut
  <2> QED
    BY <1>4, <2>1, <2>2, <2>3, <2>4, <2>5, <2>6 DEF World
<1> QED
  BY <1>1, <1>2, <1>3, <1>4 DEF Next

-----------------------------------------------------------------------------
(* What the searches for words find in a plain message.                    *)

Searched == {"uc", "ssid", "ota_url", Word}

LEMMA MinOfOne == ASSUME NEW n \in Nat PROVE Min({n}) = n
  BY DEF Min

\* The words of a message, key after value.
LEMMA KeyPlace ==
  ASSUME NEW m \in Messages, NEW i \in DOMAIN m.fields
  PROVE  /\ 2 * i - 1 \in DOMAIN Words(m) /\ Words(m)[2 * i - 1] = m.fields[i].key
         /\ 2 * i \in DOMAIN Words(m) /\ Words(m)[2 * i] = m.fields[i].value
<1>1. /\ m.fields \in Seq([key : Keys, value : Values])
      /\ Len(m.fields) \in Nat /\ DOMAIN m.fields = 1 .. Len(m.fields)
  BY DEF Messages
<1> DEFINE n == Len(m.fields)
<1> HIDE DEF n
<1>2. i \in 1 .. n /\ n \in Nat
  BY <1>1 DEF n
<1>3. /\ 2 * i - 1 \in 1 .. 2 * n /\ (2 * i - 1) % 2 = 1 /\ ((2 * i - 1) + 1) \div 2 = i
      /\ 2 * i \in 1 .. 2 * n /\ (2 * i) % 2 # 1 /\ (2 * i) \div 2 = i
  BY <1>2
<1> QED
  BY <1>3 DEF Words, n

LEMMA PlaceIsField ==
  ASSUME NEW m \in Messages, NEW p \in DOMAIN Words(m)
  PROVE  \E i \in DOMAIN m.fields :
           \/ p = 2 * i - 1 /\ Words(m)[p] = m.fields[i].key
           \/ p = 2 * i /\ Words(m)[p] = m.fields[i].value
<1>1. /\ m.fields \in Seq([key : Keys, value : Values])
      /\ Len(m.fields) \in Nat /\ DOMAIN m.fields = 1 .. Len(m.fields)
  BY DEF Messages
<1> DEFINE n == Len(m.fields)
<1> HIDE DEF n
<1>2. p \in 1 .. 2 * n /\ n \in Nat
  BY <1>1 DEF Words, n
<1>3. CASE p % 2 = 1
  <2>1. PICK i \in 1 .. n : p = 2 * i - 1
    BY <1>2, <1>3
  <2> QED
    BY <1>1, <2>1, KeyPlace DEF n
<1>4. CASE p % 2 # 1
  <2>1. PICK i \in 1 .. n : p = 2 * i
    BY <1>2, <1>4
  <2> QED
    BY <1>1, <2>1, KeyPlace DEF n
<1> QED
  BY <1>3, <1>4

\* A word that is no value of the message is found where it is a key.
LEMMA WordIsKey ==
  ASSUME NEW m \in Messages, NEW w, \A i \in DOMAIN m.fields : m.fields[i].value # w
  PROVE  HasWord(m, w) <=> Asks(m, w)
<1>1. ASSUME HasWord(m, w) PROVE Asks(m, w)
  <2>1. PICK p \in DOMAIN Words(m) : Words(m)[p] = w
    BY <1>1 DEF HasWord, Places
  <2> QED
    BY <2>1, PlaceIsField DEF Asks
<1>2. ASSUME Asks(m, w) PROVE HasWord(m, w)
  <2>1. PICK i \in DOMAIN m.fields : m.fields[i].key = w
    BY <1>2 DEF Asks
  <2>2. 2 * i - 1 \in Places(m, w)
    BY <2>1, KeyPlace DEF Places
  <2> QED
    BY <2>2 DEF HasWord
<1> QED
  BY <1>1, <1>2

\* What extract_str finds after a word is the value of the key.
LEMMA AfterIsGiven ==
  ASSUME NEW m \in Messages, NEW w, \A i \in DOMAIN m.fields : m.fields[i].value # w,
         \A i, j \in DOMAIN m.fields : i # j => m.fields[i].key # m.fields[j].key
  PROVE  After(m, w) = Given(m, w)
<1>1. CASE ~Asks(m, w)
  BY <1>1, WordIsKey DEF After, Given
<1>2. CASE Asks(m, w)
  <2>1. PICK i \in DOMAIN m.fields : m.fields[i].key = w
    BY <1>2 DEF Asks
  <2>2. \A j \in DOMAIN m.fields : m.fields[j].key = w => j = i
    BY <2>1
  <2>3. i \in Nat \ {0}
    BY DEF Messages
  <2>4. Places(m, w) = {2 * i - 1}
    <3>1. 2 * i - 1 \in Places(m, w)
      BY <2>1, KeyPlace DEF Places
    <3>2. ASSUME NEW p \in Places(m, w) PROVE p = 2 * i - 1
      <4>1. p \in DOMAIN Words(m) /\ Words(m)[p] = w
        BY <3>2 DEF Places
      <4>2. PICK j \in DOMAIN m.fields : p = 2 * j - 1 /\ m.fields[j].key = w
        BY <4>1, PlaceIsField
      <4> QED
        BY <2>2, <4>2
    <3> QED
      BY <3>1, <3>2
  <2>5. Min(Places(m, w)) = 2 * i - 1
    <3>1. 2 * i - 1 \in Nat
      BY <2>3
    <3> QED
      BY <2>4, <3>1, MinOfOne
  <2>6. (2 * i - 1) \div 2 + 1 = i
    BY <2>3
  <2>7. After(m, w) = m.fields[i].value
    BY <1>2, <2>5, <2>6, WordIsKey DEF After
  <2>8. Given(m, w) = m.fields[i].value
    <3>1. (CHOOSE j \in DOMAIN m.fields : m.fields[j].key = w) = i
      BY <2>1, <2>2
    <3> QED
      BY <1>2, <3>1 DEF Given
  <2> QED
    BY <2>7, <2>8
<1> QED
  BY <1>1, <1>2

\* An address to update from is found where it is asked for.
LEMMA UrlIsGiven ==
  ASSUME NEW m \in Messages, Plain(m)
  PROVE  HasWord(m, "ota_url") /\ HasWord(m, Url) <=> Given(m, "ota_url") = Url
<1>1. ASSUME HasWord(m, Url) PROVE Given(m, "ota_url") = Url
  <2>1. PICK p \in DOMAIN Words(m) : Words(m)[p] = Url
    BY <1>1 DEF HasWord, Places
  <2>2. PICK i \in DOMAIN m.fields : m.fields[i].key = Url \/ m.fields[i].value = Url
    BY <2>1, PlaceIsField
  <2>3. m.fields[i].key \in Keys
    <3>1. m.fields \in Seq([key : Keys, value : Values])
      BY DEF Messages
    <3>2. m.fields[i] \in [key : Keys, value : Values]
      BY <3>1, ElementOf, Zenon
    <3> QED
      BY <3>2
  <2>4. m.fields[i].value = Url
    BY <2>2, <2>3 DEF Keys, Url, Word
  <2>5. m.fields[i].key = "ota_url"
    BY <2>4 DEF Plain
  <2>6. \A j \in DOMAIN m.fields : m.fields[j].key = "ota_url" => j = i
    BY <2>5 DEF Plain
  <2>7. (CHOOSE j \in DOMAIN m.fields : m.fields[j].key = "ota_url") = i
    BY <2>5, <2>6
  <2>8. Asks(m, "ota_url")
    BY <2>5 DEF Asks
  <2> QED
    BY <2>4, <2>7, <2>8 DEF Given
<1>2. ASSUME Given(m, "ota_url") = Url PROVE HasWord(m, "ota_url") /\ HasWord(m, Url)
  <2>1. Asks(m, "ota_url")
    BY <1>2 DEF Given, Number, Url
  <2>2. PICK i \in DOMAIN m.fields : m.fields[i].key = "ota_url" /\ m.fields[i].value = Url
    <3> DEFINE i == CHOOSE j \in DOMAIN m.fields : m.fields[j].key = "ota_url"
    <3>1. i \in DOMAIN m.fields /\ m.fields[i].key = "ota_url"
      BY <2>1 DEF Asks
    <3>2. m.fields[i].value = Url
      BY <1>2, <2>1 DEF Given
    <3> QED
      BY <3>1, <3>2
  <2>3. 2 * i - 1 \in Places(m, "ota_url") /\ 2 * i \in Places(m, Url)
    BY <2>2, KeyPlace DEF Places
  <2> QED
    BY <2>3 DEF HasWord
<1> QED
  BY <1>1, <1>2

\* Whatever product it is, a plain message reaches what its keys ask for.
LEMMA PlainIsRouted ==
  ASSUME NEW m \in Messages, NEW h, Plain(m) PROVE Hook(h, m) = Meant(h, m)
<1>1. \A w \in Searched : \A i \in DOMAIN m.fields : m.fields[i].value # w
  BY DEF Plain, Searched
<1>2. \A w \in Searched : HasWord(m, w) <=> Asks(m, w)
  BY <1>1, WordIsKey
<1>3. \A w \in Searched : After(m, w) = Given(m, w)
  BY <1>1, AfterIsGiven DEF Plain
<1>4. /\ HasWord(m, "uc") <=> Asks(m, "uc")
      /\ HasWord(m, Word) <=> Asks(m, Word)
      /\ After(m, "uc") = Given(m, "uc") /\ After(m, "ssid") = Given(m, "ssid")
  BY <1>2, <1>3 DEF Searched
<1>5. HasWord(m, "ota_url") /\ HasWord(m, Url) <=> Given(m, "ota_url") = Url
  BY UrlIsGiven
<1>6. m.opcode = "config" \/ StartsWithS(m)
        <=> m.opcode = "config" \/ (m.opcode = "mqtt" /\ Asks(m, "ssid"))
  BY DEF Plain, StartsWithS
<1>7. CASE ~Valid(m)
  <2>1. m.text \in {"empty", "probe"}
    BY <1>7 DEF Valid
  <2>2. ~Asks(m, Word)
    BY <2>1 DEF Plain, Asks
  <2> QED
    BY <1>4, <1>7, <2>2 DEF Hook, Handle, Meant
<1>8. CASE Valid(m)
  BY <1>4, <1>5, <1>6, <1>8 DEF Hook, Handle, Meant
<1> QED
  BY <1>7, <1>8

-----------------------------------------------------------------------------
(* The device on the air. *)

\* What makes Reachable inductive: what an event leaves the controller in.
AirInv ==
  /\ Reachable
  /\ host # "synced" => gap = "none" /\ ~adv /\ ~link /\ ~s_connected
  /\ main # "up" => host = "down"
  /\ adv => gap = "none" /\ ~link
  /\ gap = "connected" => link
  /\ gap \in {"failed", "disconnected"} => ~link
  /\ gap = "failed" => ~s_connected

LEMMA StepAir == TypeOK /\ AirInv /\ [Next]_vars => AirInv'
<1> SUFFICES ASSUME TypeOK, AirInv, [Next]_vars PROVE AirInv'
  OBVIOUS
<1> USE DEF TypeOK, AirInv, Reachable, product, ble, task
<1>1. CASE UNCHANGED vars \/ CommandTask
  BY <1>1 DEF vars, CommandTask, Receive, Execute, WriteNetwork, WriteFlag, StoreCache
<1>2. CASE PowerOn \/ InitBle
  BY <1>2 DEF PowerOn, InitBle
<1>3. CASE Sync
  BY <1>3 DEF Sync, Advertise
<1>4. CASE GapEvent
  BY <1>4 DEF GapEvent, Advertise
<1>5. CASE Connect \/ Disconnect
  BY <1>5 DEF Connect, Disconnect
<1>6. CASE Write \/ ReadBack \/ CloudSends
  BY <1>6 DEF Write, ReadBack, CloudSends
<1>7. CASE PowerCut
  BY <1>7 DEF PowerCut
<1> QED
  BY <1>1, <1>2, <1>3, <1>4, <1>5, <1>6, <1>7 DEF Next, Device, World

-----------------------------------------------------------------------------
(* What the phone reads. *)

\* What makes ReadBackTrue inductive: a save knows whether there is a network,
\* the entries it has written are those of its draft, the cache does not
\* promise a flag that NVS has not, and a flag without a network is in the
\* middle of a removal or was left there by a cut.
StoreInv ==
  /\ ReadBackTrue
  /\ doing \in {"network", "flag", "cache"} => (draft.flag <=> draft.network # Blank)
  /\ doing \in {"flag", "cache"} => nvs.network = draft.network
  /\ doing = "cache" => nvs.flag = draft.flag
  /\ s_cfg.flag /\ ~Removing => nvs.flag
  /\ nvs.flag /\ nvs.network = Blank => torn \/ (Removing /\ doing = "flag")

LEMMA StepStore == TypeOK /\ StoreInv /\ [Next]_vars => StoreInv'
<1> SUFFICES ASSUME TypeOK, StoreInv, [Next]_vars PROVE StoreInv'
  OBVIOUS
<1> USE DEF TypeOK, StoreInv, ReadBackTrue, Removing, product, ble, task, Bare
<1>1. CASE UNCHANGED vars
  BY <1>1 DEF vars
<1>2. CASE Device
  BY <1>2 DEF Device, PowerOn, InitBle, Sync, GapEvent
<1>3. CASE Receive
  BY <1>3 DEF Receive
<1>4. CASE Execute
  <2> DEFINE n == Hook(hook, hand).network
  <2>1. Applied(n).flag <=> Applied(n).network # Blank
    BY DEF Applied
  <2>2. doing' = "network" => (draft'.flag <=> draft'.network # Blank)
    BY <1>4, <2>1 DEF Execute, Save
  <2>3. doing' \in {"idle", "network"} /\ (s_cfg' = nvs \/ s_cfg' = s_cfg)
    BY <1>4 DEF Execute, Save
  <2>4. doing = "route" /\ nvs' = nvs /\ told' = told /\ torn' = torn
    BY <1>4 DEF Execute
  <2> QED
    BY <2>2, <2>3, <2>4
<1>5. CASE WriteNetwork
  BY <1>5 DEF WriteNetwork, Configs
<1>6. CASE WriteFlag
  BY <1>6 DEF WriteFlag, Configs
<1>7. CASE StoreCache
  BY <1>7 DEF StoreCache
<1>8. CASE Connect \/ Disconnect \/ Write \/ ReadBack \/ CloudSends
  BY <1>8 DEF Connect, Disconnect, Write, ReadBack, CloudSends
<1>9. CASE PowerCut
  BY <1>9 DEF PowerCut
<1> QED
  BY <1>1, <1>2, <1>3, <1>4, <1>5, <1>6, <1>7, <1>8, <1>9 DEF Next, CommandTask, World

-----------------------------------------------------------------------------
\* Every state has the types of TypeOK, whatever the messages say.
THEOREM CommissioningTypes == Spec => []TypeOK
  BY InitType, StepType, PTL DEF Spec

\* A device whose host has handled what happened is connected or advertises,
\* unless an advertising start failed (gap_event, ble_on_sync).
THEOREM DeviceStaysReachable == Spec => []Reachable
<1>1. Init => AirInv
  BY DEF Init, AirInv, Reachable
<1>2. AirInv => Reachable
  BY DEF AirInv
<1> QED
  BY <1>1, <1>2, CommissioningTypes, StepAir, PTL DEF Spec

\* prov=1, once read, is what NVS holds, over power cuts as well
\* (iot_provision_apply_json, iot_config_save, gatt_access).
THEOREM ReadBackIsTrue == Spec => []ReadBackTrue
<1>1. Init => StoreInv
  <2> SUFFICES ASSUME Init PROVE StoreInv
    OBVIOUS
  <2>1. nvs.network = Blank => ~nvs.flag
    <3>1. CASE nvs = Bare
      BY <3>1 DEF Bare
    <3>2. CASE nvs \in [network : Networks, flag : {TRUE}]
      <4>1. nvs.network \in Networks
        BY <3>2
      <4> QED
        BY <4>1, CommissioningAssumption
    <3> QED
      BY <3>1, <3>2 DEF Init
  <2>2. ~told /\ doing = "idle" /\ ~s_cfg.flag
    BY DEF Init, Bare
  <2> QED
    BY <2>1, <2>2 DEF StoreInv, ReadBackTrue, Removing
<1>2. StoreInv => ReadBackTrue
  BY DEF StoreInv
<1> QED
  BY <1>1, <1>2, CommissioningTypes, StepStore, PTL DEF Spec

\* A plain message does what its keys ask for, whatever product the device is, for any
\* names of networks and use cases (the hooks of iot_profiles, then
\* iot_services_handle_command and iot_uc_dispatch_command).
THEOREM MessagesAreRouted == Spec => []RoutedAsMeant
<1>1. TypeOK => RoutedAsMeant
  BY PlainIsRouted DEF TypeOK, RoutedAsMeant
<1> QED
  BY <1>1, CommissioningTypes, PTL
=============================================================================
