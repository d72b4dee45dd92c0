--------------------------- MODULE NetLinkProofs ---------------------------
(***************************************************************************)
(* Proofs about NetLink, for any number of failures and restarts: what the *)
(* other tasks are told of the two links is what they are.                 *)
(***************************************************************************)
EXTENDS NetLink, SequenceTheorems, TLAPS

-----------------------------------------------------------------------------
(* The invariant *)

Handler == todo["loop"]

\* What can be left of a handler that does not, or no longer, call esp_wifi_connect,
\* and of one that will.
Reporting ==
  {<<>>, <<"CONNECTING", "lower">>, <<"lower">>,
   <<"CONNECTED", "lower", "reset">>, <<"lower", "reset">>, <<"reset">>,
   <<"IP_READY", "raise">>, <<"raise">>}
Connecting ==
  {<<"CONNECTING", "lower", "connect">>, <<"lower", "connect">>, <<"connect">>,
   <<"RECONNECTING", "lower", "delay", "connect", "CONNECTING", "lower">>,
   <<"lower", "delay", "connect", "CONNECTING", "lower">>,
   <<"delay", "connect", "CONNECTING", "lower">>,
   <<"connect", "CONNECTING", "lower">>}

\* The driver is off until app_main has started it, and app_main is done with
\* s_state and the bits then.
BootInv ==
  /\ todo["main"] \in {<<>>, <<"CONNECTING", "lower", "start">>, <<"lower", "start">>, <<"start">>,
                       <<"ERROR", "lower">>, <<"lower">>}
  /\ todo["main"] # <<>> => air = "off" /\ main = "wait"
  /\ main \in {"load", "wifi"} => air = "off" /\ todo["main"] = <<>>
  /\ air = "off" => Handler = <<>> /\ events = <<>>

\* The driver is idle while esp_wifi_connect is due, in the handler at work or in
\* that of the last event that waits, and only then.
IdleInv ==
  air = "idle" =>
    \/ /\ events = <<>> /\ Handler \in Connecting
       /\ Handler \in {<<"lower", "connect">>, <<"connect">>} => wifi = "CONNECTING"
       /\ Handler = <<"connect">> => "WIFI_IP" \notin bits
    \/ /\ events \in {<<"STA_START">>, <<"STA_DISCONNECTED">>,
                      <<"STA_CONNECTED", "STA_DISCONNECTED">>, <<"GOT_IP", "STA_DISCONNECTED">>,
                      <<"STA_CONNECTED", "GOT_IP", "STA_DISCONNECTED">>}
       /\ Handler \in Reporting

\* Of an attempt to join, no event waits; its handler is the one that made it.
JoinInv ==
  air \in {"joining", "refused"} =>
    /\ events = <<>>
    /\ Handler \in {<<>>, <<"CONNECTING", "lower">>, <<"lower">>}
    /\ Handler # <<"CONNECTING", "lower">> => wifi = "CONNECTING"
    /\ Handler = <<>> => "WIFI_IP" \notin bits

\* The event of what the driver has come to is the last one that waits, or the
\* handler at work is its own and has stored what is no longer left of it.
JoinedInv ==
  air = "joined" =>
    \/ events = <<"STA_CONNECTED">> /\ Handler \in Reporting
    \/ /\ events = <<>>
       /\ Handler \in {<<"CONNECTED", "lower", "reset">>, <<"lower", "reset">>, <<"reset">>, <<>>}
       /\ Handler # <<"CONNECTED", "lower", "reset">> => wifi = "CONNECTED"
       /\ Handler \in {<<"reset">>, <<>>} => "WIFI_IP" \notin bits

AddressInv ==
  air = "ip" =>
    \/ events \in {<<"STA_CONNECTED", "GOT_IP">>, <<"GOT_IP">>} /\ Handler \in Reporting
    \/ /\ events = <<>>
       /\ Handler \in {<<"IP_READY", "raise">>, <<"raise">>, <<>>}
       /\ Handler # <<"IP_READY", "raise">> => wifi = "IP_READY"
       /\ Handler = <<>> => "WIFI_IP" \in bits

LinkInv == BootInv /\ IdleInv /\ JoinInv /\ JoinedInv /\ AddressInv

\* The client has no session before app_main has started it, and what is left of
\* its handler is about the session it has.
SessionInv ==
  LET left == todo["mqtt"]
  IN /\ main # "done" => session = "none"
     /\ session = "none" => left = <<>> /\ mqtt # "UP" /\ "MQTT_UP" \notin bits
     /\ session = "up" =>
          \/ left = <<"UP", "raise_up">>
          \/ left \in {<<"raise_up">>, <<>>} /\ mqtt = "UP"
     /\ session = "down" =>
          \/ left \in {<<"ERROR", "CONNECTING", "lower_up">>, <<"CONNECTING", "lower_up">>}
          \/ left = <<"lower_up">> /\ mqtt # "UP"
          \/ left = <<>> /\ mqtt # "UP" /\ "MQTT_UP" \notin bits

NetInv == TypeOK /\ LinkInv /\ SessionInv

-----------------------------------------------------------------------------
(* Handlers *)

LEMMA OneTwo ==
  ASSUME NEW a, NEW b, NEW c PROVE <<a>> \o <<b, c>> = <<a, b, c>>
<1> DEFINE S == {a, b, c}
           s == <<a>> \o <<b, c>>
<1>1. <<a>> \in Seq(S) /\ <<b, c>> \in Seq(S) /\ <<a, b, c>> \in Seq(S)
  OBVIOUS
<1>2. Len(<<a>>) = 1 /\ Len(<<b, c>>) = 2 /\ Len(<<a, b, c>>) = 3
  OBVIOUS
<1>3. /\ Len(s) = 3 /\ s \in Seq(S)
      /\ s[1] = a /\ s[2] = b /\ s[3] = c
  BY <1>1, <1>2, ConcatProperties
<1>4. s = <<a, b, c>>
  <2> HIDE DEF s
  <2> QED BY <1>1, <1>2, <1>3, SeqEqual
<1> QED
  BY <1>4

LEMMA TwoOne ==
  ASSUME NEW a, NEW b, NEW c PROVE <<a, b>> \o <<c>> = <<a, b, c>>
<1> DEFINE S == {a, b, c}
           s == <<a, b>> \o <<c>>
<1>1. <<a, b>> \in Seq(S) /\ <<c>> \in Seq(S) /\ <<a, b, c>> \in Seq(S)
  OBVIOUS
<1>2. Len(<<a, b>>) = 2 /\ Len(<<c>>) = 1 /\ Len(<<a, b, c>>) = 3
  OBVIOUS
<1>3. /\ Len(s) = 3 /\ s \in Seq(S)
      /\ s[1] = a /\ s[2] = b /\ s[3] = c
  BY <1>1, <1>2, ConcatProperties
<1>4. s = <<a, b, c>>
  <2> HIDE DEF s
  <2> QED BY <1>1, <1>2, <1>3, SeqEqual
<1> QED
  BY <1>4

LEMMA TwoTwo ==
  ASSUME NEW a, NEW b, NEW c, NEW d PROVE <<a, b>> \o <<c, d>> = <<a, b, c, d>>
<1> DEFINE S == {a, b, c, d}
           s == <<a, b>> \o <<c, d>>
<1>1. <<a, b>> \in Seq(S) /\ <<c, d>> \in Seq(S) /\ <<a, b, c, d>> \in Seq(S)
  OBVIOUS
<1>2. Len(<<a, b>>) = 2 /\ Len(<<c, d>>) = 2 /\ Len(<<a, b, c, d>>) = 4
  OBVIOUS
<1>3. /\ Len(s) = 4 /\ s \in Seq(S)
      /\ s[1] = a /\ s[2] = b /\ s[3] = c /\ s[4] = d
  BY <1>1, <1>2, ConcatProperties
<1>4. s = <<a, b, c, d>>
  <2> HIDE DEF s
  <2> QED BY <1>1, <1>2, <1>3, SeqEqual
<1> QED
  BY <1>4

LEMMA FourTwo ==
  ASSUME NEW a, NEW b, NEW c, NEW d, NEW e, NEW f PROVE <<a, b, c, d>> \o <<e, f>> = <<a, b, c, d, e, f>>
<1> DEFINE S == {a, b, c, d, e, f}
           s == <<a, b, c, d>> \o <<e, f>>
<1>1. <<a, b, c, d>> \in Seq(S) /\ <<e, f>> \in Seq(S) /\ <<a, b, c, d, e, f>> \in Seq(S)
  OBVIOUS
<1>2. Len(<<a, b, c, d>>) = 4 /\ Len(<<e, f>>) = 2 /\ Len(<<a, b, c, d, e, f>>) = 6
  OBVIOUS
<1>3. /\ Len(s) = 6 /\ s \in Seq(S)
      /\ s[1] = a /\ s[2] = b /\ s[3] = c /\ s[4] = d /\ s[5] = e /\ s[6] = f
  BY <1>1, <1>2, ConcatProperties
<1>4. s = <<a, b, c, d, e, f>>
  <2> HIDE DEF s
  <2> QED BY <1>1, <1>2, <1>3, SeqEqual
<1> QED
  BY <1>4

LEMMA Tails ==
  /\ \A a : Head(<<a>>) = a /\ Tail(<<a>>) = <<>> /\ <<a>> # <<>>
  /\ \A a, b : Head(<<a, b>>) = a /\ Tail(<<a, b>>) = <<b>> /\ <<a, b>> # <<>>
  /\ \A a, b, c : Head(<<a, b, c>>) = a /\ Tail(<<a, b, c>>) = <<b, c>> /\ <<a, b, c>> # <<>>
  OBVIOUS

LEMMA LongTails ==
  /\ \A a, b, c, d : /\ Head(<<a, b, c, d>>) = a /\ Tail(<<a, b, c, d>>) = <<b, c, d>>
                     /\ <<a, b, c, d>> # <<>>
  /\ \A a, b, c, d, e : /\ Head(<<a, b, c, d, e>>) = a /\ Tail(<<a, b, c, d, e>>) = <<b, c, d, e>>
                     /\ <<a, b, c, d, e>> # <<>>
  /\ \A a, b, c, d, e, f : /\ Head(<<a, b, c, d, e, f>>) = a
                           /\ Tail(<<a, b, c, d, e, f>>) = <<b, c, d, e, f>>
                     /\ <<a, b, c, d, e, f>> # <<>>
  OBVIOUS

\* One more event.
LEMMA Events ==
  ASSUME NEW a, NEW b, NEW c
  PROVE  Append(<<>>, a) = <<a>> /\ Append(<<a>>, b) = <<a, b>> /\ Append(<<a, b>>, c) = <<a, b, c>>
<1> DEFINE S == {a, b, c}
<1>1. /\ <<>> \in Seq(S) /\ <<a>> \in Seq(S) /\ <<a, b>> \in Seq(S) /\ <<a, b, c>> \in Seq(S)
      /\ Len(<<>>) = 0 /\ Len(<<a>>) = 1 /\ Len(<<a, b>>) = 2 /\ Len(<<a, b, c>>) = 3
  OBVIOUS
<1>2. ASSUME NEW s \in Seq(S), NEW e \in S
      PROVE  /\ Append(s, e) \in Seq(S) /\ Len(Append(s, e)) = Len(s) + 1
             /\ \A i \in 1 .. Len(s) : Append(s, e)[i] = s[i]
             /\ Append(s, e)[Len(s) + 1] = e
  BY AppendProperties
<1>3. Append(<<>>, a) = <<a>>
  OBVIOUS
<1>4. Append(<<a>>, b) = <<a, b>>
  <2> DEFINE s == Append(<<a>>, b)
  <2>1. s \in Seq(S) /\ Len(s) = 2 /\ s[1] = a /\ s[2] = b
    BY <1>1, <1>2
  <2>2. s = <<a, b>>
    <3> HIDE DEF s
    <3> QED BY <1>1, <2>1, SeqEqual
  <2> QED BY <2>2
<1>5. Append(<<a, b>>, c) = <<a, b, c>>
  <2> DEFINE s == Append(<<a, b>>, c)
  <2>1. s \in Seq(S) /\ Len(s) = 3 /\ s[1] = a /\ s[2] = b /\ s[3] = c
    BY <1>1, <1>2
  <2>2. s = <<a, b, c>>
    <3> HIDE DEF s
    <3> QED BY <1>1, <2>1, SeqEqual
  <2> QED BY <2>2
<1> QED
  BY <1>3, <1>4, <1>5

LEMMA Scripts ==
  /\ Script["STA_START"] = <<"CONNECTING", "lower", "connect">>
  /\ Script["STA_CONNECTED"] = <<"CONNECTED", "lower", "reset">>
  /\ Script["STA_DISCONNECTED"] = <<"RECONNECTING", "lower", "delay", "connect", "CONNECTING", "lower">>
  /\ Script["GOT_IP"] = <<"IP_READY", "raise">>
  /\ DOMAIN Script = {"STA_START", "STA_CONNECTED", "STA_DISCONNECTED", "GOT_IP"}
<1>1. /\ SetState("CONNECTING") = <<"CONNECTING", "lower">>
      /\ SetState("CONNECTED") = <<"CONNECTED", "lower">>
      /\ SetState("RECONNECTING") = <<"RECONNECTING", "lower">>
      /\ SetState("IP_READY") = <<"IP_READY", "raise">>
  BY DEF SetState
<1>2. <<"RECONNECTING", "lower">> \o <<"delay", "connect">> \o <<"CONNECTING", "lower">>
        = <<"RECONNECTING", "lower", "delay", "connect", "CONNECTING", "lower">>
  <2>1. <<"RECONNECTING", "lower">> \o <<"delay", "connect">>
          = <<"RECONNECTING", "lower", "delay", "connect">>
    BY TwoTwo
  <2>2. <<"RECONNECTING", "lower", "delay", "connect">> \o <<"CONNECTING", "lower">>
          = <<"RECONNECTING", "lower", "delay", "connect", "CONNECTING", "lower">>
    BY FourTwo
  <2> QED
    BY <2>1, <2>2
<1>3. /\ <<"CONNECTING", "lower">> \o <<"connect">> = <<"CONNECTING", "lower", "connect">>
      /\ <<"CONNECTED", "lower">> \o <<"reset">> = <<"CONNECTED", "lower", "reset">>
  BY TwoOne
<1> QED
  BY <1>1, <1>2, <1>3 DEF Script

\* What a thread that executes a statement does to the handlers.
LEMMA Execute ==
  ASSUME TypeOK, NEW t \in Threads, NEW S, Executes(t, S)
  PROVE  /\ todo[t] # <<>> /\ Head(todo[t]) \in S
         /\ todo' \in [Threads -> Seq(Steps)]
         /\ todo'[t] = Tail(todo[t])
         /\ \A u \in Threads \ {t} : todo'[u] = todo[u]
<1>1. todo[t] \in Seq(Steps) /\ todo[t] # <<>>
  BY DEF TypeOK, Executes, Idle
<1>2. Tail(todo[t]) \in Seq(Steps)
  BY <1>1, HeadTailProperties
<1> QED
  BY <1>1, <1>2 DEF TypeOK, Executes, Run

LEMMA Runs ==
  ASSUME TypeOK, NEW t \in Threads, NEW s \in Seq(Steps), Run(t, s)
  PROVE  /\ todo' \in [Threads -> Seq(Steps)]
         /\ todo'[t] = s
         /\ \A u \in Threads \ {t} : todo'[u] = todo[u]
BY DEF TypeOK, Run

-----------------------------------------------------------------------------
(* The types *)

LEMMA InitInv == Init => NetInv
<1> SUFFICES ASSUME Init PROVE NetInv
  OBVIOUS
<1>1. /\ todo = NoHandlers /\ events = <<>> /\ bits = {} /\ main = "load" /\ air = "off"
      /\ session = "none" /\ mqtt = "DOWN"
  BY DEF Init
<1>2. \A t \in Threads : todo[t] = <<>>
  BY <1>1 DEF NoHandlers
<1>3. todo["main"] = <<>> /\ todo["loop"] = <<>> /\ todo["mqtt"] = <<>>
  BY <1>2 DEF Threads
<1>4. TypeOK
  <2>1. <<>> \in Seq(Steps) /\ <<>> \in Seq(DOMAIN Script)
    OBVIOUS
  <2>2. todo \in [Threads -> Seq(Steps)]
    BY <1>1, <2>1 DEF NoHandlers
  <2>3. wifi \in WifiStates /\ mqtt \in MqttStates /\ s_backoff_ms \in Backoffs
    BY DEF Init, WifiStates, MqttStates, Backoffs
  <2>4. failures \in 0 .. MaxFailures /\ restarts \in 0 .. MaxRestarts
    BY NetLinkAssumption DEF Init
  <2>5. provisioned \in BOOLEAN /\ cfg \in BOOLEAN /\ waited = 0
    BY DEF Init
  <2> QED
    BY <1>1, <2>1, <2>2, <2>3, <2>4, <2>5 DEF TypeOK
<1>5. LinkInv
  BY <1>1, <1>3 DEF LinkInv, BootInv, IdleInv, JoinInv, JoinedInv, AddressInv, Handler
<1>6. SessionInv
  BY <1>1, <1>3 DEF SessionInv
<1> QED
  BY <1>4, <1>5, <1>6 DEF NetInv

LEMMA ShortScripts ==
  /\ <<>> \in Seq(Steps)
  /\ <<"CONNECTING", "lower", "start">> \in Seq(Steps) /\ <<"ERROR", "lower">> \in Seq(Steps)
  /\ <<"UP", "raise_up">> \in Seq(Steps) /\ <<"CONNECTING", "lower_up">> \in Seq(Steps)
  /\ <<"ERROR", "CONNECTING", "lower_up">> \in Seq(Steps)
BY DEF Steps, WifiStates, MqttStates

LEMMA ScriptType == \A e \in DOMAIN Script : Script[e] \in Seq(Steps)
<1>1. /\ <<"CONNECTING", "lower", "connect">> \in Seq(Steps)
      /\ <<"CONNECTED", "lower", "reset">> \in Seq(Steps)
      /\ <<"IP_READY", "raise">> \in Seq(Steps)
      /\ <<"RECONNECTING", "lower", "delay", "connect", "CONNECTING", "lower">> \in Seq(Steps)
  BY DEF Steps, WifiStates, MqttStates
<1> QED
  BY <1>1, Scripts

\* The handlers a thread outside the event loop is given.
LEMMA GivenScripts ==
  /\ SetState("CONNECTING") \o <<"start">> = <<"CONNECTING", "lower", "start">>
  /\ SetState("ERROR") = <<"ERROR", "lower">>
  /\ OnConnected = <<"UP", "raise_up">> /\ OnDisconnected = <<"CONNECTING", "lower_up">>
  /\ OnError \o OnDisconnected = <<"ERROR", "CONNECTING", "lower_up">>
<1>1. SetState("CONNECTING") = <<"CONNECTING", "lower">> /\ SetState("ERROR") = <<"ERROR", "lower">>
  BY DEF SetState
<1> QED
  BY <1>1, TwoOne, OneTwo DEF OnConnected, OnDisconnected, OnError

LEMMA AppMainType == ASSUME TypeOK, AppMain PROVE TypeOK'
<1>1. CASE Load
  BY <1>1 DEF Load, TypeOK
<1>2. CASE StartWifi
  <2>1. \E s \in Seq(Steps) : Run("main", s)
    BY <1>2, GivenScripts, ShortScripts DEF StartWifi
  <2>2. todo' \in [Threads -> Seq(Steps)]
    BY <2>1, Runs DEF Threads
  <2>3. /\ main' = "wait"
        /\ UNCHANGED <<provisioned, cfg, wifi, s_backoff_ms, waited, mqtt, bits, air, events, session,
                       failures, restarts>>
    BY <1>2 DEF StartWifi
  <2> QED
    BY <2>2, <2>3 DEF TypeOK
<1>3. CASE SeeIp \/ WaitTimeout
  BY <1>3 DEF SeeIp, WaitTimeout, TypeOK
<1>4. CASE PrepareClient \/ StartClient
  <2>1. /\ main' \in {"client", "done"} /\ mqtt' \in {mqtt, "CONNECTING"}
        /\ session' \in {session, "none", "down"}
    BY <1>4 DEF PrepareClient, StartClient
  <2>2. UNCHANGED <<provisioned, cfg, todo, wifi, s_backoff_ms, waited, bits, air, events, failures,
                    restarts>>
    BY <1>4 DEF PrepareClient, StartClient
  <2>3. "CONNECTING" \in MqttStates
    BY DEF MqttStates
  <2> QED
    BY <2>1, <2>2, <2>3 DEF TypeOK
<1> QED
  BY <1>1, <1>2, <1>3, <1>4 DEF AppMain

LEMMA StatementType ==
  ASSUME TypeOK, NEW t \in Threads, Statement(t) PROVE TypeOK'
<1>1. CASE StoreWifi(t)
  <2>1. Head(todo[t]) \in WifiStates /\ todo' \in [Threads -> Seq(Steps)]
    BY <1>1, Execute DEF StoreWifi
  <2> QED
    BY <1>1, <2>1 DEF StoreWifi, TypeOK
<1>2. CASE ChangeBits(t)
  <2>1. todo' \in [Threads -> Seq(Steps)]
        /\ Head(todo[t]) \in {"raise", "lower", "raise_up", "lower_up"}
    BY <1>2, Execute DEF ChangeBits
  <2>2. bits' \subseteq {"WIFI_IP", "MQTT_UP"}
    BY <1>2, <2>1 DEF ChangeBits, TypeOK
  <2>3. UNCHANGED <<provisioned, cfg, main, wifi, s_backoff_ms, waited, mqtt, air, events, session,
                    failures, restarts>>
    BY <1>2 DEF ChangeBits
  <2> QED
    BY <2>1, <2>2, <2>3 DEF TypeOK
<1>3. CASE t = "main" /\ StartRadio
  <2>1. todo' \in [Threads -> Seq(Steps)]
    BY <1>3, Execute DEF StartRadio
  <2>2. air' \in {air, "idle"} /\ events' \in Seq(DOMAIN Script)
    <3>1. Append(events, "STA_START") \in Seq(DOMAIN Script)
      BY Scripts, AppendProperties DEF TypeOK
    <3> QED
      BY <1>3, <3>1 DEF StartRadio, TypeOK
  <2> QED
    BY <1>3, <2>1, <2>2 DEF StartRadio, TypeOK
<1>4. CASE t = "loop" /\ Connect
  <2>1. todo' \in [Threads -> Seq(Steps)]
    BY <1>4, Execute DEF Connect
  <2> QED
    BY <1>4, <2>1, NetLinkAssumption DEF Connect, Fail, TypeOK
<1>5. CASE t = "loop" /\ (ResetBackoff \/ Delay)
  <2>1. todo' \in [Threads -> Seq(Steps)]
    BY <1>5, Execute DEF ResetBackoff, Delay
  <2>2. s_backoff_ms' \in Backoffs /\ waited' \in {0, 50}
    BY <1>5 DEF ResetBackoff, Delay, TypeOK, Backoffs
  <2>3. UNCHANGED <<provisioned, cfg, main, wifi, mqtt, bits, air, events, session, failures, restarts>>
    BY <1>5 DEF ResetBackoff, Delay
  <2> QED
    BY <2>1, <2>2, <2>3 DEF TypeOK
<1>6. CASE t = "mqtt" /\ StoreMqtt
  <2>1. Head(todo[t]) \in MqttStates /\ todo' \in [Threads -> Seq(Steps)]
    BY <1>6, Execute DEF StoreMqtt
  <2> QED
    BY <1>6, <2>1 DEF StoreMqtt, TypeOK
<1> QED
  BY <1>1, <1>2, <1>3, <1>4, <1>5, <1>6 DEF Statement

LEMMA AroundType ==
  ASSUME TypeOK,
         \/ HandleEvent \/ Associate \/ GetAddress \/ LoseLink \/ OpenSession \/ LoseSession
         \/ Provision \/ Restart
  PROVE  TypeOK'
<1>1. CASE HandleEvent
  <2>1. Head(events) \in DOMAIN Script /\ Tail(events) \in Seq(DOMAIN Script)
    BY <1>1, HeadTailProperties DEF HandleEvent, TypeOK
  <2>2. todo' \in [Threads -> Seq(Steps)]
    BY <1>1, <2>1, ScriptType, Runs DEF HandleEvent, Threads
  <2> QED
    BY <1>1, <2>1, <2>2 DEF HandleEvent, TypeOK
<1>2. CASE Associate \/ GetAddress \/ LoseLink
  <2>1. \E e \in DOMAIN Script : events' = Append(events, e)
    BY <1>2, Scripts DEF Associate, GetAddress, LoseLink, Radio
  <2>2. events' \in Seq(DOMAIN Script)
    BY <2>1, AppendProperties DEF TypeOK
  <2>3. air' \in {"idle", "joined", "ip"} /\ failures' \in 0 .. MaxFailures
    BY <1>2, NetLinkAssumption DEF Associate, GetAddress, LoseLink, Radio, Fail, TypeOK
  <2>4. UNCHANGED <<provisioned, cfg, main, todo, wifi, s_backoff_ms, waited, mqtt, bits, session,
                    restarts>>
    BY <1>2 DEF Associate, GetAddress, LoseLink, Radio
  <2> QED
    BY <2>2, <2>3, <2>4 DEF TypeOK
<1>3. CASE OpenSession \/ LoseSession
  <2>1. \E s \in Seq(Steps) : Run("mqtt", s)
    BY <1>3, GivenScripts, ShortScripts DEF OpenSession, LoseSession, Client
  <2>2. todo' \in [Threads -> Seq(Steps)]
    BY <2>1, Runs DEF Threads
  <2>3. session' \in {"down", "up"} /\ failures' \in 0 .. MaxFailures
    BY <1>3, NetLinkAssumption DEF OpenSession, LoseSession, Client, Fail, TypeOK
  <2>4. UNCHANGED <<provisioned, cfg, main, wifi, s_backoff_ms, waited, mqtt, bits, air, events,
                    restarts>>
    BY <1>3 DEF OpenSession, LoseSession, Client
  <2> QED
    BY <2>2, <2>3, <2>4 DEF TypeOK
<1>4. CASE Provision
  BY <1>4 DEF Provision, ram, TypeOK
<1>5. CASE Restart
  <2>1. NoHandlers \in [Threads -> Seq(Steps)] /\ <<>> \in Seq(DOMAIN Script)
    BY DEF NoHandlers
  <2>2. restarts' \in 0 .. MaxRestarts
    BY <1>5, NetLinkAssumption DEF Restart, TypeOK
  <2>3. wifi' \in WifiStates /\ mqtt' \in MqttStates /\ s_backoff_ms' \in Backoffs
    BY <1>5 DEF Restart, WifiStates, MqttStates, Backoffs
  <2>4. /\ cfg' = FALSE /\ main' = "load" /\ todo' = NoHandlers /\ waited' = 0 /\ bits' = {}
        /\ air' = "off" /\ events' = <<>> /\ session' = "none" /\ UNCHANGED <<provisioned, failures>>
    BY <1>5 DEF Restart
  <2> QED
    BY <2>1, <2>2, <2>3, <2>4 DEF TypeOK
<1> QED
  BY <1>1, <1>2, <1>3, <1>4, <1>5

LEMMA StepType == ASSUME TypeOK, [Next]_vars PROVE TypeOK'
<1>1. CASE UNCHANGED vars
  BY <1>1 DEF vars, ram, TypeOK
<1> QED
  BY <1>1, AppMainType, StatementType, AroundType DEF Next

-----------------------------------------------------------------------------
(* The Wi-Fi link *)

\* Steps the link and its handlers have no part in.
LEMMA LinkLeftAlone ==
  ASSUME LinkInv,
         todo'["loop"] = todo["loop"], todo'["main"] = todo["main"],
         UNCHANGED <<air, events, wifi>>,
         main' # main => main' \notin {"load", "wifi"} /\ todo["main"] = <<>>,
         "WIFI_IP" \in bits' <=> "WIFI_IP" \in bits
  PROVE  LinkInv'
BY DEF LinkInv, BootInv, IdleInv, JoinInv, JoinedInv, AddressInv, Handler

LEMMA Bits ==
  ASSUME NEW t \in Threads, ChangeBits(t)
  PROVE  /\ Head(todo[t]) = "raise" => bits' = bits \cup {"WIFI_IP"}
         /\ Head(todo[t]) = "lower" => bits' = bits \ {"WIFI_IP", "MQTT_UP"}
         /\ Head(todo[t]) = "raise_up" => bits' = bits \cup {"MQTT_UP"}
         /\ Head(todo[t]) = "lower_up" => bits' = bits \ {"MQTT_UP"}
BY DEF ChangeBits

\* The handler at work stores a state.
LEMMA LoopStores ==
  ASSUME TypeOK, LinkInv, StoreWifi("loop") PROVE LinkInv'
<1> USE DEF LinkInv, BootInv, IdleInv, JoinInv, JoinedInv, AddressInv, Handler
<1>1. /\ Handler # <<>> /\ Head(Handler) \in WifiStates /\ Handler' = Tail(Handler)
      /\ todo'["main"] = todo["main"] /\ wifi' = Head(Handler)
      /\ UNCHANGED <<main, bits, air, events>>
  BY Execute DEF StoreWifi, Threads
<1>2. \/ Handler \in {<<"CONNECTING", "lower", "connect">>,
                     <<"RECONNECTING", "lower", "delay", "connect", "CONNECTING", "lower">>}
      \/ Handler \in {<<"CONNECTING", "lower">>, <<"CONNECTED", "lower", "reset">>, <<"IP_READY", "raise">>}
  BY <1>1, Tails, LongTails DEF WifiStates, Reporting, Connecting, TypeOK
<1>3. CASE Handler = <<"CONNECTING", "lower", "connect">>
  <2>1. Handler' = <<"lower", "connect">> /\ wifi' = "CONNECTING"
    BY <1>1, <1>3, Tails, LongTails
  <2> QED
    BY <1>1, <1>3, <2>1 DEF Reporting, Connecting, TypeOK
<1>4. CASE Handler = <<"RECONNECTING", "lower", "delay", "connect", "CONNECTING", "lower">>
  <2>1. Handler' = <<"lower", "delay", "connect", "CONNECTING", "lower">> /\ wifi' = "RECONNECTING"
    BY <1>1, <1>4, Tails, LongTails
  <2> QED
    BY <1>1, <1>4, <2>1 DEF Reporting, Connecting, TypeOK
<1>5. CASE Handler = <<"CONNECTING", "lower">>
  <2>1. Handler' = <<"lower">> /\ wifi' = "CONNECTING"
    BY <1>1, <1>5, Tails, LongTails
  <2> QED
    BY <1>1, <1>5, <2>1 DEF Reporting, Connecting, TypeOK
<1>6. CASE Handler = <<"CONNECTED", "lower", "reset">>
  <2>1. Handler' = <<"lower", "reset">> /\ wifi' = "CONNECTED"
    BY <1>1, <1>6, Tails, LongTails
  <2> QED
    BY <1>1, <1>6, <2>1 DEF Reporting, Connecting, TypeOK
<1>7. CASE Handler = <<"IP_READY", "raise">>
  <2>1. Handler' = <<"raise">> /\ wifi' = "IP_READY"
    BY <1>1, <1>7, Tails, LongTails
  <2> QED
    BY <1>1, <1>7, <2>1 DEF Reporting, Connecting, TypeOK
<1> QED
  BY <1>2, <1>3, <1>4, <1>5, <1>6, <1>7

\* The handler at work changes the bits.
LEMMA LoopChangesBits ==
  ASSUME TypeOK, LinkInv, ChangeBits("loop") PROVE LinkInv'
<1> USE DEF LinkInv, BootInv, IdleInv, JoinInv, JoinedInv, AddressInv, Handler
<1>1. /\ Handler # <<>> /\ Head(Handler) \in {"raise", "lower", "raise_up", "lower_up"}
      /\ Handler' = Tail(Handler) /\ todo'["main"] = todo["main"]
      /\ UNCHANGED <<main, wifi, air, events>>
  BY Execute DEF ChangeBits, Threads
<1>2. /\ Head(Handler) = "raise" => "WIFI_IP" \in bits'
      /\ Head(Handler) = "lower" => "WIFI_IP" \notin bits'
  BY Bits DEF Threads
<1>3. \/ Handler \in {<<"lower", "connect">>, <<"lower", "delay", "connect", "CONNECTING", "lower">>}
      \/ Handler \in {<<"lower">>, <<"lower", "reset">>, <<"raise">>}
  BY <1>1, Tails, LongTails DEF Reporting, Connecting, TypeOK
<1>4. CASE Handler = <<"lower", "connect">>
  <2>1. Handler' = <<"connect">> /\ "WIFI_IP" \notin bits'
    BY <1>1, <1>2, <1>4, Tails, LongTails
  <2> QED
    BY <1>1, <1>4, <2>1 DEF Reporting, Connecting, TypeOK
<1>5. CASE Handler = <<"lower", "delay", "connect", "CONNECTING", "lower">>
  <2>1. Handler' = <<"delay", "connect", "CONNECTING", "lower">> /\ "WIFI_IP" \notin bits'
    BY <1>1, <1>2, <1>5, Tails, LongTails
  <2> QED
    BY <1>1, <1>5, <2>1 DEF Reporting, Connecting, TypeOK
<1>6. CASE Handler = <<"lower">>
  <2>1. Handler' = <<>> /\ "WIFI_IP" \notin bits'
    BY <1>1, <1>2, <1>6, Tails, LongTails
  <2> QED
    BY <1>1, <1>6, <2>1 DEF Reporting, Connecting, TypeOK
<1>7. CASE Handler = <<"lower", "reset">>
  <2>1. Handler' = <<"reset">> /\ "WIFI_IP" \notin bits'
    BY <1>1, <1>2, <1>7, Tails, LongTails
  <2> QED
    BY <1>1, <1>7, <2>1 DEF Reporting, Connecting, TypeOK
<1>8. CASE Handler = <<"raise">>
  <2>1. Handler' = <<>> /\ "WIFI_IP" \in bits'
    BY <1>1, <1>2, <1>8, Tails, LongTails
  <2> QED
    BY <1>1, <1>8, <2>1 DEF Reporting, Connecting, TypeOK
<1> QED
  BY <1>3, <1>4, <1>5, <1>6, <1>7, <1>8

\* A handler that will call esp_wifi_connect is not one that only reports.
LEMMA Due ==
  /\ \A h \in Connecting : h \notin Reporting
  /\ \A h \in {<<"connect">>, <<"connect", "CONNECTING", "lower">>} :
       /\ h \in Connecting
       /\ h \notin {<<>>, <<"CONNECTING", "lower">>, <<"lower">>,
                   <<"CONNECTED", "lower", "reset">>, <<"lower", "reset">>, <<"reset">>,
                   <<"IP_READY", "raise">>, <<"raise">>}
BY DEF Reporting, Connecting

\* The handler at work makes the driver try again: it is the only thing that does,
\* and it waits for nothing but the driver to be idle.
LEMMA LoopConnects ==
  ASSUME TypeOK, LinkInv, Connect PROVE LinkInv'
<1> USE DEF LinkInv, BootInv, IdleInv, JoinInv, JoinedInv, AddressInv, Handler
<1>1. /\ Handler # <<>> /\ Head(Handler) = "connect" /\ Handler' = Tail(Handler)
      /\ todo'["main"] = todo["main"]
      /\ UNCHANGED <<main, wifi, bits, events>>
  BY Execute DEF Connect, Threads
<1>2. Handler \in {<<"connect">>, <<"connect", "CONNECTING", "lower">>}
  BY <1>1, Tails, LongTails DEF Reporting, Connecting, TypeOK
<1>3. air = "idle" /\ events = <<>>
  BY <1>1, <1>2, Due DEF TypeOK
<1>4. air' \in {"joining", "refused"}
  BY <1>3 DEF Connect
<1>5. CASE Handler = <<"connect">>
  <2>1. Handler' = <<>> /\ wifi = "CONNECTING" /\ "WIFI_IP" \notin bits
    BY <1>1, <1>3, <1>5, Tails DEF Reporting
  <2> QED
    BY <1>1, <1>3, <1>4, <1>5, <2>1 DEF TypeOK
<1>6. CASE Handler = <<"connect", "CONNECTING", "lower">>
  <2>1. Handler' = <<"CONNECTING", "lower">>
    BY <1>1, <1>6, Tails
  <2> QED
    BY <1>1, <1>3, <1>4, <1>6, <2>1 DEF TypeOK
<1> QED
  BY <1>2, <1>5, <1>6

\* The handler at work touches the backoff.
LEMMA LoopWaits ==
  ASSUME TypeOK, LinkInv, ResetBackoff \/ Delay PROVE LinkInv'
<1> USE DEF LinkInv, BootInv, IdleInv, JoinInv, JoinedInv, AddressInv, Handler
<1>1. /\ Handler # <<>> /\ Head(Handler) \in {"reset", "delay"} /\ Handler' = Tail(Handler)
      /\ todo'["main"] = todo["main"]
      /\ UNCHANGED <<main, wifi, bits, air, events>>
  BY Execute DEF ResetBackoff, Delay, Threads
<1>2. Handler \in {<<"reset">>, <<"delay", "connect", "CONNECTING", "lower">>}
  BY <1>1, Tails, LongTails DEF Reporting, Connecting, TypeOK
<1>3. CASE Handler = <<"reset">>
  <2>1. Handler' = <<>>
    BY <1>1, <1>3, Tails
  <2> QED
    BY <1>1, <1>3, <2>1 DEF Reporting, Connecting, TypeOK
<1>4. CASE Handler = <<"delay", "connect", "CONNECTING", "lower">>
  <2>1. Handler' = <<"connect", "CONNECTING", "lower">>
    BY <1>1, <1>4, LongTails
  <2>2. Handler \in Connecting /\ Handler' \in Connecting
    BY <1>4, <2>1 DEF Connecting
  <2>3. air = "idle" /\ events = <<>>
    BY <1>1, <1>4, <2>2, Due DEF TypeOK
  <2> QED
    BY <1>1, <1>4, <2>1, <2>2, <2>3
<1> QED
  BY <1>2, <1>3, <1>4

\* iot_wifi_start is over, but for esp_wifi_start, before the driver does anything.
LEMMA MainStores ==
  ASSUME TypeOK, LinkInv, StoreWifi("main") \/ ChangeBits("main") PROVE LinkInv'
<1> USE DEF LinkInv, BootInv, IdleInv, JoinInv, JoinedInv, AddressInv, Handler
<1>1. /\ todo["main"] # <<>> /\ todo'["main"] = Tail(todo["main"])
      /\ Head(todo["main"]) \in WifiStates \cup {"raise", "lower", "raise_up", "lower_up"}
      /\ todo'["loop"] = todo["loop"]
      /\ UNCHANGED <<main, air, events>>
  BY Execute DEF StoreWifi, ChangeBits, Threads
<1>2. air = "off" /\ main = "wait" /\ Handler = <<>> /\ events = <<>>
  BY <1>1
<1>3. todo["main"] \in {<<"CONNECTING", "lower", "start">>, <<"lower", "start">>,
                        <<"ERROR", "lower">>, <<"lower">>}
  BY <1>1, Tails DEF WifiStates
<1>4. todo'["main"] \in {<<"lower", "start">>, <<"start">>, <<"lower">>, <<>>}
  <2>1. /\ Tail(<<"CONNECTING", "lower", "start">>) = <<"lower", "start">>
        /\ Tail(<<"lower", "start">>) = <<"start">>
        /\ Tail(<<"ERROR", "lower">>) = <<"lower">>
        /\ Tail(<<"lower">>) = <<>>
    BY Tails
  <2> QED
    BY <1>1, <1>3, <2>1
<1> QED
  BY <1>1, <1>2, <1>4

\* esp_wifi_start starts the driver, or fails.
LEMMA MainStarts ==
  ASSUME TypeOK, LinkInv, StartRadio PROVE LinkInv'
<1> USE DEF LinkInv, BootInv, IdleInv, JoinInv, JoinedInv, AddressInv, Handler
<1>1. /\ todo["main"] # <<>> /\ todo'["main"] = Tail(todo["main"]) /\ Head(todo["main"]) = "start"
      /\ todo'["loop"] = todo["loop"] /\ UNCHANGED main
  BY Execute DEF StartRadio, Threads
<1>2. air = "off" /\ main = "wait" /\ Handler = <<>> /\ events = <<>>
  BY <1>1
<1>3. todo["main"] = <<"start">>
  BY <1>1, Tails
<1>4. todo'["main"] = <<>> /\ Handler' = <<>>
  BY <1>1, <1>2, <1>3, Tails
<1>5. CASE air' = "idle" /\ events' = <<"STA_START">>
  BY <1>1, <1>2, <1>4, <1>5 DEF Reporting
<1>6. CASE UNCHANGED <<air, events>>
  BY <1>1, <1>2, <1>4, <1>6
<1>7. Append(events, "STA_START") = <<"STA_START">>
  BY <1>2, Events
<1> QED
  BY <1>5, <1>6, <1>7 DEF StartRadio

\* The event loop takes the next event.
LEMMA LoopTakes ==
  ASSUME TypeOK, LinkInv, HandleEvent PROVE LinkInv'
<1> USE DEF LinkInv, BootInv, IdleInv, JoinInv, JoinedInv, AddressInv, Handler
<1>1. /\ Handler = <<>> /\ events # <<>> /\ events' = Tail(events)
      /\ UNCHANGED <<main, wifi, bits, air>>
  BY DEF HandleEvent, Idle
<1>2. Head(events) \in DOMAIN Script
  BY <1>1, HeadTailProperties DEF TypeOK
<1>3. Handler' = Script[Head(events)] /\ todo'["main"] = todo["main"]
  BY <1>2, ScriptType, Runs DEF HandleEvent, Threads
<1>4. Script[Head(events)] \in
        {<<"CONNECTING", "lower", "connect">>, <<"CONNECTED", "lower", "reset">>,
         <<"RECONNECTING", "lower", "delay", "connect", "CONNECTING", "lower">>,
         <<"IP_READY", "raise">>}
  BY <1>2, Scripts
<1>5. CASE air = "idle"
  <2>1. events \in {<<"STA_START">>, <<"STA_DISCONNECTED">>,
                    <<"STA_CONNECTED", "STA_DISCONNECTED">>, <<"GOT_IP", "STA_DISCONNECTED">>,
                    <<"STA_CONNECTED", "GOT_IP", "STA_DISCONNECTED">>}
    BY <1>1, <1>5
  <2>2. CASE events = <<"STA_START">>
    <3>1. events' = <<>> /\ Handler' = <<"CONNECTING", "lower", "connect">>
      BY <1>1, <1>3, <2>2, Tails, Scripts
    <3> QED
      BY <1>1, <1>3, <1>5, <3>1 DEF Connecting
  <2>3. CASE events = <<"STA_DISCONNECTED">>
    <3>1. events' = <<>>
          /\ Handler' = <<"RECONNECTING", "lower", "delay", "connect", "CONNECTING", "lower">>
      BY <1>1, <1>3, <2>3, Tails, Scripts
    <3> QED
      BY <1>1, <1>3, <1>5, <3>1 DEF Connecting
  <2>4. CASE events \in {<<"STA_CONNECTED", "STA_DISCONNECTED">>,
                         <<"STA_CONNECTED", "GOT_IP", "STA_DISCONNECTED">>}
    <3>1. events' \in {<<"STA_DISCONNECTED">>, <<"GOT_IP", "STA_DISCONNECTED">>}
          /\ Handler' = <<"CONNECTED", "lower", "reset">>
      <4>1. CASE events = <<"STA_CONNECTED", "STA_DISCONNECTED">>
        BY <1>1, <1>3, <4>1, Tails, Scripts
      <4>2. CASE events = <<"STA_CONNECTED", "GOT_IP", "STA_DISCONNECTED">>
        BY <1>1, <1>3, <4>2, Tails, Scripts
      <4> QED
        BY <2>4, <4>1, <4>2
    <3> QED
      BY <1>1, <1>3, <1>5, <3>1 DEF Reporting
  <2>5. CASE events = <<"GOT_IP", "STA_DISCONNECTED">>
    <3>1. events' = <<"STA_DISCONNECTED">> /\ Handler' = <<"IP_READY", "raise">>
      BY <1>1, <1>3, <2>5, Tails, Scripts
    <3> QED
      BY <1>1, <1>3, <1>5, <3>1 DEF Reporting
  <2> QED
    BY <2>1, <2>2, <2>3, <2>4, <2>5
<1>6. CASE air = "joined"
  <2>1. events = <<"STA_CONNECTED">>
    BY <1>1, <1>6
  <2>2. events' = <<>> /\ Handler' = <<"CONNECTED", "lower", "reset">>
    BY <1>1, <1>3, <2>1, Tails, Scripts
  <2> QED
    BY <1>1, <1>3, <1>6, <2>2
<1>7. CASE air = "ip"
  <2>1. events \in {<<"STA_CONNECTED", "GOT_IP">>, <<"GOT_IP">>}
    BY <1>1, <1>7
  <2>2. CASE events = <<"STA_CONNECTED", "GOT_IP">>
    <3>1. events' = <<"GOT_IP">> /\ Handler' = <<"CONNECTED", "lower", "reset">>
      BY <1>1, <1>3, <2>2, Tails, Scripts
    <3> QED
      BY <1>1, <1>3, <1>7, <3>1 DEF Reporting
  <2>3. CASE events = <<"GOT_IP">>
    <3>1. events' = <<>> /\ Handler' = <<"IP_READY", "raise">>
      BY <1>1, <1>3, <2>3, Tails, Scripts
    <3> QED
      BY <1>1, <1>3, <1>7, <3>1
  <2> QED
    BY <2>1, <2>2, <2>3
<1>8. air \notin {"off", "joining", "refused"}
  BY <1>1
<1> QED
  BY <1>5, <1>6, <1>7, <1>8 DEF TypeOK

\* The driver reports what it does.
LEMMA RadioReports ==
  ASSUME TypeOK, LinkInv, Associate \/ GetAddress \/ LoseLink PROVE LinkInv'
<1> USE DEF LinkInv, BootInv, IdleInv, JoinInv, JoinedInv, AddressInv, Handler
<1>1. /\ todo'["loop"] = todo["loop"] /\ todo'["main"] = todo["main"]
      /\ UNCHANGED <<main, wifi, bits>> /\ air # "off"
  BY DEF Associate, GetAddress, LoseLink, Radio
<1>2. CASE Associate
  <2>1. air = "joining" /\ air' = "joined" /\ events' = Append(events, "STA_CONNECTED")
    BY <1>2 DEF Associate, Radio
  <2>2. events' = <<"STA_CONNECTED">> /\ Handler \in Reporting
    BY <2>1, Events DEF Reporting
  <2> QED
    BY <1>1, <2>1, <2>2
<1>3. CASE GetAddress
  <2>1. air = "joined" /\ air' = "ip" /\ events' = Append(events, "GOT_IP")
    BY <1>3 DEF GetAddress, Radio
  <2>2. events \in {<<"STA_CONNECTED">>, <<>>} /\ Handler \in Reporting
    BY <2>1 DEF Reporting
  <2>3. events' \in {<<"STA_CONNECTED", "GOT_IP">>, <<"GOT_IP">>}
    BY <2>1, <2>2, Events
  <2> QED
    BY <1>1, <2>1, <2>2, <2>3
<1>4. CASE LoseLink
  <2>1. /\ air \in {"joining", "joined", "ip"} /\ air' = "idle"
        /\ events' = Append(events, "STA_DISCONNECTED")
    BY <1>4 DEF LoseLink, Radio
  <2>2. /\ events \in {<<>>, <<"STA_CONNECTED">>, <<"STA_CONNECTED", "GOT_IP">>, <<"GOT_IP">>}
        /\ Handler \in Reporting
    BY <2>1 DEF Reporting
  <2>3. events' \in {<<"STA_DISCONNECTED">>, <<"STA_CONNECTED", "STA_DISCONNECTED">>,
                     <<"STA_CONNECTED", "GOT_IP", "STA_DISCONNECTED">>,
                     <<"GOT_IP", "STA_DISCONNECTED">>}
    <3>1. CASE events = <<>>
      BY <2>1, <3>1, Events
    <3>2. CASE events = <<"STA_CONNECTED">>
      BY <2>1, <3>2, Events
    <3>3. CASE events = <<"GOT_IP">>
      BY <2>1, <3>3, Events
    <3>4. CASE events = <<"STA_CONNECTED", "GOT_IP">>
      BY <2>1, <3>4, Events
    <3> QED
      BY <2>2, <3>1, <3>2, <3>3, <3>4
  <2> QED
    BY <1>1, <2>1, <2>2, <2>3
<1> QED
  BY <1>2, <1>3, <1>4

\* app_main calls iot_wifi_start once, and only then looks at the link.
LEMMA AppMainLink ==
  ASSUME TypeOK, LinkInv, AppMain PROVE LinkInv'
<1>1. CASE Load
  <2>1. main = "load" /\ main' \in {"wifi", "done"}
        /\ UNCHANGED <<todo, wifi, bits, air, events>>
    BY <1>1 DEF Load
  <2>2. todo["main"] = <<>> /\ air = "off"
    BY <2>1 DEF LinkInv, BootInv
  <2> QED
    BY <2>1, <2>2 DEF LinkInv, BootInv, IdleInv, JoinInv, JoinedInv, AddressInv, Handler
<1>2. CASE StartWifi
  <2>1. /\ main = "wifi" /\ main' = "wait"
        /\ UNCHANGED <<wifi, bits, air, events>>
    BY <1>2 DEF StartWifi
  <2>2. PICK s \in {<<"CONNECTING", "lower", "start">>, <<"ERROR", "lower">>} : Run("main", s)
    BY <1>2, GivenScripts DEF StartWifi
  <2>3. todo'["main"] = s /\ todo'["loop"] = todo["loop"]
    BY <2>2, ShortScripts, Runs DEF Threads
  <2>4. air = "off"
    BY <2>1 DEF LinkInv, BootInv
  <2> QED
    BY <2>1, <2>2, <2>3, <2>4 DEF LinkInv, BootInv, IdleInv, JoinInv, JoinedInv, AddressInv, Handler
<1>3. CASE SeeIp \/ WaitTimeout
  <2>1. /\ todo["main"] = <<>> /\ main' \in {"mqtt", "done"}
        /\ UNCHANGED <<todo, wifi, bits, air, events>>
    BY <1>3 DEF SeeIp, WaitTimeout, Idle
  <2> QED
    BY <2>1, LinkLeftAlone
<1>4. CASE PrepareClient \/ StartClient
  <2>1. /\ main \in {"mqtt", "client"} /\ main' \in {"client", "done"}
        /\ UNCHANGED <<todo, wifi, bits, air, events>>
    BY <1>4 DEF PrepareClient, StartClient
  <2>2. todo["main"] = <<>>
    BY <2>1 DEF LinkInv, BootInv
  <2> QED
    BY <2>1, <2>2, LinkLeftAlone
<1> QED
  BY <1>1, <1>2, <1>3, <1>4 DEF AppMain

\* What the MQTT client does is not about the link.
LEMMA ClientLink ==
  ASSUME TypeOK, LinkInv, SessionInv,
         StoreMqtt \/ ChangeBits("mqtt") \/ OpenSession \/ LoseSession
  PROVE  LinkInv'
<1>1. CASE StoreMqtt
  <2>1. todo'["loop"] = todo["loop"] /\ todo'["main"] = todo["main"]
    BY <1>1, Execute DEF StoreMqtt, Threads
  <2> QED
    BY <1>1, <2>1, LinkLeftAlone DEF StoreMqtt
<1>2. CASE ChangeBits("mqtt")
  <2>1. /\ todo["mqtt"] # <<>> /\ todo'["loop"] = todo["loop"] /\ todo'["main"] = todo["main"]
        /\ Head(todo["mqtt"]) \in {"raise", "lower", "raise_up", "lower_up"}
    BY <1>2, Execute DEF ChangeBits, Threads
  <2>2. Head(todo["mqtt"]) \notin {"raise", "lower"}
    BY <2>1, Tails DEF SessionInv, TypeOK
  <2>3. "WIFI_IP" \in bits' <=> "WIFI_IP" \in bits
    BY <1>2, <2>1, <2>2, Bits DEF Threads
  <2> QED
    BY <1>2, <2>1, <2>3, LinkLeftAlone DEF ChangeBits
<1>3. CASE OpenSession \/ LoseSession
  <2>1. \E s \in Seq(Steps) : Run("mqtt", s)
    BY <1>3, GivenScripts, ShortScripts DEF OpenSession, LoseSession, Client
  <2>2. todo'["loop"] = todo["loop"] /\ todo'["main"] = todo["main"]
    BY <2>1, Runs DEF Threads
  <2>3. UNCHANGED <<main, wifi, bits, air, events>>
    BY <1>3 DEF OpenSession, LoseSession, Client
  <2> QED
    BY <2>2, <2>3, LinkLeftAlone
<1> QED
  BY <1>1, <1>2, <1>3

LEMMA LinkStep ==
  ASSUME TypeOK, LinkInv, SessionInv, [Next]_vars PROVE LinkInv'
<1>1. CASE AppMain
  BY <1>1, AppMainLink
<1>2. ASSUME NEW t \in Threads, Statement(t) PROVE LinkInv'
  <2>1. CASE t = "main"
    BY <1>2, <2>1, MainStores, MainStarts DEF Statement
  <2>2. CASE t = "loop"
    BY <1>2, <2>2, LoopStores, LoopChangesBits, LoopConnects, LoopWaits DEF Statement
  <2>3. CASE t = "mqtt"
    BY <1>2, <2>3, ClientLink DEF Statement, StoreWifi
  <2> QED
    BY <2>1, <2>2, <2>3 DEF Threads
<1>3. CASE HandleEvent
  BY <1>3, LoopTakes
<1>4. CASE Associate \/ GetAddress \/ LoseLink
  BY <1>4, RadioReports
<1>5. CASE OpenSession \/ LoseSession
  BY <1>5, ClientLink
<1>6. CASE Provision \/ UNCHANGED vars
  <2>1. UNCHANGED <<todo, main, wifi, bits, air, events>>
    BY <1>6 DEF Provision, vars, ram
  <2> QED
    BY <2>1, LinkLeftAlone
<1>7. CASE Restart
  <2>1. \A t \in Threads : todo'[t] = <<>>
    BY <1>7 DEF Restart, NoHandlers
  <2>2. todo'["main"] = <<>> /\ todo'["loop"] = <<>>
    BY <2>1 DEF Threads
  <2>3. main' = "load" /\ air' = "off" /\ events' = <<>>
    BY <1>7 DEF Restart
  <2> QED
    BY <2>2, <2>3 DEF LinkInv, BootInv, IdleInv, JoinInv, JoinedInv, AddressInv, Handler
<1> QED
  BY <1>1, <1>2, <1>3, <1>4, <1>5, <1>6, <1>7 DEF Next

-----------------------------------------------------------------------------
(* The session *)

\* Steps the session and its handler have no part in.
LEMMA SessionLeftAlone ==
  ASSUME SessionInv,
         todo'["mqtt"] = todo["mqtt"], UNCHANGED <<session, mqtt>>,
         "MQTT_UP" \in bits' => "MQTT_UP" \in bits,
         main = "done" => main' = "done"
  PROVE  SessionInv'
BY DEF SessionInv

LEMMA AppMainSession ==
  ASSUME TypeOK, SessionInv, AppMain PROVE SessionInv'
<1>1. CASE Load \/ SeeIp \/ WaitTimeout
  <2>1. main # "done" /\ UNCHANGED <<todo, session, mqtt, bits>>
    BY <1>1 DEF Load, SeeIp, WaitTimeout
  <2> QED
    BY <2>1, SessionLeftAlone
<1>2. CASE StartWifi
  <2>1. main # "done" /\ UNCHANGED <<session, mqtt, bits>>
    BY <1>2 DEF StartWifi
  <2>2. \E s \in Seq(Steps) : Run("main", s)
    BY <1>2, GivenScripts, ShortScripts DEF StartWifi
  <2>3. todo'["mqtt"] = todo["mqtt"]
    BY <2>2, Runs DEF Threads
  <2> QED
    BY <2>1, <2>3, SessionLeftAlone
<1>3. CASE PrepareClient \/ StartClient
  <2>1. main \in {"mqtt", "client"} /\ UNCHANGED <<todo, bits>>
    BY <1>3 DEF PrepareClient, StartClient
  <2>2. session = "none" /\ todo["mqtt"] = <<>> /\ mqtt # "UP" /\ "MQTT_UP" \notin bits
    BY <2>1 DEF SessionInv
  <2>3. mqtt' # "UP" /\ session' \in {"none", "down"} /\ (main' # "done" => session' = "none")
    BY <1>3, <2>2 DEF PrepareClient, StartClient
  <2> QED
    BY <2>1, <2>2, <2>3 DEF SessionInv
<1> QED
  BY <1>1, <1>2, <1>3 DEF AppMain

\* The statements of the other two threads; wifi_event may clear MQTT_UP.
LEMMA OthersSession ==
  ASSUME TypeOK, LinkInv, SessionInv, NEW t \in {"main", "loop"}, Statement(t)
  PROVE  SessionInv'
<1>1. /\ todo'["mqtt"] = todo["mqtt"]
      /\ UNCHANGED <<session, mqtt, main>>
  BY Execute DEF Statement, StoreWifi, ChangeBits, StartRadio, Connect, ResetBackoff, Delay, Threads
<1>2. "MQTT_UP" \in bits' => "MQTT_UP" \in bits
  <2>1. CASE ChangeBits(t)
    <3>1. todo[t] # <<>> /\ Head(todo[t]) \in {"raise", "lower", "raise_up", "lower_up"}
      BY <2>1, Execute DEF ChangeBits, Threads
    <3>2. Head(todo[t]) # "raise_up"
      <4>1. Handler # <<>> => Handler \in Reporting \cup Connecting
        BY DEF LinkInv, BootInv, IdleInv, JoinInv, JoinedInv, AddressInv, TypeOK, Reporting, Connecting
      <4>2. \A h \in (Reporting \cup Connecting) \ {<<>>} : Head(h) # "raise_up"
        BY Tails, LongTails DEF Reporting, Connecting
      <4>3. todo["main"] # <<>> => Head(todo["main"]) # "raise_up"
        BY Tails DEF LinkInv, BootInv
      <4> QED
        BY <3>1, <4>1, <4>2, <4>3 DEF Handler
    <3> QED
      BY <2>1, <3>1, <3>2, Bits DEF Threads
  <2>2. CASE ~ChangeBits(t)
    BY <2>2 DEF Statement, StoreWifi, StartRadio, Connect, ResetBackoff, Delay
  <2> QED
    BY <2>1, <2>2
<1> QED
  BY <1>1, <1>2, SessionLeftAlone

\* mqtt_event stores its state and then changes the bit.
LEMMA ClientSession ==
  ASSUME TypeOK, SessionInv, StoreMqtt \/ ChangeBits("mqtt") PROVE SessionInv'
<1>1. /\ todo["mqtt"] # <<>> /\ todo'["mqtt"] = Tail(todo["mqtt"])
      /\ Head(todo["mqtt"]) \in MqttStates \cup {"raise", "lower", "raise_up", "lower_up"}
      /\ UNCHANGED <<session, main>>
  BY Execute DEF StoreMqtt, ChangeBits, Threads
<1>2. /\ StoreMqtt => Head(todo["mqtt"]) \in MqttStates /\ mqtt' = Head(todo["mqtt"]) /\ bits' = bits
      /\ ChangeBits("mqtt") => Head(todo["mqtt"]) \in {"raise", "lower", "raise_up", "lower_up"}
                               /\ mqtt' = mqtt
  BY Execute DEF StoreMqtt, ChangeBits, Threads
<1>3. CASE session = "up" /\ todo["mqtt"] = <<"UP", "raise_up">>
  <2>1. todo'["mqtt"] = <<"raise_up">> /\ Head(todo["mqtt"]) = "UP"
    BY <1>1, <1>3, Tails
  <2>2. mqtt' = "UP"
    BY <1>2, <2>1
  <2> QED
    BY <1>1, <1>3, <2>1, <2>2 DEF SessionInv
<1>4. CASE session = "up" /\ todo["mqtt"] = <<"raise_up">> /\ mqtt = "UP"
  <2>1. todo'["mqtt"] = <<>> /\ Head(todo["mqtt"]) = "raise_up"
    BY <1>1, <1>4, Tails
  <2>2. mqtt' = "UP"
    BY <1>2, <1>4, <2>1 DEF MqttStates
  <2> QED
    BY <1>1, <1>4, <2>1, <2>2 DEF SessionInv
<1>5. CASE session = "down" /\ todo["mqtt"] = <<"ERROR", "CONNECTING", "lower_up">>
  <2>1. todo'["mqtt"] = <<"CONNECTING", "lower_up">>
    BY <1>1, <1>5, Tails
  <2> QED
    BY <1>1, <1>5, <2>1 DEF SessionInv
<1>6. CASE session = "down" /\ todo["mqtt"] = <<"CONNECTING", "lower_up">>
  <2>1. todo'["mqtt"] = <<"lower_up">> /\ Head(todo["mqtt"]) = "CONNECTING"
    BY <1>1, <1>6, Tails
  <2>2. mqtt' # "UP"
    BY <1>2, <2>1
  <2> QED
    BY <1>1, <1>6, <2>1, <2>2 DEF SessionInv
<1>7. CASE session = "down" /\ todo["mqtt"] = <<"lower_up">> /\ mqtt # "UP"
  <2>1. todo'["mqtt"] = <<>> /\ Head(todo["mqtt"]) = "lower_up"
    BY <1>1, <1>7, Tails
  <2>2. ChangeBits("mqtt") /\ mqtt' = mqtt
    BY <1>2, <2>1 DEF MqttStates
  <2>3. "MQTT_UP" \notin bits'
    BY <2>1, <2>2, Bits DEF Threads
  <2> QED
    BY <1>1, <1>7, <2>1, <2>2, <2>3 DEF SessionInv
<1> QED
  BY <1>1, <1>3, <1>4, <1>5, <1>6, <1>7 DEF SessionInv, TypeOK

\* The client begins or ends a session when its handler has done with the last one.
LEMMA SessionChanges ==
  ASSUME TypeOK, SessionInv, OpenSession \/ LoseSession PROVE SessionInv'
<1>1. session # "none" /\ UNCHANGED <<main, mqtt, bits>>
  BY DEF OpenSession, LoseSession, Client
<1>2. main = "done"
  BY <1>1 DEF SessionInv
<1>3. CASE OpenSession
  <2>1. session' = "up" /\ Run("mqtt", <<"UP", "raise_up">>)
    BY <1>3, GivenScripts DEF OpenSession, Client
  <2>2. todo'["mqtt"] = <<"UP", "raise_up">>
    BY <2>1, ShortScripts, Runs DEF Threads
  <2> QED
    BY <1>1, <1>2, <2>1, <2>2 DEF SessionInv
<1>4. CASE LoseSession
  <2>1. PICK s \in {<<"CONNECTING", "lower_up">>, <<"ERROR", "CONNECTING", "lower_up">>} :
          session' = "down" /\ Run("mqtt", s)
    BY <1>4, GivenScripts DEF LoseSession, Client
  <2>2. todo'["mqtt"] = s
    BY <2>1, ShortScripts, Runs DEF Threads
  <2> QED
    BY <1>1, <1>2, <2>1, <2>2 DEF SessionInv
<1> QED
  BY <1>3, <1>4

LEMMA SessionStep ==
  ASSUME TypeOK, LinkInv, SessionInv, [Next]_vars PROVE SessionInv'
<1>1. CASE AppMain
  BY <1>1, AppMainSession
<1>2. ASSUME NEW t \in Threads, Statement(t) PROVE SessionInv'
  <2>1. CASE t = "mqtt"
    BY <1>2, <2>1, ClientSession DEF Statement, StoreWifi
  <2> QED
    BY <1>2, <2>1, OthersSession DEF Threads
<1>3. CASE HandleEvent
  <2>1. Head(events) \in DOMAIN Script
    BY <1>3, HeadTailProperties DEF HandleEvent, TypeOK
  <2>2. todo'["mqtt"] = todo["mqtt"]
    BY <1>3, <2>1, ScriptType, Runs DEF HandleEvent, Threads
  <2>3. UNCHANGED <<main, session, mqtt, bits>>
    BY <1>3 DEF HandleEvent
  <2> QED
    BY <2>2, <2>3, SessionLeftAlone
<1>4. CASE Associate \/ GetAddress \/ LoseLink
  <2>1. UNCHANGED <<todo, main, session, mqtt, bits>>
    BY <1>4 DEF Associate, GetAddress, LoseLink, Radio
  <2> QED
    BY <2>1, SessionLeftAlone
<1>5. CASE OpenSession \/ LoseSession
  BY <1>5, SessionChanges
<1>6. CASE Provision \/ UNCHANGED vars
  <2>1. UNCHANGED <<todo, main, session, mqtt, bits>>
    BY <1>6 DEF Provision, vars, ram
  <2> QED
    BY <2>1, SessionLeftAlone
<1>7. CASE Restart
  <2>1. \A t \in Threads : todo'[t] = <<>>
    BY <1>7 DEF Restart, NoHandlers
  <2>2. todo'["mqtt"] = <<>>
    BY <2>1 DEF Threads
  <2>3. session' = "none" /\ mqtt' # "UP" /\ bits' = {}
    BY <1>7 DEF Restart
  <2> QED
    BY <2>2, <2>3 DEF SessionInv
<1> QED
  BY <1>1, <1>2, <1>3, <1>4, <1>5, <1>6, <1>7 DEF Next

-----------------------------------------------------------------------------
(* The theorems *)

\* After wifi_event has handled the last event there is, s_state and WIFI_IP_READY
\* say what the driver has come to.
LEMMA LinkIsKnown == ASSUME TypeOK, LinkInv PROVE LinkKnown
<1> SUFFICES ASSUME Quiet, air # "off"
             PROVE  /\ wifi = CASE air \in {"joining", "refused"} -> "CONNECTING"
                                [] air = "joined" -> "CONNECTED"
                                [] air = "ip" -> "IP_READY"
                                [] air = "idle" -> "no state"
                    /\ "WIFI_IP" \in bits <=> air = "ip"
  BY DEF LinkKnown
<1>1. Handler = <<>> /\ events = <<>>
  BY DEF Quiet, Idle, Handler
<1>2. /\ <<>> \notin Connecting
      /\ <<>> \notin {<<"STA_START">>, <<"STA_DISCONNECTED">>,
                      <<"STA_CONNECTED", "STA_DISCONNECTED">>, <<"GOT_IP", "STA_DISCONNECTED">>,
                      <<"STA_CONNECTED", "GOT_IP", "STA_DISCONNECTED">>}
  BY DEF Connecting
<1>3. air # "idle"
  BY <1>1, <1>2 DEF LinkInv, IdleInv
<1>4. CASE air \in {"joining", "refused"}
  <2>1. wifi = "CONNECTING" /\ "WIFI_IP" \notin bits
    BY <1>1, <1>4 DEF LinkInv, JoinInv
  <2> QED
    BY <1>4, <2>1, Zenon
<1>5. CASE air = "joined"
  <2>1. wifi = "CONNECTED" /\ "WIFI_IP" \notin bits
    BY <1>1, <1>5 DEF LinkInv, JoinedInv
  <2> QED
    BY <1>5, <2>1, Zenon
<1>6. CASE air = "ip"
  <2>1. wifi = "IP_READY" /\ "WIFI_IP" \in bits
    BY <1>1, <1>6 DEF LinkInv, AddressInv
  <2> QED
    BY <1>6, <2>1, Zenon
<1> QED
  BY <1>3, <1>4, <1>5, <1>6 DEF TypeOK

LEMMA SessionIsKnown == ASSUME TypeOK, SessionInv PROVE SessionKnown
BY DEF SessionKnown, SessionInv, Idle, TypeOK

\* What is left of wifi_event and mqtt_event (iot_wifi.c, iot_mqtt.c) and the events
\* that wait fit the state of the driver and of the client, at every step.
THEOREM NetInvariant == Spec => []NetInv
<1>1. Init => NetInv
  BY InitInv
<1>2. NetInv /\ [Next]_vars => NetInv'
  BY StepType, LinkStep, SessionStep DEF NetInv
<1> QED
  BY <1>1, <1>2, PTL DEF Spec

\* The states, the backoff and the handlers of iot_wifi.c and iot_mqtt.c stay in range.
THEOREM NetTypes == Spec => []TypeOK
<1>1. NetInv => TypeOK
  BY DEF NetInv
<1> QED
  BY <1>1, NetInvariant, PTL

\* What the states and the bits of system_evt tell the other tasks of the two links is
\* what they are, when wifi_event and mqtt_event have nothing left to do.
THEOREM LinksAreKnown == Spec => []LinksKnown
<1>1. NetInv => LinksKnown
  BY LinkIsKnown, SessionIsKnown DEF NetInv, LinksKnown
<1> QED
  BY <1>1, NetInvariant, PTL
=============================================================================
