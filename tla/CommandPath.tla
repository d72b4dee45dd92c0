---------------------------- MODULE CommandPath ----------------------------
(***************************************************************************)
(* What becomes of a command message: the hook of the product              *)
(* (components/iot_profiles/src), iot_services_handle_command with         *)
(* iot_security_validate_command (components/iot_services,                 *)
(* components/iot_security) and iot_uc_dispatch_command                    *)
(* (components/iot_usecases/src/iot_uc.c).                                 *)
(*                                                                         *)
(* None of them parses JSON: each looks for words in the text.  A message  *)
(* is a sequence of fields, each a key and a value; the code sees their    *)
(* words one after the other.  Meant says what a message asks for by its   *)
(* keys, Plain which messages leave no room for a mistake.                 *)
(***************************************************************************)
EXTENDS Naturals, Sequences, FiniteSetsExt

CONSTANTS
  Networks,   \* texts that name a network; one may be a word the code looks for
  UseCases,   \* names in s_tab, other than the two below
  Others      \* texts that mean nothing to the code

Number == "(number)"   \* a value that is no string
Url == "https://"      \* a text that begins like this
Word == "(word)"       \* a text that contains the word the hook looks for
Blank == ""

\* 0xFF01, 0xFF03, 0x4D51.
Opcodes == {"config", "control", "mqtt"}

\* A payload may be empty, no JSON at all, or JSON, with or without a blank
\* between the brace and the first key.
Texts == {"empty", "probe", "spaced", "json"}

\* What the hook does with its word: nothing, it has none (agriculture, cold
\* chain, tracker, predictive); it runs the use case of the word unless there
\* is a "uc" (water, energy, industrial); it refuses the message (EV,
\* automotive, robot).
Hooks == {"none", "runs", "refuses"}

Keys == {"uc", "ssid", "pass", "sample_ms", "ota_url", Word}
Values ==
  Networks \cup UseCases \cup Others
    \cup {"plt.provision", "plt.factory_reset", Number, Url, Word, Blank}
Messages == [opcode : Opcodes, text : Texts, fields : Seq([key : Keys, value : Values])]

Words(m) ==
  [i \in 1 .. 2 * Len(m.fields) |->
     IF i % 2 = 1 THEN m.fields[(i + 1) \div 2].key ELSE m.fields[i \div 2].value]

Places(m, w) == {i \in DOMAIN Words(m) : Words(m)[i] = w}

\* iot_uc_json_has_key and strstr: a key or a string.
HasWord(m, w) == Places(m, w) # {}

\* iot_uc_json_str and extract_str: what follows the first colon after the
\* first place of the word; Number when that is no string, or there is none.
After(m, w) ==
  LET colon == Min(Places(m, w)) \div 2 + 1
  IN  IF HasWord(m, w) /\ colon \in DOMAIN m.fields THEN m.fields[colon].value ELSE Number

\* What the device does: "provision" carries the new network, Blank to remove
\* it and Number to leave it.
Does(what) == [does |-> what, network |-> Number]
Provide(network) == [does |-> "provision", network |-> network]

\* iot_uc_run_json and iot_uc_run: by the name of the use case; no name is
\* IOT_ERR_PROTOCOL, one that is not in s_tab IOT_ERR_NOT_FOUND.
Run(name, network) ==
  IF name = "plt.provision" THEN Provide(network)
  ELSE IF name = "plt.factory_reset" THEN Does("reset")
  ELSE IF name \in UseCases THEN Does("use case")
  ELSE Does("refuse")

\* iot_security_validate_command.
Valid(m) == m.text # "empty" /\ (m.text = "probe" => m.opcode # "mqtt")

\* payload[2] == 's' of a message from MQTT, which tells the topic "config".
StartsWithS(m) ==
  /\ m.opcode = "mqtt" /\ m.text = "json" /\ m.fields # <<>>
  /\ Head(m.fields).key \in {"ssid", "sample_ms"}

HandleConfigFirst(m) ==   \* mutant: the characteristic decides before the use case
  IF ~Valid(m) THEN Does("refuse")
  ELSE IF m.opcode = "config" \/ StartsWithS(m) THEN Provide(After(m, "ssid"))
  ELSE IF HasWord(m, "uc") THEN Run(After(m, "uc"), After(m, "ssid"))
  ELSE IF HasWord(m, "ota_url") /\ HasWord(m, Url) THEN Does("ota")
  ELSE Does("forward")

\* iot_services_handle_command.
Handle(m) ==
  IF ~Valid(m) THEN Does("refuse")
  ELSE IF HasWord(m, "uc") THEN Run(After(m, "uc"), After(m, "ssid"))
  ELSE IF m.opcode = "config" \/ StartsWithS(m) THEN Provide(After(m, "ssid"))
  ELSE IF HasWord(m, "ota_url") /\ HasWord(m, Url) THEN Does("ota")
  ELSE Does("forward")

\* The product's command hook.
Hook(hook, m) ==
  IF hook = "refuses" /\ HasWord(m, Word) THEN Does("refuse")
  ELSE IF hook = "runs" /\ HasWord(m, Word) /\ ~HasWord(m, "uc") THEN Does("product")
  ELSE Handle(m)

\* What m asks for, by the keys it has.
Asks(m, k) == \E i \in DOMAIN m.fields : m.fields[i].key = k
Given(m, k) ==
  IF Asks(m, k) THEN m.fields[CHOOSE i \in DOMAIN m.fields : m.fields[i].key = k].value
                ELSE Number

Meant(hook, m) ==
  IF ~Valid(m) \/ (hook = "refuses" /\ Asks(m, Word)) THEN Does("refuse")
  ELSE IF Asks(m, "uc") THEN Run(Given(m, "uc"), Given(m, "ssid"))
  ELSE IF hook = "runs" /\ Asks(m, Word) THEN Does("product")
  ELSE IF m.opcode = "config" \/ (m.opcode = "mqtt" /\ Asks(m, "ssid"))
    THEN Provide(Given(m, "ssid"))
  ELSE IF Given(m, "ota_url") = Url THEN Does("ota")
  ELSE Does("forward")

\* Only JSON has fields (a hook finds its word in any text, before it is validated),
\* and no value is one of the words; over MQTT the network comes first, with no
\* blank before it, and no other key begins with its letter; the address to
\* update from is the value of its key.
Plain(m) ==
  /\ m.text \in {"empty", "probe"} => m.fields = <<>>
  /\ \A i \in DOMAIN m.fields :
       /\ m.fields[i].value \notin {"uc", "ssid", "ota_url", Word}
       /\ m.fields[i].value = Url => m.fields[i].key = "ota_url"
       /\ \A j \in DOMAIN m.fields : i # j => m.fields[i].key # m.fields[j].key
  /\ m.opcode = "mqtt" => (StartsWithS(m) <=> Asks(m, "ssid"))
=============================================================================
