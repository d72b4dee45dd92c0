-------------------------- MODULE MCCommissioning --------------------------
(* One field or two of every kind, a network with the name of a key among  *)
(* the values, and a cloud that provisions, resets or updates.             *)
EXTENDS Commissioning

Field(k, v) == [key |-> k, value |-> v]

Named == {Field("uc", v) : v \in {"plt.provision", "plt.get_diag", "other", Number}}
Nets(vs) == {Field("ssid", v) : v \in vs}
Extras == {Field("ota_url", Url), Field(Word, Number)}

MCLetters ==
  {[opcode |-> o, text |-> "json", fields |-> f] :
     o \in {"config", "control"},
     f \in {<<n>> : n \in Nets({"home", "uc", Word, Blank})}
             \cup {<<u, n>> : u \in Named, n \in Nets({"home", "uc"})}
             \cup {<<n, x>> : n \in Nets({"home", Word}), x \in Extras}
             \cup {<<x>> : x \in Extras}}
    \cup {[opcode |-> "config", text |-> t, fields |-> <<>>] : t \in {"empty", "probe"}}

MCCloudLetters ==
  {[opcode |-> "mqtt", text |-> "json", fields |-> f] :
     f \in {<<Field("ssid", "home")>>, <<Field("uc", "plt.factory_reset")>>,
            <<Field("ota_url", Url)>>, <<Field("pass", "home"), Field("ssid", "home")>>}}
    \cup {[opcode |-> "mqtt", text |-> "spaced", fields |-> <<Field("ssid", "home")>>]}
=============================================================================
