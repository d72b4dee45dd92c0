---------------------------- MODULE LossyStream ----------------------------
(***************************************************************************)
(* What the task architecture promises of the telemetry it publishes with  *)
(* QoS 1: samples are numbered in the order in which they are taken; any   *)
(* of them may be lost on the way (a full queue, a sensor that cannot be   *)
(* read, a session that is down); the others are handed to the MQTT client *)
(* once, in the order of their number.  The client sends what it was       *)
(* handed at least once, as long as it keeps it: a message that is not     *)
(* acknowledged may reach the broker again, after later ones too.  Nothing *)
(* reaches the broker that was not handed over, nor again after it was     *)
(* settled, which is when the client has the acknowledgement or gives up.  *)
(***************************************************************************)
EXTENDS Naturals, Sequences

VARIABLES
  taken,      \* how many samples have been taken
  sent,       \* the numbers of those handed to the client, in that order
  unsettled,  \* those that the client may still send
  arrived     \* the one that reached the broker last, 0 for none

vars == <<taken, sent, unsettled, arrived>>

Init ==
  /\ taken = 0
  /\ sent = <<>>
  /\ unsettled = {}
  /\ arrived = 0

Take ==
  /\ taken' = taken + 1
  /\ UNCHANGED <<sent, unsettled, arrived>>

Send ==
  \E n \in 1 .. taken :
    /\ \A i \in DOMAIN sent : sent[i] < n
    /\ sent' = Append(sent, n)
    /\ \/ arrived' = n /\ UNCHANGED unsettled
       \/ arrived' \in {arrived, n} /\ unsettled' = unsettled \cup {n}
    /\ UNCHANGED taken

Repeat ==
  \E n \in unsettled :
    /\ arrived' \in {arrived, n}
    /\ unsettled' \in {unsettled, unsettled \ {n}}
    /\ UNCHANGED <<taken, sent>>

Next == Take \/ Send \/ Repeat

Spec == Init /\ [][Next]_vars
=============================================================================
