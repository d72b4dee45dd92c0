------------------------- MODULE TaskPipelineProofs -------------------------
(***************************************************************************)
(* Proofs about TaskPipeline, for every length of the queues, every set of *)
(* commands and every number of samples: what is on the line stays in      *)
(* order and is accounted for, and what the client gets is a LossyStream.  *)
(***************************************************************************)
EXTENDS TaskPipeline, SequenceTheorems, TLAPS

USE PipelineAssumption

-----------------------------------------------------------------------------
(* Sequences: moving an element over a boundary, and taking one out.       *)

Elems(s) == {s[i] : i \in DOMAIN s}

LEMMA Assoc == \A s, t, u \in Seq(Nat) : (s \o t) \o u = s \o (t \o u)
  BY ConcatAssociative, SMTT(30)

\* The last of a and the first of c may be seen as belonging to q.
LEMMA MoveIn ==
  ASSUME NEW a \in Seq(Nat), NEW q \in Seq(Nat), NEW n \in Nat
  PROVE  (a \o Append(q, n)) \o <<>> = (a \o q) \o <<n>>
<1>1. Append(q, n) = q \o <<n>> /\ <<n>> \in Seq(Nat) /\ q \o <<n>> \in Seq(Nat)
  BY AppendIsConcat, AppendProperties
<1>2. a \o (q \o <<n>>) \in Seq(Nat)
  BY <1>1, ConcatProperties
<1> QED
  BY <1>1, <1>2, ConcatAssociative, ConcatEmptySeq

LEMMA MoveOut ==
  ASSUME NEW a \in Seq(Nat), NEW q \in Seq(Nat), q # <<>>
  PROVE  (a \o <<Head(q)>>) \o Tail(q) = (a \o <<>>) \o q
<1>1. Head(q) \in Nat /\ Tail(q) \in Seq(Nat) /\ <<Head(q)>> \in Seq(Nat)
  BY HeadTailProperties
<1>2. <<Head(q)>> \o Tail(q) = q
  <2>1. Len(<<Head(q)>> \o Tail(q)) = Len(q)
    BY <1>1, ConcatProperties, HeadTailProperties, LenProperties
  <2>2. ASSUME NEW i \in 1 .. Len(q) PROVE (<<Head(q)>> \o Tail(q))[i] = q[i]
    BY <1>1, HeadTailProperties, ConcatProperties, LenProperties
  <2>3. <<Head(q)>> \o Tail(q) \in Seq(Nat)
    BY <1>1, ConcatProperties
  <2> QED BY <2>1, <2>2, <2>3, SeqEqual
<1> QED
  BY <1>1, <1>2, ConcatAssociative, ConcatEmptySeq

\* t is s without one n.  What follows them makes no difference to that.
Without(s, t, n) ==
  \E a, b \in Seq(Nat) : s = (a \o <<n>>) \o b /\ t = a \o b

LEMMA WithoutLast ==
  ASSUME NEW a \in Seq(Nat), NEW n \in Nat
  PROVE  Without(a \o <<n>>, a \o <<>>, n)
<1>1. a \o <<n>> \in Seq(Nat) /\ <<>> \in Seq(Nat)
  BY ConcatProperties, EmptySeq
<1>2. a \o <<n>> = (a \o <<n>>) \o <<>>
  BY <1>1, ConcatEmptySeq
<1> QED
  BY <1>1, <1>2 DEF Without

LEMMA WithoutMore ==
  ASSUME NEW s, NEW t, NEW n \in Nat, NEW c \in Seq(Nat), Without(s, t, n)
  PROVE  Without(s \o c, t \o c, n)
<1>1. PICK a \in Seq(Nat), b \in Seq(Nat) : s = (a \o <<n>>) \o b /\ t = a \o b
  BY DEF Without
<1>2. a \o <<n>> \in Seq(Nat) /\ b \o c \in Seq(Nat)
  BY ConcatProperties
<1>3. ((a \o <<n>>) \o b) \o c = (a \o <<n>>) \o (b \o c)
  BY <1>2, Assoc, ZenonT(30)
<1>4. (a \o b) \o c = a \o (b \o c)
  BY Assoc, ZenonT(30)
<1> QED
  BY <1>1, <1>2, <1>3, <1>4 DEF Without

\* What is strictly increasing stays so without one element, which is then
\* not among the others.
LEMMA TakeOut ==
  ASSUME NEW a \in Seq(Nat), NEW b \in Seq(Nat), NEW n \in Nat,
         Increasing((a \o <<n>>) \o b)
  PROVE  /\ Increasing(a \o b)
         /\ Elems((a \o <<n>>) \o b) = Elems(a \o b) \cup {n}
         /\ n \notin Elems(a \o b)
<1> DEFINE s == (a \o <<n>>) \o b
           t == a \o b
           up(i) == IF i <= Len(a) THEN i ELSE i + 1
<1>1. /\ s \in Seq(Nat) /\ Len(s) = Len(a) + 1 + Len(b)
      /\ t \in Seq(Nat) /\ Len(t) = Len(a) + Len(b)
      /\ Len(a) \in Nat /\ Len(b) \in Nat
      /\ DOMAIN s = 1 .. Len(s) /\ DOMAIN t = 1 .. Len(t)
  BY ConcatProperties, LenProperties
<1>2. s[Len(a) + 1] = n
  BY <1>1, ConcatProperties
<1>3. \A i \in 1 .. Len(t) : up(i) \in 1 .. Len(s) /\ up(i) # Len(a) + 1 /\ t[i] = s[up(i)]
  BY <1>1, ConcatProperties
<1>4. \A i \in 1 .. Len(s) : i # Len(a) + 1 => \E k \in 1 .. Len(t) : up(k) = i
  <2> TAKE i \in 1 .. Len(s)
  <2> HAVE i # Len(a) + 1
  <2>1. CASE i <= Len(a)
    BY <1>1, <2>1
  <2>2. CASE i > Len(a) + 1
    <3>1. i - 1 \in 1 .. Len(t) /\ up(i - 1) = i
      BY <1>1, <2>2
    <3> QED BY <3>1
  <2> QED BY <1>1, <2>1, <2>2
<1>5. \A i, j \in 1 .. Len(t) : i < j => up(i) < up(j)
  BY <1>1
<1>6. \A i \in 1 .. Len(s) : s[i] \in Nat
  BY <1>1, ElementOfSeq
<1>7. \A i, j \in 1 .. Len(s) : i < j => s[i] < s[j]
  BY DEF Increasing
<1>8. ASSUME NEW i \in 1 .. Len(s), i # Len(a) + 1 PROVE s[i] # n
  <2>1. Len(a) + 1 \in 1 .. Len(s) /\ (i < Len(a) + 1 \/ Len(a) + 1 < i)
    BY <1>1, <1>8
  <2>2. s[i] < s[Len(a) + 1] \/ s[Len(a) + 1] < s[i]
    BY <1>7, <2>1
  <2> HIDE DEF s, t, up
  <2> QED BY <1>2, <1>6, <2>1, <2>2
<1> HIDE DEF s, t, up
<1>9. Increasing(t)
  BY <1>3, <1>5, <1>7 DEF Increasing
<1>10. Elems(s) = Elems(t) \cup {n}
  <2>1. Len(a) + 1 \in 1 .. Len(s)
    BY <1>1
  <2>2. \A i \in 1 .. Len(s) : s[i] = n \/ \E k \in 1 .. Len(t) : s[i] = t[k]
    BY <1>2, <1>3, <1>4
  <2>3. \A k \in 1 .. Len(t) : \E i \in 1 .. Len(s) : t[k] = s[i]
    BY <1>3
  <2>4. \E i \in 1 .. Len(s) : s[i] = n
    BY <1>2, <2>1
  <2>5. \A x : x \in Elems(s) <=> \E i \in 1 .. Len(s) : x = s[i]
    BY <1>1 DEF Elems
  <2>6. \A x : x \in Elems(t) <=> \E k \in 1 .. Len(t) : x = t[k]
    BY <1>1 DEF Elems
  <2>7. \A x : x \in Elems(s) <=> x \in Elems(t) \/ x = n
    BY <2>2, <2>3, <2>4, <2>5, <2>6, ZenonT(40)
  <2> QED BY <2>7
<1>11. n \notin Elems(t)
  BY <1>1, <1>3, <1>8, Zenon DEF Elems
<1> QED
  BY <1>9, <1>10, <1>11 DEF s, t

\* A number larger than all that are there may be added at the end.
LEMMA AddLast ==
  ASSUME NEW s \in Seq(Nat), NEW n \in Nat, Increasing(s), \A m \in Elems(s) : m < n
  PROVE  Increasing(s \o <<n>>) /\ Elems(s \o <<n>>) = Elems(s) \cup {n}
<1>1. /\ Len(s) \in Nat /\ Len(s \o <<n>>) = Len(s) + 1
      /\ DOMAIN s = 1 .. Len(s) /\ DOMAIN (s \o <<n>>) = 1 .. Len(s) + 1
      /\ \A i \in 1 .. Len(s) : (s \o <<n>>)[i] = s[i] /\ s[i] < n
      /\ (s \o <<n>>)[Len(s) + 1] = n
  BY ConcatProperties, LenProperties DEF Elems
<1>2. Increasing(s \o <<n>>)
  BY <1>1 DEF Increasing
<1>3. 1 .. Len(s) + 1 = (1 .. Len(s)) \cup {Len(s) + 1}
  BY <1>1
<1> QED
  BY <1>1, <1>2, <1>3, SMTT(30) DEF Elems

-----------------------------------------------------------------------------
(* The types. *)

LEMMA NumbersAreNat == Numbers \subseteq Nat /\ (\A n \in Numbers : n # 0)
  BY DEF Numbers

LEMMA TypeInit == Init => TypeOK
<1> SUFFICES ASSUME Init PROVE TypeOK
  OBVIOUS
<1>1. <<>> \in Seq(Numbers) /\ <<>> \in Seq(Commands)
  BY EmptySeq
<1>2. 0 \in 0 .. MaxSeq /\ "absent" \in Steps
  BY DEF Steps
<1>3. at \in [Tasks -> Steps] /\ hand \in [Holders -> 0 .. MaxSeq]
  BY <1>2 DEF Init
<1> QED
  BY <1>1, <1>2, <1>3 DEF Init, TypeOK

LEMMA GotoType ==
  ASSUME TypeOK, NEW t \in Tasks, NEW s \in Steps, Goto(t, s)
  PROVE  at' \in [Tasks -> Steps]
  BY DEF TypeOK, Goto

LEMMA HoldType ==
  ASSUME TypeOK, NEW t \in Holders, NEW n \in 0 .. MaxSeq, Hold(t, n)
  PROVE  hand' \in [Holders -> 0 .. MaxSeq]
  BY DEF TypeOK, Hold

LEMMA TypeStep == TypeOK /\ RoundOpen /\ HandsMatch /\ [Next]_vars => TypeOK'
<1> SUFFICES ASSUME TypeOK, RoundOpen, HandsMatch, [Next]_vars PROVE TypeOK'
  OBVIOUS
<1> USE DEF TypeOK, client
<1>a. /\ {"top", "wait", "build", "send", "handle", "recv", "publish", "returned"} \subseteq Steps
      /\ Loops \subseteq Tasks /\ Holders \subseteq Tasks /\ 0 \in 0 .. MaxSeq
      /\ "sensor" \in Holders /\ "proc" \in Holders /\ "pump" \in Holders
      /\ "sensor" \in Loops /\ "proc" \in Loops /\ "cmd" \in Loops
  BY DEF Steps, Loops, Tasks, Holders
<1>1. CASE Boot
  <2>1. main' \in Loops \cup {"objects", "kick", "profile", "hook_sensor", "hook_cmd",
                             "ble", "wifi", "mqtt", "done", "failed"}
    BY <1>1 DEF Boot, CreateObjects, Kick, CreateTask, StartProfile, SetSensorHook,
         SetCmdHook, StartBle, JoinWifi, StartMqtt, AfterCreate, Loops
  <2>2. at' \in [Tasks -> Steps]
    <3>1. at' = at \/ \E t \in Tasks : Goto(t, "top") \/ Goto(t, "recv")
      BY <1>1 DEF Boot, CreateObjects, Kick, CreateTask, StartProfile, SetSensorHook,
           SetCmdHook, StartBle, JoinWifi, StartMqtt, Tasks
    <3> QED BY <1>a, <3>1, GotoType
  <2>3. hooks' \subseteq {"sensor", "cmd"} /\ exti' \in BOOLEAN /\ inbound' \in BOOLEAN
        /\ isr_sem' \in {0, 1}
    BY <1>1 DEF Boot, CreateObjects, Kick, CreateTask, StartProfile, SetSensorHook,
         SetCmdHook, StartBle, JoinWifi, StartMqtt
  <2>4. UNCHANGED <<sampling, commanding, aborted>>
    BY <1>1 DEF Boot, CreateObjects, Kick, CreateTask, StartProfile, SetSensorHook,
         SetCmdHook, StartBle, JoinWifi, StartMqtt
  <2> QED BY <2>1, <2>2, <2>3, <2>4 DEF sampling, commanding
<1>2. ASSUME NEW t \in Loops, Leave(t) \/ Block(t) PROVE TypeOK'
  <2>1. at' \in [Tasks -> Steps]
    BY <1>a, <1>2, GotoType DEF Leave, Block
  <2> QED BY <1>2, <2>1 DEF Leave, Block, boot, sampling, commanding
<1>3. CASE Pulse
  BY <1>3 DEF Pulse, boot, sampling, commanding
<1>4. ASSUME NEW c \in Commands, Command(c) PROVE TypeOK'
  <2>1. command_q' \in Seq(Commands)
    BY <1>4, AppendProperties DEF Command
  <2> QED BY <1>4, <2>1 DEF Command, boot, sampling
<1>5. CASE TakeSem
  <2>1. at' \in [Tasks -> Steps]
    BY <1>a, <1>5, GotoType DEF TakeSem
  <2> QED BY <1>5, <2>1 DEF TakeSem, boot, sampling, commanding
<1>6. CASE Build
  <2>1. s_seq + 1 \in Numbers /\ s_seq + 1 \in 0 .. MaxSeq
    BY <1>6 DEF Build, RoundOpen, Numbers
  <2>2. at' \in [Tasks -> Steps]
    BY <1>a, <1>6, GotoType DEF Build
  <2>3. hand' \in [Holders -> 0 .. MaxSeq]
    BY <1>a, <1>6, <2>1,  HoldType DEF Build
  <2> QED BY <1>6, <2>1, <2>2, <2>3 DEF Build, boot, commanding
<1>7. CASE SendSample
  <2>1. hand["sensor"] \in Numbers
    BY <1>7 DEF SendSample, HandsMatch, Numbers, Holders
  <2>2. sample_q' \in Seq(Numbers)
    BY <1>7, <2>1, AppendProperties DEF SendSample
  <2>3. at' \in [Tasks -> Steps]
    BY <1>a, <1>7, GotoType DEF SendSample
  <2>4. hand' \in [Holders -> 0 .. MaxSeq]
    BY <1>a, <1>7, <2>1, <2>2,  HoldType DEF SendSample
  <2> QED BY <1>7, <2>1, <2>2, <2>3, <2>4 DEF SendSample, boot, commanding
<1>8. ASSUME NEW t \in Holders, hand[t] # 0, NEW next \in {"top", "recv"}, Drop(t, next)
      PROVE  TypeOK'
  <2>1. hand[t] \in Numbers
    BY <1>8 DEF Numbers
  <2>2. at' \in [Tasks -> Steps]
    BY <1>a, <1>8, GotoType DEF Drop
  <2>3. hand' \in [Holders -> 0 .. MaxSeq]
    BY <1>a, <1>8, <2>1,  HoldType DEF Drop
  <2> QED BY <1>8, <2>1, <2>2, <2>3 DEF Drop, boot, commanding
<1>9. CASE RecvSample
  <2>1. Head(sample_q) \in Numbers /\ Tail(sample_q) \in Seq(Numbers)
    BY <1>9, HeadTailProperties DEF RecvSample
  <2>2. Head(sample_q) \in 0 .. MaxSeq
    BY <2>1 DEF Numbers
  <2>3. at' \in [Tasks -> Steps]
    BY <1>a, <1>9, GotoType DEF RecvSample
  <2>4. hand' \in [Holders -> 0 .. MaxSeq]
    BY <1>a, <1>9, <2>1, <2>2,  HoldType DEF RecvSample
  <2> QED BY <1>9, <2>1, <2>2, <2>3, <2>4 DEF RecvSample, boot, commanding
<1>10. CASE SendTelemetry
  <2>1. hand["proc"] \in Numbers
    BY <1>10 DEF SendTelemetry, HandsMatch, Numbers, Holders
  <2>2. telemetry_q' \in Seq(Numbers)
    BY <1>10, <2>1, AppendProperties DEF SendTelemetry
  <2>3. at' \in [Tasks -> Steps]
    BY <1>a, <1>10, GotoType DEF SendTelemetry
  <2>4. hand' \in [Holders -> 0 .. MaxSeq]
    BY <1>a, <1>10, <2>1, <2>2,  HoldType DEF SendTelemetry
  <2> QED BY <1>10, <2>1, <2>2, <2>3, <2>4 DEF SendTelemetry, boot, commanding
<1>11. CASE NothingFor("proc", sample_q) \/ NothingFor("cmd", command_q)
  <2>1. at' \in [Tasks -> Steps]
    BY <1>a, <1>11, GotoType DEF NothingFor
  <2> QED BY <1>11, <2>1 DEF NothingFor, boot, sampling, commanding
<1>12. CASE RecvTelemetry
  <2>1. Head(telemetry_q) \in Numbers /\ Tail(telemetry_q) \in Seq(Numbers)
    BY <1>12, HeadTailProperties DEF RecvTelemetry
  <2>2. Head(telemetry_q) \in 0 .. MaxSeq
    BY <2>1 DEF Numbers
  <2>3. at' \in [Tasks -> Steps]
    BY <1>a, <1>12, GotoType DEF RecvTelemetry
  <2>4. hand' \in [Holders -> 0 .. MaxSeq]
    BY <1>a, <1>12, <2>1, <2>2,  HoldType DEF RecvTelemetry
  <2> QED BY <1>12, <2>1, <2>2, <2>3, <2>4 DEF RecvTelemetry, boot, commanding
<1>13. CASE Publish
  <2>1. hand["pump"] \in Numbers
    BY <1>13 DEF Publish, HandsMatch, Numbers, Holders
  <2>2. published' \in Seq(Numbers)
    BY <1>13, <2>1, AppendProperties DEF Publish
  <2>3. at' \in [Tasks -> Steps]
    BY <1>a, <1>13, GotoType DEF Publish
  <2>4. hand' \in [Holders -> 0 .. MaxSeq]
    BY <1>a, <1>13, <2>1, <2>2,  HoldType DEF Publish
  <2>5. outbox' \subseteq Numbers /\ arrived' \in 0 .. MaxSeq
    <3>1. /\ arrived' \in {arrived, hand["pump"]}
          /\ outbox' = outbox \/ outbox' = outbox \cup {hand["pump"]}
      BY <1>13 DEF Publish
    <3>2. hand["pump"] \in 0 .. MaxSeq
      BY <2>1 DEF Numbers
    <3> QED BY <2>1, <3>1, <3>2
  <2> QED BY <1>13, <2>2, <2>3, <2>4, <2>5 DEF Publish, boot, commanding
<1>14. CASE RecvCommand
  <2>1. Head(command_q) \in Commands /\ Tail(command_q) \in Seq(Commands)
    BY <1>14, HeadTailProperties DEF RecvCommand
  <2>2. at' \in [Tasks -> Steps]
    BY <1>a, <1>14, GotoType DEF RecvCommand
  <2> QED BY <1>14, <2>1, <2>2 DEF RecvCommand, boot, sampling
<1>15. CASE Handle
  <2>1. at' \in [Tasks -> Steps]
    BY <1>a, <1>15, GotoType DEF Handle
  <2> QED BY <1>15, <2>1 DEF Handle, boot, sampling
<1>16. CASE UNCHANGED vars
  BY <1>16 DEF vars, boot, sampling, commanding
<1>17. CASE DropSample
  BY <1>17, <1>8 DEF DropSample, HandsMatch, Holders
<1>18. CASE DropTelemetry
  BY <1>18, <1>8 DEF DropTelemetry, HandsMatch, Holders
<1>19. CASE FailPublish
  BY <1>19, <1>8 DEF FailPublish, HandsMatch, Holders
<1>20. ASSUME NEW n \in outbox, Resend(n) PROVE TypeOK'
  <2>1. outbox' \subseteq Numbers /\ arrived' \in 0 .. MaxSeq
    BY <1>20 DEF Resend, Numbers
  <2> QED BY <1>20, <2>1 DEF Resend, boot, commanding
<1> QED
  BY <1>1, <1>2, <1>3, <1>4, <1>5, <1>6, <1>7, <1>9, <1>10, <1>11, <1>12, <1>13, <1>14,
     <1>15, <1>16, <1>17, <1>18, <1>19, <1>20
     DEF Next, SensorStep, ProcStep, CmdStep, PumpStep, Loops

-----------------------------------------------------------------------------
(* The control of the tasks and of the boot. *)

\* All about the inductive invariant that does not speak of the line.
Control ==
  /\ TypeOK /\ HandsMatch /\ BootOrder /\ RoundOpen /\ HandlerFirst /\ LastRound
  /\ NoCommandUnheard

LEMMA ControlInit == Init => Control
<1> SUFFICES ASSUME Init PROVE Control
  OBVIOUS
<1>1. TypeOK
  BY TypeInit
<1>2. /\ main = "objects" /\ \A t \in Tasks : at[t] = "absent"
      /\ \A t \in Holders : hand[t] = 0
      /\ command_q = <<>> /\ inbound = FALSE /\ s_shutdown = FALSE
  BY DEF Init
<1>3. "sensor" \in Tasks /\ "proc" \in Tasks /\ "pump" \in Tasks /\ "cmd" \in Tasks
      /\ "sensor" \in Holders /\ "proc" \in Holders /\ "pump" \in Holders
  BY DEF Tasks, Loops, Holders
<1> QED
  BY <1>1, <1>2, <1>3 DEF Control, HandsMatch, BootOrder, RoundOpen, HandlerFirst, LastRound,
     NoCommandUnheard

\* The places of the other tasks, and what they hold, do not change.
LEMMA GotoOne ==
  ASSUME TypeOK, NEW t \in Tasks, NEW s, Goto(t, s)
  PROVE  at'[t] = s /\ \A u \in Tasks \ {t} : at'[u] = at[u]
  BY DEF TypeOK, Goto

LEMMA HoldOne ==
  ASSUME TypeOK, NEW t \in Holders, NEW n, Hold(t, n)
  PROVE  hand'[t] = n /\ \A u \in Holders \ {t} : hand'[u] = hand[u]
  BY DEF TypeOK, Hold

LEMMA TaskNames ==
  /\ Loops \subseteq Tasks /\ Holders \subseteq Tasks
  /\ "sensor" \in Loops /\ "proc" \in Loops /\ "cmd" \in Loops
  /\ "sensor" \in Tasks /\ "proc" \in Tasks /\ "cmd" \in Tasks /\ "pump" \in Tasks
  /\ "sensor" \in Holders /\ "proc" \in Holders /\ "pump" \in Holders
  BY DEF Tasks, Loops, Holders

\* What is taken from a queue of numbers is no empty hand.
LEMMA HeadOfQueue ==
  ASSUME TypeOK
  PROVE  /\ sample_q # <<>> => Head(sample_q) \in Numbers
         /\ telemetry_q # <<>> => Head(telemetry_q) \in Numbers
  BY HeadTailProperties DEF TypeOK

\* A step of task t leaves the invariants about the other tasks alone.
LEMMA ControlStep == Control /\ [Next]_vars => Control'
<1> SUFFICES ASSUME Control, [Next]_vars PROVE Control'
  OBVIOUS
<1> USE TaskNames, GotoOne, HoldOne
<1> USE DEF HandsMatch, BootOrder, RoundOpen, HandlerFirst, LastRound, NoCommandUnheard,
            RoundsLeft, Control
<1>0. TypeOK'
  BY TypeStep
<1>1. /\ s_seq \in Nat /\ stop_seq \in Nat
      /\ \A t \in Holders : hand[t] \in Nat
      /\ \A n \in Numbers : n # 0
  BY NumbersAreNat DEF TypeOK
<1> DEFINE Rest == HandsMatch /\ BootOrder /\ RoundOpen /\ HandlerFirst /\ LastRound
                     /\ NoCommandUnheard
<1>2. ASSUME CreateObjects PROVE Rest'
  BY <1>1, <1>2 DEF CreateObjects, sampling, commanding
<1>3. ASSUME Kick PROVE Rest'
  BY <1>1, <1>3 DEF Kick, sampling, commanding
<1>4. ASSUME NEW t \in Loops, CreateTask(t) PROVE Rest'
  BY <1>1, <1>4 DEF CreateTask, AfterCreate, Loops, sampling, commanding
<1>5. ASSUME StartProfile PROVE Rest'
  BY <1>1, <1>5 DEF StartProfile, sampling, commanding
<1>6. ASSUME SetSensorHook PROVE Rest'
  BY <1>1, <1>6 DEF SetSensorHook, sampling, commanding
<1>7. ASSUME SetCmdHook PROVE Rest'
  BY <1>1, <1>7 DEF SetCmdHook, sampling, commanding
<1>8. ASSUME StartBle PROVE Rest'
  BY <1>1, <1>8 DEF StartBle, sampling, commanding
<1>9. ASSUME JoinWifi PROVE Rest'
  BY <1>1, <1>9 DEF JoinWifi, sampling, commanding
<1>10. ASSUME StartMqtt PROVE Rest'
  BY <1>1, <1>10 DEF StartMqtt, sampling, commanding
<1>11. ASSUME NEW t \in Loops, Leave(t) \/ Block(t) PROVE Rest'
  BY <1>1, <1>11 DEF Leave, Block, boot, sampling, commanding
<1>12. ASSUME Pulse PROVE Rest'
  BY <1>1, <1>12 DEF Pulse, boot, sampling, commanding
<1>13. ASSUME NEW c \in Commands, Command(c) PROVE Rest'
  BY <1>1, <1>13 DEF Command, boot, sampling
<1>14. ASSUME TakeSem PROVE Rest'
  BY <1>1, <1>14 DEF TakeSem, boot, sampling, commanding
<1>15. ASSUME Build PROVE Rest'
  BY <1>1, <1>15 DEF Build, boot, commanding
<1>16. ASSUME SendSample PROVE Rest'
  BY <1>1, <1>16 DEF SendSample, boot, commanding
<1>17. ASSUME DropSample PROVE Rest'
  BY <1>1, <1>17 DEF DropSample, Drop, boot, commanding
<1>18. ASSUME RecvSample PROVE Rest'
  BY <1>1, <1>18, HeadOfQueue DEF RecvSample, boot, commanding
<1>19. ASSUME SendTelemetry PROVE Rest'
  BY <1>1, <1>19 DEF SendTelemetry, boot, commanding
<1>20. ASSUME DropTelemetry PROVE Rest'
  BY <1>1, <1>20 DEF DropTelemetry, Drop, boot, commanding
<1>21. ASSUME RecvTelemetry PROVE Rest'
  BY <1>1, <1>21, HeadOfQueue DEF RecvTelemetry, boot, commanding
<1>22. ASSUME Publish PROVE Rest'
  BY <1>1, <1>22 DEF Publish, boot, commanding
<1>23. ASSUME FailPublish PROVE Rest'
  BY <1>1, <1>23 DEF FailPublish, Drop, boot, commanding
<1>24. ASSUME NothingFor("proc", sample_q) \/ NothingFor("cmd", command_q) PROVE Rest'
  BY <1>1, <1>24 DEF NothingFor, boot, sampling, commanding
<1>25. ASSUME RecvCommand PROVE Rest'
  BY <1>1, <1>25 DEF RecvCommand, boot, sampling
<1>26. ASSUME Handle PROVE Rest'
  BY <1>1, <1>26 DEF Handle, boot, sampling
<1>27. ASSUME UNCHANGED vars PROVE Rest'
  BY <1>1, <1>27 DEF vars, boot, sampling, commanding
<1>28. ASSUME NEW n \in outbox, Resend(n) PROVE Rest'
  BY <1>1, <1>28 DEF Resend, boot, commanding
<1> QED
  BY <1>0, <1>2, <1>3, <1>4, <1>5, <1>6, <1>7, <1>8, <1>9, <1>10, <1>11, <1>12, <1>13, <1>14, <1>15, <1>16, <1>17, <1>18, <1>19, <1>20, <1>21, <1>22, <1>23, <1>24, <1>25, <1>26, <1>27, <1>28
     DEF Next, Boot, SensorStep, ProcStep, CmdStep, PumpStep, Loops

-----------------------------------------------------------------------------
(* What a step does to the line.  A sample moves on and the line stays as  *)
(* it is, a new number joins it, a number is given to a sample that cannot *)
(* be read, or a sample is dropped.                                        *)

Moves == Line' = Line /\ lost' = lost /\ s_seq' = s_seq
Joins == Line' = Line \o <<s_seq + 1>> /\ lost' = lost /\ s_seq' = s_seq + 1
Misses == Line' = Line /\ lost' = lost \cup {s_seq + 1} /\ s_seq' = s_seq + 1
Loses ==
  \E n \in Nat : Without(Line, Line', n) /\ lost' = lost \cup {n} /\ s_seq' = s_seq

LEMMA PartsAreSeqs ==
  ASSUME TypeOK
  PROVE  /\ published \in Seq(Nat) /\ telemetry_q \in Seq(Nat) /\ sample_q \in Seq(Nat)
         /\ s_seq \in Nat
         /\ \A t \in Holders : hand[t] \in Nat /\ Held(t) \in Seq(Nat)
         /\ Line \in Seq(Nat)
<1>1. /\ published \in Seq(Nat) /\ telemetry_q \in Seq(Nat) /\ sample_q \in Seq(Nat)
  BY NumbersAreNat, SeqMonotonic DEF TypeOK
<1>2. \A t \in Holders : hand[t] \in Nat /\ Held(t) \in Seq(Nat)
  BY EmptySeq DEF TypeOK, Held
<1>3. Line \in Seq(Nat)
  BY <1>1, <1>2, ConcatProperties, TaskNames DEF Line
<1> QED
  BY <1>1, <1>2, <1>3 DEF TypeOK

\* The line up to the telemetry queue, and up to the sample queue.
ToTelemetry == published \o Held("pump")
ToSample == (ToTelemetry \o telemetry_q) \o Held("proc")

LEMMA LineParts ==
  ASSUME TypeOK
  PROVE  /\ ToTelemetry \in Seq(Nat) /\ ToTelemetry \o telemetry_q \in Seq(Nat)
         /\ ToSample \in Seq(Nat) /\ ToSample \o sample_q \in Seq(Nat)
         /\ Line = (ToSample \o sample_q) \o Held("sensor")
<1>1. /\ published \in Seq(Nat) /\ telemetry_q \in Seq(Nat) /\ sample_q \in Seq(Nat)
      /\ Held("pump") \in Seq(Nat) /\ Held("proc") \in Seq(Nat)
  BY PartsAreSeqs, TaskNames
<1>2. ToTelemetry \in Seq(Nat)
  BY <1>1, ConcatProperties DEF ToTelemetry
<1>3. ToTelemetry \o telemetry_q \in Seq(Nat)
  BY <1>1, <1>2, ConcatProperties
<1>4. ToSample \in Seq(Nat)
  BY <1>1, <1>3, ConcatProperties DEF ToSample
<1>5. ToSample \o sample_q \in Seq(Nat)
  BY <1>1, <1>4, ConcatProperties
<1>6. Line = (ToSample \o sample_q) \o Held("sensor")
  BY DEF Line, ToSample, ToTelemetry
<1> QED
  BY <1>2, <1>3, <1>4, <1>5, <1>6

\* What one task holds after it put n into its hand, and the others.
LEMMA HeldStep ==
  ASSUME TypeOK, NEW t \in Holders, NEW n \in Nat, Hold(t, n)
  PROVE  /\ Held(t)' = IF n = 0 THEN <<>> ELSE <<n>>
         /\ \A u \in Holders \ {t} : Held(u)' = Held(u)
  BY HoldOne DEF Held

LEMMA LineStep == Control /\ [Next]_vars => Moves \/ Joins \/ Misses \/ Loses
<1> SUFFICES ASSUME Control, [Next]_vars PROVE Moves \/ Joins \/ Misses \/ Loses
  OBVIOUS
<1>0. TypeOK /\ HandsMatch
  BY DEF Control
<1>1. /\ published \in Seq(Nat) /\ telemetry_q \in Seq(Nat) /\ sample_q \in Seq(Nat)
      /\ s_seq \in Nat /\ Line \in Seq(Nat)
      /\ \A t \in Holders : hand[t] \in Nat /\ Held(t) \in Seq(Nat)
  BY <1>0, PartsAreSeqs
<1>2. \A t \in Holders : Held(t) = IF hand[t] = 0 THEN <<>> ELSE <<hand[t]>>
  BY DEF Held
<1>3. /\ sample_q # <<>> => Head(sample_q) \in Nat \ {0}
      /\ telemetry_q # <<>> => Head(telemetry_q) \in Nat \ {0}
  BY <1>0, HeadOfQueue, NumbersAreNat
<1>4. CASE UNCHANGED sampling
  <2>1. Line' = Line
    BY <1>4 DEF Line, Held, sampling
  <2> QED BY <1>4, <2>1 DEF Moves, sampling
<1>5. CASE Build
  <2>1. Held("sensor") = <<>> /\ UNCHANGED <<sample_q, telemetry_q, published>>
    BY <1>0, <1>2, <1>5, TaskNames DEF Build, HandsMatch
  <2>2. CASE hand' = hand /\ lost' = lost \cup {s_seq + 1}
    <3>1. Line' = Line
      BY <2>1, <2>2 DEF Line, Held
    <3> QED BY <1>5, <2>2, <3>1 DEF Misses, Build
  <2>3. CASE Hold("sensor", s_seq + 1) /\ lost' = lost
    <3>1. /\ Held("sensor")' = <<s_seq + 1>>
          /\ Held("proc")' = Held("proc") /\ Held("pump")' = Held("pump")
      BY <1>0, <1>1, <2>3, HeldStep, TaskNames
    <3>2. Line' = (ToSample \o sample_q) \o <<s_seq + 1>>
      BY <2>1, <3>1 DEF Line, ToSample, ToTelemetry
    <3>3. Line = ToSample \o sample_q
      BY <1>0, <2>1, LineParts, ConcatEmptySeq
    <3> QED BY <1>5, <2>3, <3>2, <3>3 DEF Joins, Build
  <2> QED BY <1>5, <2>2, <2>3 DEF Build
<1>6. CASE SendSample
  <2>1. /\ Held("sensor") = <<hand["sensor"]>> /\ hand["sensor"] \in Nat
        /\ sample_q' = Append(sample_q, hand["sensor"])
        /\ UNCHANGED <<telemetry_q, published, lost, s_seq>>
    BY <1>0, <1>1, <1>2, <1>6, TaskNames DEF SendSample, HandsMatch
  <2>2. /\ Held("sensor")' = <<>>
        /\ Held("proc")' = Held("proc") /\ Held("pump")' = Held("pump")
    BY <1>0, <1>6, HeldStep, TaskNames DEF SendSample
  <2>3. Line' = (ToSample \o Append(sample_q, hand["sensor"])) \o <<>>
    BY <2>1, <2>2 DEF Line, ToSample, ToTelemetry
  <2>4. (ToSample \o Append(sample_q, hand["sensor"])) \o <<>>
          = (ToSample \o sample_q) \o <<hand["sensor"]>>
    <3>1. ToSample \in Seq(Nat)
      BY <1>0, LineParts
    <3> QED BY <1>1, <2>1, <3>1, MoveIn
  <2>5. Line' = Line
    BY <1>0, <2>1, <2>3, <2>4, LineParts
  <2> QED BY <2>1, <2>5 DEF Moves
<1>7. CASE SendTelemetry
  <2>1. /\ Held("proc") = <<hand["proc"]>> /\ hand["proc"] \in Nat
        /\ telemetry_q' = Append(telemetry_q, hand["proc"])
        /\ UNCHANGED <<sample_q, published, lost, s_seq>>
    BY <1>0, <1>1, <1>2, <1>7, TaskNames DEF SendTelemetry, HandsMatch
  <2>2. /\ Held("proc")' = <<>>
        /\ Held("sensor")' = Held("sensor") /\ Held("pump")' = Held("pump")
    BY <1>0, <1>7, HeldStep, TaskNames DEF SendTelemetry
  <2>3. ToSample' = (ToTelemetry \o Append(telemetry_q, hand["proc"])) \o <<>>
    BY <2>1, <2>2 DEF ToSample, ToTelemetry
  <2>4. ToSample' = ToSample
    <3>1. ToTelemetry \in Seq(Nat)
      BY <1>0, LineParts
    <3>2. (ToTelemetry \o Append(telemetry_q, hand["proc"])) \o <<>>
            = (ToTelemetry \o telemetry_q) \o <<hand["proc"]>>
      BY <1>1, <2>1, <3>1, MoveIn
    <3> QED BY <2>1, <2>3, <3>2 DEF ToSample
  <2>5. Line' = Line
    BY <2>1, <2>2, <2>4 DEF Line, ToSample, ToTelemetry
  <2> QED BY <2>1, <2>5 DEF Moves
<1>8. CASE Publish
  <2>1. /\ Held("pump") = <<hand["pump"]>> /\ hand["pump"] \in Nat
        /\ published' = Append(published, hand["pump"])
        /\ UNCHANGED <<sample_q, telemetry_q, lost, s_seq>>
    BY <1>0, <1>1, <1>2, <1>8, TaskNames DEF Publish, HandsMatch
  <2>2. /\ Held("pump")' = <<>>
        /\ Held("sensor")' = Held("sensor") /\ Held("proc")' = Held("proc")
    BY <1>0, <1>8, HeldStep, TaskNames DEF Publish
  <2>3. ToTelemetry' = ToTelemetry
    <3>1. Append(published, hand["pump"]) = published \o <<hand["pump"]>>
      BY <1>1, <2>1, AppendIsConcat
    <3>2. Append(published, hand["pump"]) \o <<>> = Append(published, hand["pump"])
      BY <1>1, <2>1, AppendProperties, ConcatEmptySeq
    <3> QED BY <2>1, <2>2, <3>1, <3>2 DEF ToTelemetry
  <2>4. Line' = Line
    BY <2>1, <2>2, <2>3 DEF Line, ToTelemetry
  <2> QED BY <2>1, <2>4 DEF Moves
<1>9. CASE RecvSample
  <2>1. /\ Held("proc") = <<>> /\ sample_q # <<>> /\ sample_q' = Tail(sample_q)
        /\ Head(sample_q) \in Nat \ {0}
        /\ UNCHANGED <<telemetry_q, published, lost, s_seq>>
    BY <1>0, <1>2, <1>3, <1>9, TaskNames DEF RecvSample, HandsMatch
  <2>2. /\ Held("proc")' = <<Head(sample_q)>>
        /\ Held("sensor")' = Held("sensor") /\ Held("pump")' = Held("pump")
    BY <1>0, <1>9, <2>1, HeldStep, TaskNames DEF RecvSample
  <2>3. ToSample = (ToTelemetry \o telemetry_q) \o <<>>
    BY <2>1 DEF ToSample
  <2>4. ToSample' \o sample_q' = ((ToTelemetry \o telemetry_q) \o <<Head(sample_q)>>) \o Tail(sample_q)
    BY <2>1, <2>2 DEF ToSample, ToTelemetry
  <2>5. ToSample' \o sample_q' = ToSample \o sample_q
    BY <1>0, <1>1, <2>1, <2>3, <2>4, LineParts, MoveOut
  <2>6. Line' = Line
    BY <2>2, <2>5 DEF Line, ToSample, ToTelemetry
  <2> QED BY <2>1, <2>6 DEF Moves
<1>10. CASE RecvTelemetry
  <2>1. /\ Held("pump") = <<>> /\ telemetry_q # <<>> /\ telemetry_q' = Tail(telemetry_q)
        /\ Head(telemetry_q) \in Nat \ {0}
        /\ UNCHANGED <<sample_q, published, lost, s_seq>>
    BY <1>0, <1>2, <1>3, <1>10, TaskNames DEF RecvTelemetry, HandsMatch
  <2>2. /\ Held("pump")' = <<Head(telemetry_q)>>
        /\ Held("sensor")' = Held("sensor") /\ Held("proc")' = Held("proc")
    BY <1>0, <1>10, <2>1, HeldStep, TaskNames DEF RecvTelemetry
  <2>3. (published \o <<Head(telemetry_q)>>) \o Tail(telemetry_q) = (published \o <<>>) \o telemetry_q
    BY <1>1, <2>1, MoveOut
  <2>4. ToTelemetry' \o telemetry_q' = ToTelemetry \o telemetry_q
    BY <2>1, <2>2, <2>3 DEF ToTelemetry
  <2>5. Line' = Line
    BY <2>1, <2>2, <2>4 DEF Line, ToTelemetry
  <2> QED BY <2>1, <2>5 DEF Moves
<1>11. CASE DropSample
  <2>1. /\ Held("sensor") = <<hand["sensor"]>> /\ hand["sensor"] \in Nat
        /\ lost' = lost \cup {hand["sensor"]}
        /\ UNCHANGED <<sample_q, telemetry_q, published, s_seq>>
    BY <1>0, <1>1, <1>2, <1>11, TaskNames DEF DropSample, Drop, HandsMatch
  <2>2. /\ Held("sensor")' = <<>>
        /\ Held("proc")' = Held("proc") /\ Held("pump")' = Held("pump")
    BY <1>0, <1>11, HeldStep, TaskNames DEF DropSample, Drop
  <2>3. Line' = (ToSample \o sample_q) \o <<>>
    BY <2>1, <2>2 DEF Line, ToSample, ToTelemetry
  <2>4. Line = (ToSample \o sample_q) \o <<hand["sensor"]>> /\ ToSample \o sample_q \in Seq(Nat)
    BY <1>0, <2>1, LineParts
  <2>5. Without(Line, Line', hand["sensor"])
    BY <2>1, <2>3, <2>4, WithoutLast
  <2> QED BY <2>1, <2>5 DEF Loses
<1>12. CASE DropTelemetry
  <2>1. /\ Held("proc") = <<hand["proc"]>> /\ hand["proc"] \in Nat
        /\ lost' = lost \cup {hand["proc"]}
        /\ UNCHANGED <<sample_q, telemetry_q, published, s_seq>>
    BY <1>0, <1>1, <1>2, <1>12, TaskNames DEF DropTelemetry, Drop, HandsMatch
  <2>2. /\ Held("proc")' = <<>>
        /\ Held("sensor")' = Held("sensor") /\ Held("pump")' = Held("pump")
    BY <1>0, <1>12, HeldStep, TaskNames DEF DropTelemetry, Drop
  <2> DEFINE a == ToTelemetry \o telemetry_q
             n == hand["proc"]
  <2>3. a \in Seq(Nat) /\ Held("sensor") \in Seq(Nat) /\ n \in Nat
    BY <1>0, <1>1, <2>1, LineParts, TaskNames
  <2>4. Line = ((a \o <<n>>) \o sample_q) \o Held("sensor")
    BY <2>1 DEF Line, ToTelemetry
  <2>5. Line' = ((a \o <<>>) \o sample_q) \o Held("sensor")
    BY <2>1, <2>2 DEF Line, ToTelemetry
  <2> HIDE DEF a, n
  <2>6. Without(a \o <<n>>, a \o <<>>, n)
    BY <2>3, WithoutLast
  <2>7. Without((a \o <<n>>) \o sample_q, (a \o <<>>) \o sample_q, n)
    BY <1>1, <2>3, <2>6, WithoutMore
  <2>8. Without(Line, Line', n)
    BY <2>3, <2>4, <2>5, <2>7, WithoutMore
  <2> QED BY <2>1, <2>8 DEF Loses, n
<1>13. CASE FailPublish
  <2>1. /\ Held("pump") = <<hand["pump"]>> /\ hand["pump"] \in Nat
        /\ lost' = lost \cup {hand["pump"]}
        /\ UNCHANGED <<sample_q, telemetry_q, published, s_seq>>
    BY <1>0, <1>1, <1>2, <1>13, TaskNames DEF FailPublish, Drop, HandsMatch
  <2>2. /\ Held("pump")' = <<>>
        /\ Held("sensor")' = Held("sensor") /\ Held("proc")' = Held("proc")
    BY <1>0, <1>13, HeldStep, TaskNames DEF FailPublish, Drop
  <2> DEFINE n == hand["pump"]
             s1 == published \o <<n>>
             t1 == published \o <<>>
             s2 == s1 \o telemetry_q
             t2 == t1 \o telemetry_q
             s3 == s2 \o Held("proc")
             t3 == t2 \o Held("proc")
             s4 == s3 \o sample_q
             t4 == t3 \o sample_q
  <2>3. Held("sensor") \in Seq(Nat) /\ Held("proc") \in Seq(Nat) /\ n \in Nat
    BY <1>1, <2>1, TaskNames
  <2>4. Line = s4 \o Held("sensor") /\ Line' = t4 \o Held("sensor")
    BY <2>1, <2>2 DEF Line
  <2> HIDE DEF n
  <2>5. Without(s1, t1, n)
    BY <1>1, <2>3, WithoutLast
  <2> HIDE DEF s1, t1
  <2>6. Without(s2, t2, n)
    BY <1>1, <2>3, <2>5, WithoutMore
  <2> HIDE DEF s2, t2
  <2>7. Without(s3, t3, n)
    BY <2>3, <2>6, WithoutMore
  <2> HIDE DEF s3, t3
  <2>8. Without(s4, t4, n)
    BY <1>1, <2>3, <2>7, WithoutMore
  <2> HIDE DEF s4, t4
  <2>9. Without(Line, Line', n)
    BY <2>3, <2>4, <2>8, WithoutMore
  <2> QED BY <2>1, <2>3, <2>9 DEF Loses, n
<1>14. ASSUME NEW t \in Loops, Leave(t) \/ Block(t) PROVE UNCHANGED sampling
  BY <1>14 DEF Leave, Block
<1>15. Boot => UNCHANGED sampling
  BY DEF Boot, CreateObjects, Kick, CreateTask, StartProfile, SetSensorHook,
       SetCmdHook, StartBle, JoinWifi, StartMqtt
<1>16. TakeSem \/ Pulse \/ (\E c \in Commands : Command(c)) \/ RecvCommand \/ Handle
          \/ NothingFor("proc", sample_q) \/ NothingFor("cmd", command_q)
          \/ UNCHANGED vars => UNCHANGED sampling
  BY DEF TakeSem, Pulse, Command, RecvCommand, Handle, NothingFor, vars
<1>17. ASSUME NEW n \in outbox, Resend(n) PROVE Moves
  BY <1>17 DEF Resend, Moves, Line, Held
<1> QED
  BY <1>4, <1>5, <1>6, <1>7, <1>8, <1>9, <1>10, <1>11, <1>12, <1>13, <1>14, <1>15, <1>16, <1>17
     DEF Next, SensorStep, ProcStep, CmdStep, PumpStep, Loops

-----------------------------------------------------------------------------
(* Order and account of the line. *)

LEMMA LineInit == Init => PipelineOrder /\ Accounted
<1> SUFFICES ASSUME Init PROVE PipelineOrder /\ Accounted
  OBVIOUS
<1>1. Line = <<>>
  <2>1. /\ published = <<>> /\ telemetry_q = <<>> /\ sample_q = <<>>
        /\ \A t \in Holders : Held(t) = <<>>
    BY DEF Init, Held
  <2>2. <<>> \o <<>> = <<>>
    BY EmptySeq, ConcatEmptySeq
  <2> QED BY <2>1, <2>2, TaskNames DEF Line
<1>2. Len(<<>>) = 0 /\ DOMAIN <<>> = {}
  BY EmptySeq
<1>3. PipelineOrder
  BY <1>1, <1>2 DEF PipelineOrder, Increasing
<1>4. Accounted
  BY <1>1, <1>2 DEF Accounted, Init
<1> QED
  BY <1>3, <1>4

LEMMA LineKeepsOrder ==
  ASSUME Control, Control', PipelineOrder, Accounted, [Next]_vars
  PROVE  PipelineOrder' /\ Accounted'
<1>1. /\ Line \in Seq(Nat) /\ s_seq \in Nat
      /\ Increasing(Line)
      /\ Elems(Line) \cup lost = 1 .. s_seq /\ Elems(Line) \cap lost = {}
  BY PartsAreSeqs DEF Control, PipelineOrder, Accounted, Elems
<1>2. SUFFICES /\ Increasing(Line')
               /\ Elems(Line') \cup lost' = 1 .. s_seq'
               /\ Elems(Line') \cap lost' = {}
  BY DEF PipelineOrder, Accounted, Elems, Increasing
<1>3. 1 .. s_seq + 1 = (1 .. s_seq) \cup {s_seq + 1} /\ s_seq + 1 \notin 1 .. s_seq
  BY <1>1
<1>4. CASE Moves
  BY <1>1, <1>4 DEF Moves
<1>5. CASE Joins
  <2>1. \A m \in Elems(Line) : m < s_seq + 1
    BY <1>1
  <2>2. /\ Increasing(Line \o <<s_seq + 1>>)
        /\ Elems(Line \o <<s_seq + 1>>) = Elems(Line) \cup {s_seq + 1}
    BY <1>1, <2>1, AddLast
  <2> QED BY <1>1, <1>3, <1>5, <2>2 DEF Joins
<1>6. CASE Misses
  BY <1>1, <1>3, <1>6 DEF Misses
<1>7. CASE Loses
  <2>1. PICK n \in Nat :
          Without(Line, Line', n) /\ lost' = lost \cup {n} /\ s_seq' = s_seq
    BY <1>7 DEF Loses
  <2>2. /\ Increasing(Line') /\ n \notin Elems(Line')
        /\ Elems(Line) = Elems(Line') \cup {n}
    BY <1>1, <2>1, TakeOut DEF Without
  <2> QED BY <1>1, <2>1, <2>2
<1> QED
  BY <1>4, <1>5, <1>6, <1>7, LineStep

-----------------------------------------------------------------------------
(* The theorems. *)

\* The pipeline's invariant is inductive.
THEOREM PipelineInvariant == Spec => []PipelineInv
<1>1. Init => PipelineInv
  BY ControlInit, LineInit DEF PipelineInv, Control
<1>2. PipelineInv /\ [Next]_vars => PipelineInv'
  BY ControlStep, LineKeepsOrder DEF PipelineInv, Control
<1> QED
  BY <1>1, <1>2, PTL DEF Spec

\* In every execution of the boot, the tasks, the interrupt and the pump, and
\* for queues of any length, no sample overtakes another or is there twice.
THEOREM SamplesInOrder == Spec => []PipelineOrder
  BY PipelineInvariant, PTL DEF PipelineInv

\* Every number given out belongs to exactly one sample, which is on its way,
\* published, or dropped.
THEOREM SamplesAccounted == Spec => []Accounted
  BY PipelineInvariant, PTL DEF PipelineInv

\* No command is taken from its queue before its handler is installed.
THEOREM CommandsHeard == Spec => []NoCommandUnheard
  BY PipelineInvariant, PTL DEF PipelineInv

\* At most one more sample is taken after a shutdown was requested.
THEOREM SamplingStopsSoon == Spec => []SamplingStops
<1>1. PipelineInv => SamplingStops
  BY DEF PipelineInv, LastRound, RoundsLeft, SamplingStops, TypeOK
<1> QED
  BY <1>1, PipelineInvariant, PTL

\* What the pump is about to publish was taken, and later than all it has
\* published.
LEMMA PumpIsNext ==
  ASSUME PipelineInv, at["pump"] = "publish"
  PROVE  /\ hand["pump"] \in 1 .. s_seq
         /\ \A i \in DOMAIN published : published[i] < hand["pump"]
<1> DEFINE n == hand["pump"]
           rest == (((published \o <<n>>) \o telemetry_q) \o Held("proc")) \o sample_q
<1>1. TypeOK /\ HandsMatch /\ Increasing(Line) /\ Elems(Line) \cup lost = 1 .. s_seq
  BY DEF PipelineInv, PipelineOrder, Accounted, Elems
<1>2. /\ published \in Seq(Nat) /\ telemetry_q \in Seq(Nat) /\ sample_q \in Seq(Nat)
      /\ Held("proc") \in Seq(Nat) /\ Held("sensor") \in Seq(Nat) /\ Line \in Seq(Nat)
      /\ n \in Nat /\ n # 0
  BY <1>1, PartsAreSeqs, TaskNames DEF HandsMatch
<1>3. Line = rest \o Held("sensor")
  BY <1>2 DEF Line, Held
\* Each further part only adds to the end.
<1>4. ASSUME NEW s \in Seq(Nat), NEW t \in Seq(Nat), Len(published) + 1 <= Len(s),
             \A i \in 1 .. Len(published) + 1 : s[i] = (published \o <<n>>)[i]
      PROVE  /\ s \o t \in Seq(Nat) /\ Len(published) + 1 <= Len(s \o t)
             /\ \A i \in 1 .. Len(published) + 1 : (s \o t)[i] = (published \o <<n>>)[i]
  BY <1>2, <1>4, ConcatProperties, LenProperties, SMTT(30)
<1>5. /\ published \o <<n>> \in Seq(Nat) /\ Len(published \o <<n>>) = Len(published) + 1
      /\ Len(published) \in Nat /\ DOMAIN published = 1 .. Len(published)
      /\ (published \o <<n>>)[Len(published) + 1] = n
      /\ \A i \in 1 .. Len(published) : (published \o <<n>>)[i] = published[i]
  BY <1>2, ConcatProperties, LenProperties
<1> DEFINE Starts(s) == /\ s \in Seq(Nat) /\ Len(published) + 1 <= Len(s)
                        /\ \A i \in 1 .. Len(published) + 1 : s[i] = (published \o <<n>>)[i]
<1>6. \A s, t : Starts(s) /\ t \in Seq(Nat) => Starts(s \o t)
  BY <1>4
<1>7. Starts(published \o <<n>>)
  BY <1>5
<1> HIDE DEF Starts, n
<1>8. Starts(Line)
  BY <1>2, <1>3, <1>6, <1>7
<1>9. /\ Len(published) + 1 \in 1 .. Len(Line) /\ Line[Len(published) + 1] = n
      /\ \A i \in 1 .. Len(published) : i \in 1 .. Len(Line) /\ Line[i] = published[i]
      /\ DOMAIN Line = 1 .. Len(Line)
  <2>1. Len(Line) \in Nat /\ DOMAIN Line = 1 .. Len(Line)
    BY <1>2, LenProperties
  <2>2. /\ Len(published) + 1 <= Len(Line)
        /\ \A i \in 1 .. Len(published) + 1 : Line[i] = (published \o <<n>>)[i]
    BY <1>8 DEF Starts
  <2>3. Len(published) + 1 \in 1 .. Len(published) + 1
        /\ \A i \in 1 .. Len(published) : i \in 1 .. Len(published) + 1
    BY <1>5
  <2>4. /\ Line[Len(published) + 1] = n
        /\ \A i \in 1 .. Len(published) : Line[i] = published[i]
    BY <1>5, <2>2, <2>3
  <2>5. /\ Len(published) + 1 \in 1 .. Len(Line)
        /\ \A i \in 1 .. Len(published) : i \in 1 .. Len(Line)
    BY <1>5, <2>1, <2>2
  <2> QED BY <2>1, <2>4, <2>5
<1>10. n \in 1 .. s_seq
  BY <1>1, <1>9 DEF Elems
<1>11. \A i \in 1 .. Len(published) : published[i] < n
  BY <1>1, <1>5, <1>9 DEF Increasing
<1> QED
  BY <1>5, <1>10, <1>11 DEF n

\* The pipeline implements the lossy stream: the MQTT client is handed the
\* samples once, in the order in which they were taken, whatever was lost, and
\* the broker gets them at least once as long as the client keeps them, repeats
\* and late ones included (iot_mqtt_publish_telemetry, QoS 1).
THEOREM PipelineIsLossyStream == Spec => ImplementsStream
<1> DEFINE seen == <<s_seq, published, outbox, arrived>>
<1>1. Init => Stream!Init
  BY DEF Init, Stream!Init
<1>2. PipelineInv /\ [Next]_vars => [Stream!Next]_(Stream!vars)
  <2> SUFFICES ASSUME PipelineInv, [Next]_vars, ~UNCHANGED seen
               PROVE  Stream!Next
    BY DEF Stream!vars
  <2>1. CASE Publish
    <3>1. /\ at["pump"] = "publish" /\ published' = Append(published, hand["pump"])
          /\ s_seq' = s_seq
          /\ \/ arrived' = hand["pump"] /\ UNCHANGED outbox
             \/ arrived' \in {arrived, hand["pump"]} /\ outbox' = outbox \cup {hand["pump"]}
      BY <2>1 DEF Publish
    <3> QED BY <3>1, PumpIsNext DEF Stream!Next, Stream!Send
  <2>2. CASE Build
    <3>1. s_seq' = s_seq + 1 /\ UNCHANGED <<published, outbox, arrived>>
      BY <2>2 DEF Build, client
    <3> QED BY <3>1 DEF Stream!Next, Stream!Take
  <2>3. ASSUME NEW n \in outbox, Resend(n) PROVE Stream!Next
    BY <2>3 DEF Resend, Stream!Next, Stream!Repeat
  <2>4. Boot => UNCHANGED seen
    BY DEF Boot, CreateObjects, Kick, CreateTask, StartProfile, SetSensorHook,
         SetCmdHook, StartBle, JoinWifi, StartMqtt, sampling, client
  <2>5. ASSUME NEW t \in Loops, Leave(t) \/ Block(t) PROVE UNCHANGED seen
    BY <2>5 DEF Leave, Block, sampling, client
  <2>6. TakeSem \/ Pulse \/ (\E c \in Commands : Command(c)) \/ RecvCommand \/ Handle
          \/ NothingFor("proc", sample_q) \/ NothingFor("cmd", command_q)
          \/ UNCHANGED vars => UNCHANGED seen
    BY DEF TakeSem, Pulse, Command, RecvCommand, Handle, NothingFor, vars, sampling, client
  <2>7. SendSample \/ DropSample \/ RecvSample \/ SendTelemetry \/ DropTelemetry
          \/ RecvTelemetry \/ FailPublish => UNCHANGED seen
    BY DEF SendSample, DropSample, RecvSample, SendTelemetry, DropTelemetry, RecvTelemetry,
         FailPublish, Drop, client
  <2> QED
    BY <2>1, <2>2, <2>3, <2>4, <2>5, <2>6, <2>7
       DEF Next, SensorStep, ProcStep, CmdStep, PumpStep, Loops
<1> QED
  BY <1>1, <1>2, PipelineInvariant, PTL DEF Spec, ImplementsStream, Stream!Spec
=============================================================================
